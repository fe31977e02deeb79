----------------------------- MODULE TetrisField -----------------------------
(***************************************************************************)
(* The playfield of the Tetris program: the pieces, the collision test and *)
(* the removal of complete lines (detection.c, tetromap.h, checktable.h,   *)
(* playfield.h).  A row of a table is the set of its occupied columns; row *)
(* 0 is the bottom one.                                                    *)
(*                                                                         *)
(* checktable is declared with one row more than the field, which holds a  *)
(* canary; nothing in the program checks it, and the rows above the field  *)
(* that a piece reaches into are read and written like any other.  Behind  *)
(* the canary lies memory the program does not own: reading it gives any   *)
(* row (the parameter "behind"), writing it changes nothing modelled here. *)
(***************************************************************************)
EXTENDS Integers, FiniteSets

CONSTANTS
    Width,      \* columns; a byte of checktable holds 8 of them
    Height,     \* CHECKTABLESIZE
    CanaryRow   \* CHECKTABLECANARY, as a set of columns

ASSUME WidthAssumption  == Width \in Nat /\ Width >= 3
ASSUME HeightAssumption == Height \in Nat /\ Height >= 3

Cols == 0 .. Width - 1
Rows == 0 .. Height - 1

ASSUME CanaryAssumption == CanaryRow \subseteq Cols

(* The four rotations main() can reach, those of the L: a width, a height  *)
(* and the positions in the map that are not transparent (0xFF).           *)
tetroL == <<[w |-> 3, h |-> 2, opaque |-> {0, 1, 2, 5}],
            [w |-> 2, h |-> 3, opaque |-> {0, 1, 2, 4}],
            [w |-> 3, h |-> 2, opaque |-> {0, 3, 4, 5}],
            [w |-> 2, h |-> 3, opaque |-> {1, 3, 4, 5}]>>

CheckTable == [0 .. Height -> SUBSET Cols]
PlayField  == [Rows -> SUBSET Cols]

EmptyField == [y \in Rows |-> {}]

(* The same map is read in three ways.  The collision test reads it row by *)
(* row, and skips transparent positions.                                   *)
CollisionCells(t, x, y) == {<<x + (k % t.w), y + (k \div t.w)>> : k \in t.opaque}

(* main() marks it column by column.                                       *)
MarkedCells(t, x, y) == {<<x + (k \div t.h), y + (k % t.h)>> : k \in t.opaque}

(* displayCopyTilemapIntoTilemap() does not step over the destination of a *)
(* transparent position: what follows in the row moves to the left.  The   *)
(* result is positions in the linear playfield, which wrap to the next row.*)
DrawnAt(t, x, y) ==
    {Width * (y + (k \div t.w)) + x
        + Cardinality({p \in t.opaque : p \div t.w = k \div t.w /\ p < k})
            : k \in t.opaque}

-----------------------------------------------------------------------------
RowAt(table, y, behind) == IF y <= Height THEN table[y] ELSE behind

detectcollision(x, y, table, t, behind) ==
    /\ y # 0
    /\ \/ \E j \in 0 .. t.h - 1 : RowAt(table, y + j, behind) = Cols
       \/ \E c \in CollisionCells(t, x, y) : c[1] \in RowAt(table, c[2], behind)

Mark(table, t, x, y) ==
    LET marked == MarkedCells(t, x, y) IN
    [r \in 0 .. Height |-> table[r] \cup {c \in Cols : <<c, r>> \in marked}]

displayCopyTilemapIntoTilemap(t, play, x, y) ==
    LET drawn == DrawnAt(t, x, y) IN
    [r \in Rows |-> play[r] \cup {c \in Cols : Width * r + c \in drawn}]

-----------------------------------------------------------------------------
(* detectcompletelines(): full rows of checktable are emptied in both      *)
(* tables; if there were any, every non-empty row sinks through the empty  *)
(* ones below it, in Height sweeps from the top down.                      *)
FullRows(table) == {y \in Rows : table[y] = Cols}

Emptied(tables) ==
    [check |-> [y \in 0 .. Height |->
                  IF y \in FullRows(tables.check) THEN {} ELSE tables.check[y]],
     play  |-> [y \in Rows |->
                  IF y \in FullRows(tables.check) THEN {} ELSE tables.play[y]]]

SinkRow(tables, y) ==
    IF tables.check[y] # {} /\ tables.check[y - 1] = {}
    THEN [check |-> [tables.check EXCEPT ![y - 1] = tables.check[y], ![y] = {}],
          play  |-> [tables.play  EXCEPT ![y - 1] = tables.play[y],  ![y] = {}]]
    ELSE tables

Sweep(tables) ==
    LET sunk[i \in 0 .. Height - 1] ==
            IF i = 0 THEN tables ELSE SinkRow(sunk[i - 1], Height - i)
    IN  sunk[Height - 1]

SinkX(tables) == Sweep(tables)
Sink(tables)  ==
    LET swept[i \in 0 .. Height] ==
            IF i = 0 THEN tables ELSE Sweep(swept[i - 1])
    IN  swept[Height]

detectcompletelines(tables) ==
    IF FullRows(tables.check) = {} THEN tables ELSE Sink(Emptied(tables))

-----------------------------------------------------------------------------
(* What the removal of lines is for, said without loops: every row that is *)
(* neither full nor empty comes down to a row of its own, in the order they *)
(* were in, with no row left free below, and its picture with it.           *)
Kept(table) == {y \in Rows : table[y] \notin {{}, Cols}}

ComesDown(tables, result, rows, to) ==
    /\ \A y, z \in rows : y < z => to[y] < to[z]
    /\ \A y \in rows : /\ result.check[to[y]] = tables.check[y]
                       /\ result.play[to[y]] = tables.play[y]
    /\ \A z \in Rows : result.check[z] # {} => \E y \in rows : to[y] = z

IsCompacted(tables, result) ==
    LET rows == Kept(tables.check) IN
    /\ \E to \in [rows -> Rows] :
         /\ ComesDown(tables, result, rows, to)
         /\ \A y \in rows : \A z \in 0 .. to[y] : \E x \in rows : to[x] = z
    /\ result.check[Height] = tables.check[Height]
=============================================================================
