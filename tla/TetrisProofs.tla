---------------------------- MODULE TetrisProofs ----------------------------
(***************************************************************************)
(* Proofs about Tetris for every size of the field, every canary and every *)
(* setting of the counters, and about its frames against the interrupt.    *)
(***************************************************************************)
EXTENDS Tetris, TetrisConsole, SequenceTheorems,
        WellFoundedInduction, TLAPS

(* What the properties below need of a state.  The column bound needs the  *)
(* rotation, the cleared field needs that no game runs with an overflow    *)
(* left over: the first fall of such a game would end it with the tables   *)
(* and the piece as they are.                                              *)
Control == /\ state \in Intro \cup Game
           /\ hasoverflown \in BOOLEAN
           /\ tetromapcurrent \in 1 .. 4
           /\ blockposx \in Nat

Inv == Control /\ PieceOnField /\ NoOverflowInGame /\ FieldClearedForIntro

LEMMA Rotations ==
    tetromapcurrent \in 1 .. 4 =>
        piece.w \in {2, 3} /\ Rotated(tetromapcurrent) \in 1 .. 4
BY DEF piece, tetroL, Rotated

LEMMA InitInv == Init => Inv
<1> SUFFICES ASSUME Init PROVE Inv  OBVIOUS
<1>1. state = "INTRO_0" /\ ~hasoverflown /\ hasoverflown \in BOOLEAN
  BY DEF Init
<1>2. Control
  BY <1>1 DEF Init, Control, Intro
<1>3. PieceOnField
  BY WidthAssumption DEF Init, PieceOnField
<1>4. NoOverflowInGame
  BY <1>1 DEF NoOverflowInGame
<1>5. \A y \in Rows : checktable[y] = {}
  BY HeightAssumption DEF Init, Rows
<1>6. FieldClearedForIntro
  BY <1>5 DEF Init, FieldClearedForIntro
<1> QED  BY <1>2, <1>3, <1>4, <1>6 DEF Inv

(* The end of a game leaves the field as the intro wants it.               *)
LEMMA GameOverClears ==
    ASSUME NEW table, GameOver(table), tetromapcurrent' = 1
    PROVE  FieldClearedForIntro' /\ state' \in Intro
BY HeightAssumption
   DEF GameOver, Cleared, FieldClearedForIntro, Rows, Intro, EmptyField

LEMMA IntroStep == Inv /\ IntroFrame => Inv'
<1> SUFFICES ASSUME Inv, IntroFrame PROVE Inv'  OBVIOUS
<1>1. UNCHANGED board
  BY DEF IntroFrame, IntroPicture, IntroWait
<1>2. /\ state \in Intro
      /\ state' \in Intro \cup Game
      /\ hasoverflown' \in BOOLEAN
      /\ state' \in Game => ~hasoverflown'
  BY DEF IntroFrame, IntroPicture, IntroWait, StartGame, Inv, Control, Intro, Game
<1> QED
  BY <1>1, <1>2 DEF board, Inv, Control, PieceOnField, NoOverflowInGame,
                    FieldClearedForIntro

LEMMA FallStep == Inv /\ Fall => Inv'
<1> SUFFICES ASSUME Inv, Fall PROVE Inv'  OBVIOUS
<1>1. ~hasoverflown
  BY DEF Inv, NoOverflowInGame, Fall, Game
<1>2. state' = "DROPPING_1"
  BY <1>1 DEF Fall, GoOn
<1>3. UNCHANGED <<hasoverflown, tetromapcurrent, blockposx>>
  BY DEF Fall, DropFrame
<1> QED
  BY <1>1, <1>2, <1>3 DEF Inv, Control, PieceOnField, NoOverflowInGame,
                          FieldClearedForIntro, Intro, Game

LEMMA RestStep == Inv /\ Rest => Inv'
<1> SUFFICES ASSUME Inv, Rest PROVE Inv'  OBVIOUS
<1>1. tetromapcurrent' = 1 /\ blockposx' = blockposx /\ hasoverflown' \in BOOLEAN
  BY DEF Rest, DropFrame, Inv, Control
<1>2. CASE hasoverflown'
  <2>1. PICK table : GameOver(table)
    BY <1>2 DEF Rest
  <2>2. FieldClearedForIntro' /\ state' \in Intro
    BY <1>1, <2>1, GameOverClears
  <2> QED
    BY <1>1, <2>2 DEF Inv, Control, PieceOnField, NoOverflowInGame, Intro, Game
<1>3. CASE ~hasoverflown'
  <2>1. state' = "DROPPING_1"
    BY <1>3 DEF Rest, GoOn
  <2> QED
    BY <1>1, <1>3, <2>1 DEF Inv, Control, PieceOnField, NoOverflowInGame,
                            FieldClearedForIntro, Intro, Game
<1> QED  BY <1>2, <1>3

LEMMA MoveStep == Inv /\ MoveFrame => Inv'
<1> SUFFICES ASSUME Inv, MoveFrame PROVE Inv'  OBVIOUS
<1>1. state = "DROPPING_1" /\ state' \in Game /\ UNCHANGED hasoverflown
  BY DEF MoveFrame, Game
<1>2. /\ blockposx' \in Nat /\ blockposx' + 2 <= Width
      /\ tetromapcurrent' \in 1 .. 4
  <2>1. CASE Moves
    <3>1. PICK x \in RightOf(blockposx), fire \in BOOLEAN :
            /\ blockposx' \in LeftOf(x)
            /\ tetromapcurrent' = IF fire THEN Rotated(tetromapcurrent)
                                  ELSE tetromapcurrent
      BY <2>1 DEF Moves
    <3>2. x \in Nat /\ x + 2 <= Width
      BY <3>1, Rotations, WidthAssumption DEF RightOf, Inv, Control, PieceOnField
    <3>3. blockposx' = x \/ (blockposx' = x - 1 /\ x > 0)
      BY <3>1 DEF LeftOf
    <3>4. blockposx' \in Nat /\ blockposx' + 2 <= Width
      BY <3>2, <3>3, WidthAssumption
    <3>5. tetromapcurrent' \in 1 .. 4
      BY <3>1, Rotations DEF Inv, Control
    <3> QED  BY <3>4, <3>5
  <2>2. CASE NoMoves
    BY <2>2 DEF NoMoves, Inv, Control, PieceOnField
  <2> QED  BY <2>1, <2>2 DEF MoveFrame
<1> QED
  BY <1>1, <1>2 DEF Inv, Control, PieceOnField, NoOverflowInGame,
                    FieldClearedForIntro, Intro, Game

LEMMA NextInv == Inv /\ [Next]_vars => Inv'
<1> SUFFICES ASSUME Inv, [Next]_vars PROVE Inv'  OBVIOUS
<1>1. CASE Next
  BY <1>1, IntroStep, FallStep, RestStep, MoveStep DEF Next
<1>2. CASE UNCHANGED vars
  BY <1>2 DEF vars, Inv, Control, PieceOnField, NoOverflowInGame,
              FieldClearedForIntro, piece
<1> QED  BY <1>1, <1>2

LEMMA InvHolds == Spec => []Inv
BY InitInv, NextInv, PTL DEF Spec

-----------------------------------------------------------------------------
(* main.c:243-271: no sequence of moves and unchecked rotations brings the *)
(* piece further right than two columns from the edge.                     *)
THEOREM PieceStaysOnField == Spec => []PieceOnField
<1>1. Inv => PieceOnField  BY DEF Inv
<1> QED  BY <1>1, InvHolds, PTL

(* main.c:113, 135, 146, 164: no game starts with an overflow left over.   *)
THEOREM GamesStartClean == Spec => []NoOverflowInGame
<1>1. Inv => NoOverflowInGame  BY DEF Inv
<1> QED  BY <1>1, InvHolds, PTL

(* main.c:219-229: in the intro the field is empty and a new piece waits.  *)
THEOREM IntroFieldIsEmpty == Spec => []FieldClearedForIntro
<1>1. Inv => FieldClearedForIntro  BY DEF Inv
<1> QED  BY <1>1, InvHolds, PTL

-----------------------------------------------------------------------------
LEMMA FrameStep == Inv /\ [Next]_vars => [FramesNext]_<<state, calls>>
<1> SUFFICES ASSUME Inv, [Next]_vars PROVE [FramesNext]_<<state, calls>>  OBVIOUS
<1>1. CASE IntroFrame
  BY <1>1 DEF IntroFrame, IntroPicture, IntroWait, StartGame, FramesNext, FrameOf,
              Intro
<1>2. CASE Fall
  <2>1. ~hasoverflown  BY <1>2 DEF Inv, NoOverflowInGame, Fall, Game
  <2> QED  BY <1>2, <2>1 DEF Fall, GoOn, FramesNext, FrameOf
<1>3. CASE Rest
  BY <1>3 DEF Rest, GameOver, GoOn, FramesNext, FrameOf
<1>4. CASE MoveFrame
  <2>1. calls' \in {<< >>, Show, Show \o Show}
    BY <1>4 DEF MoveFrame, Moves, NoMoves
  <2>2. state = "DROPPING_1" /\ state' \in Game
    BY <1>4 DEF MoveFrame, Game
  <2> QED  BY <2>1, <2>2 DEF FramesNext, FrameOf
<1>5. CASE UNCHANGED vars
  BY <1>5 DEF vars
<1> QED  BY <1>1, <1>2, <1>3, <1>4, <1>5 DEF Next

(* The program makes no other frames than those TetrisConsole runs against *)
(* the refresh interrupt.                                                  *)
THEOREM ImplementsFrames == Spec => FramesAsPromised
<1>1. Init => FramesInit  BY DEF Init, FramesInit
<1> QED  BY <1>1, FrameStep, InvHolds, PTL DEF Spec, FramesAsPromised, FramesSpec

-----------------------------------------------------------------------------
(* Induction over the numbers, for a set.                                   *)
LEMMA SetInduction ==
    ASSUME NEW S, 0 \in S, \A n \in Nat : n \in S => n + 1 \in S
    PROVE  Nat \subseteq S
<1>. DEFINE Less == {p \in Nat \X Nat : p[1] < p[2]}
            Others == Nat \ S
<1>1. IsWellFoundedOn(Less, Nat)
  BY NatLessThanWellFounded DEF OpToRel
<1>. SUFFICES ASSUME Others # {} PROVE FALSE
  OBVIOUS
<1>2. PICK x \in Others : \A y \in Others : <<y, x>> \notin Less
  <2>. HIDE DEF Less
  <2>. QED  BY <1>1, WFMin
<1>3. x # 0
  BY <1>2
<1>4. x - 1 \in Nat /\ x - 1 < x /\ x = (x - 1) + 1
  BY <1>2, <1>3
<1>5. x - 1 \notin Others
  BY <1>2, <1>4
<1>. QED  BY <1>2, <1>4, <1>5

(* Both tables, and the rows of them that hold something.                   *)
Tables == [check : CheckTable, play : PlayField]
Occupied(ts) == {y \in Rows : ts.check[y] # {}}

(* One step of the loop, row by row.                                        *)
LEMMA SinkRowIs ==
    ASSUME NEW ts \in Tables, NEW y \in 1 .. Height - 1, NEW r, r = SinkRow(ts, y)
    PROVE  /\ r \in Tables
           /\ ~(ts.check[y] # {} /\ ts.check[y - 1] = {}) => r = ts
           /\ ts.check[y] # {} /\ ts.check[y - 1] = {} =>
                /\ r.check[y] = {}
                /\ r.check[y - 1] = ts.check[y] /\ r.play[y - 1] = ts.play[y]
                /\ \A z \in 0 .. Height : z # y /\ z # y - 1 => r.check[z] = ts.check[z]
                /\ \A z \in Rows : z # y /\ z # y - 1 => r.play[z] = ts.play[z]
<1>1. CASE ~(ts.check[y] # {} /\ ts.check[y - 1] = {})
  BY <1>1 DEF SinkRow
<1>2. CASE ts.check[y] # {} /\ ts.check[y - 1] = {}
  <2>1. /\ y \in Rows /\ y - 1 \in Rows /\ y \in 0 .. Height /\ y - 1 \in 0 .. Height /\ y # y - 1
        /\ Rows \subseteq 0 .. Height
    BY HeightAssumption DEF Rows
  <2>2. ts.check \in [0 .. Height -> SUBSET Cols] /\ ts.play \in [Rows -> SUBSET Cols]
    BY DEF Tables, CheckTable, PlayField
  <2>3. /\ r.check = [ts.check EXCEPT ![y - 1] = ts.check[y], ![y] = {}]
        /\ r.play = [ts.play EXCEPT ![y - 1] = ts.play[y], ![y] = {}]
        /\ r = [check |-> r.check, play |-> r.play]
    BY <1>2 DEF SinkRow
  <2>4. r.check \in [0 .. Height -> SUBSET Cols] /\ r.play \in [Rows -> SUBSET Cols]
    BY <2>1, <2>2, <2>3
  <2>5. r \in Tables
    BY <2>3, <2>4 DEF Tables, CheckTable, PlayField
  <2>6. /\ r.check[y] = {}
        /\ r.check[y - 1] = ts.check[y] /\ r.play[y - 1] = ts.play[y]
    BY <2>1, <2>2, <2>3
  <2>7. \A z \in 0 .. Height : z # y /\ z # y - 1 => r.check[z] = ts.check[z]
    BY <2>1, <2>2, <2>3
  <2>8. \A z \in Rows : z # y /\ z # y - 1 => r.play[z] = ts.play[z]
    BY <2>1, <2>2, <2>3
  <2>. QED  BY <1>2, <2>5, <2>6, <2>7, <2>8
<1>. QED  BY <1>1, <1>2

-----------------------------------------------------------------------------
(* Nothing is lost, doubled or reordered on the way.                        *)
Follows(o, ts) ==
    /\ \E to \in [Occupied(o) -> Rows] : ComesDown(o, ts, Occupied(o), to)
    /\ ts.check[Height] = o.check[Height]

LEMMA RowFollows ==
    ASSUME NEW o \in Tables, NEW ts \in Tables, NEW y \in 1 .. Height - 1,
           Follows(o, ts)
    PROVE  Follows(o, SinkRow(ts, y))
<1>. DEFINE rows == Occupied(o)
<1>1. PICK to \in [rows -> Rows] : ComesDown(o, ts, rows, to)
  BY DEF Follows
<1>2. PICK r : r = SinkRow(ts, y)
  OBVIOUS
<1>3. CASE ~(ts.check[y] # {} /\ ts.check[y - 1] = {})
  BY <1>2, <1>3, SinkRowIs
<1>4. CASE ts.check[y] # {} /\ ts.check[y - 1] = {}
  <2>0. y \in Rows /\ y - 1 \in Rows /\ Rows \subseteq 0 .. Height /\ Rows \subseteq Int
        /\ rows \subseteq Rows /\ Height \in 0 .. Height /\ Height # y /\ Height # y - 1
    BY HeightAssumption DEF Rows, Occupied
  <2>1. /\ r.check[y] = {}
        /\ r.check[y - 1] = ts.check[y] /\ r.play[y - 1] = ts.play[y]
        /\ \A z \in 0 .. Height : z # y /\ z # y - 1 => r.check[z] = ts.check[z]
        /\ \A z \in Rows : z # y /\ z # y - 1 => r.play[z] = ts.play[z]
    BY <1>2, <1>4, SinkRowIs
  <2>2. /\ \A a, b \in rows : a < b => to[a] < to[b]
        /\ \A a \in rows : ts.check[to[a]] = o.check[a] /\ ts.play[to[a]] = o.play[a]
        /\ \A z \in Rows : ts.check[z] # {} => \E a \in rows : to[a] = z
    BY <1>1 DEF ComesDown
  <2>3. PICK k \in rows : to[k] = y
    BY <1>4, <2>0, <2>2
  <2>4. \A a \in rows : to[a] \in Rows /\ to[a] # y - 1
    <3>1. \A a \in rows : o.check[a] # {}
      BY DEF Occupied
    <3>. QED  BY <1>4, <2>2, <3>1
  <2>5. \A a \in rows : a # k => to[a] # y
    <3>. SUFFICES ASSUME NEW a \in rows, a # k PROVE to[a] # y
      OBVIOUS
    <3>0. a \in Int /\ k \in Int
      BY <2>0
    <3>1. a < k \/ k < a
      BY <3>0
    <3>. QED  BY <2>0, <2>2, <2>3, <2>4, <3>1
  <2>. DEFINE down == [a \in rows |-> IF a = k THEN y - 1 ELSE to[a]]
  <2>6. down \in [rows -> Rows]
    BY <2>0, <2>4
  <2>7. \A a, b \in rows : a < b => down[a] < down[b]
    <3>. SUFFICES ASSUME NEW a \in rows, NEW b \in rows, a < b PROVE down[a] < down[b]
      OBVIOUS
    <3>1. to[a] < to[b] /\ to[a] \in Int /\ to[b] \in Int /\ to[a] # y - 1 /\ to[b] # y - 1
      BY <2>0, <2>2, <2>4
    <3>2. CASE b = k
      BY <2>0, <2>3, <3>1, <3>2
    <3>3. CASE a = k
      BY <2>0, <2>3, <3>1, <3>3
    <3>4. CASE a # k /\ b # k
      BY <3>1, <3>4
    <3>. QED  BY <3>2, <3>3, <3>4
  <2>8. \A a \in rows : r.check[down[a]] = o.check[a] /\ r.play[down[a]] = o.play[a]
    <3>. SUFFICES ASSUME NEW a \in rows
                  PROVE  r.check[down[a]] = o.check[a] /\ r.play[down[a]] = o.play[a]
      OBVIOUS
    <3>1. ts.check[to[a]] = o.check[a] /\ ts.play[to[a]] = o.play[a]
      BY <2>2
    <3>2. CASE a = k
      BY <2>1, <2>3, <3>1, <3>2
    <3>3. CASE a # k
      <4>1. to[a] \in Rows /\ to[a] \in 0 .. Height /\ to[a] # y /\ to[a] # y - 1
        BY <2>0, <2>4, <2>5, <3>3
      <4>2. down[a] = to[a]
        BY <3>3
      <4>. QED  BY <2>1, <3>1, <4>1, <4>2
    <3>. QED  BY <3>2, <3>3
  <2>9. \A z \in Rows : r.check[z] # {} => \E a \in rows : down[a] = z
    <3>. SUFFICES ASSUME NEW z \in Rows, r.check[z] # {} PROVE \E a \in rows : down[a] = z
      OBVIOUS
    <3>1. CASE z = y - 1
      BY <3>1
    <3>2. CASE z # y - 1
      <4>1. z # y
        BY <2>1
      <4>2. ts.check[z] # {}
        BY <2>0, <2>1, <3>2, <4>1
      <4>3. PICK a \in rows : to[a] = z
        BY <2>2, <4>2
      <4>. QED  BY <2>3, <4>1, <4>3
    <3>. QED  BY <3>1, <3>2
  <2>10. ComesDown(o, r, rows, down)
    BY <2>7, <2>8, <2>9 DEF ComesDown
  <2>11. r.check[Height] = o.check[Height]
    BY <2>0, <2>1 DEF Follows
  <2>. HIDE DEF down
  <2>. QED  BY <1>2, <2>6, <2>10, <2>11 DEF Follows
<1>. QED  BY <1>3, <1>4

-----------------------------------------------------------------------------
(* Below row i nothing is free that has anything above it.                  *)
Settled(ts, i) ==
    \A y, z \in Rows : y < i /\ y < z /\ ts.check[y] = {} => ts.check[z] = {}

(* While a sweep is at row y, row i is occupied, has nothing above it, or   *)
(* has something above it that the sweep has yet to take down.              *)
Coming(ts, i, y) ==
    \/ ts.check[i] # {}
    \/ \A z \in Rows : z > i => ts.check[z] = {}
    \/ \E z \in Rows : i < z /\ z <= y /\ ts.check[z] # {}

LEMMA RowSettles ==
    ASSUME NEW ts \in Tables, NEW y \in 1 .. Height - 1, NEW i \in Rows,
           Settled(ts, i), Coming(ts, i, y)
    PROVE  Settled(SinkRow(ts, y), i) /\ Coming(SinkRow(ts, y), i, y - 1)
<1>1. PICK r : r = SinkRow(ts, y)
  OBVIOUS
<1>0. y \in Rows /\ y - 1 \in Rows /\ Rows \subseteq 0 .. Height /\ Rows \subseteq Int
      /\ y - 1 < y /\ i \in Int
  BY HeightAssumption DEF Rows
<1>2. CASE ~(ts.check[y] # {} /\ ts.check[y - 1] = {})
  <2>1. r = ts
    BY <1>1, <1>2, SinkRowIs
  <2>2. Coming(ts, i, y - 1)
    <3>1. CASE ts.check[i] # {} \/ \A z \in Rows : z > i => ts.check[z] = {}
      BY <3>1 DEF Coming
    <3>2. CASE \E z \in Rows : i < z /\ z <= y /\ ts.check[z] # {}
      <4>1. PICK z \in Rows : i < z /\ z <= y /\ ts.check[z] # {}
        BY <3>2
      <4>2. CASE z = y
        <5>1. ts.check[y - 1] # {} /\ i <= y - 1
          BY <1>0, <1>2, <4>1, <4>2
        <5>2. CASE i = y - 1
          BY <5>1, <5>2 DEF Coming
        <5>3. CASE i # y - 1
          BY <1>0, <5>1, <5>3 DEF Coming
        <5>. QED  BY <5>2, <5>3
      <4>3. CASE z # y
        <5>1. z <= y - 1
          BY <1>0, <4>1, <4>3
        <5>. QED  BY <4>1, <5>1 DEF Coming
      <4>. QED  BY <4>2, <4>3
    <3>. QED  BY <3>1, <3>2 DEF Coming
  <2>. QED  BY <1>1, <2>1, <2>2
<1>3. CASE ts.check[y] # {} /\ ts.check[y - 1] = {}
  <2>1. /\ r.check[y] = {} /\ r.check[y - 1] = ts.check[y]
        /\ \A z \in Rows : z # y /\ z # y - 1 => r.check[z] = ts.check[z]
    BY <1>0, <1>1, <1>3, SinkRowIs
  <2>2. i <= y - 1
    BY <1>0, <1>3 DEF Settled
  <2>3. \A w \in Rows : w < i => ts.check[w] # {}
    <3>. SUFFICES ASSUME NEW w \in Rows, w < i, ts.check[w] = {} PROVE FALSE
      OBVIOUS
    <3>1. w < y
      BY <1>0, <2>2
    <3>. QED  BY <1>0, <1>3, <3>1 DEF Settled
  <2>4. \A w \in Rows : w < i => r.check[w] # {}
    <3>. SUFFICES ASSUME NEW w \in Rows, w < i PROVE r.check[w] # {}
      OBVIOUS
    <3>1. w # y /\ w # y - 1
      BY <1>0, <2>2
    <3>. QED  BY <2>1, <2>3, <3>1
  <2>5. Settled(r, i)
    BY <2>4 DEF Settled
  <2>6. Coming(r, i, y - 1)
    <3>1. CASE i = y - 1
      BY <1>3, <2>1, <3>1 DEF Coming
    <3>2. CASE i # y - 1
      <4>1. i < y - 1 /\ r.check[y - 1] # {}
        BY <1>0, <1>3, <2>1, <2>2, <3>2
      <4>. QED  BY <1>0, <4>1 DEF Coming
    <3>. QED  BY <3>1, <3>2
  <2>. QED  BY <1>1, <2>5, <2>6
<1>. QED  BY <1>2, <1>3

(* A recursion over an interval has a value at every number of it.          *)
LEMMA SweepDefined ==
    ASSUME NEW ts
    PROVE  \E f : f = [i \in 0 .. Height - 1 |->
                        IF i = 0 THEN ts ELSE SinkRow(f[i - 1], Height - i)]
<1>. DEFINE Def(f, n) == [i \in 0 .. n |-> IF i = 0 THEN ts ELSE SinkRow(f[i - 1], Height - i)]
            S == {n \in Nat : \E f : f = Def(f, n)}
<1>1. 0 \in S
  <2>. DEFINE g == [i \in 0 .. 0 |-> ts]
  <2>1. g = Def(g, 0)
    OBVIOUS
  <2>. QED  BY <2>1
<1>2. \A n \in Nat : n \in S => n + 1 \in S
  <2>. SUFFICES ASSUME NEW n \in Nat, n \in S PROVE n + 1 \in S
    OBVIOUS
  <2>1. PICK f : f = Def(f, n)
    OBVIOUS
  <2>. DEFINE g == [i \in 0 .. n + 1 |->
                      IF i = n + 1 THEN SinkRow(f[n], Height - (n + 1)) ELSE f[i]]
  <2>2. ASSUME NEW i \in 0 .. n + 1
        PROVE  g[i] = IF i = 0 THEN ts ELSE SinkRow(g[i - 1], Height - i)
    <3>1. CASE i = 0
      BY <2>1, <3>1
    <3>2. CASE i # 0
      <4>1. i - 1 \in 0 .. n + 1 /\ i - 1 # n + 1 /\ g[i - 1] = f[i - 1]
        BY <3>2
      <4>2. CASE i = n + 1
        <5>1. i - 1 = n /\ g[i] = SinkRow(f[n], Height - i)
          BY <4>2
        <5>. QED  BY <3>2, <4>1, <5>1
      <4>3. CASE i # n + 1
        <5>1. i \in 0 .. n /\ g[i] = f[i]
          BY <4>3
        <5>2. f[i] = SinkRow(f[i - 1], Height - i)
          BY <2>1, <3>2, <5>1
        <5>. QED  BY <3>2, <4>1, <5>1, <5>2
      <4>. QED  BY <4>2, <4>3
    <3>. QED  BY <3>1, <3>2
  <2>3. g = [i \in 0 .. n + 1 |-> g[i]]
    OBVIOUS
  <2>4. g = Def(g, n + 1)
    <3>. HIDE DEF g
    <3>. QED  BY <2>2, <2>3
  <2>. HIDE DEF Def, g
  <2>. QED  BY <2>4
<1>3. Nat \subseteq S
  <2>. HIDE DEF S
  <2>. QED  BY <1>1, <1>2, SetInduction
<1>4. Height - 1 \in S
  <2>. HIDE DEF S
  <2>. QED  BY <1>3, HeightAssumption
<1>. QED  BY <1>4


(* One sweep: row i is settled if those below it were.                      *)
LEMMA SweepSettles ==
    ASSUME NEW o \in Tables, NEW ts \in Tables, NEW i \in Rows,
           Follows(o, ts), Settled(ts, i)
    PROVE  Sweep(ts) \in Tables /\ Follows(o, Sweep(ts)) /\ Settled(Sweep(ts), i + 1)
<1>. DEFINE Def(f) == [k \in 0 .. Height - 1 |->
                         IF k = 0 THEN ts ELSE SinkRow(f[k - 1], Height - k)]
<1>1. PICK f : f = Def(f) /\ Sweep(ts) = f[Height - 1]
  <2>1. \E f : f = Def(f)
    BY SweepDefined
  <2>2. Sweep(ts) = (CHOOSE f : f = Def(f))[Height - 1]
    BY DEF Sweep
  <2>. HIDE DEF Def
  <2>. QED  BY <2>1, <2>2
<1>2. f[0] = ts /\ \A k \in 1 .. Height - 1 : f[k] = SinkRow(f[k - 1], Height - k)
  BY <1>1, HeightAssumption
<1>. HIDE DEF Def
<1>. DEFINE Good(k) == /\ f[k] \in Tables /\ Follows(o, f[k]) /\ Settled(f[k], i)
                       /\ Coming(f[k], i, (Height - 1) - k)
            S == {n \in Nat : n <= Height - 1 => Good(n)}
<1>3. 0 \in S
  <2>1. Coming(ts, i, (Height - 1) - 0)
    BY HeightAssumption DEF Coming, Rows
  <2>. QED  BY <1>2, <2>1
<1>4. \A n \in Nat : n \in S => n + 1 \in S
  <2>. SUFFICES ASSUME NEW n \in Nat, n \in S, n + 1 <= Height - 1 PROVE Good(n + 1)
    OBVIOUS
  <2>1. Good(n)
    BY HeightAssumption
  <2>2. PICK y \in 1 .. Height - 1 : y = Height - (n + 1)
    BY HeightAssumption
  <2>3. /\ n + 1 \in 1 .. Height - 1 /\ (n + 1) - 1 = n
        /\ (Height - 1) - n = y /\ (Height - 1) - (n + 1) = y - 1
    BY <2>2, HeightAssumption
  <2>4. f[n + 1] = SinkRow(f[n], y)
    BY <1>2, <2>2, <2>3
  <2>5. Coming(f[n], i, y)
    BY <2>1, <2>3
  <2>. HIDE DEF S
  <2>6. f[n + 1] \in Tables
    BY <2>1, <2>4, SinkRowIs
  <2>7. Follows(o, f[n + 1])
    BY <2>1, <2>4, RowFollows
  <2>8. Settled(f[n + 1], i) /\ Coming(f[n + 1], i, y - 1)
    BY <2>1, <2>4, <2>5, RowSettles
  <2>. QED  BY <2>3, <2>6, <2>7, <2>8
<1>5. Height - 1 \in S
  <2>1. Nat \subseteq S
    <3>. HIDE DEF S
    <3>. QED  BY <1>3, <1>4, SetInduction
  <2>. HIDE DEF S
  <2>. QED  BY <2>1, HeightAssumption
<1>6. Good(Height - 1)
  BY <1>5, HeightAssumption
<1>7. Settled(f[Height - 1], i + 1)
  <2>. DEFINE r == f[Height - 1]
  <2>1. Settled(r, i) /\ Coming(r, i, 0)
    BY <1>6, HeightAssumption
  <2>2. r.check[i] # {} \/ \A z \in Rows : z > i => r.check[z] = {}
    BY <2>1 DEF Coming, Rows
  <2>. SUFFICES ASSUME NEW y \in Rows, NEW z \in Rows, y < i + 1, y < z, r.check[y] = {}
                PROVE  r.check[z] = {}
    BY DEF Settled
  <2>. HIDE DEF r
  <2>3. CASE y = i
    BY <2>2, <2>3
  <2>4. CASE y # i
    <3>1. y < i
      BY <2>4 DEF Rows
    <3>. QED  BY <2>1, <3>1 DEF Settled
  <2>. QED  BY <2>3, <2>4
<1>. QED  BY <1>1, <1>6, <1>7

LEMMA SinkDefined ==
    ASSUME NEW ts
    PROVE  \E f : f = [i \in 0 .. Height |-> IF i = 0 THEN ts ELSE Sweep(f[i - 1])]
<1>. DEFINE Def(f, n) == [i \in 0 .. n |-> IF i = 0 THEN ts ELSE Sweep(f[i - 1])]
            S == {n \in Nat : \E f : f = Def(f, n)}
<1>1. 0 \in S
  <2>. DEFINE g == [i \in 0 .. 0 |-> ts]
  <2>1. g = Def(g, 0)
    OBVIOUS
  <2>. QED  BY <2>1
<1>2. \A n \in Nat : n \in S => n + 1 \in S
  <2>. SUFFICES ASSUME NEW n \in Nat, n \in S PROVE n + 1 \in S
    OBVIOUS
  <2>1. PICK f : f = Def(f, n)
    OBVIOUS
  <2>. DEFINE g == [i \in 0 .. n + 1 |-> IF i = n + 1 THEN Sweep(f[n]) ELSE f[i]]
  <2>2. ASSUME NEW i \in 0 .. n + 1
        PROVE  g[i] = IF i = 0 THEN ts ELSE Sweep(g[i - 1])
    <3>1. CASE i = 0
      BY <2>1, <3>1
    <3>2. CASE i # 0
      <4>1. i - 1 \in 0 .. n + 1 /\ i - 1 # n + 1 /\ g[i - 1] = f[i - 1]
        BY <3>2
      <4>2. CASE i = n + 1
        <5>1. i - 1 = n /\ g[i] = Sweep(f[n])
          BY <4>2
        <5>. QED  BY <3>2, <4>1, <5>1
      <4>3. CASE i # n + 1
        <5>1. i \in 0 .. n /\ g[i] = f[i]
          BY <4>3
        <5>2. f[i] = Sweep(f[i - 1])
          BY <2>1, <3>2, <5>1
        <5>. QED  BY <3>2, <4>1, <5>1, <5>2
      <4>. QED  BY <4>2, <4>3
    <3>. QED  BY <3>1, <3>2
  <2>3. g = [i \in 0 .. n + 1 |-> g[i]]
    OBVIOUS
  <2>4. g = Def(g, n + 1)
    <3>. HIDE DEF g
    <3>. QED  BY <2>2, <2>3
  <2>. HIDE DEF Def, g
  <2>. QED  BY <2>4
<1>3. Nat \subseteq S
  <2>. HIDE DEF S
  <2>. QED  BY <1>1, <1>2, SetInduction
<1>4. Height \in S
  <2>. HIDE DEF S
  <2>. QED  BY <1>3, HeightAssumption
<1>. QED  BY <1>4

(* As many sweeps as there are rows settle all of them.                     *)
LEMMA SinkSettles ==
    ASSUME NEW o \in Tables
    PROVE  Sink(o) \in Tables /\ Follows(o, Sink(o)) /\ Settled(Sink(o), Height)
<1>. DEFINE Def(f) == [k \in 0 .. Height |-> IF k = 0 THEN o ELSE Sweep(f[k - 1])]
<1>1. PICK f : f = Def(f) /\ Sink(o) = f[Height]
  <2>1. \E f : f = Def(f)
    BY SinkDefined
  <2>2. Sink(o) = (CHOOSE f : f = Def(f))[Height]
    BY DEF Sink
  <2>. HIDE DEF Def
  <2>. QED  BY <2>1, <2>2
<1>2. f[0] = o /\ \A k \in 1 .. Height : f[k] = Sweep(f[k - 1])
  BY <1>1, HeightAssumption
<1>. HIDE DEF Def
<1>. DEFINE Good(k) == f[k] \in Tables /\ Follows(o, f[k]) /\ Settled(f[k], k)
            S == {n \in Nat : n <= Height => Good(n)}
<1>3. 0 \in S
  <2>1. Settled(o, 0)
    BY DEF Settled, Rows
  <2>2. Follows(o, o)
    <3>. DEFINE to == [y \in Occupied(o) |-> y]
    <3>1. to \in [Occupied(o) -> Rows] /\ ComesDown(o, o, Occupied(o), to)
      BY DEF Occupied, ComesDown
    <3>. QED  BY <3>1 DEF Follows
  <2>. QED  BY <1>2, <2>1, <2>2
<1>4. \A n \in Nat : n \in S => n + 1 \in S
  <2>. SUFFICES ASSUME NEW n \in Nat, n \in S, n + 1 <= Height PROVE Good(n + 1)
    OBVIOUS
  <2>1. Good(n)
    BY HeightAssumption
  <2>2. n \in Rows /\ n + 1 \in 1 .. Height /\ (n + 1) - 1 = n
    BY HeightAssumption DEF Rows
  <2>3. f[n + 1] = Sweep(f[n])
    BY <1>2, <2>2
  <2>. HIDE DEF S
  <2>. QED  BY <2>1, <2>2, <2>3, SweepSettles
<1>5. Height \in S
  <2>1. Nat \subseteq S
    <3>. HIDE DEF S
    <3>. QED  BY <1>3, <1>4, SetInduction
  <2>. HIDE DEF S
  <2>. QED  BY <2>1, HeightAssumption
<1>. QED  BY <1>1, <1>5, HeightAssumption

(* Emptied rows are gone, all others stay for the loop.                     *)
LEMMA LinesAreRemoved ==
    ASSUME NEW ts \in Tables
    PROVE  Emptied(ts) \in Tables /\ IsCompacted(ts, Sink(Emptied(ts)))
<1>. DEFINE o == Emptied(ts)
            rows == Kept(ts.check)
            r == Sink(o)
<1>1. ts.check \in [0 .. Height -> SUBSET Cols] /\ ts.play \in [Rows -> SUBSET Cols]
      /\ Rows \subseteq 0 .. Height /\ Rows \subseteq Int /\ Height \in 0 .. Height /\ Height \notin Rows
  BY HeightAssumption DEF Tables, CheckTable, PlayField, Rows
<1>2. o \in Tables
  BY <1>1 DEF Emptied, Tables, CheckTable, PlayField
<1>3. Cols # {}
  BY WidthAssumption DEF Cols
<1>4. Occupied(o) = rows
  BY <1>1, <1>3 DEF Emptied, Occupied, Kept, FullRows
<1>5. \A y \in rows : o.check[y] = ts.check[y] /\ o.play[y] = ts.play[y]
  BY <1>1 DEF Emptied, Kept, FullRows
<1>6. o.check[Height] = ts.check[Height]
  BY <1>1 DEF Emptied, FullRows
<1>7. Follows(o, r) /\ Settled(r, Height)
  BY <1>2, SinkSettles
<1>. HIDE DEF o, r
<1>8. PICK to \in [rows -> Rows] : ComesDown(o, r, rows, to)
  BY <1>4, <1>7 DEF Follows
<1>9. ComesDown(ts, r, rows, to)
  BY <1>5, <1>8 DEF ComesDown
<1>10. \A y \in rows : \A z \in 0 .. to[y] : \E x \in rows : to[x] = z
  <2>. SUFFICES ASSUME NEW y \in rows, NEW z \in 0 .. to[y] PROVE \E x \in rows : to[x] = z
    OBVIOUS
  <2>1. to[y] \in Rows /\ z \in Rows /\ z <= to[y] /\ z < Height
    BY HeightAssumption DEF Rows
  <2>2. r.check[to[y]] # {}
    BY <1>4, <1>5, <1>9 DEF ComesDown, Occupied
  <2>3. r.check[z] # {}
    <3>1. CASE z = to[y]
      BY <2>2, <3>1
    <3>2. CASE z # to[y]
      <4>1. z \in Int /\ to[y] \in Int
        BY <1>1, <2>1
      <4>2. z < to[y]
        BY <2>1, <3>2, <4>1
      <4>. QED  BY <1>7, <2>1, <2>2, <4>2 DEF Settled
    <3>. QED  BY <3>1, <3>2
  <2>. QED  BY <1>9, <2>1, <2>3 DEF ComesDown
<1>11. r.check[Height] = ts.check[Height]
  BY <1>6, <1>7 DEF Follows
<1>12. IsCompacted(ts, r)
  BY <1>9, <1>10, <1>11 DEF IsCompacted
<1>. QED  BY <1>2, <1>12 DEF o, r

-----------------------------------------------------------------------------
(* The frame counter is bounded state by state: it starts anew with every   *)
(* picture, and with every row a piece falls.                               *)
Counters ==
    /\ framecounter \in Nat
    /\ subcounter \in 0 .. MoveFrames
    /\ state \in {"INTRO_0", "INTRO_2"} => framecounter <= 1
    /\ state \in {"INTRO_1", "INTRO_3"} => framecounter <= IntroFrames + 2
    /\ state = "DROPPING_0" => framecounter <= DropFrames + 4
    /\ state = "DROPPING_1" => framecounter <= DropFrames + 1

Board == /\ checktable \in CheckTable
         /\ playfield \in PlayField
         /\ blockposy \in 0 .. Height
         /\ calls \in Calls

LEMMA LandedIsTables == Board => Landed \in Tables
<1>. SUFFICES ASSUME Board PROVE Landed \in Tables
  OBVIOUS
<1>1. /\ checktable \in [0 .. Height -> SUBSET Cols] /\ playfield \in [Rows -> SUBSET Cols]
  BY DEF Board, CheckTable, PlayField
<1>2. Mark(checktable, piece, blockposx, blockposy) \in [0 .. Height -> SUBSET Cols]
  BY <1>1 DEF Mark
<1>3. displayCopyTilemapIntoTilemap(piece, playfield, blockposx, blockposy)
        \in [Rows -> SUBSET Cols]
  BY <1>1 DEF displayCopyTilemapIntoTilemap
<1>. QED  BY <1>2, <1>3 DEF Landed, Tables, CheckTable, PlayField

LEMMA LockedIsTables == Board => Locked \in Tables
BY LandedIsTables, LinesAreRemoved, SinkSettles DEF Locked, detectcompletelines

LEMMA GameOverBoard ==
    ASSUME NEW table \in CheckTable, GameOver(table)
    PROVE  Board'
<1>1. Cleared(table) \in CheckTable
  BY DEF Cleared, CheckTable
<1>2. EmptyField \in PlayField
  BY DEF EmptyField, PlayField
<1>3. Height \in 0 .. Height
  BY HeightAssumption
<1>. QED  BY <1>1, <1>2, <1>3 DEF GameOver, Board, Calls

LEMMA InitBoard == Init => Board /\ Counters
<1>. SUFFICES ASSUME Init PROVE Board /\ Counters
  OBVIOUS
<1>1. checktable \in CheckTable
  BY CanaryAssumption DEF Init, CheckTable
<1>2. playfield \in PlayField
  BY DEF Init, EmptyField, PlayField
<1>3. Board
  BY <1>1, <1>2, HeightAssumption DEF Init, Board, Calls
<1>4. Counters
  BY FramesAssumption DEF Init, Counters
<1>. QED  BY <1>3, <1>4

LEMMA NextBoard == Inv /\ Board /\ Counters /\ [Next]_vars => Board' /\ Counters'
<1>. SUFFICES ASSUME Inv, Board, Counters, [Next]_vars PROVE Board' /\ Counters'
  OBVIOUS
<1>0. IntroFrames \in Nat /\ DropFrames \in Nat /\ MoveFrames \in Nat /\ framecounter \in Nat
  BY FramesAssumption DEF Counters
<1>1. CASE IntroFrame
  <2>1. calls' \in {Draw, Show, << >>} /\ UNCHANGED <<board, subcounter>>
    BY <1>1 DEF IntroFrame, IntroPicture, IntroWait, StartGame
  <2>2. Board'
    BY <2>1 DEF Board, board, Calls
  <2>3. CASE StartGame
    BY <1>0, <2>1, <2>2, <2>3 DEF StartGame, Counters
  <2>4. CASE state = "INTRO_0" /\ state' = "INTRO_1" /\ framecounter' = framecounter + 1
    BY <1>0, <2>1, <2>2, <2>4 DEF Counters
  <2>5. CASE state = "INTRO_2" /\ state' = "INTRO_3" /\ framecounter' = framecounter + 1
    BY <1>0, <2>1, <2>2, <2>5 DEF Counters
  <2>6. CASE state' \in {"INTRO_0", "INTRO_2"} /\ framecounter' = 1
    BY <1>0, <2>1, <2>2, <2>6 DEF Counters
  <2>7. CASE /\ state' \in {"INTRO_1", "INTRO_3"}
             /\ framecounter <= IntroFrames /\ framecounter' = framecounter + 1
    BY <1>0, <2>1, <2>2, <2>7 DEF Counters
  <2>8. \/ StartGame
        \/ state = "INTRO_0" /\ state' = "INTRO_1" /\ framecounter' = framecounter + 1
        \/ state = "INTRO_2" /\ state' = "INTRO_3" /\ framecounter' = framecounter + 1
        \/ state' \in {"INTRO_0", "INTRO_2"} /\ framecounter' = 1
        \/ /\ state' \in {"INTRO_1", "INTRO_3"}
           /\ framecounter <= IntroFrames /\ framecounter' = framecounter + 1
    BY <1>0, <1>1 DEF IntroFrame, IntroPicture, IntroWait
  <2>. QED  BY <2>2, <2>3, <2>4, <2>5, <2>6, <2>7, <2>8
<1>2. CASE Fall
  <2>1. state' = "DROPPING_1" /\ UNCHANGED <<checktable, playfield>> /\ blockposy' = blockposy - 1
        /\ calls' = Show
    BY <1>2 DEF Fall, GoOn, Inv, NoOverflowInGame, Game
  <2>2. blockposy # 0
    BY <1>2 DEF Fall, Rests
  <2>3. Board'
    BY <2>1, <2>2, HeightAssumption DEF Board, Calls
  <2>4. framecounter' = 1 /\ subcounter' = 0
    BY <1>2 DEF Fall, DropFrame
  <2>. QED  BY <1>0, <2>1, <2>3, <2>4 DEF Counters
<1>3. CASE Rest
  <2>1. framecounter' = 1 /\ subcounter' = 0
    BY <1>3 DEF Rest, DropFrame
  <2>2. Locked \in Tables
    BY LockedIsTables
  <2>3. CASE hasoverflown'
    <3>1. GameOver(Locked.check)
      BY <1>3, <2>3 DEF Rest
    <3>2. Locked.check \in CheckTable
      BY <2>2 DEF Tables
    <3>3. state' = "INTRO_0"
      BY <3>1 DEF GameOver
    <3>. QED  BY <1>0, <2>1, <3>1, <3>2, <3>3, GameOverBoard DEF Counters
  <2>4. CASE ~hasoverflown'
    <3>1. GoOn(Locked, Height)
      BY <1>3, <2>4 DEF Rest
    <3>2. Board'
      BY <2>2, <3>1, HeightAssumption DEF GoOn, Board, Tables, Calls
    <3>. QED  BY <1>0, <2>1, <3>1, <3>2 DEF GoOn, Counters
  <2>. QED  BY <2>3, <2>4
<1>4. CASE MoveFrame
  <2>1. UNCHANGED <<checktable, playfield, blockposy>>
    BY <1>4 DEF MoveFrame
  <2>2. calls' \in {<< >>, Show, Show \o Show}
    BY <1>4 DEF MoveFrame, Moves, NoMoves
  <2>3. Board'
    BY <2>1, <2>2 DEF Board, Calls
  <2>4. subcounter' \in 0 .. MoveFrames
    BY <1>0, <1>4 DEF MoveFrame, Moves, NoMoves, Counters
  <2>5. PICK count \in Nat :
          /\ count <= framecounter + 2
          /\ state' = IF count > DropFrames THEN "DROPPING_0" ELSE "DROPPING_1"
          /\ framecounter' = count + 1
    BY <1>0, <1>4 DEF MoveFrame, Elapsed
  <2>6. framecounter <= DropFrames + 1
    BY <1>4 DEF MoveFrame, Counters
  <2>. QED  BY <1>0, <2>3, <2>4, <2>5, <2>6 DEF Counters
<1>5. CASE UNCHANGED vars
  BY <1>5 DEF vars, Board, Counters
<1>. QED  BY <1>1, <1>2, <1>3, <1>4, <1>5 DEF Next

LEMMA BoardHolds == Spec => [](Inv /\ Board /\ Counters)
BY InitInv, InitBoard, NextInv, NextBoard, PTL DEF Spec

(* main.c:44-290: every variable of the program keeps its range; the frame  *)
(* counter, a byte in the program, stays within that of its state.          *)
THEOREM TypeCorrect == Spec => []TypeOK
<1>1. Inv /\ Board /\ Counters => TypeOK
  <2>. SUFFICES ASSUME Inv, Board, Counters PROVE TypeOK
    OBVIOUS
  <2>1. framecounter \in 0 .. IntroFrames + DropFrames + 4
    BY FramesAssumption DEF Counters, Inv, Control, Intro, Game
  <2>2. blockposx \in Cols
    BY WidthAssumption DEF Inv, Control, PieceOnField, Cols
  <2>3. tetromapcurrent \in DOMAIN tetroL
    BY DEF Inv, Control, tetroL
  <2>. QED  BY <2>1, <2>2, <2>3 DEF TypeOK, Inv, Control, Board, Counters
<1>. QED  BY <1>1, BoardHolds, PTL

(* detection.c:91-123: for every height of the field, whatever lies in it,  *)
(* the loops take complete lines away and bring every other line down with  *)
(* its picture, in the order they were in, and leave no row free below.     *)
THEOREM CompleteLinesGo == Spec => LinesComeDown
<1>1. Inv /\ Board /\ Counters /\ [Next]_vars =>
        [(/\ state = "DROPPING_0" /\ state' = "DROPPING_1" /\ blockposy' = Height
          /\ FullRows(Landed.check) # {}) =>
            IsCompacted(Landed, [check |-> checktable', play |-> playfield'])]_vars
  <2>. SUFFICES ASSUME Inv, Board, Next,
                       state = "DROPPING_0", state' = "DROPPING_1", blockposy' = Height,
                       FullRows(Landed.check) # {}
                PROVE  IsCompacted(Landed, [check |-> checktable', play |-> playfield'])
    OBVIOUS
  <2>1. Fall \/ Rest
    BY DEF Next, IntroFrame, IntroPicture, IntroWait, MoveFrame
  <2>2. CASE Fall
    <3>1. blockposy' = blockposy - 1
      BY <2>2 DEF Fall, GameOver, GoOn
    <3>. QED  BY <3>1, HeightAssumption DEF Board
  <2>3. CASE Rest
    <3>1. GoOn(Locked, Height)
      BY <2>3 DEF Rest, GameOver
    <3>2. Locked = Sink(Emptied(Landed))
      BY DEF Locked, detectcompletelines
    <3>3. Landed \in Tables
      BY LandedIsTables
    <3>4. IsCompacted(Landed, Locked)
      BY <3>2, <3>3, LinesAreRemoved
    <3>. QED  BY <3>1, <3>4 DEF GoOn, IsCompacted, ComesDown
  <2>. QED  BY <2>1, <2>2, <2>3
<1>. QED  BY <1>1, BoardHolds, PTL DEF Spec, LinesComeDown

-----------------------------------------------------------------------------
(* What is left of the calls of a frame; only the game and its end have    *)
(* more than one drawing in it.                                            *)
Single == {<< >>, <<"draw">>, <<"ready">>, <<"draw", "ready">>}
Twofold == {<<"draw", "ready", "draw">>, <<"draw", "ready", "draw", "ready">>,
            <<"ready", "draw">>, <<"ready", "draw", "ready">>}
Redraws == Game \cup {"INTRO_0"}

ConsoleInv ==
    /\ \A flag \in {inframe, drawing, displayFrameBufferReady, displayRefreshDone} :
           flag \in BOOLEAN
    /\ ShownBeforeNextFrame
    /\ drawing => InFrame("draw")
    /\ inframe => calls \in Single \/ (calls \in Twofold /\ state \in Redraws)
    /\ displayFrameBufferReady /\ InFrame("draw") => state \in Redraws

LEMMA Concatenation ==
    ASSUME NEW S, NEW s \in Seq(S), NEW t \in Seq(S), NEW u \in Seq(S),
           Len(u) = Len(s) + Len(t),
           \A i \in 1 .. Len(s) : u[i] = s[i],
           \A i \in 1 .. Len(t) : u[Len(s) + i] = t[i]
    PROVE  s \o t = u
<1>1. /\ s \o t \in Seq(S) /\ Len(s \o t) = Len(u)
      /\ \A i \in 1 .. Len(s) + Len(t) :
            (s \o t)[i] = IF i <= Len(s) THEN s[i] ELSE t[i - Len(s)]
  BY ConcatProperties
<1>2. ASSUME NEW i \in 1 .. Len(u)
      PROVE  (s \o t)[i] = u[i]
  <2>1. Len(s) \in Nat /\ Len(t) \in Nat
    OBVIOUS
  <2>2. CASE i <= Len(s)
    BY <1>1, <2>1, <2>2
  <2>3. CASE ~(i <= Len(s))
    <3>1. i - Len(s) \in 1 .. Len(t) /\ Len(s) + (i - Len(s)) = i
      BY <2>1, <2>3
    <3>. QED  BY <1>1, <2>1, <2>3, <3>1
  <2>. QED  BY <2>2, <2>3
<1>. QED  BY <1>1, <1>2, SeqEqual

LEMMA TwofoldFrames == {Show \o Draw, Show \o Show} \subseteq Twofold
<1>. DEFINE Call == {"draw", "ready"}
            u == <<"draw", "ready", "draw">>
            v == <<"draw", "ready", "draw", "ready">>
<1>1. Show \in Seq(Call) /\ Draw \in Seq(Call) /\ u \in Seq(Call) /\ v \in Seq(Call)
  BY DEF Show, Draw
<1>2. Len(Show) = 2 /\ Len(Draw) = 1 /\ Len(u) = 3 /\ Len(v) = 4
  BY DEF Show, Draw
<1>3. /\ \A i \in 1 .. 2 : u[i] = Show[i] /\ v[i] = Show[i] /\ v[2 + i] = Show[i]
      /\ \A i \in 1 .. 1 : u[2 + i] = Draw[i]
  BY DEF Show, Draw
<1>4. u \in Twofold /\ v \in Twofold
  BY DEF Twofold
<1>. HIDE DEF u, v, Call
<1>5. Show \o Draw = u
  <2>1. \A i \in 1 .. Len(Show) : u[i] = Show[i]
    BY <1>2, <1>3
  <2>2. \A i \in 1 .. Len(Draw) : u[Len(Show) + i] = Draw[i]
    BY <1>2, <1>3
  <2>3. Len(u) = Len(Show) + Len(Draw)
    BY <1>2
  <2>. QED  BY <1>1, <2>1, <2>2, <2>3, Concatenation
<1>6. Show \o Show = v
  <2>1. \A i \in 1 .. Len(Show) : v[i] = Show[i] /\ v[Len(Show) + i] = Show[i]
    BY <1>2, <1>3
  <2>2. Len(v) = Len(Show) + Len(Show)
    BY <1>2
  <2>. QED  BY <1>1, <2>1, <2>2, Concatenation
<1>. QED  BY <1>4, <1>5, <1>6

LEMMA FrameCalls ==
    ASSUME NEW s, NEW s2, NEW c, FrameOf(s, s2, c)
    PROVE  c \in Single \/ (c \in Twofold /\ s2 \in Redraws)
<1>1. c \in {<< >>, Draw, Show} \/ (c \in {Show \o Draw, Show \o Show} /\ s2 \in Redraws)
  BY DEF FrameOf, Redraws, Game
<1>2. {<< >>, Draw, Show} \subseteq Single
  BY DEF Single, Show, Draw
<1>. QED  BY <1>1, <1>2, TwofoldFrames

LEMMA RestOfCalls ==
    /\ calls \in Single /\ calls # << >> => Tail(calls) \in Single
    /\ calls \in Single /\ calls # << >> /\ Head(calls) = "ready" => Tail(calls) = << >>
    /\ calls \in Twofold => Tail(calls) \in Single \cup Twofold
<1>1. /\ Tail(<<"draw">>) = << >> /\ Tail(<<"ready">>) = << >>
      /\ Tail(<<"draw", "ready">>) = <<"ready">> /\ Tail(<<"ready", "draw">>) = <<"draw">>
  OBVIOUS
<1>2. /\ Tail(<<"draw", "ready", "draw">>) = <<"ready", "draw">>
      /\ Tail(<<"ready", "draw", "ready">>) = <<"draw", "ready">>
  OBVIOUS
<1>3. Tail(<<"draw", "ready", "draw", "ready">>) = <<"ready", "draw", "ready">>
  OBVIOUS
<1>4. Head(<<"draw">>) = "draw" /\ Head(<<"draw", "ready">>) = "draw"
  OBVIOUS
<1>. QED  BY <1>1, <1>2, <1>3, <1>4, Zenon DEF Single, Twofold

LEMMA ConsoleInitInv == ConsoleInit => ConsoleInv
BY DEF ConsoleInit, ConsoleInv, ShownBeforeNextFrame, InFrame

LEMMA ConsoleNextInv == ConsoleInv /\ [ConsoleNext]_consoleVars => ConsoleInv'
<1>. SUFFICES ASSUME ConsoleInv, [ConsoleNext]_consoleVars PROVE ConsoleInv'
  OBVIOUS
<1>. USE DEF ConsoleInv, ShownBeforeNextFrame, InFrame
<1>1. CASE StartFrame
  BY <1>1, FrameCalls DEF StartFrame
<1>2. CASE BeginDraw
  BY <1>2 DEF BeginDraw
<1>3. CASE EndDraw
  BY <1>3, RestOfCalls DEF EndDraw
<1>4. CASE displaySetFrameBufferReady
  BY <1>4, RestOfCalls DEF displaySetFrameBufferReady
<1>5. CASE EndFrame
  BY <1>5 DEF EndFrame, displayClearRefreshStatus
<1>6. CASE displayInterrupt
  BY <1>6 DEF displayInterrupt, displayRefresh
<1>7. CASE UNCHANGED consoleVars
  BY <1>7 DEF consoleVars
<1>. QED  BY <1>1, <1>2, <1>3, <1>4, <1>5, <1>6, <1>7 DEF ConsoleNext, Main

(* main.c:288: the status is cleared last, so a frame never begins while   *)
(* the picture of the one before it waits for the interrupt.               *)
THEOREM NoFrameIsSkipped == ConsoleSpec => []ShownBeforeNextFrame
<1>1. ConsoleInv => ShownBeforeNextFrame
  BY DEF ConsoleInv
<1>. QED  BY <1>1, ConsoleInitInv, ConsoleNextInv, PTL DEF ConsoleSpec

(* display.c:280: wherever the interrupt meets the loop, it copies a half  *)
(* drawn picture only in the game and at its end.                          *)
THEOREM IntroIsNotTorn == ConsoleSpec => TearsOnlyInGame
<1>1. ConsoleInv /\ [ConsoleNext]_consoleVars =>
          [~torn /\ torn' => state \in Game \cup {"INTRO_0"}]_consoleVars
  <2>. SUFFICES ASSUME ConsoleInv, ConsoleNext, ~torn, torn' PROVE state \in Redraws
    BY DEF Redraws
  <2>1. displayInterrupt
    BY DEF ConsoleNext, Main, StartFrame, BeginDraw, EndDraw,
           displaySetFrameBufferReady, EndFrame
  <2>. QED  BY <2>1 DEF displayInterrupt, displayRefresh, ConsoleInv
<1>. QED  BY <1>1, ConsoleInitInv, ConsoleNextInv, PTL DEF ConsoleSpec, TearsOnlyInGame
=============================================================================
