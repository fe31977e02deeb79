------------------------------- MODULE Tetris -------------------------------
(***************************************************************************)
(* The main loop of the Tetris program, one step per frame: what main()    *)
(* does between finding displayRefreshIsDone() true and calling            *)
(* displayClearRefreshStatus().  The interrupt is in TetrisConsole; here   *)
(* it shows as buttons that may change between any two times they are read.*)
(***************************************************************************)
EXTENDS TetrisField, TetrisFrames

CONSTANTS
    IntroFrames,    \* 29: frames one picture of the intro stays
    DropFrames,     \* 10: counted twice per frame, thrice with down pressed
    MoveFrames      \* 2: frames between two reactions to the buttons

ASSUME FramesAssumption == {IntroFrames, DropFrames, MoveFrames} \subseteq Nat

(* The state of the program, and the calls its last frame made to the      *)
(* display, in order, are those of TetrisFrames.                           *)
VARIABLES
    framecounter, subcounter,
    hasoverflown,
    blockposx, blockposy,
    tetromapcurrent,    \* index into tetroL
    checktable, playfield

vars == <<state, framecounter, subcounter, hasoverflown, blockposx, blockposy,
          tetromapcurrent, checktable, playfield, calls>>

TypeOK ==
    /\ state \in Intro \cup Game
    /\ framecounter \in 0 .. IntroFrames + DropFrames + 4
    /\ subcounter \in 0 .. MoveFrames
    /\ hasoverflown \in BOOLEAN
    /\ blockposx \in Cols
    /\ blockposy \in 0 .. Height
    /\ tetromapcurrent \in DOMAIN tetroL
    /\ checktable \in CheckTable
    /\ playfield \in PlayField
    /\ calls \in Calls

Init ==
    /\ state = "INTRO_0"
    /\ framecounter = 0
    /\ subcounter = 0
    /\ hasoverflown = FALSE
    /\ blockposx = 0
    /\ blockposy = Height
    /\ tetromapcurrent = 1
    /\ checktable = [y \in 0 .. Height |-> IF y = Height THEN CanaryRow ELSE {}]
    /\ playfield = EmptyField
    /\ calls = Draw

board == <<blockposx, blockposy, tetromapcurrent, checktable, playfield>>
piece == tetroL[tetromapcurrent]

-----------------------------------------------------------------------------
(* Fire starts a game from any of the four states of the intro.  The next  *)
(* frame adds one to framecounter before it looks at it again.             *)
StartGameShowsX == /\ state' = "DROPPING_0"
                   /\ hasoverflown' = FALSE
                   /\ framecounter' = 1
                   /\ calls' = << >>
StartGame == /\ state' = "DROPPING_0"
             /\ hasoverflown' = FALSE
             /\ framecounter' = 1
             /\ calls' = Draw

(* INTRO_0 and INTRO_2 put a picture up and take it away.                  *)
IntroPicture(s, next) ==
    /\ state = s
    /\ \/ StartGame
       \/ /\ state' = next
          /\ framecounter' = framecounter + 1
          /\ calls' = Show
          /\ UNCHANGED hasoverflown
    /\ UNCHANGED <<subcounter, board>>

(* INTRO_1 and INTRO_3 wait.                                               *)
IntroWait(s, next) ==
    /\ state = s
    /\ \/ StartGame
       \/ /\ IF framecounter > IntroFrames
             THEN state' = next /\ framecounter' = 1
             ELSE state' = s /\ framecounter' = framecounter + 1
          /\ calls' = << >>
          /\ UNCHANGED hasoverflown
    /\ UNCHANGED <<subcounter, board>>

IntroFrame == \/ IntroPicture("INTRO_0", "INTRO_1")
              \/ IntroWait("INTRO_1", "INTRO_2")
              \/ IntroPicture("INTRO_2", "INTRO_3")
              \/ IntroWait("INTRO_3", "INTRO_0")

-----------------------------------------------------------------------------
(* STATE_GAME_DROPPING_0: the piece falls one row or comes to rest.  Row   *)
(* Height + 1, which a piece of three rows at the top reaches, is memory   *)
(* behind checktable.                                                      *)
Behind == IF blockposy + piece.h - 2 > Height THEN SUBSET Cols ELSE {{}}

Rests(behind) ==
    \/ blockposy = 0
    \/ /\ blockposy > 0
       /\ detectcollision(blockposx, blockposy - 1, checktable, piece, behind)

Overflows == \/ blockposy = Height
             \/ blockposy = Height - 1 /\ piece.h > 1

Landed == [check |-> Mark(checktable, piece, blockposx, blockposy),
           play  |-> displayCopyTilemapIntoTilemap(piece, playfield, blockposx, blockposy)]
Locked == detectcompletelines(Landed)

(* The end of a game clears the field but not the canary row.              *)
Cleared(table) == [y \in 0 .. Height |-> IF y = Height THEN table[y] ELSE {}]

GameOver(table) ==
    /\ state' = "INTRO_0"
    /\ checktable' = Cleared(table)
    /\ playfield' = EmptyField
    /\ blockposy' = Height
    /\ calls' = Show \o Draw

GoOn(tables, y) ==
    /\ state' = "DROPPING_1"
    /\ checktable' = tables.check
    /\ playfield' = tables.play
    /\ blockposy' = y
    /\ calls' = Show

DropFrame ==
    /\ framecounter' = 1
    /\ subcounter' = 0
    /\ UNCHANGED blockposx

Fall ==
    /\ state = "DROPPING_0"
    /\ \E behind \in Behind : ~Rests(behind)
    /\ IF hasoverflown
       THEN GameOver(checktable)
       ELSE GoOn([check |-> checktable, play |-> playfield], blockposy - 1)
    /\ DropFrame
    /\ UNCHANGED <<hasoverflown, tetromapcurrent>>

Rest ==
    /\ state = "DROPPING_0"
    /\ \E behind \in Behind : Rests(behind)
    /\ hasoverflown' = (hasoverflown \/ Overflows)
    /\ LET locked == Locked IN
       IF hasoverflown' THEN GameOver(locked.check) ELSE GoOn(locked, Height)
    /\ tetromapcurrent' = 1
    /\ DropFrame

-----------------------------------------------------------------------------
(* STATE_GAME_DROPPING_1: the player's moves.  detectcollisionright() and  *)
(* detectcollisionleft() are declared in detection.h and have no body in   *)
(* the repository: they may answer anything.                               *)
RightOfX(x) == {x, x + 1}
RightOf(x)  == {x} \cup {x1 \in {x + 1} : x + piece.w < Width}
LeftOf(x)   == {x} \cup {x1 \in {x - 1} : x > 0}

Rotated(t)  == IF t + 1 > 4 THEN 1 ELSE t + 1

Moves ==
    /\ \E x \in RightOf(blockposx), fire \in BOOLEAN :
        /\ blockposx' \in LeftOf(x)
        /\ calls' = CASE x = blockposx /\ x = blockposx' -> << >>
                      [] x # blockposx /\ x # blockposx' -> Show \o Show
                      [] OTHER -> Show
        /\ tetromapcurrent' = IF fire THEN Rotated(tetromapcurrent)
                              ELSE tetromapcurrent
    /\ subcounter' = 0

NoMoves == /\ subcounter' = subcounter + 1
           /\ calls' = << >>
           /\ UNCHANGED <<blockposx, tetromapcurrent>>

ElapsedX(count) == IF blockposx' = blockposx THEN count + 1 ELSE 1
Elapsed(count)  == count + 1

MoveFrame ==
    /\ state = "DROPPING_1"
    /\ IF subcounter + 1 > MoveFrames THEN Moves ELSE NoMoves
    /\ \E down \in {0, 1} :
        LET count == framecounter + 1 + down IN
        /\ state' = IF count > DropFrames THEN "DROPPING_0" ELSE "DROPPING_1"
        /\ framecounter' = Elapsed(count)
    /\ UNCHANGED <<hasoverflown, blockposy, checktable, playfield>>

-----------------------------------------------------------------------------
Next == IntroFrame \/ Fall \/ Rest \/ MoveFrame

Spec == Init /\ [][Next]_vars

(* The timer never stops, so the loop finds another frame again and again. *)
(* Every frame changes something: this is WF_vars(Next), in a form that    *)
(* spares TLC the evaluation of ENABLED Next.                              *)
FairSpec == Spec /\ []<><<TRUE>>_vars

-----------------------------------------------------------------------------
(* detection.c:91-123: complete lines disappear, the lines above them come *)
(* down, none is lost, doubled or reordered, and the picture of each line  *)
(* comes down with it.                                                     *)
LinesComeDown ==
    [][(/\ state = "DROPPING_0" /\ state' = "DROPPING_1" /\ blockposy' = Height
        /\ FullRows(Landed.check) # {}) =>
            IsCompacted(Landed, [check |-> checktable', play |-> playfield'])]_vars

(* A piece keeps at least two columns within the field whatever it is      *)
(* rotated into afterwards (main.c:244 checks moves, 265-271 checks no     *)
(* rotation): the shift counts of main.c:177 stay within a byte and a bit. *)
PieceOnField == blockposx + 2 <= Width

(* Whenever the intro runs the field is empty and the next piece waits at  *)
(* the top: nothing of a game reaches the next one but the canary row and  *)
(* the column of the piece (main.c:219-229).                               *)
FieldClearedForIntro ==
    state \in Intro => /\ \A y \in Rows : checktable[y] = {}
                       /\ playfield = EmptyField
                       /\ blockposy = Height
                       /\ tetromapcurrent = 1

(* A game that runs has not overflown: every way into a game forgets the   *)
(* overflow that ended the last (main.c:113, 135, 146, 164), or the first  *)
(* fall of the new game would end it.                                      *)
NoOverflowInGame == state \in Game => ~hasoverflown

(* The frames follow each other, and use the display, as TetrisFrames      *)
(* says: what TetrisConsole shows of those frames holds for this program.  *)
FramesAsPromised == FramesSpec

(* A piece in play comes to rest, however the player moves and turns it.   *)
PieceComesToRest ==
    (state = "DROPPING_1" /\ blockposy < Height) ~> (blockposy = Height)

=============================================================================
