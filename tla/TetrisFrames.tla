---------------------------- MODULE TetrisFrames ----------------------------
(***************************************************************************)
(* What the Tetris program promises to the display: in which order its     *)
(* states follow each other and what a frame of each may do to the frame   *)
(* buffer.  Tetris implements it; TetrisConsole runs it against the        *)
(* refresh interrupt.                                                      *)
(***************************************************************************)
EXTENDS Sequences

VARIABLES state, calls

Intro == {"INTRO_0", "INTRO_1", "INTRO_2", "INTRO_3"}
Game  == {"DROPPING_0", "DROPPING_1"}

(* The display sees only whether the frame buffer is drawn into and when   *)
(* displaySetFrameBufferReady() is called.                                 *)
Draw  == <<"draw">>
ShowX == <<"ready", "draw">>
Show  == <<"draw", "ready">>
Calls == {<< >>, Draw, Show, Show \o Draw, Show \o Show}

(* A frame that finds the program in state s may leave it in state s2 and  *)
(* make the calls c.                                                       *)
FrameOf(s, s2, c) ==
    \/ s \in Intro /\ s2 = "DROPPING_0" /\ c = Draw     \* fire
    \/ s = "INTRO_0" /\ s2 = "INTRO_1" /\ c = Show
    \/ s = "INTRO_1" /\ s2 \in {"INTRO_1", "INTRO_2"} /\ c = << >>
    \/ s = "INTRO_2" /\ s2 = "INTRO_3" /\ c = Show
    \/ s = "INTRO_3" /\ s2 \in {"INTRO_3", "INTRO_0"} /\ c = << >>
    \/ s = "DROPPING_0" /\ s2 = "DROPPING_1" /\ c = Show
    \/ s = "DROPPING_0" /\ s2 = "INTRO_0" /\ c = Show \o Draw   \* game over
    \/ s = "DROPPING_1" /\ s2 \in Game /\ c \in {<< >>, Show, Show \o Show}

FramesInit == state = "INTRO_0" /\ calls = Draw
FramesNext == FrameOf(state, state', calls')
FramesSpec == FramesInit /\ [][FramesNext]_<<state, calls>>
=============================================================================
