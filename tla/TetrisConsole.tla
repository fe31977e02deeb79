---------------------------- MODULE TetrisConsole ----------------------------
(***************************************************************************)
(* The main loop of the Tetris program and displayInterrupt(), which share *)
(* the frame buffer and two flags without a lock: the interrupt may come   *)
(* between any two steps of the loop, and in the middle of a drawing call. *)
(* The interrupt itself is not interrupted.                                *)
(*                                                                         *)
(* displayRefresh() copies the whole buffer: its tests of the dirty flags  *)
(* are assignments (display.c:100, 116), so each of them holds.            *)
(***************************************************************************)
EXTENDS Naturals, TetrisFrames

VARIABLES
    inframe,                    \* main() is between finding the refresh done
                                \* and clearing its status
    drawing,                    \* main() is inside a drawing function
    displayFrameBufferReady,
    displayRefreshDone,
    stale,                      \* the screen does not show the frame buffer
    torn                        \* what it shows was half drawn when copied

consoleVars == <<state, calls, inframe, drawing, displayFrameBufferReady,
                 displayRefreshDone, stale, torn>>

InFrame(call) == inframe /\ calls # << >> /\ Head(calls) = call

(* calls holds what is left of the frame under way.                        *)
ConsoleTypeOK ==
    /\ state \in Intro \cup Game
    /\ \E c \in Calls, done \in 0 .. 3 :
        done <= Len(c) /\ calls = SubSeq(c, done + 1, Len(c))
    /\ \A flag \in {inframe, drawing, displayFrameBufferReady,
                    displayRefreshDone, stale, torn} : flag \in BOOLEAN
    /\ drawing => InFrame("draw")

(* main() has overlaid the tiles and loaded the splash screen.             *)
ConsoleInit ==
    /\ state = "INTRO_0"
    /\ calls = << >>
    /\ inframe = FALSE
    /\ drawing = FALSE
    /\ displayFrameBufferReady = FALSE
    /\ displayRefreshDone = FALSE
    /\ stale = TRUE
    /\ torn = FALSE

-----------------------------------------------------------------------------
(* displayRefreshIsDone() is true: the frame of the present state begins.  *)
StartFrame ==
    /\ ~inframe
    /\ displayRefreshDone
    /\ inframe' = TRUE
    /\ \E s \in Intro \cup Game, c \in Calls :
        /\ FrameOf(state, s, c)
        /\ state' = s
        /\ calls' = c
    /\ UNCHANGED <<drawing, displayFrameBufferReady, displayRefreshDone, stale, torn>>

BeginDraw ==
    /\ InFrame("draw")
    /\ ~drawing
    /\ drawing' = TRUE
    /\ stale' = TRUE
    /\ UNCHANGED <<state, calls, inframe, displayFrameBufferReady, displayRefreshDone, torn>>

EndDraw ==
    /\ InFrame("draw")
    /\ drawing
    /\ drawing' = FALSE
    /\ calls' = Tail(calls)
    /\ UNCHANGED <<state, inframe, displayFrameBufferReady, displayRefreshDone, stale, torn>>

displaySetFrameBufferReady ==
    /\ InFrame("ready")
    /\ displayFrameBufferReady' = TRUE
    /\ calls' = Tail(calls)
    /\ UNCHANGED <<state, inframe, drawing, displayRefreshDone, stale, torn>>

(* The frame ends with displayClearRefreshStatus(): a refresh that came    *)
(* while it was computed is forgotten.                                     *)
displayClearRefreshStatusX == UNCHANGED displayRefreshDone
displayClearRefreshStatus  == displayRefreshDone' = FALSE

EndFrame ==
    /\ inframe
    /\ calls = << >>
    /\ inframe' = FALSE
    /\ displayClearRefreshStatus
    /\ UNCHANGED <<state, calls, drawing, displayFrameBufferReady, stale, torn>>

-----------------------------------------------------------------------------
displayRefresh ==
    IF displayFrameBufferReady
    THEN /\ torn' = drawing
         /\ stale' = drawing
         /\ displayFrameBufferReady' = FALSE
    ELSE UNCHANGED <<displayFrameBufferReady, stale, torn>>

displayInterrupt ==
    /\ displayRefresh
    /\ displayRefreshDone' = TRUE
    /\ UNCHANGED <<state, calls, inframe, drawing>>

-----------------------------------------------------------------------------
Main == \/ StartFrame \/ BeginDraw \/ EndDraw
        \/ displaySetFrameBufferReady \/ EndFrame
ConsoleNext == Main \/ displayInterrupt

(* The timer keeps firing, and the interrupt leaves time for main().       *)
ConsoleSpec == /\ ConsoleInit /\ [][ConsoleNext]_consoleVars
               /\ WF_consoleVars(Main) /\ WF_consoleVars(displayInterrupt)

-----------------------------------------------------------------------------
(* A frame begins only after the interrupt has shown what the last one had *)
(* ready: no frame is skipped, and none draws over a picture that waits,   *)
(* because the refresh status is cleared last (main.c:106, 288).           *)
ShownBeforeNextFrame == ~inframe /\ displayRefreshDone => ~displayFrameBufferReady

(* The frame that ends a game, before its last drawing call is over.       *)
GameEnds == inframe /\ state = "INTRO_0" /\ calls # << >>

(* The intro is never seen half drawn: only a frame of the game, or the    *)
(* one that ends it, draws into a picture it has already made ready.           *)
TearsOnlyInGame ==
    [][~torn /\ torn' => state \in Game \cup {"INTRO_0"}]_consoleVars

(* Whatever is drawn is seen whole in the end.  Frames that draw again    *)
(* after making the buffer ready (both buttons pressed, or the end of a    *)
(* game) can be torn; the torn picture is replaced, unless every game ends *)
(* at once and tears the next one.                                         *)
DrawnIsShown == (stale \/ torn) ~> ((~stale /\ ~torn) \/ GameEnds)
=============================================================================
