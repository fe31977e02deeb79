--------------------------- MODULE FileReception ----------------------------
(***************************************************************************)
(* What ymodem_receive() promises to its caller, without a word about      *)
(* packets: the files of the session come into the caller's buffer, each   *)
(* from its start, each growing only at its end, and a call that succeeds  *)
(* has had all of them.  It may fail at any time.  From a sender that is   *)
(* not honest nothing is promised here.                                    *)
(***************************************************************************)
EXTENDS Integers, Sequences

CONSTANTS
    Files,      \* the files of the session
    BufLen      \* the length of the caller's buffer

VARIABLES
    contents,   \* the caller's buffer
    got,        \* how much of it the file under way has filled
    complete,   \* files of the session that have arrived
    length,     \* what the call reports
    outcome,    \* "none" while it runs, then "failed" or "received"
    honest      \* whether the other end sends the Files

vars == <<contents, got, complete, length, outcome, honest>>

Init == /\ got = 0
        /\ complete = 0
        /\ length = 0
        /\ outcome = "none"

Under == Files[complete + 1]

Store == /\ outcome = "none"
         /\ complete < Len(Files)
         /\ got' \in got + 1 .. BufLen
         /\ \A i \in 1 .. got : contents'[i - 1] = contents[i - 1]
         /\ \A i \in got + 1 .. got' :
                i <= Len(Under) => contents'[i - 1] = Under[i]
         /\ UNCHANGED <<complete, length, outcome, honest>>

(* A file ends only when all of it is there.                               *)
EndFile == /\ outcome = "none"
           /\ complete < Len(Files)
           /\ got >= Len(Under)
           /\ complete' = complete + 1
           /\ got' = 0
           /\ UNCHANGED <<contents, length, outcome, honest>>

(* The length reported is that of the last file, which is in the buffer.   *)
Succeed == /\ outcome = "none"
           /\ complete = Len(Files)
           /\ outcome' = "received"
           /\ length' = Len(Files[Len(Files)])
           /\ UNCHANGED <<contents, got, complete, honest>>

GiveUp == /\ outcome = "none"
          /\ outcome' = "failed"
          /\ UNCHANGED <<contents, got, complete, length, honest>>

Next == Store \/ EndFile \/ Succeed \/ GiveUp

Spec == Init /\ [][honest => Next]_vars
=============================================================================
