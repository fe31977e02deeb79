-------------------------- MODULE YmodemAnySender ---------------------------
(***************************************************************************)
(* The receiver on a line where anything may arrive, in any order: a       *)
(* sender that lies, repeats itself, stops, or is not a YMODEM sender at   *)
(* all.  What is stated here needs no cooperation from the other end.      *)
(***************************************************************************)
EXTENDS YmodemReceiver

openVars == <<line, rcv>>

(* The other end, and the wire, put anything into both directions.         *)
Interferes == /\ toRcv' \in Seq(Token)
              /\ toSnd' \in Seq(Reply)
              /\ UNCHANGED rcv

AnyInit == toRcv = << >> /\ toSnd = << >> /\ RcvInit

(* The call has returned: nobody reads the line any more.                  *)
AnyNext == RcvNext \/ Interferes

AnySpec == AnyInit /\ [][AnyNext]_openVars

-----------------------------------------------------------------------------
AnyTypeOK == /\ toRcv \in Seq(Token)
             /\ toSnd \in Seq(Reply)
             /\ RcvTypeOK

(* Five bad receives in a row end the call, and only they do: the fifth is *)
(* never survived and a good token in between starts the count anew.       *)
ErrorBudget == /\ errors <= MaxErrors
               /\ errors = MaxErrors <=> errno = "TOOMANYRECVERRORS"
=============================================================================
