--------------------------- MODULE YmodemDownload ---------------------------
(***************************************************************************)
(* A board downloads from a host: ymodem_receive() (YmodemReceiver) and    *)
(* the host's sender (HostSender) on a serial line that damages what it    *)
(* carries.  This is menu entry 'l' of the H8 flash writer and the main    *)
(* loop of the LPC2294 one.  On a "strange" line no host answers and       *)
(* something that is no YMODEM sender transmits what it likes.             *)
(***************************************************************************)
EXTENDS YmodemReceiver, HostSender, FaultyLine

(* The board's callers lend a whole number of long blocks (32768 and 1024  *)
(* bytes).  A sender that fills the last block to 1K relies on it.         *)
ASSUME WholeBlocksAssumption == BufLen % LongLen = 0

CONSTANT
    Strangers   \* bound: what another device on the line may transmit

ASSUME StrangersAssumption == Strangers \subseteq Token

VARIABLE
    complete    \* history: files whose end the receiver has acknowledged

vars == <<line, rcv, host, damage, complete>>

Init == /\ complete = 0
        /\ toRcv = << >>
        /\ toSnd = << >>
        /\ RcvInit
        /\ HostInit
        /\ DamageInit

-----------------------------------------------------------------------------
RcvReads == RcvDamaged \/ RcvAbort \/ RcvEot \/ RcvWrongNumber
            \/ RcvHeader \/ RcvEmptyHeader \/ RcvData
HostReads == HostHeader \/ HostHeaderAck \/ HostStart \/ HostDataAck
             \/ HostEotAck \/ HostNotAcked \/ HostIgnores \/ HostCancelled

EndsFile == RcvEot /\ packets_received # 0
Receives == /\ RcvReads
            /\ complete' = IF EndsFile THEN complete + 1 ELSE complete
            /\ UNCHANGED <<host, damage>>
Strange  == "strange" \in Faults
Sends    == ~Strange /\ HostReads /\ UNCHANGED <<rcv, damage, complete>>
Busy == \/ toRcv # << >> /\ result = "none"
        \/ toSnd # << >> /\ phase \notin {"done", "failed"}

BoardTimesOut == MayTimeOut("board", Busy) /\ RcvTimeout
                 /\ UNCHANGED <<host, damage, complete>>
HostTimesOut  == /\ ~Strange /\ MayTimeOut("host", Busy)
                 /\ HostTimeout \/ HostPatienceEnds
                 /\ UNCHANGED <<rcv, damage, complete>>

Intrudes == /\ Strange /\ faults < MaxFaults
            /\ faults' = faults + 1
            /\ \E token \in Strangers : toRcv' = Put(toRcv, <<token>>)
            /\ UNCHANGED <<toSnd, wire, rcv, host, complete>>

Next == \/ Receives \/ Sends \/ BoardTimesOut \/ HostTimesOut
        \/ Damage /\ UNCHANGED <<rcv, host, complete>>
        \/ Intrudes

Spec == Init /\ [][Next]_vars

(* Both programs run: what has arrived is read, and _getchar() does return *)
(* when nothing arrives.  The line is under no obligation to do damage.    *)
Fairness == /\ WF_vars(Receives)
            /\ WF_vars(Sends)
            /\ WF_vars(BoardTimesOut)
            /\ WF_vars(HostTimesOut)

FairSpec == Spec /\ Fairness

-----------------------------------------------------------------------------
TypeOK == /\ toRcv \in Seq(Token)
          /\ toSnd \in Seq(Reply)
          /\ RcvTypeOK
          /\ HostTypeOK
          /\ wire \in Lines /\ faults \in 0 .. MaxFaults
          /\ complete \in Nat

(* To its caller the receiver does what FileReception promises: no block   *)
(* is lost, repeated or out of place and no file ends early, however often *)
(* packets and answers were damaged, repeated or late.                     *)
Reception == INSTANCE FileReception WITH
    contents <- buf,
    got      <- buf_ptr,
    length   <- Returned,
    outcome  <- result,
    honest   <- ~Strange
DeliversTheFiles == Reception!Spec

HoldsFile(f) == \A i \in 1 .. Len(Files[f]) : buf[i - 1] = Files[f][i]

(* ymodem.c:213, "Returns the length of the file received": a call that    *)
(* reports a length has the whole of the session's last file in the        *)
(* buffer.                                                                 *)
ReceivedIsWhole ==
    Returned > 0 /\ ~Strange => /\ Returned = Len(Files[Len(Files)])
                                /\ HoldsFile(Len(Files))

(* Fewer damaged or lost packets than MAX_ERRORS never cost the session:   *)
(* on a line that does no worse, and without hasty timeouts, it ends well  *)
(* on both sides.                                                          *)
LosesPacketsOnly == /\ Patient = {"board", "host"}
                    /\ Faults \subseteq {"garble", "truncate", "lose"}
                    /\ MaxFaults < MaxErrors /\ MaxFaults <= MaxRetries
EventuallyReceived ==
    LosesPacketsOnly => <>(result = "received" /\ phase = "done")

(* ymodem.h:52, "Number of consecutive receive errors before giving up":   *)
(* when the sender has left, the receiver gives up too.  The code keeps    *)
(* that promise only in the middle of a file: between files nothing counts *)
(* as an error and it asks for ever.                                       *)
GivesUpMidFile ==
    phase \in {"done", "failed"} ~> (result # "none" \/ packets_received = 0)
=============================================================================
