---------------------------- MODULE YmodemUpload ----------------------------
(***************************************************************************)
(* A board uploads to a host: ymodem_send() (YmodemSender) and the host's  *)
(* receiver (HostReceiver) on a faulty line.  This is menu entry 's' of    *)
(* the H8 flash writer.  The user starts the host's receiver at the        *)
(* prompt, before, while or after ymodem_send() sleeps, so that up to      *)
(* Stale characters may wait in the UART when the flush loop starts.       *)
(***************************************************************************)
EXTENDS YmodemSender, HostReceiver, FaultyLine

CONSTANT Stale
ASSUME StaleAssumption == Stale \in 0 .. LineCap

vars == <<line, snd, hostRcv, damage>>

Init == /\ toRcv = << >>
        /\ \E n \in 0 .. Stale : toSnd = [i \in 1 .. n |-> "CRC"]
        /\ SndInit
        /\ HostRcvInit
        /\ DamageInit

-----------------------------------------------------------------------------
(* A reply was read.  (The actions that a reply and a timeout share are    *)
(* told apart by what they do to the queue.)                               *)
SndReads == SndNext /\ toSnd' # toSnd
SndTimes == SndNext /\ toSnd' = toSnd

Sends    == SndReads /\ UNCHANGED <<hostRcv, damage>>
Receives == HostRcvReads /\ UNCHANGED <<snd, damage>>
Busy == \/ toRcv # << >> /\ expects \notin {"done", "failed"}
        \/ toSnd # << >> /\ at # "returned"

BoardTimesOut == MayTimeOut("board", Busy) /\ SndTimes
                 /\ UNCHANGED <<hostRcv, damage>>
HostTimesOut  == MayTimeOut("host", Busy) /\ HostRcvTimeout
                 /\ UNCHANGED <<snd, damage>>

Next == \/ Sends \/ Receives \/ BoardTimesOut \/ HostTimesOut
        \/ Damage /\ UNCHANGED <<snd, hostRcv>>

Spec == Init /\ [][Next]_vars

(* Both programs run, and _getchar() and the host's wait for a packet end  *)
(* when nothing arrives.  The host's timer starts again with every packet, *)
(* so that packets that keep coming keep it from asking.  Only while it    *)
(* has no header does it ask at intervals of its own: the greeting is no   *)
(* packet, and does not hold it up.                                        *)
Fairness == /\ WF_vars(Sends)
            /\ WF_vars(Receives)
            /\ WF_vars(BoardTimesOut)
            /\ WF_vars(HostTimesOut)
            /\ SF_vars(HostTimesOut /\ expects = "header")

FairSpec == Spec /\ Fairness

-----------------------------------------------------------------------------
TypeOK == /\ toRcv \in Seq(Token)
          /\ toSnd \in Seq(Reply)
          /\ SndTypeOK
          /\ HostRcvTypeOK
          /\ wire \in Lines /\ faults \in 0 .. MaxFaults

(* What the host has is a prefix of what the caller gave, whatever was     *)
(* damaged and whichever answer was lost or read late; and a session the   *)
(* host has ended well has the whole of the buffer (ymodem.c:414-456).     *)
UploadIsWhole ==
    /\ \A i \in 1 .. Len(got) : i <= SendSize => got[i] = Source[i]
    /\ expects \in {"end", "done"} => announced = SendSize /\ Len(got) >= SendSize

(* Once send_data_packets() runs, 0 is never returned: 0 tells the caller  *)
(* that the host has none of the data.                                     *)
ZeroMeansNothingSent == ret = "zero" => got = << >>

(* The blocks the sender counts as acknowledged are those the host stored: *)
(* no ACK is taken for the answer to another block.                        *)
CountsAgree ==
    at = "data" => SendSize - left <= Len(got)

(* ymodem_send() returns, whatever the line does to packets and answers,   *)
(* or it repeats the header for ever.  That loop has no count              *)
(* (ymodem.c:475-507): a host that has the header acknowledges it again    *)
(* but does not ask again, and is kept from asking by the next header.  In *)
(* no other place can the sender be kept for ever, and not there either    *)
(* once the host has anything of the file.  The conditions: no answer is   *)
(* lost altogether, and neither side gives up on what is under way.        *)
RepeatsHeader == at \in {"header", "asked"} /\ expects = "data" /\ got = << >>
ReturnsOrRepeatsHeader ==
    Patient = {"board", "host"} /\ "loseReply" \notin Faults
        => <>(ret # "none") \/ <>[]RepeatsHeader

(* One packet that is damaged, the header included, never costs the        *)
(* upload, if answers arrive as they were sent, neither side gives up on   *)
(* what is under way and the host keeps asking until it has the header.    *)
EventuallyUploaded ==
    (/\ Patient = {"board", "host"}
     /\ Faults \subseteq {"garble", "truncate"} /\ MaxFaults <= 1)
        => <>(ret = "size" /\ expects = "done")
=============================================================================
