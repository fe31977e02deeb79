---------------------------- MODULE HostReceiver ----------------------------
(***************************************************************************)
(* The YMODEM receiver on the host that a board uploads to, external to    *)
(* this repository: it is what ymodem_send() expects of its peer.  It asks *)
(* with 'C' until a header comes, acknowledges a repeated block without    *)
(* storing it twice, answers damage with NAK, skips characters that start  *)
(* nothing, keeps the announced number of bytes, and gives up after        *)
(* MaxTries bad receives in a row.                                         *)
(***************************************************************************)
EXTENDS Ymodem

CONSTANT MaxTries

ASSUME MaxTriesAssumption == MaxTries \in Nat \ {0}

VARIABLES
    expects,    \* "header", "data", "end"; then "done" or "failed"
    next,       \* number of the block it waits for
    got,        \* bytes received, the padding of the last block included
    announced,  \* size in the header
    tries       \* bad receives in a row

hostRcv == <<expects, next, got, announced, tries>>

HostRcvTypeOK ==
    /\ expects \in {"header", "data", "end", "done", "failed"}
    /\ next \in Nat
    /\ got \in Seq(Byte)
    /\ announced \in Nat
    /\ tries \in 0 .. MaxTries

HostRcvInit == /\ expects = "header"
               /\ next = 0
               /\ got = << >>
               /\ announced = 0
               /\ tries = 0

-----------------------------------------------------------------------------
Replies(replies) == toSnd' = Put(toSnd, replies)

Takes(kinds) == /\ expects \notin {"done", "failed"}
                /\ toRcv # << >>
                /\ Head(toRcv).kind \in kinds
                /\ toRcv' = Tail(toRcv)

HostTakesHeader ==
    /\ expects = "header"
    /\ Takes({"packet"})
    /\ Head(toRcv).seq = 0 /\ ~Head(toRcv).empty
    /\ Replies(<<"ACK", "CRC">>)
    /\ expects' = "data"
    /\ next' = 1
    /\ announced' = Head(toRcv).size
    /\ tries' = 0
    /\ UNCHANGED got

HostTakesBlock ==
    /\ expects = "data"
    /\ Takes({"packet"})
    /\ Head(toRcv).seq = next % SeqMod
    /\ got' = got \o Head(toRcv).data
    /\ next' = next + 1
    /\ Replies(<<"ACK">>)
    /\ tries' = 0
    /\ UNCHANGED <<expects, announced>>

HostTakesRepeat ==
    /\ expects = "data"
    /\ Takes({"packet"})
    /\ Head(toRcv).seq = (next - 1) % SeqMod
    /\ Replies(<<"ACK">>)
    /\ UNCHANGED hostRcv

HostTakesEot ==
    /\ expects \in {"data", "end"}
    /\ Takes({"EOT"})
    /\ expects' = "end"
    /\ Replies(<<"ACK", "CRC">>)
    /\ tries' = 0
    /\ UNCHANGED <<next, got, announced>>

HostTakesLast ==
    /\ expects = "end"
    /\ Takes({"packet"})
    /\ expects' = "done"
    /\ Replies(<<"ACK">>)
    /\ UNCHANGED <<next, got, announced, tries>>

HostSkips == /\ Takes({"noise"})
             /\ UNCHANGED <<toSnd, hostRcv>>

HostRcvCancelled == /\ Takes({"CAN"})
                    /\ expects' = "failed"
                    /\ UNCHANGED <<toSnd, next, got, announced, tries>>

(* A bad receive, or a packet that is neither the expected nor the last.   *)
OutOfPlace == \/ expects = "header" /\ Head(toRcv).seq # 0
              \/ expects = "data" /\ Head(toRcv).seq \notin
                                       {next % SeqMod, (next - 1) % SeqMod}

BadReceive ==
    IF tries + 1 < MaxTries
    THEN /\ Replies(<<IF expects = "data" THEN "NAK" ELSE "CRC">>)
         /\ tries' = tries + 1
         /\ UNCHANGED <<expects, next, got, announced>>
    ELSE /\ Replies(<<"CAN", "CAN">>)
         /\ expects' = "failed"
         /\ UNCHANGED <<next, got, announced, tries>>

HostTakesDamaged == /\ \/ Takes({"garbled", "short"})
                       \/ Takes({"packet"}) /\ OutOfPlace
                       \/ Takes({"EOT"}) /\ expects = "header"
                    /\ BadReceive

(* Nothing arrives: it asks again, without end until the header has come.  *)
HostRcvTimeout == /\ expects \notin {"done", "failed"}
                  /\ toRcv' = toRcv
                  /\ IF expects = "header"
                     THEN Replies(<<"CRC">>) /\ UNCHANGED hostRcv
                     ELSE BadReceive

HostRcvReads == \/ HostTakesHeader \/ HostTakesBlock \/ HostTakesRepeat
                \/ HostTakesEot \/ HostTakesLast \/ HostSkips
                \/ HostRcvCancelled \/ HostTakesDamaged
=============================================================================
