----------------------------- MODULE HostSender -----------------------------
(***************************************************************************)
(* The YMODEM sender on the host that a board downloads from: a terminal   *)
(* program, external to this repository.  It is modelled from what         *)
(* ymodem_receive() and ymodem_send() expect of a peer: a filename block   *)
(* per file, data blocks numbered from 1, a retransmission on anything but *)
(* ACK, EOT until it is acknowledged, an empty filename block at the end.  *)
(* Unlike the repository's own sender it gives up after MaxRetries.        *)
(***************************************************************************)
EXTENDS Ymodem, FiniteSets

CONSTANTS
    Files,      \* the files of the session: a sequence of sequences of bytes
    Pad,        \* what fills the last block
    TailLen,    \* payload used once less than LongLen is left
    MaxRetries  \* retransmissions of one packet before giving up

ASSUME FilesAssumption == Files \in Seq(Seq(Byte)) /\ Pad \in Byte
ASSUME TailLenAssumption == TailLen \in PacketLen
ASSUME MaxRetriesAssumption == MaxRetries \in Nat

VARIABLES
    phase,      \* what the sender waits for, see HostPhase
    file,       \* index of the current file; past the end: the session ends
    sent,       \* bytes of it that were acknowledged
    block,      \* number of the data block under way
    retries

host == <<phase, file, sent, block, retries>>

(* "ask": the character that asks for a header;   "header": its ACK        *)
(* "start": the character that asks for the data; "data": a block's ACK    *)
(* "eot": the ACK of EOT                                                   *)
HostPhase == {"ask", "header", "start", "data", "eot", "done", "failed"}

HostTypeOK == /\ phase \in HostPhase
              /\ file \in 1 .. Len(Files) + 1
              /\ sent \in Nat
              /\ block \in Nat
              /\ retries \in 0 .. MaxRetries

HostInit == /\ phase = "ask"
            /\ file = 1
            /\ sent = 0
            /\ block = 1
            /\ retries = 0

-----------------------------------------------------------------------------
BlockLen(offset) ==
    IF Len(Files[file]) - offset >= LongLen THEN LongLen ELSE TailLen

(* The bytes of the current file at an offset, padded to a whole block.    *)
BlockData(offset) ==
    [i \in 1 .. BlockLen(offset) |->
        IF offset + i <= Len(Files[file]) THEN Files[file][offset + i] ELSE Pad]

(* Filename block: the name is not zero unless the session is over.        *)
Header == [kind |-> "packet", seq |-> 0, empty |-> file > Len(Files),
           size |-> IF file > Len(Files) THEN 0 ELSE Len(Files[file]),
           data |-> [i \in 1 .. ShortLen |-> Pad]]

(* A data block; its first bytes read as a filename are not zero.          *)
DataBlock(number, offset) ==
    [kind |-> "packet", seq |-> number % SeqMod, empty |-> FALSE, size |-> 0,
     data |-> BlockData(offset)]

EndOrBlock(number, offset) ==
    IF offset < Len(Files[file]) THEN DataBlock(number, offset) ELSE Eot
EndOrData(offset) == IF offset < Len(Files[file]) THEN "data" ELSE "eot"

Emit(token) == toRcv' = Put(toRcv, <<token>>)

(* What is sent again when it was not acknowledged.                        *)
Pending == CASE phase = "header" -> Header
             [] phase = "data"   -> DataBlock(block, sent)
             [] OTHER            -> Eot

Hears(replies) == /\ phase \notin {"done", "failed"}
                  /\ toSnd # << >>
                  /\ Head(toSnd) \in replies
                  /\ toSnd' = Tail(toSnd)

-----------------------------------------------------------------------------
HostHeader == /\ phase = "ask"
              /\ Hears({"CRC", "NAK"})
              /\ Emit(Header)
              /\ phase' = "header"
              /\ retries' = 0
              /\ UNCHANGED <<file, sent, block>>

HostHeaderAck == /\ phase = "header"
                 /\ Hears({"ACK"})
                 /\ phase' = IF file > Len(Files) THEN "done" ELSE "start"
                 /\ retries' = 0
                 /\ UNCHANGED <<toRcv, file, sent, block>>

HostStart == /\ phase = "start"
             /\ Hears({"CRC", "NAK"})
             /\ Emit(EndOrBlock(1, 0))
             /\ phase' = EndOrData(0)
             /\ block' = 1
             /\ sent' = 0
             /\ retries' = 0
             /\ UNCHANGED file

HostDataAck == /\ phase = "data"
               /\ Hears({"ACK"})
               /\ sent' = sent + BlockLen(sent)
               /\ block' = block + 1
               /\ Emit(EndOrBlock(block', sent'))
               /\ phase' = EndOrData(sent')
               /\ retries' = 0
               /\ UNCHANGED file

HostEotAck == /\ phase = "eot"
              /\ Hears({"ACK"})
              /\ phase' = "ask"
              /\ file' = file + 1
              /\ retries' = 0
              /\ UNCHANGED <<toRcv, sent, block>>

GiveUpOrResend ==
    IF retries = MaxRetries
    THEN /\ phase' = "failed"
         /\ toRcv' = Put(toRcv, <<Can, Can>>)
         /\ UNCHANGED <<file, sent, block, retries>>
    ELSE /\ Emit(Pending)
         /\ retries' = retries + 1
         /\ UNCHANGED <<phase, file, sent, block>>

(* Anything but ACK while a packet is under way, or no answer in time.     *)
HostNotAcked == /\ phase \in {"header", "data", "eot"}
                /\ Hears({"NAK", "CRC", "noise"})
                /\ GiveUpOrResend

HostTimeout == /\ phase \in {"header", "data", "eot"}
               /\ toSnd' = toSnd
               /\ GiveUpOrResend

(* Between packets the sender only waits, but not for ever once the        *)
(* session has begun.                                                      *)
HostIgnores == /\ phase \in {"ask", "start"}
               /\ Hears({"ACK", "noise"})
               /\ UNCHANGED <<toRcv, host>>

HostPatienceEnds == /\ phase = "start" \/ (phase = "ask" /\ file > 1)
                    /\ phase' = "failed"
                    /\ UNCHANGED <<toRcv, toSnd, file, sent, block, retries>>

HostCancelled == /\ Hears({"CAN"})
                 /\ phase' = "failed"
                 /\ UNCHANGED <<toRcv, file, sent, block, retries>>

HostNext == \/ HostHeader \/ HostHeaderAck \/ HostStart \/ HostDataAck
            \/ HostEotAck \/ HostNotAcked \/ HostTimeout \/ HostIgnores
            \/ HostPatienceEnds \/ HostCancelled
=============================================================================
