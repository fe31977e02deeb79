--------------------------- MODULE YmodemReceiver ---------------------------
(***************************************************************************)
(* ymodem_receive(): one step per call of receive_packet(), that is per    *)
(* iteration of the inner loop, with the whole of the switch that follows  *)
(* it and, when the file is done, the head of the outer loop.              *)
(*                                                                         *)
(* The caller's buffer has one byte more than it lends: the flash writers  *)
(* keep a canary there and look at it after the call (theirs is a byte a   *)
(* file may hold too; here it is not one, so that a stray store shows).    *)
(***************************************************************************)
EXTENDS Ymodem

CONSTANTS
    BufLen,     \* the length given to ymodem_receive()
    MaxErrors,  \* MAX_ERRORS
    Zero,       \* what the caller cleared the buffer with
    Canary      \* what the caller wrote behind the buffer

ASSUME BufLenAssumption == BufLen \in Nat \ {0}
ASSUME MaxErrorsAssumption == MaxErrors \in Nat \ {0}
ASSUME BufByteAssumption == Zero \in Byte /\ Canary \notin Byte

VARIABLES
    packets_received,   \* in this file, the header included
    errors,             \* receive errors in a row
    crc_nak,            \* the answer that starts the data phase
    buf,                \* the caller's buffer and its canary
    buf_ptr,            \* offset at which the next packet is stored
    size,               \* what the last header announced
    errno,              \* the reason of a return of 0
    result              \* "none" while running, then "failed" or "received"

rcv == <<packets_received, errors, crc_nak, buf, buf_ptr, size, errno, result>>

Errno == {"none", "ABORT", "BUFFERTOOSMALL", "BUFFEROVERFLOW",
          "TOOMANYRECVERRORS"}

RcvTypeOK ==
    /\ packets_received \in Nat
    /\ errors \in Nat
    /\ crc_nak \in BOOLEAN
    /\ buf \in [0 .. BufLen -> Byte \cup {Canary}]
    /\ buf_ptr \in Nat
    /\ size \in Nat
    /\ errno \in Errno
    /\ result \in {"none", "failed", "received"}

RcvInit ==
    /\ packets_received = 0
    /\ errors = 0
    /\ crc_nak = TRUE
    /\ buf = [i \in 0 .. BufLen |-> IF i = BufLen THEN Canary ELSE Zero]
    /\ buf_ptr = 0
    /\ size = 0
    /\ errno = "none"
    /\ result = "none"

-----------------------------------------------------------------------------
Answer(replies) == toSnd' = Put(toSnd, replies)

Fail(reason) == errno' = reason /\ result' = "failed"

(* receive_packet() consumes the next token, which is of one of the kinds.  *)
Reads(kinds) == /\ result = "none"
                /\ toRcv # << >>
                /\ Head(toRcv).kind \in kinds
                /\ toRcv' = Tail(toRcv)

(* The checks of the loop body, each next to the slip it would be easy to  *)
(* make in it: the slips (names ending in X) are used by mutants only.     *)
InOrder(p)  == p.seq = packets_received % SeqMod
ReadsNext   == Reads({"packet"}) /\ InOrder(Head(toRcv))

TooBigX(announced) == announced > BufLen + 1
TooBig(announced)  == announced > BufLen

FitsX(p)        == buf_ptr <= BufLen
Fits(p)         == buf_ptr + Len(p.data) <= BufLen

TooManyEarlyX(count) == count >= MaxErrors - 1
TooMany(count)       == count >= MaxErrors

(* Errors count only once the header of a file has been received.          *)
CountedX == errors
Counted  == IF packets_received # 0 THEN errors + 1 ELSE errors

(* Where the next file of the session starts: the head of the outer loop.  *)
NextFileX == /\ packets_received' = 0
             /\ buf_ptr' = buf_ptr
             /\ crc_nak' = TRUE
NextFile == /\ packets_received' = 0
            /\ buf_ptr' = 0
            /\ crc_nak' = TRUE

-----------------------------------------------------------------------------
(* The default branch: a damaged packet (1) or a timeout (-1).             *)
ReceiveError ==
    /\ errors' = Counted
    /\ IF packets_received # 0 /\ TooMany(Counted)
       THEN Answer(<<"CAN", "CAN">>) /\ Fail("TOOMANYRECVERRORS")
       ELSE Answer(<<"CRC">>) /\ UNCHANGED <<errno, result>>
    /\ UNCHANGED <<packets_received, crc_nak, buf, buf_ptr, size>>

RcvDamaged == Reads({"garbled", "short"}) /\ ReceiveError

(* _getchar() returns -1 before the next token has arrived.                *)
RcvTimeout == result = "none" /\ toRcv' = toRcv /\ ReceiveError

(* CAN, or a first character that starts nothing: abort.  The second       *)
(* character that is read after a CAN changes nothing, see receive_packet. *)
RcvAbort ==
    /\ Reads({"CAN", "noise"})
    /\ errors' = 0
    /\ Answer(<<"ACK">>)
    /\ Fail("ABORT")
    /\ UNCHANGED <<packets_received, crc_nak, buf, buf_ptr, size>>

(* End of the file: acknowledge it and ask for the next header.            *)
RcvEot ==
    /\ Reads({"EOT"})
    /\ errors' = 0
    /\ Answer(<<"ACK", "CRC">>)
    /\ NextFile
    /\ UNCHANGED <<buf, size, errno, result>>

RcvWrongNumber ==
    /\ Reads({"packet"})
    /\ ~InOrder(Head(toRcv))
    /\ errors' = 0
    /\ Answer(<<"NAK">>)
    /\ UNCHANGED <<packets_received, crc_nak, buf, buf_ptr, size, errno, result>>

(* The filename block.  size is assigned before it is compared.            *)
RcvHeader ==
    /\ ReadsNext
    /\ packets_received = 0
    /\ ~Head(toRcv).empty
    /\ errors' = 0
    /\ size' = Head(toRcv).size
    /\ IF TooBig(size')
       THEN /\ Answer(<<"CAN", "CAN">>)
            /\ Fail("BUFFERTOOSMALL")
            /\ UNCHANGED <<packets_received, crc_nak>>
       ELSE /\ Answer(<<"ACK", IF crc_nak THEN "CRC" ELSE "NAK">>)
            /\ crc_nak' = FALSE
            /\ packets_received' = packets_received + 1
            /\ UNCHANGED <<errno, result>>
    /\ UNCHANGED <<buf, buf_ptr>>

(* An empty filename block ends the session, and the call.                 *)
RcvEmptyHeader ==
    /\ ReadsNext
    /\ packets_received = 0
    /\ Head(toRcv).empty
    /\ errors' = 0
    /\ Answer(<<"ACK">>)
    /\ result' = "received"
    /\ UNCHANGED <<packets_received, crc_nak, buf, buf_ptr, size, errno>>

(* The buffer after the bytes of a packet were stored at an offset.        *)
Stored(data, offset) ==
    [i \in 0 .. BufLen |-> IF i \in offset .. offset + Len(data) - 1
                           THEN data[i - offset + 1] ELSE buf[i]]

RcvData ==
    /\ ReadsNext
    /\ packets_received # 0
    /\ errors' = 0
    /\ IF Fits(Head(toRcv))
       THEN /\ buf' = Stored(Head(toRcv).data, buf_ptr)
            /\ buf_ptr' = buf_ptr + Len(Head(toRcv).data)
            /\ packets_received' = packets_received + 1
            /\ Answer(<<"ACK">>)
            /\ UNCHANGED <<errno, result>>
       ELSE /\ Answer(<<"CAN", "CAN">>)
            /\ Fail("BUFFEROVERFLOW")
            /\ UNCHANGED <<buf, buf_ptr, packets_received>>
    /\ UNCHANGED <<crc_nak, size>>

RcvNext == \/ RcvDamaged \/ RcvTimeout \/ RcvAbort \/ RcvEot
           \/ RcvWrongNumber \/ RcvHeader \/ RcvEmptyHeader \/ RcvData

(* What ymodem_receive() returns, once it has returned.                    *)
Returned == IF result = "received" THEN size ELSE 0
-----------------------------------------------------------------------------
(* What is stated here needs no cooperation from the other end.            *)

(* The byte behind the lent buffer is never written, whatever lengths and  *)
(* numbers the packets carry.                                              *)
CanaryIntact == buf[BufLen] = Canary

(* A size that is reported as received is one the buffer can hold, also    *)
(* when a rejected header came before or after it.                         *)
ReportedSizeFits == Returned <= BufLen

(* The write position and the packet count tell the same story: nothing    *)
(* before the header, then between one short and one long payload per data *)
(* packet.  (packets_received is what the next block number is judged by.) *)
PositionMatchesCount ==
    IF packets_received = 0
    THEN buf_ptr = 0
    ELSE /\ (packets_received - 1) * ShortLen <= buf_ptr
         /\ buf_ptr <= (packets_received - 1) * LongLen

(* No step changes a byte that was stored for the file being received: a   *)
(* repeated, late or forged packet never overwrites an acknowledged one.   *)
AcknowledgedBytesStay ==
    [][\A i \in 0 .. BufLen : i < buf_ptr => buf'[i] = buf[i]]_rcv
=============================================================================
