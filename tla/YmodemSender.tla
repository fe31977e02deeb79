---------------------------- MODULE YmodemSender ----------------------------
(***************************************************************************)
(* ymodem_send() with send_packet0(), send_packet() and                    *)
(* send_data_packets().  Every step is one call of _getchar(): what it     *)
(* returned, what the code writes because of it, and the call of           *)
(* _getchar() it then waits in.                                            *)
(***************************************************************************)
EXTENDS Ymodem

CONSTANTS
    Source,     \* the memory behind the caller's pointer
    SendSize,   \* the size given to ymodem_send()
    Pad         \* a filler byte of the filename block

ASSUME SourceAssumption == Source \in Seq(Byte) /\ Pad \in Byte

(* The last block is read in full: the callers' buffers are whole blocks.  *)
ASSUME SendSizeAssumption ==
    /\ SendSize \in Nat
    /\ LET blocks == (SendSize + LongLen - 1) \div LongLen
       IN  blocks * LongLen <= Len(Source)

VARIABLES
    at,         \* the call of _getchar() that runs, see SenderPoint
    snd_crc_nak,    \* a second request for the header is still allowed
    blockno,    \* of send_data_packets()
    left,       \* its argument size, counted down
    ret         \* "none" while running, then what was returned

snd == <<at, snd_crc_nak, blockno, left, ret>>

(* "flush"  line 466   "greet"     line 472   "header" line 483            *)
(* "asked"  line 486   "data"      line 428   "eot"    line 443            *)
(* "closed" line 448   "last"      line 452   "returned"                   *)
SenderPoint == {"flush", "greet", "header", "asked", "data", "eot", "closed",
                "last", "returned"}

SndTypeOK == /\ at \in SenderPoint
             /\ snd_crc_nak \in BOOLEAN
             /\ blockno \in Nat
             /\ left \in 0 .. SendSize
             /\ ret \in {"none", "size", "zero"}

SndInit == /\ at = "flush"
           /\ snd_crc_nak = TRUE
           /\ blockno = 1
           /\ left = SendSize
           /\ ret = "none"

-----------------------------------------------------------------------------
(* send_packet0() with a name and with none.                               *)
Packet0(named) ==
    [kind |-> "packet", seq |-> 0, empty |-> ~named,
     size |-> IF named THEN SendSize ELSE 0,
     data |-> [i \in 1 .. ShortLen |-> Pad]]

(* send_packet() of a data block: always a long one, from the data pointer. *)
DataPacket(number, remaining) ==
    [kind |-> "packet", seq |-> number % SeqMod, empty |-> FALSE, size |-> 0,
     data |-> [i \in 1 .. LongLen |-> Source[SendSize - remaining + i]]]

(* (Names ending in X are slips of the definition below them, for mutants.) *)

(* _getchar() returns a character, or -1.                                  *)
Gets(chars) == /\ toSnd # << >>
               /\ Head(toSnd) \in chars
               /\ toSnd' = Tail(toSnd)
NoAnswer == toSnd' = toSnd

(* A character other than those, or -1.                                    *)
GetsOther(chars) == Gets(Reply \ chars) \/ NoAnswer

Transmit(tokens) == toRcv' = Put(toRcv, tokens)

Return(value) == at' = "returned" /\ ret' = value

(* What is left once a block was acknowledged: its length or all of it.    *)
AfterBlock(remaining) ==
    IF remaining > LongLen THEN remaining - LongLen ELSE 0

(* send_data_packets(): the next block, or EOT when nothing is left.       *)
BlockOrEotX(number, remaining) ==
    IF remaining > LongLen
    THEN at' = "data" /\ Transmit(<<DataPacket(number, remaining)>>)
    ELSE at' = "eot" /\ Transmit(<<Eot>>)
BlockOrEot(number, remaining) ==
    IF remaining > 0
    THEN at' = "data" /\ Transmit(<<DataPacket(number, remaining)>>)
    ELSE at' = "eot" /\ Transmit(<<Eot>>)

-----------------------------------------------------------------------------
(* "Flush the RX FIFO": runs until a character has come, and eats that one. *)
SndFlushed == /\ at = "flush"
              /\ Gets(Reply)
              /\ Transmit(<<Noise>>)
              /\ at' = "greet"
              /\ UNCHANGED <<snd_crc_nak, blockno, left, ret>>

(* The greeting 'C' is no packet, EOT or CAN: it is noise to a receiver.   *)
SndGreetAgain == /\ at = "greet"
                 /\ NoAnswer
                 /\ Transmit(<<Noise>>)
                 /\ UNCHANGED snd

SndGreeted == /\ at = "greet"
              /\ Gets({"CRC"})
              /\ Transmit(<<Packet0(TRUE)>>)
              /\ at' = "header"
              /\ UNCHANGED <<snd_crc_nak, blockno, left, ret>>

SndCancels == Transmit(<<Can, Can>>) /\ Return("zero")

SndNotGreeted == /\ at = "greet"
                 /\ Gets(Reply \ {"CRC"})
                 /\ SndCancels
                 /\ UNCHANGED <<snd_crc_nak, blockno, left>>

SndHeaderAck == /\ at = "header"
                /\ Gets({"ACK"})
                /\ at' = "asked"
                /\ UNCHANGED <<toRcv, snd_crc_nak, blockno, left, ret>>

(* The header goes out again on the first 'C', and on NAK after that one.  *)
SndHeaderAgain == /\ at = "header"
                  /\ \/ Gets({"CRC"}) /\ snd_crc_nak
                     \/ Gets({"NAK"}) /\ ~snd_crc_nak
                  /\ snd_crc_nak' = FALSE
                  /\ Transmit(<<Packet0(TRUE)>>)
                  /\ UNCHANGED <<at, blockno, left, ret>>

SndHeaderRefused == /\ at = "header"
                    /\ \/ GetsOther({"ACK", "CRC", "NAK"})
                       \/ Gets({"CRC"}) /\ ~snd_crc_nak
                       \/ Gets({"NAK"}) /\ snd_crc_nak
                    /\ SndCancels
                    /\ UNCHANGED <<snd_crc_nak, blockno, left>>

SndAsked == /\ at = "asked"
            /\ Gets({"CRC"})
            /\ BlockOrEot(1, SendSize)
            /\ blockno' = 1
            /\ left' = SendSize
            /\ UNCHANGED <<snd_crc_nak, ret>>

(* An ACK without the 'C' behind it: the header goes out again.            *)
SndNotAsked == /\ at = "asked"
               /\ GetsOther({"CRC"})
               /\ at' = "header"
               /\ Transmit(<<Packet0(TRUE)>>)
               /\ UNCHANGED <<snd_crc_nak, blockno, left, ret>>

SndBlockAckX == /\ at = "data"
                /\ Gets({"ACK", "NAK"})
                /\ blockno' = blockno + 1
                /\ left' = AfterBlock(left)
                /\ BlockOrEot(blockno', left')
                /\ UNCHANGED <<snd_crc_nak, ret>>
SndBlockAck == /\ at = "data"
               /\ Gets({"ACK"})
               /\ blockno' = blockno + 1
               /\ left' = AfterBlock(left)
               /\ BlockOrEot(blockno', left')
               /\ UNCHANGED <<snd_crc_nak, ret>>

(* CAN or -1: send_data_packets() returns, and ymodem_send() returns size. *)
SndGivesUpX == /\ \/ at = "data" /\ (Gets({"CAN"}) \/ NoAnswer)
                  \/ at \in {"eot", "last"} /\ NoAnswer
                  \/ at = "closed" /\ GetsOther({"CRC"})
               /\ Return("zero")
               /\ UNCHANGED <<toRcv, snd_crc_nak, blockno, left>>
SndGivesUpLateX == /\ \/ at = "data" /\ (Gets({"CAN"}) \/ NoAnswer)
                      \/ at = "last" /\ NoAnswer
                      \/ at = "closed" /\ GetsOther({"CRC"})
                   /\ Return("size")
                   /\ UNCHANGED <<toRcv, snd_crc_nak, blockno, left>>
SndGivesUp == /\ \/ at = "data" /\ (Gets({"CAN"}) \/ NoAnswer)
                 \/ at \in {"eot", "last"} /\ NoAnswer
                 \/ at = "closed" /\ GetsOther({"CRC"})
              /\ Return("size")
              /\ UNCHANGED <<toRcv, snd_crc_nak, blockno, left>>

SndBlockAgainX == /\ at = "data"
                  /\ Gets({"NAK", "CRC", "noise"})
                  /\ Transmit(<<DataPacket(blockno + 1, left)>>)
                  /\ UNCHANGED snd
SndBlockAgain == /\ at = "data"
                 /\ Gets({"NAK", "CRC", "noise"})
                 /\ Transmit(<<DataPacket(blockno, left)>>)
                 /\ UNCHANGED snd

SndEotAck == /\ at = "eot"
             /\ Gets({"ACK"})
             /\ at' = "closed"
             /\ UNCHANGED <<toRcv, snd_crc_nak, blockno, left, ret>>

SndEotAgain == /\ at = "eot"
               /\ Gets(Reply \ {"ACK"})
               /\ Transmit(<<Eot>>)
               /\ UNCHANGED snd

SndClose == /\ at = "closed"
            /\ Gets({"CRC"})
            /\ Transmit(<<Packet0(FALSE)>>)
            /\ at' = "last"
            /\ UNCHANGED <<snd_crc_nak, blockno, left, ret>>

SndLastAck == /\ at = "last"
              /\ Gets({"ACK"})
              /\ Return("size")
              /\ UNCHANGED <<toRcv, snd_crc_nak, blockno, left>>

SndLastAgain == /\ at = "last"
                /\ Gets(Reply \ {"ACK"})
                /\ Transmit(<<Packet0(FALSE)>>)
                /\ UNCHANGED snd

SndNext == \/ SndFlushed \/ SndGreetAgain \/ SndGreeted \/ SndNotGreeted
           \/ SndHeaderAck \/ SndHeaderAgain \/ SndHeaderRefused \/ SndAsked
           \/ SndNotAsked \/ SndBlockAck \/ SndGivesUp \/ SndBlockAgain
           \/ SndEotAck \/ SndEotAgain \/ SndClose \/ SndLastAck \/ SndLastAgain
=============================================================================
