------------------------------- MODULE Ymodem -------------------------------
(***************************************************************************)
(* What travels on the serial line of a YMODEM session, and how the two    *)
(* ends of thirdparty/ymodem/ymodem.c write it.                            *)
(*                                                                         *)
(* A packet is one token: receive_packet() reads all its bytes before it   *)
(* looks at any of them.  A packet carries two views of the same payload,  *)
(* because the receiver decides from its own state which one it reads: the *)
(* filename block (are its first four bytes zero, and what does            *)
(* str_to_u32() make of the length field) and the plain data.  A damaged   *)
(* packet is the token for what receive_packet() makes of it.              *)
(***************************************************************************)
EXTENDS Integers, Sequences

CONSTANTS
    Byte,       \* the values a byte of a file may have
    ShortLen,   \* PACKET_SIZE: payload of an SOH packet (128 in the code)
    LongLen,    \* PACKET_1K_SIZE: payload of an STX packet (1024)
    SeqMod,     \* block numbers are sent modulo this (256)
    LineCap     \* tokens a direction of the line holds; more are overrun

ASSUME LenAssumption == /\ ShortLen \in Nat \ {0}
                        /\ LongLen \in Nat \ {0}
                        /\ ShortLen < LongLen
ASSUME SeqModAssumption == SeqMod \in Nat /\ SeqMod > 1
ASSUME LineCapAssumption == LineCap \in Nat \ {0}

VARIABLES
    toRcv,      \* tokens on their way to the receiver
    toSnd       \* reply characters on their way to the sender

line == <<toRcv, toSnd>>

-----------------------------------------------------------------------------
(* Replies.  "noise" is any character with no meaning in the protocol.     *)
Reply == {"ACK", "NAK", "CAN", "CRC", "noise"}

SeqNo == 0 .. SeqMod - 1

PacketLen == {ShortLen, LongLen}

Payload == [1 .. ShortLen -> Byte] \cup [1 .. LongLen -> Byte]

Packet == [kind : {"packet"}, seq : SeqNo, empty : BOOLEAN, size : Nat,
           data : Payload]

(* Everything else receive_packet() can meet.                              *)
(*   garbled  a whole packet whose complement or CRC is wrong: returns 1   *)
(*   short    a packet that stops in the middle: times out, returns -1     *)
(*   EOT      returns 0 with length 0                                      *)
(*   CAN      followed by a second CAN or not: returns 0 with length -1    *)
(*   noise    any other first character: returns 0 with length -1          *)
Mark == [kind : {"garbled", "short", "EOT", "CAN", "noise"}]

Token == Packet \cup Mark

Garbled == [kind |-> "garbled"]
Short   == [kind |-> "short"]
Eot     == [kind |-> "EOT"]
Can     == [kind |-> "CAN"]
Noise   == [kind |-> "noise"]

-----------------------------------------------------------------------------
(* _putchar(): a UART with no room left loses what is written to it.       *)
Put(queue, tokens) ==
    IF Len(queue) + Len(tokens) <= LineCap THEN queue \o tokens ELSE queue
=============================================================================
