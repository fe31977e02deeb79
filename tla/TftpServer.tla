----------------------------- MODULE TftpServer -----------------------------
(***************************************************************************)
(* The TFTP server a board boots from: external to this repository.  It is *)
(* modelled from what tftpget.c expects of a peer: a port of its own per   *)
(* transfer, one block at a time, each repeated until it is acknowledged   *)
(* or MaxResends is reached.                                               *)
(***************************************************************************)
EXTENDS H8Network

CONSTANTS
    Blocks,     \* blocks of the file; the last one is short
    MaxResends

ASSUME BlocksAssumption == Blocks \in Nat \ {0}
ASSUME MaxResendsAssumption == MaxResends \in Nat

VARIABLES
    toServer,   \* what the board has sent
    sending,    \* per transfer, the block under way; 0 before and after it
    resent,     \* how often it was sent again
    served      \* the transfers whose last block was acknowledged

server == <<sending, resent, served>>

Message == [kind : {"arp", "request", "ack"}, port : Tid \cup {0}, block : Nat]

ServerTypeOK == /\ toServer \in Seq(Message)
                /\ sending \in [Tid -> 0 .. Blocks]
                /\ resent \in [Tid -> 0 .. MaxResends]
                /\ served \subseteq Tid

ServerInit == /\ toServer = << >>
              /\ sending = [t \in Tid |-> 0]
              /\ resent = [t \in Tid |-> 0]
              /\ served = {}

-----------------------------------------------------------------------------
(* The length of a block of the file.                                      *)
LengthOf(b) == IF b = Blocks THEN "short" ELSE "full"

FrameOf(kind, t, b) ==
    [kind |-> kind, from |-> Server, port |-> t, block |-> b, mine |-> TRUE,
     len |-> IF kind = "data" THEN LengthOf(b) ELSE "short"]

Hears(kind) == /\ toServer # << >>
               /\ Head(toServer).kind = kind
               /\ toServer' = Tail(toServer)

AnswersArp == /\ Hears("arp")
              /\ Arrive(FrameOf("arp_reply", 0, 0))
              /\ UNCHANGED server

(* A new transfer uses a port of its own.                                  *)
Unused(t) == sending[t] = 0 /\ t \notin served /\ resent[t] = 0

Serves == /\ Hears("request")
          /\ \E t \in Tid : /\ Unused(t)
                            /\ \A u \in Tid : Unused(u) => t <= u
                            /\ sending' = [sending EXCEPT ![t] = 1]
                            /\ Arrive(FrameOf("data", t, 1))
          /\ UNCHANGED <<resent, served>>

Refuses == /\ Hears("request")
           /\ Arrive(FrameOf("error", 0, 0))
           /\ UNCHANGED server

Expected(message) ==
    message.port \in Tid /\ sending[message.port] = message.block

HearsAck ==
    /\ Hears("ack")
    /\ LET t == Head(toServer).port
           b == Head(toServer).block
       IN  IF Expected(Head(toServer))
           THEN /\ sending' = [sending EXCEPT ![t] = IF b = Blocks THEN 0 ELSE b + 1]
                /\ resent' = [resent EXCEPT ![t] = 0]
                /\ IF b = Blocks THEN served' = served \cup {t} /\ ring' = ring
                   ELSE Arrive(FrameOf("data", t, b + 1)) /\ served' = served
           ELSE UNCHANGED <<ring, server>>

(* No answer in time: the block is sent again, or the transfer given up.   *)
Resends == \E t \in Tid :
    /\ sending[t] # 0
    /\ IF resent[t] < MaxResends
       THEN /\ resent' = [resent EXCEPT ![t] = @ + 1]
            /\ Arrive(FrameOf("data", t, sending[t]))
            /\ sending' = sending
       ELSE /\ sending' = [sending EXCEPT ![t] = 0]
            /\ UNCHANGED <<ring, resent>>
    /\ UNCHANGED <<toServer, served>>
=============================================================================
