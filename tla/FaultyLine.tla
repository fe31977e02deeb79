----------------------------- MODULE FaultyLine -----------------------------
(***************************************************************************)
(* A serial line that damages what it carries, MaxFaults times at most.    *)
(* External: nothing in the repository is the wire.                        *)
(***************************************************************************)
EXTENDS Ymodem

CONSTANT
    Lines       \* the lines to consider: the kinds of damage each does, how
                \* often, and the sides that never time out while anything
                \* is on it

ASSUME LinesAssumption ==
    Lines \subseteq [kinds : SUBSET {"garble", "truncate", "start", "forge",
                                    "lose", "loseReply", "noiseReply", "strange"},
                     most : Nat,
                     patient : SUBSET {"board", "host"}]

VARIABLES
    wire,       \* the line this session has
    faults      \* damage done so far

damage == <<wire, faults>>

Faults == wire.kinds
MaxFaults == wire.most
Patient == wire.patient

DamageInit == wire \in Lines /\ faults = 0

-----------------------------------------------------------------------------
(* What a token may become: tokens as receive_packet() will take them.     *)
(* "start" damages the first character of a packet, the rest of which      *)
(* nobody reads because the receiver aborts.  "forge" turns it into EOT:   *)
(* the rest is then taken for a packet that is too short (block 2, whose   *)
(* number is STX) or for noise.                                            *)
Damaged(token) ==
    {<< >> : f \in Faults \cap {"lose"}}
    \cup (IF token.kind # "packet" THEN {}
          ELSE {<<Garbled>> : f \in Faults \cap {"garble"}}
               \cup {<<Short>> : f \in Faults \cap {"truncate"}}
               \cup {<<Noise>> : f \in Faults \cap {"start"}}
               \cup {<<Eot, p[2]>> : p \in
                        (Faults \cap {"forge"}) \X {Short, Noise}})

DamagePacket == /\ toRcv # << >>
                /\ \E tokens \in Damaged(Head(toRcv)) :
                        toRcv' = tokens \o Tail(toRcv)
                /\ toSnd' = toSnd

DamageReply == /\ toSnd # << >>
               /\ \/ "loseReply" \in Faults /\ toSnd' = Tail(toSnd)
                  \/ /\ "noiseReply" \in Faults
                     /\ toSnd' = <<"noise">> \o Tail(toSnd)
               /\ toRcv' = toRcv

Damage == /\ faults < MaxFaults
          /\ faults' = faults + 1 /\ wire' = wire
          /\ DamagePacket \/ DamageReply

(* A side with a long timeout gives up on an answer only when nothing is   *)
(* on its way to anybody who reads; the other may do so at any moment.     *)
MayTimeOut(side, busy) == side \in Patient => ~busy
=============================================================================
