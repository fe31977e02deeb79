--------------------------- MODULE MCYmodemUpload ---------------------------
EXTENDS YmodemUpload

MCByte == 0 .. 9
MCSource == <<1, 2, 3, 4, 5, 6, 7, 8, 9, 0, 1, 2>>

(* Every damage with a board that times out at any moment; every damage    *)
(* but lost answers; one damaged packet.                                   *)
Both == {"board", "host"}
AnyLine ==
    [kinds |-> {"garble", "truncate", "start", "lose", "loseReply", "noiseReply"},
     most |-> 3, patient |-> {"host"}]
AnsweringLine ==
    [kinds |-> {"garble", "truncate", "start", "lose", "noiseReply"},
     most |-> 4, patient |-> Both]
KindLine == [kinds |-> {"garble", "truncate"}, most |-> 1, patient |-> Both]
MCLines == {AnyLine, AnsweringLine, KindLine}
=============================================================================
