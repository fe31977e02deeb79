------------------------- MODULE MCYmodemDownload ---------------------------
EXTENDS YmodemDownload

(* Each byte of a file is told from every other.                           *)
MCByte == 0 .. 9
OneFile == << <<1, 2, 3, 4, 5>> >>
TwoFiles == << <<1, 2, 3>>, <<4, 5>> >>

(* Every damage but a forged EOT with timeouts at any moment, and lost     *)
(* packets with timeouts that are long enough.                             *)
Both == {"board", "host"}
AnyLine ==
    [kinds |-> {"garble", "truncate", "start", "lose", "loseReply", "noiseReply"},
     most |-> 2, patient |-> {}]
LossyLine == [kinds |-> {"garble", "truncate", "lose"}, most |-> 2, patient |-> Both]
StrangeLine == [kinds |-> {"strange"}, most |-> 5, patient |-> {}]
MCLines == {AnyLine, LossyLine, StrangeLine}

(* Both block numbers, a header that fits, one that does not, an empty     *)
(* one, long and short blocks, and the marks.                              *)
MCPacket(n, e, announced, d) ==
    [kind |-> "packet", seq |-> n, empty |-> e, size |-> announced, data |-> d]
MCStrangers == {MCPacket(0, FALSE, 6, <<7, 8>>), MCPacket(1, FALSE, 7, <<5>>),
                MCPacket(1, FALSE, 6, <<3, 4>>), MCPacket(0, FALSE, 7, <<6>>),
                MCPacket(0, TRUE, 0, <<0>>), Garbled, Eot, Noise}
NoisyLine == {[kinds |-> {"garble", "lose", "noiseReply"}, most |-> 2, patient |-> Both]}
=============================================================================
