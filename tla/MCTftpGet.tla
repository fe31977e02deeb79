------------------------------ MODULE MCTftpGet -----------------------------
EXTENDS TftpGet

(* A network that does everything at any time, once; one on which a        *)
(* second command may follow; one whose other machines fill the ARP table; *)
(* one with transfers of other boards on it; and one that only loses       *)
(* frames to the board, or lets others overwrite them, in time.            *)
CrowdedNetwork ==
    [kinds |-> {"overheard"}, most |-> 2, prompt |-> FALSE, gets |-> 1]
MCNetworks ==
    {CrowdedNetwork,
     [kinds |-> {"data", "reply", "repeat", "noise", "refuse", "abort"},
      most |-> 2, prompt |-> FALSE, gets |-> 1],
     [kinds |-> {"noise", "abort"}, most |-> 1, prompt |-> FALSE, gets |-> 2],
     [kinds |-> {"foreign"}, most |-> 2, prompt |-> FALSE, gets |-> 1],
     [kinds |-> {"data", "noise", "repeat"}, most |-> 1, prompt |-> TRUE, gets |-> 2]}
=============================================================================
