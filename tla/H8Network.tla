----------------------------- MODULE H8Network ------------------------------
(***************************************************************************)
(* The network stack of h8mon as the receiver of a TFTP transfer meets it: *)
(* the ring of the RTL8019AS, one frame buffer for all that is received,   *)
(* one UDP context, and an ARP table from which nothing is ever removed.   *)
(*                                                                         *)
(* A frame is what its bytes say to whoever looks at them: a block or an   *)
(* error report of TFTP where a UDP datagram has its data, an ARP message, *)
(* or neither.  It may be for somebody else: the controller takes them all *)
(* (rtl8019as.c:266), and only proc_ip() looks whom they are for.          *)
(***************************************************************************)
EXTENDS Integers, Sequences, FiniteSets

CONSTANTS
    Host,       \* the machines on the network
    Server,     \* the one that serves files
    MaxCache,   \* MAX_ARP_CACHE
    RingCap,    \* frames the ring holds; more are lost
    Tid         \* the ports the server sends from, one per transfer

ASSUME ServerAssumption == Server \in Host
ASSUME MaxCacheAssumption == MaxCache \in Nat \ {0}
ASSUME RingCapAssumption == RingCap \in Nat \ {0}
ASSUME TidAssumption == Tid \subseteq Nat \ {0}

VARIABLES
    ring,       \* frames that rtl8019as_read() has not fetched yet
    buf,        \* the frame in net.c's buffer
    used,       \* the UDP context: udp_context[0].used
    src_port,   \* ... where its datagrams are sent; 0 for TFTP_PORT
    dsc_port,   \* ... where the last one came from
    data_len,   \* ... the length of the one that waits to be received
    cache       \* arp_cache: the machines in it

udp == <<used, src_port, dsc_port, data_len>>
net == <<ring, buf, udp, cache>>

(* A block of TFTP is full or, the last one, short.  "mine": to this board *)
(* or, as ARP messages are, to all.                                        *)
Kind   == {"data", "error", "ping", "arp_request", "arp_reply", "other"}
Length == {"short", "full"}
Frame  == [kind : Kind, from : Host, port : Tid \cup {0}, block : Nat,
           mine : BOOLEAN, len : Length]

NetTypeOK ==
    /\ ring \in Seq(Frame)
    /\ buf \in Frame
    /\ used \in BOOLEAN /\ data_len \in {"none"} \cup Length
    /\ src_port \in Tid \cup {0} /\ dsc_port \in Tid \cup {0}
    /\ cache \subseteq Host

(* A frame for somebody else.                                              *)
Overheard(kind, b) ==
    [kind |-> kind, from |-> Server, port |-> 0, block |-> b, mine |-> FALSE, len |-> "full"]

NetInit ==
    /\ ring = << >>
    /\ buf = Overheard("other", 0)
    /\ used = FALSE /\ data_len = "none"
    /\ src_port = 0 /\ dsc_port = 0
    /\ cache = {}

-----------------------------------------------------------------------------
(* A frame reaches the ring, unless it is full.                            *)
Arrive(frame) ==
    ring' = IF Len(ring) < RingCap THEN Append(ring, frame) ELSE ring

(* rtl8019as_read(): the oldest frame.                                     *)
Fetch == ring # << >> /\ ring' = Tail(ring)

(* cache_arp(): a machine that is not in the table needs a free entry.     *)
cache_arp(host) ==
    IF Cardinality(cache) < MaxCache THEN cache \cup {host} ELSE cache

(* proc_udp(): rdata points into the only buffer, which the next frame,    *)
(* whatever it is, overwrites; the length stays that of the datagram.      *)
(* (The X form keeps that of the first, as a queue of one would.)          *)
IsUdp(frame) == frame.mine /\ frame.kind \in {"data", "error"}
proc_udpX(frame) ==
    IF used /\ IsUdp(frame)
    THEN /\ dsc_port' = frame.port
         /\ data_len' = IF data_len = "none" THEN frame.len ELSE data_len
         /\ UNCHANGED <<used, src_port>>
    ELSE UNCHANGED udp
proc_udp(frame) ==
    IF used /\ IsUdp(frame)
    THEN /\ dsc_port' = frame.port
         /\ data_len' = frame.len
         /\ UNCHANGED <<used, src_port>>
    ELSE UNCHANGED udp

(* One turn of proc_network(): an ARP message or an IP packet to this      *)
(* board teaches it the sender's address.                                  *)
proc_network ==
    /\ Fetch
    /\ LET frame == Head(ring)
       IN  /\ buf' = frame
           /\ cache' = IF frame.mine THEN cache_arp(frame.from) ELSE cache
           /\ proc_udp(frame)

(* wait_arp_reply() has a buffer of its own and drops what is not ARP.     *)
wait_arp ==
    /\ Fetch
    /\ cache' = IF Head(ring).kind \in {"arp_request", "arp_reply"}
                THEN cache_arp(Head(ring).from) ELSE cache
    /\ UNCHANGED <<buf, udp>>

(* init_network(): the ring and the table are emptied and the context is   *)
(* free; what waits in it is forgotten by nobody.                          *)
init_network ==
    /\ ring' = << >>
    /\ cache' = {}
    /\ used' = FALSE
    /\ UNCHANGED <<buf, src_port, dsc_port, data_len>>
=============================================================================
