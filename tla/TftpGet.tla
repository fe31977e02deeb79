------------------------------ MODULE TftpGet -------------------------------
(***************************************************************************)
(* h8mon's tftpb command: tftp_get() on the network stack (H8Network),     *)
(* a server (TftpServer) and a network that loses, repeats and mixes what  *)
(* it carries.  The command may be given again, for the same file.         *)
(***************************************************************************)
EXTENDS TftpServer

CONSTANTS
    Networks,   \* the networks to consider: what each does, how often,
                \* whether everybody answers before anybody's timer ends,
                \* and (a bound) how many tftpb commands are given on it
    MaxRequests \* MAX_ARPREQ_RETRY

ASSUME NetworksAssumption ==
    Networks \subseteq [kinds : SUBSET {"data", "reply", "repeat", "noise", "foreign",
                                        "overheard", "refuse", "abort"},
                        most : Nat, prompt : BOOLEAN, gets : Nat]
ASSUME MaxRequestsAssumption == MaxRequests \in Nat \ {0}

VARIABLES
    wire,       \* the network
    faults,     \* what it has done so far
    at,         \* "shell": mon();  "arp": wait_arp_reply();  "loop": tftp_get()
    uc,         \* whether create_udp() had a context to give
    requests,   \* ARP requests sent for this command
    blk_num,
    rcvport,    \* whether the server's port is known
    stored,     \* what was saved at the load address, block by block
    rt,         \* > 0 until the first datagram
    outcome,    \* what the command returned: "ok" for 0, "failed" or, when it
                \* returned without close_udp(), "left" for -1
    gets,
    loaded,     \* history: commands that stored as many blocks as the file has
    inherited   \* history: a datagram waited when the command was given

client == <<at, uc, requests, blk_num, rcvport, stored, rt, outcome, gets, loaded,
            inherited>>
network == <<wire, faults>>
vars == <<net, toServer, server, network, client>>

TypeOK ==
    /\ NetTypeOK /\ ServerTypeOK
    /\ wire \in Networks /\ faults \in Nat
    /\ at \in {"shell", "arp", "loop"}
    /\ uc \in BOOLEAN /\ rcvport \in BOOLEAN
    /\ requests \in 0 .. MaxRequests
    /\ blk_num \in Nat
    /\ stored \in Seq([block : Nat, mine : BOOLEAN, len : Length])
    /\ rt \in {0, 1}
    /\ outcome \in {"none", "ok", "failed", "left"}
    /\ gets \in 0 .. wire.gets /\ loaded \in Nat /\ inherited \in BOOLEAN

Init ==
    /\ NetInit /\ ServerInit
    /\ wire \in Networks /\ faults = 0
    /\ at = "shell" /\ uc = FALSE /\ rcvport = FALSE
    /\ requests = 0 /\ blk_num = 1 /\ stored = << >> /\ rt = 0
    /\ outcome = "none" /\ gets = 0 /\ loaded = 0 /\ inherited = FALSE

-----------------------------------------------------------------------------
Says(kind, t, b) == [kind |-> kind, port |-> t, block |-> b]
Sends(message) == toServer' = Append(toServer, message)

(* start_tftpget() once the address is known, and the start of the timer.  *)
SendRequest == /\ Sends(Says("request", 0, 0))
               /\ at' = "loop"
               /\ rt' = 1

(* search_ipaddr_mac() when it is not: without a context the address asked *)
(* for is read through a null pointer, and nobody has it.                  *)
AskAddress == /\ IF uc' THEN Sends(Says("arp", 0, 0)) ELSE toServer' = toServer
              /\ at' = "arp"

Waiting == data_len # "none"

(* The command: init_tftp(), create_udp(), which leaves data_len alone, and *)
(* the read request.                                                       *)
tftp_get ==
    /\ at = "shell" /\ ring = << >> /\ gets < wire.gets
    /\ gets' = gets + 1
    /\ blk_num' = 1 /\ rcvport' = FALSE /\ stored' = << >>
    /\ outcome' = "none" /\ inherited' = Waiting
    /\ uc' = ~used /\ used' = TRUE
    /\ src_port' = IF used THEN src_port ELSE 0
    /\ IF uc' /\ Server \in cache
       THEN SendRequest /\ requests' = 0
       ELSE AskAddress /\ requests' = 1 /\ rt' = 0
    /\ UNCHANGED <<ring, buf, dsc_port, data_len, cache, server, network, loaded>>

(* What has arrived is looked at by the shell and by tftp_get() alike.     *)
Polls == /\ at \in {"shell", "loop"}
         /\ proc_network
         /\ UNCHANGED <<toServer, server, network, client>>

(* Only a reply makes it look into the table again.                        *)
WaitsForAddress ==
    /\ at = "arp"
    /\ wait_arp
    /\ IF uc /\ Head(ring).kind = "arp_reply" /\ Server \in cache'
       THEN SendRequest
       ELSE UNCHANGED <<toServer, at, rt>>
    /\ UNCHANGED <<server, network, uc, requests, blk_num, rcvport, stored,
                   outcome, gets, loaded, inherited>>

(* Returns that do not come by close_udp().                                *)
ReturnsWithoutClose == /\ at' = "shell"
                       /\ outcome' = "left"
                       /\ UNCHANGED <<toServer, udp, requests, rt>>

InFlight == ring # << >> \/ toServer # << >> \/ (Waiting /\ at = "loop")

AddressTimesOut ==
    /\ at = "arp" /\ ring = << >>
    /\ wire.prompt => ~InFlight
    /\ IF requests < MaxRequests
       THEN /\ requests' = requests + 1
            /\ IF uc THEN Sends(Says("arp", 0, 0)) ELSE toServer' = toServer
            /\ UNCHANGED <<at, outcome, rt, udp>>
       ELSE ReturnsWithoutClose
    /\ UNCHANGED <<ring, buf, cache, server, network, uc, blk_num, rcvport,
                   stored, gets, loaded, inherited>>

(* ^C: the test of cgetc() is the wrong way round and looks at a character *)
(* nobody has set, which is the last one typed or anything.                *)
Aborts ==
    /\ "abort" \in wire.kinds
    /\ at \in {"arp", "loop"}
    /\ ReturnsWithoutClose
    /\ UNCHANGED <<ring, buf, cache, server, network, uc, blk_num, rcvport,
                   stored, gets, loaded, inherited>>

-----------------------------------------------------------------------------
(* close_udp() and the end of tftp_get().                                  *)
ReturnsX(how) == used' = used /\ at' = "shell" /\ outcome' = how
Returns(how)  == used' = FALSE /\ at' = "shell" /\ outcome' = how

(* receive_udp(): what is in the buffer by now.                            *)
ReceivedX == /\ at = "loop" /\ ring = << >> /\ Waiting
             /\ UNCHANGED <<ring, buf, dsc_port, data_len, cache, server, network,
                            uc, requests, gets, inherited>>
Received  == /\ at = "loop" /\ ring = << >> /\ Waiting
             /\ data_len' = "none"
             /\ UNCHANGED <<ring, buf, dsc_port, cache, server, network,
                            uc, requests, gets, inherited>>

(* proc_tftpget(): an error report ends it, ...                            *)
GetsError ==
    /\ buf.kind = "error"
    /\ Received
    /\ rt' = 0
    /\ Returns("failed")
    /\ UNCHANGED <<toServer, src_port, blk_num, rcvport, stored, loaded>>

(* ... another block, or what a later frame left in the buffer, is ignored *)
(* and not acknowledged unless it is the block that comes next, whosever   *)
(* it is, ...                                                              *)
NextBlockX == buf.kind = "data"
NextBlock  == buf.kind = "data" /\ buf.block = blk_num

GetsOther ==
    /\ buf.kind # "error" /\ ~NextBlock
    /\ Received
    /\ rt' = 0
    /\ UNCHANGED <<toServer, used, src_port, at, blk_num, rcvport, stored, outcome,
                   loaded>>

(* ... and the next block is stored and acknowledged to the port the first *)
(* one came from.  Its length is the one of the datagram, and so is        *)
(* whether it is the last.                                                 *)
PeerX == src_port
Peer  == IF rcvport THEN src_port ELSE dsc_port
Last  == data_len = "short"
Saved == [block |-> buf.block, mine |-> buf.mine, len |-> data_len]

GetsBlock ==
    /\ NextBlock
    /\ Received
    /\ src_port' = Peer /\ rcvport' = TRUE
    /\ blk_num' = blk_num + 1
    /\ stored' = Append(stored, Saved)
    /\ loaded' = IF Len(stored') = Blocks THEN loaded + 1 ELSE loaded
    /\ Sends(Says("ack", Peer, buf.block))
    /\ rt' = IF Last THEN 1 ELSE 0
    /\ IF Last THEN Returns("ok") ELSE UNCHANGED <<used, at, outcome>>

(* Nothing for TIMEOUT ms.  rt is still what start_tftpget() returned when *)
(* no datagram has come at all.                                            *)
VerdictX == "ok"
Verdict  == IF rt > 0 THEN "ok" ELSE "failed"

TimesOut ==
    /\ at = "loop" /\ ring = << >> /\ ~Waiting
    /\ wire.prompt => ~InFlight /\ \A t \in Tid : sending[t] = 0
    /\ Returns(Verdict)
    /\ UNCHANGED <<ring, buf, src_port, dsc_port, data_len, cache, toServer, server,
                   network, uc, requests, blk_num, rcvport, stored, rt, gets, loaded,
                   inherited>>

(* The shell's ipaddr command.                                             *)
Ipaddr ==
    /\ at = "shell" /\ ring = << >>
    /\ init_network
    /\ UNCHANGED <<toServer, server, network, client>>

-----------------------------------------------------------------------------
(* The network and the others on it.                                       *)
May(kind) == kind \in wire.kinds /\ faults < wire.most

(* What is on the network besides this transfer: frames that say nothing   *)
(* of TFTP, other machines that speak to this board, and transfers of      *)
(* other boards, whose files may be longer.                                *)
NoiseFrames ==
    {Overheard("other", 0) : k \in wire.kinds \cap {"noise"}}
    \cup {[FrameOf(k, 0, 0) EXCEPT !.from = h] :
            k \in {"ping", "arp_request"},
            h \in IF "foreign" \in wire.kinds THEN Host \ {Server} ELSE {}}
    \cup {Overheard(m[1], m[2]) :
            m \in IF "overheard" \notin wire.kinds THEN {}
                  ELSE {<<"error", 0>>} \cup ({"data"} \X (1 .. Blocks + 1))}

Disturbs ==
    /\ faults < wire.most
    /\ faults' = faults + 1
    /\ \/ May("data") /\ Fetch /\ toServer' = toServer
       \/ May("repeat") /\ ring # << >> /\ Arrive(Head(ring)) /\ toServer' = toServer
       \/ /\ May("reply") /\ toServer # << >>
          /\ toServer' = Tail(toServer) /\ ring' = ring
       \/ \E frame \in NoiseFrames : Arrive(frame) /\ toServer' = toServer
    /\ UNCHANGED <<buf, udp, cache, server, wire, client>>

ServerHears == /\ AnswersArp \/ Serves \/ HearsAck
                  \/ ("refuse" \in wire.kinds /\ Refuses)
               /\ UNCHANGED <<buf, udp, cache, network, client>>

ServerTimesOut == /\ wire.prompt => ~InFlight
                  /\ Resends
                  /\ UNCHANGED <<buf, udp, cache, network, client>>

Gets     == Polls \/ WaitsForAddress \/ GetsError \/ GetsOther \/ GetsBlock
GivesUp  == AddressTimesOut \/ TimesOut
Commands == tftp_get \/ Ipaddr \/ Aborts

Next == Gets \/ GivesUp \/ Commands \/ ServerHears \/ ServerTimesOut \/ Disturbs
Spec == Init /\ [][Next]_vars

(* The board and the server run, and their timers do.                      *)
FairSpec == /\ Spec
            /\ WF_vars(Gets)
            /\ WF_vars(GivesUp)
            /\ WF_vars(ServerHears)
            /\ WF_vars(ServerTimesOut)

-----------------------------------------------------------------------------
(* Nobody else's TFTP is on the network, and no datagram waited when the   *)
(* command was given.  Otherwise neither of the next two holds:            *)
(* proc_tftpget() takes whatever is in the buffer (tftpget.c:86-120), and  *)
(* a datagram left from before has the length of another (udp.c:90-108).   *)
Alone == "overheard" \notin wire.kinds /\ ~inherited

(* What is at the load address is the file from its start: no block twice, *)
(* none missing, each with its own content and its own length, whatever    *)
(* was lost, repeated, overwritten in the buffer by later frames or left   *)
(* from an earlier transfer.                                               *)
FileBlock(i)   == [block |-> i, mine |-> TRUE, len |-> LengthOf(i)]
IsPrefix       == \A i \in 1 .. Len(stored) : stored[i] = FileBlock(i)
LoadedIsPrefix == Alone => IsPrefix

(* A command that goes on to start the program has the whole of it, or,    *)
(* when no datagram came at all, nothing of it: then it starts what was    *)
(* there before (tftpget.c:177).                                           *)
SuccessIsWhole == Alone /\ outcome = "ok" => Len(stored) \in {0, Blocks}

(* The only UDP context is lost to a ^C or to a server that could not be   *)
(* reached (tftpget.c:156, 169), and to nothing else.                      *)
ContextComesBack == at = "shell" /\ used => outcome = "left"

(* No server is told that its last block has come but by a command that    *)
(* stored as many as the file has, each by one of its own, also where the  *)
(* transfers of others are overheard.                                      *)
ServedIsLoaded == Cardinality(served) <= loaded

(* The shell comes back: a server that repeats itself, ARP without an      *)
(* answer, and frames for others hold tftp_get() up, but not for ever.     *)
GetReturns == at # "shell" ~> at = "shell"

(* Data that is lost, or overwritten in the buffer before it is received,  *)
(* costs nothing as long as the server repeats it in time.                 *)
OnlyLosesData == /\ wire.prompt /\ wire.kinds \subseteq {"data", "noise", "repeat"}
                 /\ wire.most <= MaxResends /\ wire.most < MaxRequests
FileArrives ==
    OnlyLosesData => (at # "shell" ~> at = "shell" /\ outcome = "ok" /\ Len(stored) = Blocks)
=============================================================================
