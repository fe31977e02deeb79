---------------------------- MODULE TftpGetProofs ----------------------------
(***************************************************************************)
(* What tftp_get() leaves at the load address and what it returns, for     *)
(* every server, file, number of commands and amount of damage.            *)
(***************************************************************************)
EXTENDS TftpGet, FiniteSetTheorems, TLAPS

-----------------------------------------------------------------------------
(* Types: what is on the way to the server and to the board.               *)
USE BlocksAssumption, ServerAssumption, MaxCacheAssumption, RingCapAssumption,
    TidAssumption, MaxResendsAssumption, NetworksAssumption, MaxRequestsAssumption

LEMMA ArriveType ==
    ASSUME ring \in Seq(Frame), NEW frame \in Frame, Arrive(frame)
    PROVE  ring' \in Seq(Frame)
BY DEF Arrive

LEMMA FetchType ==
    ASSUME ring \in Seq(Frame), Fetch
    PROVE  Head(ring) \in Frame /\ ring' \in Seq(Frame)
BY DEF Fetch

LEMMA HearsType ==
    ASSUME toServer \in Seq(Message), NEW kind, Hears(kind)
    PROVE  /\ toServer # << >> /\ Head(toServer) \in Message
           /\ Head(toServer).kind = kind /\ toServer' = Tail(toServer)
           /\ toServer' \in Seq(Message)
BY DEF Hears

LEMMA SendsType ==
    ASSUME toServer \in Seq(Message), NEW message \in Message, Sends(message)
    PROVE  toServer' \in Seq(Message)
BY DEF Sends

LEMMA FrameType ==
    ASSUME NEW kind \in Kind, NEW t \in Tid \cup {0}, NEW b \in Nat
    PROVE  FrameOf(kind, t, b) \in Frame
BY DEF FrameOf, Frame, Length, LengthOf

LEMMA OverheardType ==
    ASSUME NEW kind \in Kind, NEW b \in Nat
    PROVE  Overheard(kind, b) \in Frame
BY DEF Overheard, Frame, Length

LEMMA SaysType ==
    ASSUME NEW kind \in {"arp", "request", "ack"}, NEW t \in Tid \cup {0}, NEW b \in Nat
    PROVE  Says(kind, t, b) \in Message
BY DEF Says, Message

LEMMA InitType == Init => TypeOK
<1>. SUFFICES ASSUME Init PROVE TypeOK
  OBVIOUS
<1>1. NetTypeOK
  <2>1. Overheard("other", 0) \in Frame
    BY OverheardType DEF Kind
  <2>2. NetInit
    BY DEF Init
  <2>3. ring \in Seq(Frame) /\ cache \subseteq Host
    BY <2>2 DEF NetInit
  <2>4. buf \in Frame
    BY <2>1, <2>2 DEF NetInit
  <2>. QED  BY <2>2, <2>3, <2>4 DEF NetInit, NetTypeOK
<1>2. ServerTypeOK
  BY DEF Init, ServerInit, ServerTypeOK
<1>3. wire \in Networks /\ wire.gets \in Nat
  BY DEF Init
<1>4. gets \in 0 .. wire.gets /\ requests \in 0 .. MaxRequests
  BY <1>3 DEF Init
<1>5. stored \in Seq([block : Nat, mine : BOOLEAN, len : Length]) /\ blk_num \in Nat /\ rt \in {0, 1}
  BY DEF Init
<1>. QED  BY <1>1, <1>2, <1>3, <1>4, <1>5 DEF Init, TypeOK

(* What the board does with what has arrived.                              *)
LEMMA PollType == TypeOK /\ (Polls \/ WaitsForAddress) => TypeOK'
<1>. SUFFICES ASSUME TypeOK, Polls \/ WaitsForAddress PROVE TypeOK'
  OBVIOUS
<1>1. CASE Polls
  <2>1. Head(ring) \in Frame /\ ring' \in Seq(Frame)
    BY <1>1, FetchType DEF Polls, proc_network, TypeOK, NetTypeOK
  <2>2. NetTypeOK'
    BY <1>1, <2>1 DEF Polls, proc_network, proc_udp, cache_arp, udp, Frame, TypeOK,
                      NetTypeOK
  <2>. QED  BY <1>1, <2>2 DEF Polls, TypeOK, ServerTypeOK, server, network, client
<1>2. CASE WaitsForAddress
  <2>1. Head(ring) \in Frame /\ ring' \in Seq(Frame)
    BY <1>2, FetchType DEF WaitsForAddress, wait_arp, TypeOK, NetTypeOK
  <2>2. NetTypeOK'
    BY <1>2, <2>1 DEF WaitsForAddress, wait_arp, cache_arp, udp, Frame, TypeOK,
                      NetTypeOK
  <2>3. Says("request", 0, 0) \in Message
    BY SaysType
  <2>4. toServer' \in Seq(Message)
    BY <1>2, <2>3, SendsType DEF WaitsForAddress, SendRequest, TypeOK, ServerTypeOK
  <2>. QED  BY <1>2, <2>2, <2>4 DEF WaitsForAddress, SendRequest, TypeOK, ServerTypeOK,
                                    server, network
<1>. QED  BY <1>1, <1>2

LEMMA CommandType == TypeOK /\ (Commands \/ GivesUp) => TypeOK'
<1>. SUFFICES ASSUME TypeOK, Commands \/ GivesUp PROVE TypeOK'
  OBVIOUS
<1>. USE DEF TypeOK, NetTypeOK, ServerTypeOK, server, network, udp, client
<1>0. Says("request", 0, 0) \in Message /\ Says("arp", 0, 0) \in Message
  BY SaysType
<1>1. CASE tftp_get
  <2>1. toServer' \in Seq(Message)
    BY <1>0, <1>1, SendsType DEF tftp_get, SendRequest, AskAddress
  <2>2. wire.gets \in Nat
    OBVIOUS
  <2>3. gets' \in 0 .. wire.gets
    BY <1>1, <2>2 DEF tftp_get
  <2>4. at' \in {"shell", "arp", "loop"} /\ rt' \in {0, 1} /\ requests' \in 0 .. MaxRequests
    BY <1>1 DEF tftp_get, SendRequest, AskAddress
  <2>5. NetTypeOK' /\ ServerTypeOK'
    BY <1>1, <2>1 DEF tftp_get
  <2>6. /\ wire' = wire /\ faults' = faults /\ loaded' = loaded /\ uc' \in BOOLEAN
        /\ rcvport' = FALSE /\ blk_num' = 1 /\ stored' = << >> /\ outcome' = "none"
        /\ inherited' \in BOOLEAN
    BY <1>1 DEF tftp_get, Waiting
  <2>7. /\ stored' \in Seq([block : Nat, mine : BOOLEAN, len : Length])
        /\ gets' \in 0 .. wire'.gets
    BY <2>3, <2>6
  <2>. HIDE DEF NetTypeOK, ServerTypeOK
  <2>. QED  BY <2>4, <2>5, <2>6, <2>7
<1>2. CASE Ipaddr
  BY <1>2 DEF Ipaddr, init_network
<1>3. CASE Aborts
  BY <1>3 DEF Aborts, ReturnsWithoutClose
<1>4. CASE AddressTimesOut
  <2>1. toServer' \in Seq(Message)
    BY <1>0, <1>4, SendsType DEF AddressTimesOut, ReturnsWithoutClose
  <2>2. at' \in {"shell", "arp", "loop"} /\ requests' \in 0 .. MaxRequests
    BY <1>4 DEF AddressTimesOut, ReturnsWithoutClose
  <2>3. outcome' \in {"none", "ok", "failed", "left"} /\ UNCHANGED <<rt, udp>>
    BY <1>4 DEF AddressTimesOut, ReturnsWithoutClose
  <2>. QED  BY <1>4, <2>1, <2>2, <2>3 DEF AddressTimesOut
<1>5. CASE TimesOut
  BY <1>5 DEF TimesOut, Returns, Verdict
<1>. QED  BY <1>1, <1>2, <1>3, <1>4, <1>5 DEF Commands, GivesUp

LEMMA GetType == TypeOK /\ (GetsError \/ GetsOther \/ GetsBlock) => TypeOK'
<1>. SUFFICES ASSUME TypeOK, GetsError \/ GetsOther \/ GetsBlock PROVE TypeOK'
  OBVIOUS
<1>. USE DEF TypeOK, NetTypeOK, ServerTypeOK, server, network, udp, client
<1>1. CASE GetsError
  BY <1>1 DEF GetsError, Received, Returns
<1>2. CASE GetsOther
  BY <1>2 DEF GetsOther, Received
<1>3. CASE GetsBlock
  <2>1. Peer \in Tid \cup {0} /\ buf.block \in Nat
    BY DEF Peer, Frame
  <2>2. Says("ack", Peer, buf.block) \in Message
    BY <2>1, SaysType
  <2>3. toServer' \in Seq(Message)
    BY <1>3, <2>2, SendsType DEF GetsBlock
  <2>4. /\ at' \in {"shell", "arp", "loop"} /\ used' \in BOOLEAN
        /\ outcome' \in {"none", "ok", "failed", "left"}
    BY <1>3 DEF GetsBlock, Received, Returns
  <2>5. Saved \in [block : Nat, mine : BOOLEAN, len : Length]
    BY <1>3, <2>1 DEF GetsBlock, Received, Waiting, Saved, Frame
  <2>6. /\ stored' \in Seq([block : Nat, mine : BOOLEAN, len : Length])
        /\ rt' \in {0, 1} /\ loaded' \in Nat
        /\ blk_num' \in Nat /\ rcvport' = TRUE /\ src_port' \in Tid \cup {0}
    BY <1>3, <2>1, <2>5 DEF GetsBlock
  <2>. QED  BY <1>3, <2>3, <2>4, <2>6 DEF GetsBlock, Received
<1>. QED  BY <1>1, <1>2, <1>3

LEMMA ServerType == TypeOK /\ (ServerHears \/ ServerTimesOut) => TypeOK'
<1>. SUFFICES ASSUME TypeOK, ServerHears \/ ServerTimesOut PROVE TypeOK'
  OBVIOUS
<1>1. UNCHANGED <<buf, udp, cache, network, client>>
  BY DEF ServerHears, ServerTimesOut
<1>2. SUFFICES ring' \in Seq(Frame) /\ ServerTypeOK'
  BY <1>1 DEF TypeOK, NetTypeOK, udp, network, client
<1>3. /\ ring \in Seq(Frame) /\ toServer \in Seq(Message) /\ served \subseteq Tid
      /\ sending \in [Tid -> 0 .. Blocks] /\ resent \in [Tid -> 0 .. MaxResends]
  BY DEF TypeOK, NetTypeOK, ServerTypeOK
<1>4. CASE AnswersArp \/ Refuses
  <2>1. toServer' \in Seq(Message)
    BY <1>3, <1>4, HearsType DEF AnswersArp, Refuses
  <2>2. ring' \in Seq(Frame)
    <3>1. FrameOf("arp_reply", 0, 0) \in Frame /\ FrameOf("error", 0, 0) \in Frame
      BY FrameType DEF Kind
    <3>. QED  BY <1>3, <1>4, <3>1, ArriveType DEF AnswersArp, Refuses
  <2>. QED  BY <1>3, <1>4, <2>1, <2>2 DEF AnswersArp, Refuses, server, ServerTypeOK
<1>5. CASE Serves
  <2>1. toServer' \in Seq(Message)
    BY <1>3, <1>5, HearsType DEF Serves
  <2>2. PICK t \in Tid : /\ sending' = [sending EXCEPT ![t] = 1]
                         /\ Arrive(FrameOf("data", t, 1))
    BY <1>5 DEF Serves
  <2>3. FrameOf("data", t, 1) \in Frame
    BY FrameType DEF Kind
  <2>4. ring' \in Seq(Frame)
    BY <1>3, <2>2, <2>3, ArriveType
  <2>5. sending' \in [Tid -> 0 .. Blocks]
    BY <1>3, <2>2
  <2>. QED  BY <1>3, <1>5, <2>1, <2>4, <2>5 DEF Serves, ServerTypeOK
<1>6. CASE HearsAck
  <2>. DEFINE t == Head(toServer).port
              b == Head(toServer).block
  <2>1. /\ Head(toServer) \in Message
        /\ toServer' \in Seq(Message)
    BY <1>3, <1>6, HearsType DEF HearsAck
  <2>2. CASE Expected(Head(toServer))
    <3>1. t \in Tid /\ b = sending[t] /\ b \in 0 .. Blocks
      BY <1>3, <2>2 DEF Expected
    <3>2. /\ sending' = [sending EXCEPT ![t] = IF b = Blocks THEN 0 ELSE b + 1]
          /\ resent' = [resent EXCEPT ![t] = 0]
          /\ \/ b = Blocks /\ served' = served \cup {t} /\ ring' = ring
             \/ b # Blocks /\ Arrive(FrameOf("data", t, b + 1)) /\ served' = served
      BY <1>6, <2>2 DEF HearsAck
    <3>3. FrameOf("data", t, b + 1) \in Frame
      <4>1. b + 1 \in Nat /\ t \in Tid \cup {0} /\ "data" \in Kind
        BY <3>1 DEF Kind
      <4>. HIDE DEF t, b
      <4>. QED  BY <4>1, FrameType
    <3>4. ring' \in Seq(Frame) /\ served' \subseteq Tid
      BY <1>3, <3>1, <3>2, <3>3, ArriveType
    <3>5. (IF b = Blocks THEN 0 ELSE b + 1) \in 0 .. Blocks
      BY <3>1
    <3>6. sending' \in [Tid -> 0 .. Blocks] /\ resent' \in [Tid -> 0 .. MaxResends]
      <4>. HIDE DEF t, b
      <4>. QED  BY <1>3, <3>1, <3>2, <3>5
    <3>. QED  BY <2>1, <3>4, <3>6 DEF ServerTypeOK
  <2>3. CASE ~Expected(Head(toServer))
    BY <1>3, <1>6, <2>1, <2>3 DEF HearsAck, server, ServerTypeOK
  <2>. QED  BY <2>2, <2>3
<1>7. CASE Resends
  <2>1. PICK t \in Tid :
            \/ /\ resent[t] < MaxResends
               /\ resent' = [resent EXCEPT ![t] = @ + 1]
               /\ Arrive(FrameOf("data", t, sending[t])) /\ sending' = sending
            \/ /\ sending' = [sending EXCEPT ![t] = 0]
               /\ UNCHANGED <<ring, resent>>
    BY <1>7 DEF Resends
  <2>2. FrameOf("data", t, sending[t]) \in Frame
    BY <1>3, FrameType DEF Kind
  <2>3. ring' \in Seq(Frame)
    BY <1>3, <2>1, <2>2, ArriveType
  <2>4. sending' \in [Tid -> 0 .. Blocks] /\ resent' \in [Tid -> 0 .. MaxResends]
    BY <1>3, <2>1
  <2>. QED  BY <1>3, <1>7, <2>3, <2>4 DEF Resends, ServerTypeOK
<1>. QED  BY <1>4, <1>5, <1>6, <1>7 DEF ServerHears, ServerTimesOut

LEMMA NoiseType == NoiseFrames \subseteq Frame
<1>. SUFFICES ASSUME NEW frame \in NoiseFrames PROVE frame \in Frame
  OBVIOUS
<1>1. CASE frame = Overheard("other", 0)
  <2>1. "other" \in Kind /\ 0 \in Nat
    BY DEF Kind
  <2>. QED  BY <1>1, <2>1, OverheardType
<1>2. CASE \E k \in {"ping", "arp_request"}, h \in Host :
               frame = [FrameOf(k, 0, 0) EXCEPT !.from = h]
  <2>1. PICK k \in {"ping", "arp_request"}, h \in Host :
               frame = [FrameOf(k, 0, 0) EXCEPT !.from = h]
    BY <1>2
  <2>2. FrameOf(k, 0, 0) \in Frame
    BY FrameType DEF Kind
  <2>. QED  BY <2>1, <2>2 DEF Frame
<1>3. CASE \E k \in {"error", "data"} : \E b \in Nat : frame = Overheard(k, b)
  BY <1>3, OverheardType DEF Kind
<1>4. 1 .. Blocks + 1 \subseteq Nat
  OBVIOUS
<1>. QED  BY <1>1, <1>2, <1>3, <1>4 DEF NoiseFrames

LEMMA DisturbType == TypeOK /\ Disturbs => TypeOK'
<1>. SUFFICES ASSUME TypeOK, Disturbs PROVE TypeOK'
  OBVIOUS
<1>1. /\ faults' = faults + 1 /\ UNCHANGED <<buf, udp, cache, server, wire, client>>
      /\ faults \in Nat /\ ring \in Seq(Frame) /\ toServer \in Seq(Message)
  BY DEF Disturbs, TypeOK, NetTypeOK, ServerTypeOK
<1>2. SUFFICES ring' \in Seq(Frame) /\ toServer' \in Seq(Message)
  <2>1. ASSUME ring' \in Seq(Frame), toServer' \in Seq(Message)
        PROVE  NetTypeOK' /\ ServerTypeOK'
    BY <1>1, <2>1 DEF TypeOK, NetTypeOK, ServerTypeOK, udp, server
  <2>2. gets' \in 0 .. wire'.gets
    BY <1>1 DEF TypeOK, client
  <2>. QED  BY <1>1, <2>1, <2>2 DEF TypeOK, client
<1>3. NoiseFrames \subseteq Frame
  BY NoiseType
<1>4. ring # << >> => Head(ring) \in Frame
  BY <1>1
<1>5. CASE Fetch /\ toServer' = toServer
  BY <1>1, <1>5, FetchType
<1>6. CASE ring # << >> /\ Arrive(Head(ring)) /\ toServer' = toServer
  BY <1>1, <1>4, <1>6, ArriveType
<1>7. CASE toServer # << >> /\ toServer' = Tail(toServer) /\ ring' = ring
  BY <1>1, <1>7
<1>8. CASE \E frame \in NoiseFrames : Arrive(frame) /\ toServer' = toServer
  BY <1>1, <1>3, <1>8, ArriveType
<1>. QED  BY <1>5, <1>6, <1>7, <1>8 DEF Disturbs

LEMMA NextType == TypeOK /\ [Next]_vars => TypeOK'
<1>1. ASSUME TypeOK, UNCHANGED vars PROVE TypeOK'
  BY <1>1 DEF vars, net, udp, server, network, client, TypeOK, NetTypeOK, ServerTypeOK
<1>. QED  BY <1>1, PollType, CommandType, GetType, ServerType, DisturbType DEF Next, Gets

(* No frame, message or command leaves a variable out of range.            *)
THEOREM TypeCorrect == Spec => []TypeOK
BY InitType, NextType, PTL DEF Spec
-----------------------------------------------------------------------------
(* The buffer.  Where nobody else's TFTP is overheard, a block in it or in *)
(* the ring is one of the file, sent to this board.                        *)
Genuine(frame) ==
    frame.kind = "data" => frame.mine /\ frame.len = LengthOf(frame.block)
OwnFrames == "overheard" \notin wire.kinds =>
    /\ Genuine(buf)
    /\ \A i \in 1 .. Len(ring) : Genuine(ring[i])

(* A transfer under way has the context, and the length in it is the one   *)
(* of the block in the buffer: only another datagram replaces that by a    *)
(* block, and then replaces the length too.                                *)
HasContext == at = "loop" \/ (at = "arp" /\ uc) => used
Matched    == Alone /\ at # "shell" /\ Waiting /\ buf.kind = "data" => data_len = buf.len

Buffered == OwnFrames /\ HasContext /\ Matched

LEMMA OwnArrives ==
    ASSUME TypeOK, OwnFrames, NEW frame \in Frame, Arrive(frame),
           "overheard" \notin wire.kinds => Genuine(frame),
           wire' = wire, buf' = buf
    PROVE  OwnFrames'
<1>1. ring \in Seq(Frame) /\ RingCap \in Nat
  BY DEF TypeOK, NetTypeOK
<1>2. CASE ring' = ring
  BY <1>2 DEF OwnFrames
<1>3. CASE ring' = Append(ring, frame)
  <2>1. Len(ring') = Len(ring) + 1
    BY <1>1, <1>3
  <2>2. \A i \in 1 .. Len(ring') : ring'[i] = IF i <= Len(ring) THEN ring[i] ELSE frame
    BY <1>1, <1>3
  <2>3. \A i \in 1 .. Len(ring') : i <= Len(ring) => i \in 1 .. Len(ring)
    BY <1>1, <2>1
  <2>. QED  BY <2>2, <2>3 DEF OwnFrames
<1>. QED  BY <1>2, <1>3 DEF Arrive

LEMMA OwnFetched ==
    ASSUME TypeOK, OwnFrames, Fetch, wire' = wire, buf' \in {buf, Head(ring)}
    PROVE  OwnFrames'
<1>1. ring \in Seq(Frame) /\ ring # << >> /\ ring' = Tail(ring)
  BY DEF TypeOK, NetTypeOK, Fetch
<1>2. /\ Head(ring) = ring[1] /\ 1 \in 1 .. Len(ring)
      /\ \A i \in 1 .. Len(ring') : ring'[i] = ring[i + 1] /\ i + 1 \in 1 .. Len(ring)
  BY <1>1
<1>. QED  BY <1>2 DEF OwnFrames

LEMMA ServerOwn ==
    ASSUME TypeOK, OwnFrames, AnswersArp \/ Serves \/ HearsAck \/ Refuses \/ Resends,
           wire' = wire, buf' = buf
    PROVE  OwnFrames'
<1>1. \A k \in Kind : \A t \in Tid \cup {0} : \A b \in Nat :
          FrameOf(k, t, b) \in Frame /\ Genuine(FrameOf(k, t, b))
  BY FrameType DEF FrameOf, Genuine
<1>2. {"data", "error", "arp_reply"} \subseteq Kind /\ Tid \subseteq Tid \cup {0}
      /\ 0 \in Tid \cup {0}
  BY DEF Kind
<1>3. toServer \in Seq(Message) /\ sending \in [Tid -> 0 .. Blocks]
  BY DEF TypeOK, ServerTypeOK
<1>4. CASE ring' = ring
  BY <1>4 DEF OwnFrames
<1>5. CASE \E k \in Kind : \E t \in Tid \cup {0} : \E b \in Nat : Arrive(FrameOf(k, t, b))
  BY <1>1, <1>5, OwnArrives
<1>6. CASE AnswersArp \/ Refuses
  BY <1>2, <1>5, <1>6 DEF AnswersArp, Refuses
<1>7. CASE Serves
  BY <1>2, <1>5, <1>7 DEF Serves
<1>8. CASE HearsAck
  <2>1. CASE Expected(Head(toServer))
    <3>. DEFINE t == Head(toServer).port
                b == Head(toServer).block
    <3>1. t \in Tid /\ b + 1 \in Nat
      <4>1. t \in Tid /\ b = sending[t] /\ b \in 0 .. Blocks
        BY <1>3, <2>1 DEF Expected
      <4>. QED  BY <4>1
    <3>2. ring' = ring \/ Arrive(FrameOf("data", t, b + 1))
      BY <1>8, <2>1 DEF HearsAck
    <3>. HIDE DEF t, b
    <3>. QED  BY <1>2, <1>4, <1>5, <3>1, <3>2
  <2>. QED  BY <1>4, <1>8, <2>1 DEF HearsAck
<1>9. CASE Resends
  <2>1. PICK t \in Tid : ring' = ring \/ Arrive(FrameOf("data", t, sending[t]))
    BY <1>9 DEF Resends
  <2>2. sending[t] \in Nat
    BY <1>3
  <2>. QED  BY <1>2, <1>4, <1>5, <2>1, <2>2
<1>. QED  BY <1>6, <1>7, <1>8, <1>9

LEMMA DisturbOwn == TypeOK /\ OwnFrames /\ Disturbs => OwnFrames'
<1>. SUFFICES ASSUME TypeOK, OwnFrames, Disturbs PROVE OwnFrames'
  OBVIOUS
<1>1. wire' = wire /\ buf' = buf
  BY DEF Disturbs
<1>2. CASE Fetch
  BY <1>1, <1>2, OwnFetched
<1>3. CASE ring # << >> /\ Arrive(Head(ring))
  <2>1. ring \in Seq(Frame)
    BY DEF TypeOK, NetTypeOK
  <2>2. Head(ring) \in Frame /\ Head(ring) = ring[1] /\ 1 \in 1 .. Len(ring)
    BY <1>3, <2>1
  <2>3. "overheard" \notin wire.kinds => Genuine(Head(ring))
    BY <2>2 DEF OwnFrames
  <2>. QED  BY <1>1, <1>3, <2>2, <2>3, OwnArrives
<1>4. CASE ring' = ring
  BY <1>1, <1>4 DEF OwnFrames
<1>5. CASE \E frame \in NoiseFrames : Arrive(frame)
  <2>1. PICK frame \in NoiseFrames : Arrive(frame)
    BY <1>5
  <2>2. frame \in Frame
    BY NoiseType
  <2>3. "overheard" \notin wire.kinds => frame.kind # "data"
    BY DEF NoiseFrames, FrameOf, Overheard
  <2>. QED  BY <1>1, <2>1, <2>2, <2>3, OwnArrives DEF Genuine
<1>. QED  BY <1>2, <1>3, <1>4, <1>5 DEF Disturbs

LEMMA InitBuffered == Init => Buffered
BY DEF Init, NetInit, Buffered, OwnFrames, HasContext, Matched, Genuine, Overheard

(* A frame that is looked at while a transfer is under way.                *)
LEMMA PollBuffered == TypeOK /\ Buffered /\ Polls => Buffered'
<1>. SUFFICES ASSUME TypeOK, Buffered, Polls PROVE Buffered'
  OBVIOUS
<1>1. /\ Fetch /\ buf' = Head(ring) /\ proc_udp(Head(ring))
      /\ UNCHANGED <<wire, at, uc, inherited>>
  BY DEF Polls, proc_network, network, client
<1>2. OwnFrames'
  BY <1>1, OwnFetched DEF Buffered
<1>3. used' = used
  BY <1>1 DEF proc_udp, udp
<1>4. HasContext'
  BY <1>1, <1>3 DEF Buffered, HasContext
<1>5. Matched'
  <2>. SUFFICES ASSUME Alone', at' # "shell", Waiting', buf'.kind = "data"
                PROVE  data_len' = buf'.len
    BY DEF Matched
  <2>1. at = "loop" /\ used
    BY <1>1 DEF Polls, Buffered, HasContext
  <2>2. Genuine(buf')
    BY <1>2 DEF OwnFrames, Alone
  <2>3. IsUdp(Head(ring))
    BY <1>1, <2>2 DEF Genuine, IsUdp
  <2>. QED  BY <1>1, <2>1, <2>3 DEF proc_udp
<1>. QED  BY <1>2, <1>4, <1>5 DEF Buffered

(* A command that waits for the address, or its next block.                *)
LEMMA TransferBuffered ==
    TypeOK /\ Buffered /\ (WaitsForAddress \/ GetsOther \/ GetsBlock) => Buffered'
<1>. SUFFICES ASSUME TypeOK, Buffered, WaitsForAddress \/ GetsOther \/ GetsBlock
              PROVE  Buffered'
  OBVIOUS
<1>1. CASE WaitsForAddress
  <2>1. /\ Fetch /\ UNCHANGED <<wire, buf, used, data_len, uc, inherited>>
        /\ at = "arp"
        /\ at' = "arp" \/ (at' = "loop" /\ uc)
    BY <1>1 DEF WaitsForAddress, wait_arp, udp, network, SendRequest
  <2>2. OwnFrames'
    BY <2>1, OwnFetched DEF Buffered
  <2>. QED  BY <2>1, <2>2 DEF Buffered, HasContext, Matched, Alone, Waiting
<1>2. CASE GetsOther \/ GetsBlock
  <2>1. /\ UNCHANGED <<ring, buf, wire, uc, inherited>> /\ data_len' = "none"
        /\ at = "loop" /\ (at' = "shell" \/ (at' = "loop" /\ used' = used))
    BY <1>2 DEF GetsOther, GetsBlock, Received, network, Returns
  <2>. QED  BY <2>1 DEF Buffered, OwnFrames, HasContext, Matched, Waiting
<1>. QED  BY <1>1, <1>2

LEMMA CommandBuffered ==
    TypeOK /\ Buffered /\ (Commands \/ GivesUp \/ GetsError) => Buffered'
<1>. SUFFICES ASSUME TypeOK, Buffered, Commands \/ GivesUp \/ GetsError PROVE Buffered'
  OBVIOUS
<1>1. CASE tftp_get
  <2>1. /\ UNCHANGED <<ring, buf, wire, data_len>> /\ used' = TRUE
        /\ inherited' = Waiting
    BY <1>1 DEF tftp_get, network
  <2>. QED  BY <2>1 DEF Buffered, OwnFrames, HasContext, Matched, Alone, Waiting
<1>2. CASE Ipaddr
  <2>1. at = "shell" /\ ring' = << >> /\ UNCHANGED <<buf, wire, at>>
    BY <1>2 DEF Ipaddr, init_network, network, client
  <2>. QED  BY <2>1 DEF Buffered, OwnFrames, HasContext, Matched
<1>3. CASE Aborts \/ AddressTimesOut
  <2>1. /\ UNCHANGED <<ring, buf, wire, used, data_len, uc, inherited>>
        /\ at' \in {"shell", at}
    BY <1>3 DEF Aborts, AddressTimesOut, ReturnsWithoutClose, network, udp
  <2>. QED  BY <2>1 DEF Buffered, OwnFrames, HasContext, Matched, Alone, Waiting
<1>4. CASE TimesOut \/ GetsError
  <2>1. UNCHANGED <<ring, buf, wire>> /\ at' = "shell"
    BY <1>4 DEF TimesOut, GetsError, Received, Returns, network
  <2>. QED  BY <2>1 DEF Buffered, OwnFrames, HasContext, Matched
<1>. QED  BY <1>1, <1>2, <1>3, <1>4 DEF Commands, GivesUp

LEMMA NextBuffered == TypeOK /\ Buffered /\ [Next]_vars => Buffered'
<1>. SUFFICES ASSUME TypeOK, Buffered, [Next]_vars PROVE Buffered'
  OBVIOUS
<1>1. CASE ServerHears \/ ServerTimesOut \/ Disturbs
  <2>1. OwnFrames'
    <3>1. CASE Disturbs
      BY <3>1, DisturbOwn DEF Buffered
    <3>2. CASE ServerHears \/ ServerTimesOut
      BY <3>2, ServerOwn DEF Buffered, ServerHears, ServerTimesOut, network
    <3>. QED  BY <1>1, <3>1, <3>2
  <2>2. UNCHANGED <<buf, used, data_len, wire, at, uc, inherited>>
    BY <1>1 DEF ServerHears, ServerTimesOut, Disturbs, udp, network, client
  <2>. QED  BY <2>1, <2>2 DEF Buffered, HasContext, Matched, Alone, Waiting
<1>2. CASE UNCHANGED vars
  BY <1>2 DEF vars, net, udp, network, client, Buffered, OwnFrames, HasContext, Matched,
              Alone, Waiting
<1>. QED  BY <1>1, <1>2, PollBuffered, TransferBuffered, CommandBuffered
          DEF Next, Gets, GivesUp, Commands
-----------------------------------------------------------------------------
(* A transfer that has received nothing has stored nothing, a command      *)
(* under way has not returned anything yet, and the blocks are counted.    *)
Fresh    == /\ at = "arp" => stored = << >>
            /\ at = "loop" /\ rt > 0 => stored = << >>
Running  == at # "shell" => outcome = "none"
Numbered == /\ blk_num = Len(stored) + 1
            /\ \A i \in 1 .. Len(stored) : stored[i].block = i

IInv == /\ Numbered
        /\ LoadedIsPrefix
        /\ SuccessIsWhole
        /\ ContextComesBack
        /\ Fresh
        /\ Running

(* What the steps of a transfer may disturb.                               *)
kept == <<used, at, blk_num, stored, outcome, wire, inherited>>

LEMMA InitIInv == Init => IInv
BY DEF Init, NetInit, IInv, Numbered, LoadedIsPrefix, IsPrefix, SuccessIsWhole,
       ContextComesBack, Fresh, Running

LEMMA KeptIInv == IInv /\ UNCHANGED kept /\ (rt' = rt \/ rt' = 0) => IInv'
BY DEF IInv, Numbered, LoadedIsPrefix, IsPrefix, SuccessIsWhole, ContextComesBack, Fresh,
       Running, Alone, kept

LEMMA KeptSteps ==
    ASSUME Polls \/ GetsOther \/ Disturbs \/ ServerHears \/ ServerTimesOut
    PROVE  UNCHANGED kept /\ (rt' = rt \/ rt' = 0)
<1>1. CASE Polls
  BY <1>1 DEF Polls, proc_network, proc_udp, udp, network, client, kept
<1>2. CASE GetsOther
  BY <1>2 DEF GetsOther, Received, network, kept
<1>3. CASE Disturbs
  BY <1>3 DEF Disturbs, udp, client, kept
<1>4. CASE ServerHears
  BY <1>4 DEF ServerHears, udp, network, client, kept
<1>5. CASE ServerTimesOut
  BY <1>5 DEF ServerTimesOut, udp, network, client, kept
<1>. QED  BY <1>1, <1>2, <1>3, <1>4, <1>5

(* A command starts with nothing stored.                                   *)
LEMMA StartStep == IInv /\ tftp_get => IInv'
<1>. SUFFICES ASSUME IInv, tftp_get PROVE IInv'
  OBVIOUS
<1>1. /\ stored' = << >> /\ blk_num' = 1 /\ outcome' = "none"
      /\ at' \in {"arp", "loop"}
  BY DEF tftp_get, SendRequest, AskAddress
<1>. QED  BY <1>1 DEF IInv, Numbered, LoadedIsPrefix, IsPrefix, SuccessIsWhole,
                      ContextComesBack, Fresh, Running

LEMMA WaitStep == IInv /\ WaitsForAddress => IInv'
<1>. SUFFICES ASSUME IInv, WaitsForAddress PROVE IInv'
  OBVIOUS
<1>1. /\ UNCHANGED <<stored, blk_num, outcome, wire, inherited>>
      /\ at = "arp" /\ at' \in {"arp", "loop"}
  BY DEF WaitsForAddress, SendRequest, network
<1>. QED  BY <1>1 DEF IInv, Numbered, LoadedIsPrefix, IsPrefix, SuccessIsWhole,
                      ContextComesBack, Fresh, Running, Alone

(* Leaving without close_udp().                                            *)
LEMMA LeaveStep == IInv /\ (AddressTimesOut \/ Aborts) => IInv'
<1>. SUFFICES ASSUME IInv, AddressTimesOut \/ Aborts PROVE IInv'
  OBVIOUS
<1>1. /\ UNCHANGED <<stored, blk_num, rt, used, wire, inherited>>
      /\ \/ at' = "shell" /\ outcome' = "left"
         \/ at = "arp" /\ UNCHANGED <<at, outcome>>
  BY DEF AddressTimesOut, Aborts, ReturnsWithoutClose, udp, network
<1>. QED  BY <1>1 DEF IInv, Numbered, LoadedIsPrefix, IsPrefix, SuccessIsWhole,
                      ContextComesBack, Fresh, Running, Alone

LEMMA EndStep == IInv /\ (TimesOut \/ GetsError) => IInv'
<1>. SUFFICES ASSUME IInv, TimesOut \/ GetsError PROVE IInv'
  OBVIOUS
<1>1. /\ UNCHANGED <<stored, blk_num, wire, inherited>>
      /\ used' = FALSE /\ at' = "shell"
  BY DEF TimesOut, GetsError, Received, Returns, network
<1>2. outcome' = "ok" => stored = << >>
  BY DEF TimesOut, GetsError, Returns, Verdict, IInv, Fresh
<1>. QED  BY <1>1, <1>2 DEF IInv, Numbered, LoadedIsPrefix, IsPrefix, SuccessIsWhole,
                            ContextComesBack, Fresh, Running, Alone

(* The block that is stored is the one behind those that are there, with   *)
(* its content and its length where the buffer holds blocks of this file.  *)
LEMMA BlockStep == TypeOK /\ Buffered /\ IInv /\ GetsBlock => IInv'
<1>. SUFFICES ASSUME TypeOK, Buffered, IInv, GetsBlock PROVE IInv'
  OBVIOUS
<1>0. /\ stored \in Seq([block : Nat, mine : BOOLEAN, len : Length])
      /\ buf \in Frame /\ blk_num = Len(stored) + 1
  BY DEF TypeOK, NetTypeOK, IInv, Numbered
<1>1. /\ at = "loop" /\ outcome = "none" /\ Waiting
      /\ UNCHANGED <<wire, inherited>>
  BY DEF IInv, Running, GetsBlock, Received, network
<1>2. /\ buf.kind = "data" /\ buf.block = blk_num
      /\ stored' = Append(stored, Saved)
      /\ blk_num' = blk_num + 1
  BY DEF GetsBlock, NextBlock
<1>3. /\ Len(stored') = Len(stored) + 1
      /\ \A i \in 1 .. Len(stored') :
             stored'[i] = IF i = Len(stored') THEN Saved ELSE stored[i]
      /\ \A i \in 1 .. Len(stored') : i # Len(stored') => i \in 1 .. Len(stored)
  <2>1. Len(stored') = Len(stored) + 1
    BY <1>0, <1>2
  <2>2. ASSUME NEW i \in 1 .. Len(stored')
        PROVE  /\ stored'[i] = IF i = Len(stored') THEN Saved ELSE stored[i]
               /\ i # Len(stored') => i \in 1 .. Len(stored)
    BY <1>0, <1>2, <2>1
  <2>. QED  BY <2>1, <2>2
<1>4. Saved.block = Len(stored')
  BY <1>0, <1>2, <1>3 DEF Saved
<1>5. Numbered'
  BY <1>0, <1>2, <1>3, <1>4 DEF IInv, Numbered
<1>6. Alone => Saved = FileBlock(Len(stored')) /\ data_len = LengthOf(Len(stored'))
  <2>. SUFFICES ASSUME Alone
                PROVE  Saved = FileBlock(Len(stored')) /\ data_len = LengthOf(Len(stored'))
    OBVIOUS
  <2>1. buf.mine /\ buf.len = LengthOf(buf.block)
    BY <1>2 DEF Alone, Buffered, OwnFrames, Genuine
  <2>2. data_len = buf.len
    BY <1>1, <1>2 DEF Buffered, Matched
  <2>3. buf.mine = TRUE
    BY <1>0, <2>1 DEF Frame
  <2>4. buf.block = Len(stored')
    BY <1>4 DEF Saved
  <2>. QED  BY <2>1, <2>2, <2>3, <2>4 DEF Saved, FileBlock
<1>7. LoadedIsPrefix'
  BY <1>1, <1>3, <1>6 DEF IInv, LoadedIsPrefix, IsPrefix, Alone, FileBlock
<1>8. \/ /\ Last
         /\ at' = "shell" /\ used' = FALSE /\ outcome' = "ok"
      \/ /\ at' = "loop" /\ outcome' = "none" /\ rt' = 0
  BY <1>1 DEF GetsBlock, Returns
<1>9. Alone /\ outcome' = "ok" => Len(stored') = Blocks
  BY <1>6, <1>8 DEF Last, LengthOf
<1>. QED  BY <1>1, <1>5, <1>7, <1>8, <1>9
          DEF IInv, SuccessIsWhole, ContextComesBack, Fresh, Running, Alone

LEMMA NextIInv == TypeOK /\ Buffered /\ IInv /\ [Next]_vars => IInv'
<1>. SUFFICES ASSUME TypeOK, Buffered, IInv, [Next]_vars PROVE IInv'
  OBVIOUS
<1>1. CASE Polls \/ GetsOther \/ Disturbs \/ ServerHears \/ ServerTimesOut
  BY <1>1, KeptSteps, KeptIInv
<1>2. CASE Ipaddr
  <2>1. used' = FALSE /\ UNCHANGED <<at, blk_num, stored, rt, outcome, wire, inherited>>
    BY <1>2 DEF Ipaddr, init_network, network, client
  <2>. QED  BY <2>1 DEF IInv, Numbered, LoadedIsPrefix, IsPrefix, SuccessIsWhole,
                        ContextComesBack, Fresh, Running, Alone
<1>3. CASE UNCHANGED vars
  BY <1>3, KeptIInv DEF vars, net, udp, network, client, kept
<1>. QED  BY <1>1, <1>2, <1>3, StartStep, WaitStep, LeaveStep, EndStep, BlockStep
          DEF Next, Gets, GivesUp, Commands

-----------------------------------------------------------------------------
(* udp.c:171, one buffer for all contexts and one length in the context:   *)
(* what is at the load address is the file from its start, with each       *)
(* block's own content and length, on every network on which no one else's *)
(* TFTP is overheard and for every command no datagram waited for.         *)
THEOREM LoadIsInOrder == Spec => []LoadedIsPrefix
<1>1. IInv => LoadedIsPrefix
  BY DEF IInv
<1>. QED  BY <1>1, InitType, NextType, InitBuffered, NextBuffered, InitIInv, NextIInv, PTL
          DEF Spec

(* tftpget.c:203: under the same condition, the program is started from    *)
(* the whole file or, after a silent server, from what was in memory       *)
(* before.                                                                 *)
THEOREM NoHalfProgramStarts == Spec => []SuccessIsWhole
<1>1. IInv => SuccessIsWhole
  BY DEF IInv
<1>. QED  BY <1>1, InitType, NextType, InitBuffered, NextBuffered, InitIInv, NextIInv, PTL
          DEF Spec

(* udp.c:112: the context is free again after every command that reached   *)
(* close_udp(), on every network.                                          *)
THEOREM ContextIsFreed == Spec => []ContextComesBack
<1>1. IInv => ContextComesBack
  BY DEF IInv
<1>. QED  BY <1>1, InitType, NextType, InitBuffered, NextBuffered, InitIInv, NextIInv, PTL
          DEF Spec
-----------------------------------------------------------------------------
(* The acknowledgements of the last block that are on their way: each was  *)
(* sent by a command that had stored the file.                             *)
Final(message) == message.kind = "ack" /\ message.block = Blocks
Finals(q)      == {i \in 1 .. Len(q) : Final(q[i])}

Ledger == /\ IsFiniteSet(served)
          /\ Cardinality(served) + Cardinality(Finals(toServer)) <= loaded

LEMMA FinalsFinite ==
    ASSUME NEW q \in Seq(Message)
    PROVE  IsFiniteSet(Finals(q)) /\ Cardinality(Finals(q)) \in Nat
<1>1. IsFiniteSet(1 .. Len(q)) /\ Finals(q) \in SUBSET (1 .. Len(q))
  BY FS_Interval DEF Finals
<1>. QED  BY <1>1, FS_Subset, FS_CardinalityType

LEMMA FinalsOfAppend ==
    ASSUME NEW q \in Seq(Message), NEW message \in Message
    PROVE  Cardinality(Finals(Append(q, message))) =
               Cardinality(Finals(q)) + IF Final(message) THEN 1 ELSE 0
<1>. DEFINE n == Len(q) + 1
<1>1. /\ Len(Append(q, message)) = n /\ n \in Nat
      /\ \A i \in 1 .. Len(q) : Append(q, message)[i] = q[i]
      /\ Append(q, message)[n] = message
  OBVIOUS
<1>2. 1 .. n = (1 .. Len(q)) \cup {n} /\ n \notin 1 .. Len(q)
  OBVIOUS
<1>3. Finals(Append(q, message)) =
          IF Final(message) THEN Finals(q) \cup {n} ELSE Finals(q)
  <2>. HIDE DEF n
  <2>. QED  BY <1>1, <1>2 DEF Finals
<1>4. n \notin Finals(q)
  BY <1>2 DEF Finals
<1>5. IsFiniteSet(Finals(q)) /\ Cardinality(Finals(q)) \in Nat
  BY FinalsFinite
<1>6. Cardinality(Finals(q) \cup {n}) = Cardinality(Finals(q)) + 1
  <2>. HIDE DEF n
  <2>. QED  BY <1>4, <1>5, FS_AddElement
<1>. QED  BY <1>3, <1>5, <1>6

LEMMA FinalsOfTail ==
    ASSUME NEW q \in Seq(Message), q # << >>
    PROVE  Cardinality(Finals(Tail(q))) =
               Cardinality(Finals(q)) - IF Final(Head(q)) THEN 1 ELSE 0
<1>. DEFINE S == Finals(Tail(q))
            T == Finals(q) \ {1}
            f == [i \in S |-> i + 1]
<1>1. /\ Tail(q) \in Seq(Message) /\ Len(Tail(q)) = Len(q) - 1 /\ Len(q) \in Nat
      /\ Len(q) # 0 /\ Head(q) = q[1]
      /\ \A i \in 1 .. Len(Tail(q)) : Tail(q)[i] = q[i + 1]
  OBVIOUS
<1>2. f \in [S -> T]
  <2>1. \A i \in S : i + 1 \in T
    BY <1>1 DEF Finals
  <2>. QED  BY <2>1
<1>3. \A a, b \in S : f[a] = f[b] => a = b
  BY DEF Finals
<1>4. \A t \in T : \E a \in S : f[a] = t
  <2>1. SUFFICES ASSUME NEW t \in T PROVE t - 1 \in S /\ f[t - 1] = t
    OBVIOUS
  <2>2. t \in 1 .. Len(q) /\ t # 1 /\ Final(q[t])
    BY DEF Finals
  <2>3. t - 1 \in 1 .. Len(Tail(q)) /\ (t - 1) + 1 = t
    BY <1>1, <2>2
  <2>4. t - 1 \in S
    BY <1>1, <2>2, <2>3 DEF Finals
  <2>. QED  BY <2>3, <2>4
<1>5. f \in Bijection(S, T)
  BY <1>2, <1>3, <1>4 DEF Bijection, Injection, Surjection, IsInjective
<1>6. IsFiniteSet(S) /\ Cardinality(T) = Cardinality(S)
  <2>1. IsFiniteSet(S) /\ ExistsBijection(S, T)
    BY <1>1, <1>5, FinalsFinite DEF ExistsBijection
  <2>. HIDE DEF S, T
  <2>. QED  BY <2>1, FS_Bijection
<1>7. 1 \in Finals(q) <=> Final(Head(q))
  BY <1>1 DEF Finals
<1>8. Cardinality(T) = Cardinality(Finals(q)) - IF Final(Head(q)) THEN 1 ELSE 0
  <2>1. IsFiniteSet(Finals(q)) /\ Cardinality(Finals(q)) \in Nat
    BY FinalsFinite
  <2>2. Cardinality(T) = IF 1 \in Finals(q) THEN Cardinality(Finals(q)) - 1
                         ELSE Cardinality(Finals(q))
    BY <2>1, FS_RemoveElement
  <2>. QED  BY <1>7, <2>1, <2>2
<1>. QED  BY <1>6, <1>8

LEMMA InitLedger == Init => Ledger
<1>. SUFFICES ASSUME Init PROVE Ledger
  OBVIOUS
<1>1. toServer = << >> /\ served = {} /\ loaded = 0
  BY DEF Init, ServerInit
<1>2. Finals(toServer) = {}
  BY <1>1 DEF Finals
<1>3. /\ IsFiniteSet(served) /\ Cardinality(served) = 0
      /\ Cardinality(Finals(toServer)) = 0
  BY <1>1, <1>2, FS_EmptySet, Zenon
<1>. QED  BY <1>1, <1>3 DEF Ledger

(* Nothing that enters the queue is a last acknowledgement, and what       *)
(* leaves it can only be one fewer.                                        *)
LEMMA LedgerKept ==
    ASSUME TypeOK, TypeOK', Ledger, served' = served, loaded' = loaded,
           \/ toServer' = toServer
           \/ \E message \in Message : ~Final(message) /\ Sends(message)
           \/ toServer # << >> /\ toServer' = Tail(toServer)
    PROVE  Ledger'
<1>1. toServer \in Seq(Message)
  BY DEF TypeOK, ServerTypeOK
<1>2. IsFiniteSet(served) /\ Cardinality(served) \in Nat /\ loaded \in Nat
  BY FS_CardinalityType DEF Ledger, TypeOK
<1>3. Cardinality(Finals(toServer)) \in Nat
  BY <1>1, FinalsFinite
<1>4. CASE toServer' = toServer
  BY <1>4 DEF Ledger
<1>5. CASE \E message \in Message : ~Final(message) /\ Sends(message)
  <2>1. Cardinality(Finals(toServer')) = Cardinality(Finals(toServer))
    BY <1>1, <1>3, <1>5, FinalsOfAppend DEF Sends
  <2>. QED  BY <1>2, <2>1 DEF Ledger
<1>6. CASE toServer # << >> /\ toServer' = Tail(toServer)
  <2>1. Cardinality(Finals(toServer')) \in
            {Cardinality(Finals(toServer)), Cardinality(Finals(toServer)) - 1}
    BY <1>1, <1>3, <1>6, FinalsOfTail
  <2>. QED  BY <1>2, <1>3, <2>1 DEF Ledger
<1>. QED  BY <1>4, <1>5, <1>6

(* The step that owes the server an acknowledgement has stored a block,    *)
(* and the last of them when it is the last acknowledgement.               *)
LEMMA BlockLedger == TypeOK /\ IInv /\ Ledger /\ GetsBlock => Ledger'
<1>. SUFFICES ASSUME TypeOK, IInv, Ledger, GetsBlock PROVE Ledger'
  OBVIOUS
<1>1. /\ toServer \in Seq(Message) /\ loaded \in Nat /\ buf.block \in Nat
      /\ stored \in Seq([block : Nat, mine : BOOLEAN, len : Length])
      /\ Peer \in Tid \cup {0}
  BY DEF TypeOK, NetTypeOK, ServerTypeOK, Frame, Peer
<1>2. IsFiniteSet(served) /\ Cardinality(served) \in Nat
  BY FS_CardinalityType DEF Ledger
<1>3. Cardinality(Finals(toServer)) \in Nat
  BY <1>1, FinalsFinite
<1>. DEFINE ack == Says("ack", Peer, buf.block)
<1>4. ack \in Message /\ (Final(ack) <=> buf.block = Blocks)
  BY <1>1, SaysType DEF Final, Says
<1>5. Cardinality(Finals(toServer')) =
          Cardinality(Finals(toServer)) + IF buf.block = Blocks THEN 1 ELSE 0
  <2>1. toServer' = Append(toServer, ack)
    BY DEF GetsBlock, Sends
  <2>. HIDE DEF ack
  <2>. QED  BY <1>1, <1>4, <2>1, FinalsOfAppend
<1>6. loaded' = loaded + IF buf.block = Blocks THEN 1 ELSE 0
  <2>1. Len(stored') = Len(stored) + 1 /\ Len(stored) + 1 = buf.block
    BY <1>1 DEF GetsBlock, NextBlock, IInv, Numbered
  <2>. QED  BY <1>1, <2>1 DEF GetsBlock
<1>7. served' = served
  BY DEF GetsBlock, Received, server
<1>. QED  BY <1>1, <1>2, <1>3, <1>5, <1>6, <1>7 DEF Ledger

(* A transfer is served when its last acknowledgement leaves the queue.    *)
LEMMA AckLedger == TypeOK /\ Ledger /\ HearsAck /\ loaded' = loaded => Ledger'
<1>. SUFFICES ASSUME TypeOK, Ledger, HearsAck, loaded' = loaded PROVE Ledger'
  OBVIOUS
<1>. DEFINE message == Head(toServer)
<1>1. toServer \in Seq(Message) /\ loaded \in Nat
  BY DEF TypeOK, ServerTypeOK
<1>2. IsFiniteSet(served) /\ Cardinality(served) \in Nat
  BY FS_CardinalityType DEF Ledger
<1>3. Cardinality(Finals(toServer)) \in Nat
  BY <1>1, FinalsFinite
<1>4. toServer # << >> /\ toServer' = Tail(toServer) /\ message.kind = "ack"
  BY <1>1, HearsType DEF HearsAck
<1>5. Cardinality(Finals(toServer')) =
          Cardinality(Finals(toServer)) - IF Final(message) THEN 1 ELSE 0
  BY <1>1, <1>4, FinalsOfTail
<1>6. CASE served' = served
  BY <1>1, <1>2, <1>3, <1>5, <1>6 DEF Ledger
<1>7. CASE served' # served
  <2>1. message.block = Blocks /\ served' = served \cup {message.port}
    BY <1>7 DEF HearsAck, server
  <2>2. /\ IsFiniteSet(served')
        /\ Cardinality(served') \in {Cardinality(served), Cardinality(served) + 1}
    BY <1>2, <2>1, FS_AddElement
  <2>3. Final(message)
    BY <1>4, <2>1 DEF Final
  <2>. QED  BY <1>1, <1>2, <1>3, <1>5, <2>2, <2>3 DEF Ledger
<1>. QED  BY <1>6, <1>7

LEMMA NextLedger == TypeOK /\ TypeOK' /\ IInv /\ Ledger /\ [Next]_vars => Ledger'
<1>. SUFFICES ASSUME TypeOK, TypeOK', IInv, Ledger, [Next]_vars PROVE Ledger'
  OBVIOUS
<1>0. /\ Says("request", 0, 0) \in Message /\ ~Final(Says("request", 0, 0))
      /\ Says("arp", 0, 0) \in Message /\ ~Final(Says("arp", 0, 0))
  BY SaysType DEF Final, Says
<1>1. CASE Polls \/ WaitsForAddress
  BY <1>0, <1>1, LedgerKept DEF Polls, WaitsForAddress, SendRequest, server, client
<1>2. CASE GetsError \/ GetsOther
  BY <1>2, LedgerKept DEF GetsError, GetsOther, Received, server
<1>3. CASE AddressTimesOut \/ Aborts \/ TimesOut
  BY <1>0, <1>3, LedgerKept DEF AddressTimesOut, Aborts, TimesOut, ReturnsWithoutClose,
                                server
<1>4. CASE tftp_get \/ Ipaddr
  BY <1>0, <1>4, LedgerKept DEF tftp_get, SendRequest, AskAddress, Ipaddr, server, client
<1>5. CASE Disturbs
  BY <1>5, LedgerKept DEF Disturbs, server, client
<1>6. CASE ServerHears
  <2>1. CASE AnswersArp \/ Serves \/ Refuses
    BY <1>6, <2>1, LedgerKept DEF ServerHears, AnswersArp, Serves, Refuses, Hears, server,
                                  client
  <2>. QED  BY <1>6, <2>1, AckLedger DEF ServerHears, client
<1>7. CASE ServerTimesOut
  BY <1>7, LedgerKept DEF ServerTimesOut, Resends, client
<1>8. CASE UNCHANGED vars
  BY <1>8, LedgerKept DEF vars, server, client
<1>. QED  BY <1>1, <1>2, <1>3, <1>4, <1>5, <1>6, <1>7, <1>8, BlockLedger
          DEF Next, Gets, GivesUp, Commands

(* tftpget.c:132: a server is told that its last block has come only by a  *)
(* command that has all of them, each server by one of its own, whatever   *)
(* is lost, repeated or left from an earlier transfer.                     *)
THEOREM ServerIsNotMisled == Spec => []ServedIsLoaded
<1>1. TypeOK /\ Ledger => ServedIsLoaded
  <2>. SUFFICES ASSUME TypeOK, Ledger PROVE ServedIsLoaded
    OBVIOUS
  <2>1. Cardinality(served) \in Nat /\ Cardinality(Finals(toServer)) \in Nat
    BY FS_CardinalityType, FinalsFinite DEF Ledger, TypeOK, ServerTypeOK
  <2>. QED  BY <2>1 DEF Ledger, ServedIsLoaded, TypeOK
<1>. QED  BY <1>1, InitType, NextType, InitBuffered, NextBuffered, InitIInv, NextIInv,
             InitLedger, NextLedger, PTL
          DEF Spec
=============================================================================
