----------------------- MODULE YmodemReceiverProofs -------------------------
(***************************************************************************)
(* What ymodem_receive() guarantees to its caller, for every buffer length,*)
(* packet length and error limit: first whoever is at the other end, then  *)
(* when a host sends it one file over a faulty line.                       *)
(***************************************************************************)
EXTENDS YmodemAnySender, YmodemDownload, TLAPS

(* The receiver's own state; the invariant of a run that has not failed.   *)
Position == /\ packets_received = 0 => buf_ptr = 0
            /\ buf_ptr <= BufLen
            /\ buf[BufLen] = Canary
Report   == result # "failed" => size <= BufLen
Budget   == /\ result = "none" => errors < MaxErrors /\ errno = "none"
            /\ errors <= MaxErrors
            /\ errors = MaxErrors <=> errno = "TOOMANYRECVERRORS"

Inv == AnyTypeOK /\ Position /\ Report /\ Budget

USE LenAssumption, SeqModAssumption, LineCapAssumption, BufLenAssumption,
    MaxErrorsAssumption, BufByteAssumption

-----------------------------------------------------------------------------
(* Facts about the line.                                                   *)
LEMMA PutType ==
    ASSUME NEW S, NEW queue \in Seq(S), NEW first \in S, NEW second \in S
    PROVE  /\ Put(queue, <<first>>) \in Seq(S)
           /\ Put(queue, <<first, second>>) \in Seq(S)
<1>1. <<first>> \in Seq(S) /\ <<first, second>> \in Seq(S)
  OBVIOUS
<1>. QED  BY <1>1 DEF Put

(* Each of the answers ymodem_receive() gives keeps the reply queue typed. *)
LEMMA AnswerType ==
    ASSUME toSnd \in Seq(Reply),
           NEW first \in Reply, NEW second \in Reply,
           Answer(<<first>>) \/ Answer(<<first, second>>)
    PROVE  toSnd' \in Seq(Reply)
BY PutType DEF Answer

LEMMA ReadsType ==
    ASSUME NEW kinds, toRcv \in Seq(Token), Reads(kinds)
    PROVE  /\ result = "none"
           /\ Head(toRcv) \in Token
           /\ Head(toRcv).kind \in kinds
           /\ toRcv' \in Seq(Token)
BY DEF Reads

LEMMA PacketFields ==
    ASSUME NEW p \in Token, p.kind = "packet"
    PROVE  p.size \in Nat /\ p.empty \in BOOLEAN /\ p.data \in Payload
BY DEF Token, Packet, Mark

LEMMA PayloadLen ==
    ASSUME NEW data \in Payload
    PROVE  /\ Len(data) \in {ShortLen, LongLen}
           /\ \A i \in 1 .. Len(data) : data[i] \in Byte
BY DEF Payload

LEMMA StoredType ==
    ASSUME buf \in [0 .. BufLen -> Byte \cup {Canary}],
           NEW data \in Payload, NEW offset \in Nat
    PROVE  /\ Stored(data, offset) \in [0 .. BufLen -> Byte \cup {Canary}]
           /\ offset + Len(data) <= BufLen =>
                Stored(data, offset)[BufLen] = buf[BufLen]
           /\ \A i \in 0 .. BufLen : i < offset => Stored(data, offset)[i] = buf[i]
<1>1. /\ Len(data) \in Nat
      /\ \A i \in 1 .. Len(data) : data[i] \in Byte
  BY PayloadLen
<1>2. \A i \in 0 .. BufLen : i \in offset .. offset + Len(data) - 1 =>
          i - offset + 1 \in 1 .. Len(data)
  BY <1>1
<1>. QED  BY <1>1, <1>2 DEF Stored

-----------------------------------------------------------------------------
LEMMA InitInv == AnyInit => Inv
BY DEF AnyInit, Inv, AnyTypeOK, Position, Report, Budget, RcvInit, RcvTypeOK, Errno

LEMMA ErrorStep ==
    ASSUME Inv, result = "none", ReceiveError
    PROVE  /\ toSnd' \in Seq(Reply) /\ RcvTypeOK'
           /\ Position' /\ Report' /\ Budget'
<1>. USE DEF Inv, AnyTypeOK, RcvTypeOK, Position, Report, Budget, Errno
<1>1. toSnd' \in Seq(Reply)
  BY AnswerType DEF ReceiveError, Reply
<1>2. RcvTypeOK' /\ Budget'
  BY DEF ReceiveError, Fail, Counted, TooMany
<1>3. Position' /\ Report'
  BY DEF ReceiveError, Fail, Counted, TooMany
<1>. QED  BY <1>1, <1>2, <1>3

LEMMA NextInv == Inv /\ [AnyNext]_openVars => Inv'
<1>. SUFFICES ASSUME Inv, [AnyNext]_openVars PROVE Inv'
  OBVIOUS
<1>. USE DEF Inv, AnyTypeOK, RcvTypeOK, Position, Report, Budget, Errno
<1>1. CASE RcvDamaged
  BY <1>1, ReadsType, ErrorStep DEF RcvDamaged
<1>2. CASE RcvTimeout
  BY <1>2, ErrorStep DEF RcvTimeout
<1>3. CASE RcvAbort
  <2>1. toRcv' \in Seq(Token) /\ result = "none"
    BY <1>3, ReadsType DEF RcvAbort
  <2>2. toSnd' \in Seq(Reply)
    BY <1>3, AnswerType DEF RcvAbort, Reply
  <2>. QED  BY <1>3, <2>1, <2>2 DEF RcvAbort, Fail
<1>4. CASE RcvEot
  <2>1. toRcv' \in Seq(Token) /\ result = "none"
    BY <1>4, ReadsType DEF RcvEot
  <2>2. toSnd' \in Seq(Reply)
    BY <1>4, AnswerType DEF RcvEot, Reply
  <2>. QED  BY <1>4, <2>1, <2>2 DEF RcvEot, NextFile
<1>5. CASE RcvWrongNumber
  <2>1. toRcv' \in Seq(Token) /\ result = "none"
    BY <1>5, ReadsType DEF RcvWrongNumber
  <2>2. toSnd' \in Seq(Reply)
    BY <1>5, AnswerType DEF RcvWrongNumber, Reply
  <2>. QED  BY <1>5, <2>1, <2>2 DEF RcvWrongNumber
<1>6. CASE RcvHeader
  <2>1. /\ toRcv' \in Seq(Token) /\ result = "none"
        /\ Head(toRcv) \in Token /\ Head(toRcv).kind = "packet"
    BY <1>6, ReadsType DEF RcvHeader, ReadsNext
  <2>2. toSnd' \in Seq(Reply)
    BY <1>6, AnswerType DEF RcvHeader, Reply
  <2>3. Head(toRcv).size \in Nat
    BY <2>1, PacketFields
  <2>4. CASE Head(toRcv).size > BufLen
    BY <1>6, <2>1, <2>2, <2>3, <2>4 DEF RcvHeader, Fail, TooBig
  <2>5. CASE ~(Head(toRcv).size > BufLen)
    <3>1. size' = Head(toRcv).size /\ size' <= BufLen
      BY <1>6, <2>3, <2>5, BufLenAssumption DEF RcvHeader
    <3>2. ~TooBig(size')
      BY <2>3, <3>1, BufLenAssumption DEF TooBig
    <3>3. /\ packets_received' = packets_received + 1 /\ packets_received = 0
          /\ errors' = 0 /\ crc_nak' \in BOOLEAN
          /\ UNCHANGED <<errno, result, buf, buf_ptr>>
      BY ONLY <1>6, <3>2 DEF RcvHeader
    <3>. QED  BY <2>1, <2>2, <2>3, <3>1, <3>3
  <2>. QED  BY <2>4, <2>5
<1>7. CASE RcvEmptyHeader
  <2>1. toRcv' \in Seq(Token) /\ result = "none"
    BY <1>7, ReadsType DEF RcvEmptyHeader, ReadsNext
  <2>2. toSnd' \in Seq(Reply)
    BY <1>7, AnswerType DEF RcvEmptyHeader, Reply
  <2>. QED  BY <1>7, <2>1, <2>2 DEF RcvEmptyHeader
<1>8. CASE RcvData
  <2>1. /\ toRcv' \in Seq(Token) /\ result = "none"
        /\ Head(toRcv) \in Token /\ Head(toRcv).kind = "packet"
    BY <1>8, ReadsType DEF RcvData, ReadsNext
  <2>2. toSnd' \in Seq(Reply)
    BY <1>8, AnswerType DEF RcvData, Reply
  <2>3. Head(toRcv).data \in Payload /\ Len(Head(toRcv).data) \in Nat
    BY <2>1, PacketFields, PayloadLen
  <2>4. CASE Fits(Head(toRcv))
    <3>1. buf' = Stored(Head(toRcv).data, buf_ptr)
      BY <1>8, <2>4 DEF RcvData
    <3>2. /\ buf \in [0 .. BufLen -> Byte \cup {Canary}]
          /\ buf_ptr \in Nat
          /\ buf_ptr + Len(Head(toRcv).data) <= BufLen
      BY <2>3, <2>4 DEF Fits
    <3>3. /\ Stored(Head(toRcv).data, buf_ptr) \in [0 .. BufLen -> Byte \cup {Canary}]
          /\ Stored(Head(toRcv).data, buf_ptr)[BufLen] = buf[BufLen]
      <4> HIDE DEF Inv, AnyTypeOK, RcvTypeOK, Position, Report, Budget
      <4> QED  BY <2>3, <3>2, StoredType
    <3>4. /\ buf' \in [0 .. BufLen -> Byte \cup {Canary}]
          /\ buf'[BufLen] = buf[BufLen]
      BY ONLY <3>1, <3>3
    <3>. QED  BY <1>8, <2>1, <2>2, <2>3, <2>4, <3>4 DEF RcvData, Fits
  <2>5. CASE ~Fits(Head(toRcv))
    BY <1>8, <2>1, <2>2, <2>5 DEF RcvData, Fail
  <2>. QED  BY <2>4, <2>5
<1>9. CASE Interferes
  BY <1>9 DEF Interferes, rcv
<1>10. CASE UNCHANGED openVars
  BY <1>10 DEF openVars, line, rcv
<1>. QED  BY <1>1, <1>2, <1>3, <1>4, <1>5, <1>6, <1>7, <1>8, <1>9, <1>10
          DEF AnyNext, RcvNext

(* Every variable of the receiver keeps its type on any line.              *)
THEOREM TypeCorrect == AnySpec => []AnyTypeOK
<1>1. Inv => AnyTypeOK
  BY DEF Inv
<1>. QED  BY <1>1, InitInv, NextInv, PTL DEF AnySpec

(* No sender makes ymodem_receive() write behind the lent buffer.          *)
THEOREM CanarySafe == AnySpec => []CanaryIntact
<1>1. Inv => CanaryIntact
  BY DEF Inv, Position, CanaryIntact
<1>. QED  BY <1>1, InitInv, NextInv, PTL DEF AnySpec

(* The write position is accounted for by the packets counted: the block   *)
(* number that is expected next and the place it goes to never drift apart. *)
LEMMA OneMore ==
    ASSUME NEW n \in Nat, NEW k \in Nat
    PROVE  (n + 1 - 1) * k = (n - 1) * k + k
OBVIOUS

LEMMA CountStep ==
    ASSUME Inv, PositionMatchesCount, [AnyNext]_openVars
    PROVE  PositionMatchesCount'
<1>. USE DEF PositionMatchesCount
<1>1. CASE RcvData
  <2>0. Head(toRcv).data \in Payload
    BY <1>1, ReadsType, PacketFields DEF RcvData, ReadsNext, Inv, AnyTypeOK
  <2>1. /\ Len(Head(toRcv).data) \in {ShortLen, LongLen}
        /\ packets_received \in Nat /\ packets_received # 0 /\ buf_ptr \in Nat
    BY <1>1, <2>0, PayloadLen DEF RcvData, Inv, AnyTypeOK, RcvTypeOK
  <2>2. CASE Fits(Head(toRcv))
    <3>1. /\ packets_received' = packets_received + 1
          /\ buf_ptr' = buf_ptr + Len(Head(toRcv).data)
      BY <1>1, <2>2 DEF RcvData
    <3>2. /\ (packets_received' - 1) * ShortLen
                = (packets_received - 1) * ShortLen + ShortLen
          /\ (packets_received' - 1) * LongLen
                = (packets_received - 1) * LongLen + LongLen
      BY <2>1, <3>1, OneMore
    <3>. DEFINE low == (packets_received - 1) * ShortLen
                high == (packets_received - 1) * LongLen
    <3>3. low \in Nat /\ high \in Nat /\ low <= buf_ptr /\ buf_ptr <= high
      BY <2>1
    <3>4. /\ (packets_received' - 1) * ShortLen = low + ShortLen
          /\ (packets_received' - 1) * LongLen = high + LongLen
      BY <3>2
    <3>5. packets_received' # 0
      BY <2>1, <3>1
    <3>. HIDE DEF low, high
    <3>6. low + ShortLen <= buf_ptr' /\ buf_ptr' <= high + LongLen
      BY <2>1, <3>1, <3>3
    <3>. QED  BY <3>4, <3>5, <3>6
  <2>3. CASE ~Fits(Head(toRcv))
    BY <1>1, <2>3 DEF RcvData
  <2>. QED  BY <2>2, <2>3
<1>2. CASE RcvHeader
  <2>1. packets_received = 0 /\ buf_ptr = 0 /\ buf_ptr' = buf_ptr
    BY <1>2 DEF RcvHeader
  <2>2. packets_received' \in {0, 1}
    BY <1>2, <2>1 DEF RcvHeader
  <2>3. CASE packets_received' = 0
    BY <2>1, <2>3
  <2>4. CASE packets_received' = 1
    <3>1. (packets_received' - 1) * ShortLen = 0
      BY <2>4
    <3>2. (packets_received' - 1) * LongLen = 0
      BY <2>4
    <3>. QED  BY <2>1, <2>4, <3>1, <3>2
  <2>. QED  BY <2>2, <2>3, <2>4
<1>3. CASE RcvEot
  BY <1>3 DEF RcvEot, NextFile
<1>4. CASE ~RcvData /\ ~RcvHeader /\ ~RcvEot
  <2>1. packets_received' = packets_received /\ buf_ptr' = buf_ptr
    BY <1>4 DEF AnyNext, RcvNext, RcvDamaged, RcvTimeout, ReceiveError, RcvAbort,
                RcvWrongNumber, RcvEmptyHeader, Interferes, rcv, openVars
  <2>. QED  BY <2>1
<1>. QED  BY <1>1, <1>2, <1>3, <1>4

THEOREM CountAgrees == AnySpec => []PositionMatchesCount
<1>1. AnyInit => PositionMatchesCount
  BY DEF AnyInit, RcvInit, PositionMatchesCount
<1>. QED  BY <1>1, InitInv, NextInv, CountStep, PTL DEF AnySpec

(* No sender makes it report more than the buffer holds.                   *)
THEOREM ReportSafe == AnySpec => []ReportedSizeFits
<1>1. Inv => ReportedSizeFits
  BY DEF Inv, AnyTypeOK, RcvTypeOK, Report, ReportedSizeFits, Returned
<1>. QED  BY <1>1, InitInv, NextInv, PTL DEF AnySpec

(* MaxErrors bad receives in a row end the call, and nothing else is       *)
(* reported as such.                                                       *)
THEOREM ErrorsBounded == AnySpec => []ErrorBudget
<1>1. Inv => ErrorBudget
  BY DEF Inv, Budget, ErrorBudget
<1>. QED  BY <1>1, InitInv, NextInv, PTL DEF AnySpec

(* Bytes that were acknowledged are never overwritten within their file.   *)
THEOREM BytesStay == AnySpec => AcknowledgedBytesStay
<1>1. Inv /\ [AnyNext]_openVars =>
        [\A i \in 0 .. BufLen : i < buf_ptr => buf'[i] = buf[i]]_rcv
  <2>. SUFFICES ASSUME Inv, AnyNext
                PROVE  \A i \in 0 .. BufLen : i < buf_ptr => buf'[i] = buf[i]
    BY DEF openVars
  <2>1. CASE RcvData
    <3>1. Head(toRcv).data \in Payload
      BY <2>1, ReadsType, PacketFields DEF RcvData, ReadsNext, Inv, AnyTypeOK
    <3>2. \/ buf' = Stored(Head(toRcv).data, buf_ptr)
          \/ buf' = buf
      BY <2>1 DEF RcvData
    <3>3. /\ buf \in [0 .. BufLen -> Byte \cup {Canary}]
          /\ buf_ptr \in Nat
      BY DEF Inv, AnyTypeOK, RcvTypeOK
    <3>4. \A i \in 0 .. BufLen : i < buf_ptr =>
             Stored(Head(toRcv).data, buf_ptr)[i] = buf[i]
      BY <3>1, <3>3, StoredType
    <3>. QED  BY <3>2, <3>4
  <2>2. CASE ~RcvData
    BY <2>2 DEF AnyNext, RcvNext, RcvDamaged, RcvTimeout, ReceiveError, RcvAbort,
                RcvEot, RcvWrongNumber, RcvHeader, RcvEmptyHeader, Interferes, rcv
  <2>. QED  BY <2>1, <2>2
<1>. QED  BY <1>1, InitInv, NextInv, PTL DEF AnySpec, AcknowledgedBytesStay

-----------------------------------------------------------------------------
(* A download is one of the lines where anything may arrive: what was      *)
(* proved about every sender holds of it.                                  *)
HostInv == /\ HostTypeOK
           /\ phase \in {"start", "data", "eot"} => file <= Len(Files)
DownloadInv == HostInv /\ wire \in Lines /\ faults \in 0 .. MaxFaults /\ complete \in Nat

LEMMA FileType ==
    ASSUME NEW f \in 1 .. Len(Files)
    PROVE  Files[f] \in Seq(Byte) /\ Len(Files[f]) \in Nat
BY FilesAssumption

LEMMA HeaderToken ==
    ASSUME file \in 1 .. Len(Files) + 1
    PROVE  Header \in Token
<1>0. Len(Files) \in Nat /\ file \in Nat
  BY FilesAssumption
<1>1. [i \in 1 .. ShortLen |-> Pad] \in Payload
  BY FilesAssumption DEF Payload
<1>2. (file > Len(Files)) \in BOOLEAN
  OBVIOUS
<1>3. 0 \in SeqNo
  BY DEF SeqNo
<1>4. CASE file > Len(Files)
  BY <1>1, <1>3, <1>4 DEF Header, Token, Packet
<1>5. CASE ~(file > Len(Files))
  <2>1. Len(Files[file]) \in Nat
    BY <1>0, <1>5, FileType
  <2>. QED  BY <1>1, <1>3, <1>5, <2>1 DEF Header, Token, Packet
<1>. QED  BY <1>4, <1>5

LEMMA BlockToken ==
    ASSUME file \in 1 .. Len(Files), NEW number \in Nat, NEW offset \in Nat
    PROVE  /\ DataBlock(number, offset) \in Token
           /\ EndOrBlock(number, offset) \in Token
           /\ BlockLen(offset) \in Nat
<1>1. Files[file] \in Seq(Byte) /\ Len(Files[file]) \in Nat
  BY FileType
<1>2. BlockLen(offset) \in PacketLen
  BY TailLenAssumption DEF BlockLen, PacketLen
<1>3. \A i \in 1 .. BlockLen(offset) :
         (IF offset + i <= Len(Files[file]) THEN Files[file][offset + i] ELSE Pad) \in Byte
  <2>1. \A i \in 1 .. BlockLen(offset) : offset + i \in Nat \ {0}
    BY <1>2 DEF PacketLen
  <2>2. \A j \in Nat \ {0} : j <= Len(Files[file]) => Files[file][j] \in Byte
    BY <1>1
  <2>. QED  BY <2>1, <2>2, FilesAssumption
<1>4. BlockData(offset) \in [1 .. BlockLen(offset) -> Byte]
  BY <1>3 DEF BlockData
<1>5. BlockData(offset) \in Payload
  BY <1>2, <1>4 DEF Payload, PacketLen
<1>6. number % SeqMod \in SeqNo
  BY DEF SeqNo
<1>7. DataBlock(number, offset) \in Token
  BY <1>5, <1>6 DEF DataBlock, Token, Packet
<1>8. Eot \in Token
  BY DEF Eot, Token, Mark
<1>. QED  BY <1>2, <1>7, <1>8 DEF EndOrBlock, PacketLen

LEMMA EmitType ==
    ASSUME toRcv \in Seq(Token), NEW token \in Token, Emit(token)
    PROVE  toRcv' \in Seq(Token)
BY PutType DEF Emit

LEMMA MarkTokens == /\ Garbled \in Token /\ Short \in Token /\ Eot \in Token
                    /\ Can \in Token /\ Noise \in Token
BY DEF Garbled, Short, Eot, Can, Noise, Token, Mark

LEMMA HearsType ==
    ASSUME NEW replies, toSnd \in Seq(Reply), Hears(replies)
    PROVE  /\ toSnd' \in Seq(Reply) /\ toSnd # << >>
           /\ Head(toSnd) \in replies
           /\ phase \notin {"done", "failed"}
BY DEF Hears

(* What the host does to the line and to itself.                           *)
LEMMA HostStep ==
    ASSUME HostInv, toRcv \in Seq(Token), toSnd \in Seq(Reply),
           HostReads \/ HostTimeout \/ HostPatienceEnds
    PROVE  toRcv' \in Seq(Token) /\ toSnd' \in Seq(Reply) /\ HostInv'
<1>. DEFINE N == Len(Files)
<1>1. N \in Nat /\ file \in 1 .. N + 1 /\ sent \in Nat /\ block \in Nat
      /\ retries \in 0 .. MaxRetries /\ MaxRetries \in Nat /\ phase \in HostPhase
      /\ (phase \in {"start", "data", "eot"} => file <= N)
  BY FilesAssumption, MaxRetriesAssumption DEF HostInv, HostTypeOK
<1>2. Header \in Token
  BY <1>1, HeaderToken
<1>3. ASSUME phase \in {"start", "data", "eot"}, NEW number \in Nat, NEW offset \in Nat
      PROVE  /\ DataBlock(number, offset) \in Token
             /\ EndOrBlock(number, offset) \in Token
             /\ BlockLen(offset) \in Nat
             /\ EndOrData(offset) \in {"data", "eot"}
  <2>1. file \in 1 .. Len(Files)
    BY <1>1, <1>3
  <2>. QED  BY <2>1, BlockToken DEF EndOrData
<1>. HIDE DEF N
<1>. DEFINE Good == /\ phase' \in HostPhase /\ file' \in 1 .. N + 1
                    /\ sent' \in Nat /\ block' \in Nat
                    /\ retries' \in 0 .. MaxRetries
                    /\ phase' \in {"start", "data", "eot"} => file' <= N
<1>4. ASSUME Good PROVE HostInv'
  BY <1>4 DEF Good, HostInv, HostTypeOK, N
<1>5. ASSUME GiveUpOrResend, phase \in {"header", "data", "eot"}
      PROVE  toRcv' \in Seq(Token) /\ Good
  <2>1. CASE retries = MaxRetries
    <3>1. toRcv' = Put(toRcv, <<Can, Can>>) /\ phase' = "failed"
          /\ UNCHANGED <<file, sent, block, retries>>
      BY <1>5, <2>1 DEF GiveUpOrResend
    <3>2. toRcv' \in Seq(Token)
      BY <3>1, PutType, MarkTokens
    <3>. QED  BY <1>1, <3>1, <3>2 DEF HostPhase
  <2>2. CASE retries # MaxRetries
    <3>1. Pending \in Token
      BY <1>1, <1>2, <1>3, <1>5, MarkTokens DEF Pending
    <3>2. Emit(Pending) /\ retries' = retries + 1
          /\ UNCHANGED <<phase, file, sent, block>>
      BY <1>5, <2>2 DEF GiveUpOrResend
    <3>3. toRcv' \in Seq(Token)
      BY <3>1, <3>2, EmitType
    <3>4. retries' \in 0 .. MaxRetries
      BY <1>1, <2>2, <3>2
    <3>. QED  BY <1>1, <3>2, <3>3, <3>4
  <2>. QED  BY <2>1, <2>2
<1>6. CASE HostHeader
  <2>1. toSnd' \in Seq(Reply) /\ toRcv' \in Seq(Token)
    BY <1>2, <1>6, HearsType, EmitType DEF HostHeader
  <2>2. Good
    BY <1>1, <1>6, MaxRetriesAssumption DEF HostHeader, HostPhase
  <2>. QED  BY <1>4, <2>1, <2>2
<1>7. CASE HostHeaderAck
  <2>1. toSnd' \in Seq(Reply) /\ toRcv' = toRcv
    BY <1>7, HearsType DEF HostHeaderAck
  <2>2. file' = file /\ sent' = sent /\ block' = block /\ retries' = 0
        /\ phase' = IF file > N THEN "done" ELSE "start"
    BY <1>7 DEF HostHeaderAck, N
  <2>3. Good
    BY <1>1, <2>2 DEF HostPhase
  <2>. QED  BY <1>4, <2>1, <2>3
<1>8. CASE HostStart
  <2>1. EndOrBlock(1, 0) \in Token /\ EndOrData(0) \in {"data", "eot"}
    BY <1>3, <1>8 DEF HostStart
  <2>2. toSnd' \in Seq(Reply) /\ toRcv' \in Seq(Token)
    BY <1>8, <2>1, HearsType, EmitType DEF HostStart
  <2>3. Good
    BY <1>1, <1>8, <2>1 DEF HostStart, HostPhase
  <2>. QED  BY <1>4, <2>2, <2>3
<1>9. CASE HostDataAck
  <2>1. BlockLen(sent) \in Nat /\ phase = "data"
    BY <1>1, <1>3, <1>9 DEF HostDataAck
  <2>2. block' \in Nat /\ sent' \in Nat
    BY <1>1, <1>9, <2>1 DEF HostDataAck
  <2>3. EndOrBlock(block', sent') \in Token /\ EndOrData(sent') \in {"data", "eot"}
    BY <1>3, <2>1, <2>2
  <2>4. Emit(EndOrBlock(block', sent')) /\ phase' = EndOrData(sent')
        /\ retries' = 0 /\ file' = file
    BY <1>9 DEF HostDataAck
  <2>5. toSnd' \in Seq(Reply) /\ toRcv' \in Seq(Token)
    BY <1>9, <2>3, <2>4, HearsType, EmitType DEF HostDataAck
  <2>6. Good
    BY <1>1, <2>1, <2>2, <2>3, <2>4 DEF HostPhase
  <2>. QED  BY <1>4, <2>5, <2>6
<1>10. CASE HostEotAck
  <2>1. toSnd' \in Seq(Reply) /\ toRcv' = toRcv
    BY <1>10, HearsType DEF HostEotAck
  <2>2. Good
    BY <1>1, <1>10 DEF HostEotAck, HostPhase
  <2>. QED  BY <1>4, <2>1, <2>2
<1>11. CASE HostNotAcked
  <2>1. toSnd' \in Seq(Reply)
    BY <1>11, HearsType DEF HostNotAcked
  <2>. QED  BY <1>4, <1>5, <1>11, <2>1 DEF HostNotAcked
<1>12. CASE HostTimeout
  BY <1>4, <1>5, <1>12 DEF HostTimeout
<1>13. CASE HostIgnores
  <2>1. toSnd' \in Seq(Reply) /\ toRcv' = toRcv
    BY <1>13, HearsType DEF HostIgnores
  <2>2. Good
    BY <1>1, <1>13 DEF HostIgnores, host
  <2>. QED  BY <1>4, <2>1, <2>2
<1>14. CASE HostCancelled
  <2>1. toSnd' \in Seq(Reply) /\ toRcv' = toRcv
    BY <1>14, HearsType DEF HostCancelled
  <2>2. Good
    BY <1>1, <1>14 DEF HostCancelled, HostPhase
  <2>. QED  BY <1>4, <2>1, <2>2
<1>15. CASE HostPatienceEnds
  <2>1. toSnd' = toSnd /\ toRcv' = toRcv
    BY <1>15 DEF HostPatienceEnds
  <2>2. Good
    BY <1>1, <1>15 DEF HostPatienceEnds, HostPhase
  <2>. QED  BY <1>4, <2>1, <2>2
<1>. QED  BY <1>6, <1>7, <1>8, <1>9, <1>10, <1>11, <1>12, <1>13, <1>14, <1>15
          DEF HostReads

(* What the wire does to the tokens on it.                                 *)
LEMMA DamagedType ==
    ASSUME NEW token, NEW tokens \in Damaged(token)
    PROVE  tokens \in Seq(Token)
<1>1. << >> \in Seq(Token) /\ <<Garbled>> \in Seq(Token)
      /\ <<Short>> \in Seq(Token) /\ <<Noise>> \in Seq(Token)
  BY MarkTokens
<1>2. ASSUME NEW p \in (Faults \cap {"forge"}) \X {Short, Noise}
      PROVE  <<Eot, p[2]>> \in Seq(Token)
  <2>1. p[2] \in Token
    BY MarkTokens
  <2>. QED  BY <2>1, MarkTokens
<1>3. \/ tokens \in {<< >>, <<Garbled>>, <<Short>>, <<Noise>>}
      \/ \E p \in (Faults \cap {"forge"}) \X {Short, Noise} : tokens = <<Eot, p[2]>>
  BY DEF Damaged
<1>. QED  BY <1>1, <1>2, <1>3

LEMMA DamageType ==
    ASSUME toRcv \in Seq(Token), toSnd \in Seq(Reply), Damage
    PROVE  toRcv' \in Seq(Token) /\ toSnd' \in Seq(Reply)
<1>1. CASE DamagePacket
  <2>1. PICK tokens \in Damaged(Head(toRcv)) : toRcv' = tokens \o Tail(toRcv)
    BY <1>1 DEF DamagePacket
  <2>2. Tail(toRcv) \in Seq(Token)
    BY <1>1 DEF DamagePacket
  <2>3. tokens \in Seq(Token)
    BY DamagedType
  <2>4. toRcv' \in Seq(Token)
    BY <2>1, <2>2, <2>3
  <2>. QED  BY <1>1, <2>4 DEF DamagePacket
<1>2. CASE DamageReply
  <2>1. toSnd # << >> /\ Tail(toSnd) \in Seq(Reply)
    BY <1>2 DEF DamageReply
  <2>2. <<"noise">> \in Seq(Reply)
    BY DEF Reply
  <2>3. <<"noise">> \o Tail(toSnd) \in Seq(Reply)
    BY <2>1, <2>2
  <2>. QED  BY <1>2, <2>1, <2>3 DEF DamageReply
<1>. QED  BY <1>1, <1>2 DEF Damage

LEMMA DownloadInit == Init => DownloadInv /\ AnyInit
BY FilesAssumption, MaxRetriesAssumption, LinesAssumption
   DEF Init, DownloadInv, HostInv, HostTypeOK, HostInit, HostPhase, DamageInit,
       MaxFaults, AnyInit

LEMMA ImplementsAnySender ==
    ASSUME Inv, DownloadInv, [Next]_vars
    PROVE  DownloadInv' /\ [AnyNext]_openVars
<1>1. toRcv \in Seq(Token) /\ toSnd \in Seq(Reply)
  BY DEF Inv, AnyTypeOK
<1>2. wire \in Lines /\ faults \in 0 .. MaxFaults /\ complete \in Nat /\ HostInv
      /\ MaxFaults \in Nat
  BY LinesAssumption DEF DownloadInv, MaxFaults
<1>3. ASSUME UNCHANGED host PROVE HostInv'
  BY <1>2, <1>3 DEF host, HostInv, HostTypeOK
<1>4. CASE Receives
  <2>1. complete' \in Nat /\ UNCHANGED <<wire, faults, host>>
    BY <1>2, <1>4 DEF Receives, damage
  <2>. QED  BY <1>2, <1>3, <1>4, <2>1
            DEF Receives, RcvReads, AnyNext, RcvNext, DownloadInv, MaxFaults
<1>5. CASE Sends
  <2>1. HostReads /\ UNCHANGED <<rcv, wire, faults, complete>>
    BY <1>5 DEF Sends, damage
  <2>. QED  BY <1>1, <1>2, <2>1, HostStep DEF AnyNext, Interferes, DownloadInv, MaxFaults
<1>6. CASE BoardTimesOut
  <2>1. RcvTimeout /\ UNCHANGED <<wire, faults, host, complete>>
    BY <1>6 DEF BoardTimesOut, damage
  <2>. QED  BY <1>2, <1>3, <2>1 DEF AnyNext, RcvNext, DownloadInv, MaxFaults
<1>7. CASE HostTimesOut
  <2>1. HostTimeout \/ HostPatienceEnds
    BY <1>7 DEF HostTimesOut
  <2>2. UNCHANGED <<rcv, wire, faults, complete>>
    BY <1>7 DEF HostTimesOut, damage
  <2>. QED  BY <1>1, <1>2, <2>1, <2>2, HostStep
            DEF AnyNext, Interferes, DownloadInv, MaxFaults
<1>8. CASE Damage /\ UNCHANGED <<rcv, host, complete>>
  <2>1. wire' = wire /\ faults' \in 0 .. MaxFaults
    BY <1>2, <1>8 DEF Damage
  <2>. QED  BY <1>1, <1>2, <1>3, <1>8, <2>1, DamageType
            DEF AnyNext, Interferes, DownloadInv, MaxFaults
<1>9. CASE Intrudes
  <2>1. PICK token \in Strangers : toRcv' = Put(toRcv, <<token>>)
    BY <1>9 DEF Intrudes
  <2>2. toRcv' \in Seq(Token)
    BY <1>1, <2>1, StrangersAssumption, PutType
  <2>3. UNCHANGED <<toSnd, wire, rcv, host, complete>> /\ faults' \in 0 .. MaxFaults
    BY <1>2, <1>9 DEF Intrudes
  <2>. QED  BY <1>1, <1>2, <1>3, <2>2, <2>3 DEF AnyNext, Interferes, DownloadInv, MaxFaults
<1>10. CASE UNCHANGED vars
  BY <1>2, <1>3, <1>10 DEF vars, damage, openVars, DownloadInv, MaxFaults
<1>. QED  BY <1>4, <1>5, <1>6, <1>7, <1>8, <1>9, <1>10 DEF Next

(* Every variable of a download keeps its type, the host's and the wire's  *)
(* included.                                                               *)
THEOREM DownloadType == Spec => []TypeOK
<1>1. Inv /\ DownloadInv => TypeOK
  BY DEF Inv, AnyTypeOK, DownloadInv, HostInv, TypeOK
<1>. QED  BY <1>1, DownloadInit, InitInv, ImplementsAnySender, NextInv, PTL DEF Spec

(* Every step of a download, with an honest host or a strange device, is a *)
(* step of a receiver on a line where anything may arrive.                 *)
THEOREM DownloadIsServed == Spec => AnySpec
<1>. QED  BY DownloadInit, InitInv, ImplementsAnySender, NextInv, PTL DEF Spec, AnySpec

(* So no download writes behind the buffer, reports more than it holds or  *)
(* changes a byte that was acknowledged.                                   *)
THEOREM DownloadSafe ==
    Spec => [](CanaryIntact /\ ReportedSizeFits) /\ AcknowledgedBytesStay
<1>. QED  BY DownloadIsServed, CanarySafe, ReportSafe, BytesStay, PTL

-----------------------------------------------------------------------------
(* What is on the line, as two sets: old tokens that the receiver will not *)
(* take for the next one, and fresh ones.                                  *)
Within(q, A) == \A i \in 1 .. Len(q) : q[i] \in A
Behind(q, A, B) ==
    /\ Within(q, A \cup B)
    /\ \A i, j \in 1 .. Len(q) : i < j /\ q[j] \notin B => q[i] \in A
AtMostOne(q, x) == \A i, j \in 1 .. Len(q) : q[i] = x /\ q[j] = x => i = j

LEMMA PutSeq ==
    ASSUME NEW S, NEW q \in Seq(S), NEW T, NEW tokens \in Seq(T)
    PROVE  LET p == Put(q, tokens)
           IN  /\ Len(p) \in Nat
               /\ \A i \in 1 .. Len(p) :
                     \/ i \in 1 .. Len(q) /\ p[i] = q[i]
                     \/ \E j \in 1 .. Len(tokens) : i = Len(q) + j /\ p[i] = tokens[j]
<1>1. q \in Seq(S \cup T) /\ tokens \in Seq(S \cup T)
  OBVIOUS
<1>2. /\ Len(q) \in Nat /\ Len(tokens) \in Nat
      /\ Len(q \o tokens) = Len(q) + Len(tokens)
      /\ \A i \in 1 .. Len(q) + Len(tokens) :
            (q \o tokens)[i] = IF i <= Len(q) THEN q[i] ELSE tokens[i - Len(q)]
  BY <1>1
<1>3. \A i \in 1 .. Len(q \o tokens) :
         \/ i \in 1 .. Len(q) /\ (q \o tokens)[i] = q[i]
         \/ \E j \in 1 .. Len(tokens) : i = Len(q) + j /\ (q \o tokens)[i] = tokens[j]
  <2>1. ASSUME NEW i \in 1 .. Len(q \o tokens), ~(i <= Len(q))
        PROVE  i - Len(q) \in 1 .. Len(tokens) /\ i = Len(q) + (i - Len(q))
    BY <1>2, <2>1
  <2>. QED  BY <1>2, <2>1
<1>4. Put(q, tokens) = q \/ Put(q, tokens) = q \o tokens
  BY DEF Put
<1>. QED  BY <1>2, <1>3, <1>4

LEMMA PutWithin ==
    ASSUME NEW S, NEW q \in Seq(S), NEW A, NEW x \in A, NEW y \in A, Within(q, A)
    PROVE  Within(Put(q, <<x>>), A) /\ Within(Put(q, <<x, y>>), A)
<1>1. ASSUME NEW tokens \in Seq({x, y}) PROVE Within(Put(q, tokens), A)
  <2>1. \A j \in 1 .. Len(tokens) : tokens[j] \in A
    OBVIOUS
  <2>2. \A i \in 1 .. Len(Put(q, tokens)) :
           \/ i \in 1 .. Len(q) /\ Put(q, tokens)[i] = q[i]
           \/ \E j \in 1 .. Len(tokens) :
                 i = Len(q) + j /\ Put(q, tokens)[i] = tokens[j]
    BY PutSeq
  <2>. QED  BY <2>1, <2>2 DEF Within
<1>2. <<x>> \in Seq({x, y}) /\ <<x, y>> \in Seq({x, y})
  OBVIOUS
<1>. QED  BY <1>1, <1>2

LEMMA PutBehind ==
    ASSUME NEW S, NEW q \in Seq(S), NEW A, NEW B, NEW x \in B, Behind(q, A, B)
    PROVE  Behind(Put(q, <<x>>), A, B) /\ Behind(Put(q, <<x, x>>), A, B)
<1>1. ASSUME NEW tokens \in Seq({x}) PROVE Behind(Put(q, tokens), A, B)
  <2>1. /\ Len(Put(q, tokens)) \in Nat
        /\ \A i \in 1 .. Len(Put(q, tokens)) :
              \/ i \in 1 .. Len(q) /\ Put(q, tokens)[i] = q[i]
              \/ \E j \in 1 .. Len(tokens) :
                    i = Len(q) + j /\ Put(q, tokens)[i] = tokens[j]
    BY PutSeq
  <2>2. Len(q) \in Nat /\ \A j \in 1 .. Len(tokens) : tokens[j] = x /\ j > 0
    OBVIOUS
  <2>. DEFINE p == Put(q, tokens)
  <2>3. ASSUME NEW i \in 1 .. Len(p)
        PROVE  (i \in 1 .. Len(q) /\ p[i] = q[i]) \/ (i > Len(q) /\ p[i] = x)
    <3>1. CASE i \in 1 .. Len(q) /\ p[i] = q[i]
      BY <3>1
    <3>2. CASE \E j \in 1 .. Len(tokens) : i = Len(q) + j /\ p[i] = tokens[j]
      <4>1. PICK j \in 1 .. Len(tokens) : i = Len(q) + j /\ p[i] = tokens[j]
        BY <3>2
      <4>2. tokens[j] = x /\ j > 0
        BY <2>2
      <4>. QED  BY <4>1, <4>2, <2>2
    <3>. QED  BY <2>1, <3>1, <3>2
  <2>4. Len(p) \in Nat
    BY <2>1
  <2>. HIDE DEF p
  <2>5. Within(p, A \cup B)
    BY <2>2, <2>3, <2>4 DEF Within, Behind
  <2>6. ASSUME NEW i \in 1 .. Len(p), NEW j \in 1 .. Len(p), i < j, p[j] \notin B
        PROVE  p[i] \in A
    <3>1. j \in 1 .. Len(q) /\ p[j] = q[j]
      BY <2>2, <2>3, <2>4, <2>6
    <3>2. i \in 1 .. Len(q) /\ p[i] = q[i]
      BY <2>2, <2>3, <2>4, <2>6, <3>1
    <3>. QED  BY <2>6, <3>1, <3>2 DEF Behind
  <2>. QED  BY <2>5, <2>6 DEF Behind, p
<1>2. <<x>> \in Seq({x}) /\ <<x, x>> \in Seq({x})
  OBVIOUS
<1>. QED  BY <1>1, <1>2

LEMMA TailSeq ==
    ASSUME NEW S, NEW q \in Seq(S), q # << >>
    PROVE  /\ Head(q) = q[1] /\ 1 \in 1 .. Len(q)
           /\ Len(q) \in Nat /\ Len(Tail(q)) \in Nat
           /\ \A i \in 1 .. Len(Tail(q)) :
                 i + 1 \in 1 .. Len(q) /\ Tail(q)[i] = q[i + 1]
OBVIOUS

LEMMA TailWithin ==
    ASSUME NEW S, NEW q \in Seq(S), q # << >>, NEW A, Within(q, A)
    PROVE  Within(Tail(q), A) /\ Head(q) \in A
BY TailSeq DEF Within

LEMMA TailBehind ==
    ASSUME NEW S, NEW q \in Seq(S), q # << >>, NEW A, NEW B, Behind(q, A, B)
    PROVE  /\ Behind(Tail(q), A, B)
           /\ Head(q) \in A \cup B
           /\ Head(q) \notin A => Within(Tail(q), B)
<1>1. Within(Tail(q), A \cup B) /\ Head(q) \in A \cup B
  BY TailWithin DEF Behind
<1>2. ASSUME NEW i \in 1 .. Len(Tail(q)), NEW j \in 1 .. Len(Tail(q)), i < j,
             Tail(q)[j] \notin B
      PROVE  Tail(q)[i] \in A
  <2>1. i + 1 < j + 1
    BY <1>2, TailSeq
  <2>. QED  BY <1>2, <2>1, TailSeq DEF Behind
<1>3. ASSUME Head(q) \notin A, NEW j \in 1 .. Len(Tail(q))
      PROVE  Tail(q)[j] \in B
  <2>1. 1 < j + 1
    BY TailSeq
  <2>. QED  BY <1>3, <2>1, TailSeq DEF Behind
<1>. QED  BY <1>1, <1>2, <1>3 DEF Behind, Within

LEMMA WithinBehind ==
    ASSUME NEW q, NEW A, NEW B, Within(q, A)
    PROVE  Behind(q, A, B)
BY DEF Within, Behind

LEMMA WithinMore ==
    ASSUME NEW q, NEW A, NEW B, A \subseteq B, Within(q, A)
    PROVE  Within(q, B)
BY DEF Within

(* Damage to the first thing on the line.                                  *)
LEMMA NewHead ==
    ASSUME NEW S, NEW q \in Seq(S), q # << >>, NEW T, NEW x \in T
    PROVE  LET p == <<x>> \o Tail(q)
           IN  /\ Len(p) \in Nat /\ Len(p) = Len(q)
               /\ p[1] = x
               /\ \A i \in 1 .. Len(p) : i # 1 => p[i] = q[i]
<1>1. Tail(q) \in Seq(S \cup T) /\ <<x>> \in Seq(S \cup T) /\ Len(<<x>>) = 1
      /\ <<x>>[1] = x /\ Len(q) \in Nat /\ Len(Tail(q)) = Len(q) - 1
      /\ \A i \in 1 .. Len(q) - 1 : Tail(q)[i] = q[i + 1]
      /\ Len(q) > 0
  OBVIOUS
<1>. DEFINE t == Tail(q)  y == <<x>>
<1>. HIDE DEF t, y
<1>2. Len(y \o t) = 1 + Len(t) /\ (y \o t)[1] = x
      /\ \A i \in 1 .. Len(t) : (y \o t)[1 + i] = t[i]
  BY <1>1 DEF t, y
<1>3. ASSUME NEW i \in 1 .. Len(y \o t), i # 1
      PROVE  (y \o t)[i] = q[i]
  <2>1. i - 1 \in 1 .. Len(t) /\ 1 + (i - 1) = i /\ (i - 1) + 1 = i
    BY <1>1, <1>2, <1>3 DEF t
  <2>. QED  BY <1>1, <1>2, <2>1 DEF t
<1>. QED  BY <1>1, <1>2, <1>3 DEF t, y

LEMMA HeadWithin ==
    ASSUME NEW S, NEW q \in Seq(S), q # << >>, NEW A, NEW x \in A, Within(q, A)
    PROVE  Within(<<x>> \o Tail(q), A)
BY NewHead DEF Within

LEMMA HeadBehind ==
    ASSUME NEW S, NEW q \in Seq(S), q # << >>, NEW A, NEW B,
           NEW x \in A \cap B, Behind(q, A, B)
    PROVE  Behind(<<x>> \o Tail(q), A, B)
<1>. DEFINE p == <<x>> \o Tail(q)
<1>1. /\ Len(p) \in Nat /\ Len(p) = Len(q) /\ p[1] = x
      /\ \A i \in 1 .. Len(p) : i # 1 => p[i] = q[i]
  BY NewHead
<1>. HIDE DEF p
<1>2. Within(p, A \cup B)
  BY <1>1 DEF Within, Behind
<1>3. ASSUME NEW i \in 1 .. Len(p), NEW j \in 1 .. Len(p), i < j, p[j] \notin B
      PROVE  p[i] \in A
  BY <1>1, <1>3 DEF Behind
<1>. QED  BY <1>2, <1>3 DEF Behind, p

(* The acknowledgements among the answers.                                 *)
Answers == Reply \ {"ACK"}

LEMMA NoneIsOne ==
    ASSUME NEW q, Within(q, Answers)
    PROVE  AtMostOne(q, "ACK")
BY DEF Within, AtMostOne, Answers

LEMMA TailOne ==
    ASSUME NEW q \in Seq(Reply), q # << >>, AtMostOne(q, "ACK")
    PROVE  /\ AtMostOne(Tail(q), "ACK")
           /\ Head(q) = "ACK" => Within(Tail(q), Answers)
<1>1. AtMostOne(Tail(q), "ACK")
  <2>. SUFFICES ASSUME NEW i \in 1 .. Len(Tail(q)), NEW j \in 1 .. Len(Tail(q)),
                       Tail(q)[i] = "ACK", Tail(q)[j] = "ACK"
                PROVE  i = j
    BY DEF AtMostOne
  <2>1. i + 1 = j + 1
    BY TailSeq DEF AtMostOne
  <2>. QED  BY <2>1, TailSeq
<1>2. ASSUME Head(q) = "ACK", NEW i \in 1 .. Len(Tail(q))
      PROVE  Tail(q)[i] \in Answers
  <2>1. i + 1 # 1 /\ i + 1 \in 1 .. Len(q) /\ 1 \in 1 .. Len(q)
        /\ q[1] = "ACK" /\ Tail(q)[i] = q[i + 1]
    BY <1>2, TailSeq
  <2>2. q[i + 1] \in Reply
    BY <2>1
  <2>. QED  BY <2>1, <2>2 DEF AtMostOne, Answers
<1>. QED  BY <1>1, <1>2 DEF Within

LEMMA PutOther ==
    ASSUME NEW q \in Seq(Reply), AtMostOne(q, "ACK"), NEW x \in Answers
    PROVE  AtMostOne(Put(q, <<x>>), "ACK")
<1>1. ASSUME NEW tokens \in Seq({x})
      PROVE  AtMostOne(Put(q, tokens), "ACK")
  <2>. DEFINE p == Put(q, tokens)
  <2>1. \A i \in 1 .. Len(p) : \/ i \in 1 .. Len(q) /\ p[i] = q[i]
                               \/ \E j \in 1 .. Len(tokens) :
                                     i = Len(q) + j /\ p[i] = tokens[j]
    BY <1>1, PutSeq
  <2>2. \A j \in 1 .. Len(tokens) : tokens[j] # "ACK"
    BY DEF Answers
  <2>. HIDE DEF p
  <2>3. AtMostOne(p, "ACK")
    BY <2>1, <2>2 DEF AtMostOne
  <2>. QED  BY <2>3 DEF p
<1>2. <<x>> \in Seq({x})
  OBVIOUS
<1>. QED  BY <1>1, <1>2

LEMMA PutAck ==
    ASSUME NEW q \in Seq(Reply), Within(q, Answers), NEW x \in Answers
    PROVE  /\ AtMostOne(Put(q, <<"ACK">>), "ACK")
           /\ AtMostOne(Put(q, <<"ACK", x>>), "ACK")
<1>0. Len(q) \in Nat /\ x # "ACK" /\ \A i \in 1 .. Len(q) : q[i] # "ACK"
  BY DEF Within, Answers
<1>1. ASSUME NEW tokens \in Seq({"ACK", x}),
             \A j \in 1 .. Len(tokens) : tokens[j] = "ACK" => j = 1
      PROVE  AtMostOne(Put(q, tokens), "ACK")
  <2>. DEFINE p == Put(q, tokens)
  <2>1. \A i \in 1 .. Len(p) : \/ i \in 1 .. Len(q) /\ p[i] = q[i]
                               \/ \E j \in 1 .. Len(tokens) :
                                     i = Len(q) + j /\ p[i] = tokens[j]
    BY <1>1, PutSeq
  <2>. HIDE DEF p
  <2>2. \A i \in 1 .. Len(p) : p[i] = "ACK" => i = Len(q) + 1
    BY <1>0, <1>1, <2>1
  <2>3. AtMostOne(p, "ACK")
    BY <2>2 DEF AtMostOne
  <2>. QED  BY <2>3 DEF p
<1>2. /\ <<"ACK">> \in Seq({"ACK", x})
      /\ \A j \in 1 .. Len(<<"ACK">>) : <<"ACK">>[j] = "ACK" => j = 1
  OBVIOUS
<1>3. /\ <<"ACK", x>> \in Seq({"ACK", x})
      /\ \A j \in 1 .. Len(<<"ACK", x>>) : <<"ACK", x>>[j] = "ACK" => j = 1
  <2>1. Len(<<"ACK", x>>) = 2 /\ <<"ACK", x>>[2] = x
    OBVIOUS
  <2>2. \A j \in 1 .. 2 : j = 1 \/ j = 2
    OBVIOUS
  <2>3. <<"ACK", x>> \in Seq({"ACK", x})
    OBVIOUS
  <2>. QED  BY <1>0, <2>1, <2>2, <2>3
<1>. QED  BY <1>1, <1>2, <1>3

LEMMA NoisyOne ==
    ASSUME NEW q \in Seq(Reply), q # << >>, AtMostOne(q, "ACK")
    PROVE  AtMostOne(<<"noise">> \o Tail(q), "ACK")
<1>. DEFINE p == <<"noise">> \o Tail(q)
<1>1. /\ Len(p) \in Nat /\ Len(p) = Len(q) /\ p[1] = "noise"
      /\ \A i \in 1 .. Len(p) : i # 1 => p[i] = q[i]
  BY NewHead
<1>. HIDE DEF p
<1>2. AtMostOne(p, "ACK")
  BY <1>1 DEF AtMostOne
<1>. QED  BY <1>2 DEF p

-----------------------------------------------------------------------------
(* A session of one file, on a line that turns no packet into an EOT.      *)
Sole == Len(Files) = 1 /\ \A w \in Lines : "forge" \notin w.kinds

File  == Files[1]
Marks == {Garbled, Short, Noise, Can}

FirstHeader == [kind |-> "packet", seq |-> 0, empty |-> FALSE, size |-> Len(File),
                data |-> [i \in 1 .. ShortLen |-> Pad]]
LastHeader  == [kind |-> "packet", seq |-> 0, empty |-> TRUE, size |-> 0,
                data |-> [i \in 1 .. ShortLen |-> Pad]]
LenAt(offset) == IF Len(File) - offset >= LongLen THEN LongLen ELSE TailLen
BlockAt(number, offset) ==
    [kind |-> "packet", seq |-> number % SeqMod, empty |-> FALSE, size |-> 0,
     data |-> [i \in 1 .. LenAt(offset) |->
                  IF offset + i <= Len(File) THEN File[offset + i] ELSE Pad]]

(* The only token that brings the receiver forward, and those it has seen. *)
Current == IF complete = 1 THEN LastHeader
           ELSE IF packets_received = 0 THEN FirstHeader
           ELSE IF buf_ptr < Len(File) THEN BlockAt(packets_received, buf_ptr) ELSE Eot
Seen    == IF complete = 1 THEN {Eot}
           ELSE IF packets_received = 0 THEN {}
           ELSE {p \in Packet : p.seq = (packets_received - 1) % SeqMod}
Old     == Marks \cup Seen
Fresh   == Marks \cup {Current}

OldOnly == Within(toRcv, Old)
NoAck   == Within(toSnd, Answers)
OneAck  == AtMostOne(toSnd, "ACK")

(* The receiver has the file up to where it stands.                        *)
HasPrefix == \A i \in 1 .. Len(File) :
                complete = 1 \/ i <= buf_ptr => buf[i - 1] = File[i]
Progress == /\ complete \in {0, 1}
            /\ complete = 1 => packets_received = 0
            /\ complete = 1 \/ packets_received # 0 => size = Len(File)
            /\ HasPrefix

(* What the host believes, and how far the receiver really is.             *)
InFile    == file = 1 /\ complete = 0
Asking    == /\ phase = "ask" /\ InFile
             /\ packets_received = 0 /\ OldOnly /\ NoAck
HeaderOut == phase = "header" /\ InFile /\ packets_received = 0 /\ NoAck
HeaderIn  == /\ phase = "header" /\ InFile
             /\ packets_received = 1 /\ buf_ptr = 0 /\ OldOnly /\ OneAck
Started   == /\ phase = "start" /\ InFile
             /\ packets_received = 1 /\ buf_ptr = 0 /\ OldOnly /\ NoAck
Sending   == phase = "data" /\ InFile /\ block # 0 /\ sent < Len(File)
BlockOut  == Sending /\ packets_received = block /\ buf_ptr = sent /\ NoAck
BlockIn   == /\ Sending /\ packets_received = block + 1
             /\ buf_ptr = sent + LenAt(sent) /\ OldOnly /\ OneAck
EotOut    == /\ phase = "eot" /\ InFile
             /\ packets_received # 0 /\ buf_ptr >= Len(File) /\ NoAck
EotIn     == phase = "eot" /\ file = 1 /\ complete = 1 /\ OldOnly
Closing   == phase \in {"ask", "header", "done"} /\ file = 2 /\ complete = 1
Left      == phase = "failed"

Situation == \/ Asking \/ HeaderOut \/ HeaderIn \/ Started \/ BlockOut \/ BlockIn
             \/ EotOut \/ EotIn \/ Closing \/ Left

Served == Progress /\ Behind(toRcv, Old, Fresh) /\ Situation

Typed == Inv /\ DownloadInv

LEMMA SoleFile ==
    ASSUME Sole
    PROVE  /\ File \in Seq(Byte) /\ Len(File) \in Nat
           /\ \A i \in 1 .. Len(File) : File[i] \in Byte
<1>1. 1 \in 1 .. Len(Files)
  BY DEF Sole
<1>2. File \in Seq(Byte)
  BY <1>1, FileType DEF File
<1>. QED  BY <1>2

LEMMA SolePast ==
    ASSUME Sole
    PROVE  /\ file = 1 => ~(file > Len(Files))
           /\ file = 2 => file > Len(Files)
BY DEF Sole

LEMMA TypedFacts ==
    ASSUME Typed
    PROVE  /\ packets_received \in Nat /\ buf_ptr \in Nat /\ size \in Nat
           /\ buf \in [0 .. BufLen -> Byte \cup {Canary}]
           /\ toRcv \in Seq(Token) /\ toSnd \in Seq(Reply)
           /\ sent \in Nat /\ block \in Nat /\ phase \in HostPhase
           /\ packets_received = 0 => buf_ptr = 0
           /\ result = "none" \/ result = "failed" \/ result = "received"
           /\ complete \in Nat /\ wire \in Lines
BY DEF Typed, Inv, AnyTypeOK, RcvTypeOK, Position, DownloadInv, HostInv, HostTypeOK

LEMMA LenAtType ==
    ASSUME NEW offset
    PROVE  LenAt(offset) \in Nat /\ LenAt(offset) \in {ShortLen, LongLen}
           /\ LenAt(offset) > 0
BY TailLenAssumption DEF LenAt, PacketLen

LEMMA HostSends ==
    ASSUME Sole, file = 1, NEW number, NEW offset
    PROVE  /\ Header = FirstHeader
           /\ BlockLen(offset) = LenAt(offset)
           /\ DataBlock(number, offset) = BlockAt(number, offset)
           /\ EndOrBlock(number, offset) =
                 IF offset < Len(File) THEN BlockAt(number, offset) ELSE Eot
           /\ EndOrData(offset) = IF offset < Len(File) THEN "data" ELSE "eot"
<1>1. Header = FirstHeader
  <2>1. (file > Len(Files)) = FALSE
    BY SolePast
  <2>. QED  BY <2>1 DEF Header, FirstHeader, File
<1>2. BlockLen(offset) = LenAt(offset)
  BY DEF BlockLen, LenAt, File
<1>3. DataBlock(number, offset) = BlockAt(number, offset)
  BY <1>2 DEF DataBlock, BlockAt, BlockData, File
<1>. QED  BY <1>1, <1>2, <1>3 DEF EndOrBlock, EndOrData, File

LEMMA HostCloses ==
    ASSUME Sole, file = 2
    PROVE  Header = LastHeader
BY SolePast DEF Header, LastHeader

LEMMA NeighboursDiffer ==
    ASSUME NEW n \in Nat
    PROVE  n % SeqMod # (n + 1) % SeqMod
<1>. DEFINE m == SeqMod
            a == n \div m
            b == (n + 1) \div m
<1>1. m \in Nat /\ m > 1
  BY SeqModAssumption
<1>2. a \in Int /\ n % m = n - m * a
  BY <1>1
<1>3. b \in Int /\ (n + 1) % m = (n + 1) - m * b
  BY <1>1
<1>. HIDE DEF a, b
<1>4. SUFFICES ASSUME n % m = (n + 1) % m PROVE FALSE
  OBVIOUS
<1>5. m * (b - a) = 1
  BY <1>1, <1>2, <1>3, <1>4
<1>6. b - a <= 0 => m * (b - a) <= 0
  BY <1>1, <1>2, <1>3
<1>7. b - a >= 1 => m * (b - a) >= m
  BY <1>1, <1>2, <1>3
<1>. QED  BY <1>1, <1>2, <1>3, <1>5, <1>6, <1>7

LEMMA Kinds ==
    /\ \A t \in Marks : t.kind \in {"garbled", "short", "noise", "CAN"}
    /\ Eot.kind = "EOT"
    /\ FirstHeader.kind = "packet" /\ FirstHeader.seq = 0
    /\ FirstHeader.empty = FALSE /\ FirstHeader.size = Len(File)
    /\ LastHeader.kind = "packet" /\ LastHeader.seq = 0 /\ LastHeader.empty = TRUE
    /\ \A number, offset : BlockAt(number, offset).kind = "packet"
    /\ \A number, offset : BlockAt(number, offset).seq = number % SeqMod
BY DEF Marks, Garbled, Short, Noise, Can, Eot, FirstHeader, LastHeader, BlockAt

LEMMA SeenKinds ==
    /\ \A t \in Old : t.kind = "EOT" => complete = 1
    /\ \A t \in Old : t.kind = "packet" =>
          /\ complete # 1 /\ packets_received # 0
          /\ t.seq = (packets_received - 1) % SeqMod
<1>1. \A t \in Packet : t.kind = "packet"
  BY DEF Packet
<1>. QED  BY <1>1, Kinds DEF Old, Seen

(* What the receiver finds first on the line: something old, or its next.  *)
LEMMA NextToken ==
    ASSUME Typed, Served, toRcv # << >>
    PROVE  /\ Head(toRcv) \in Old \/ Head(toRcv) = Current
           /\ Head(toRcv) \notin Old => Within(Tail(toRcv), Fresh)
           /\ Behind(Tail(toRcv), Old, Fresh)
           /\ OldOnly => Within(Tail(toRcv), Old) /\ Head(toRcv) \in Old
<1>1. toRcv \in Seq(Token)
  BY TypedFacts
<1>2. /\ Head(toRcv) \in Old \cup Fresh
      /\ Head(toRcv) \notin Old => Within(Tail(toRcv), Fresh)
      /\ Behind(Tail(toRcv), Old, Fresh)
  BY <1>1, TailBehind DEF Served
<1>3. OldOnly => Within(Tail(toRcv), Old) /\ Head(toRcv) \in Old
  BY <1>1, TailWithin DEF OldOnly
<1>4. \A t \in Old \cup Fresh : t \in Old \/ t = Current
  BY DEF Old, Fresh
<1>. QED  BY <1>2, <1>3, <1>4

-----------------------------------------------------------------------------
(* Nobody has moved: tokens and answers came or went that mean nothing new. *)
LEMMA NobodyMoves ==
    ASSUME Served,
           UNCHANGED <<packets_received, buf, buf_ptr, size, complete,
                       phase, file, sent, block>>,
           Behind(toRcv', Old, Fresh), OldOnly => Within(toRcv', Old),
           complete = 0 /\ NoAck => Within(toSnd', Answers),
           complete = 0 /\ OneAck => AtMostOne(toSnd', "ACK")
    PROVE  Served'
<1>1. Old' = Old /\ Fresh' = Fresh
  BY DEF Old, Fresh, Seen, Current
<1>2. Progress' /\ Behind(toRcv, Old, Fresh)'
  BY <1>1 DEF Served, Progress, HasPrefix
<1>3. /\ OldOnly => OldOnly'
      /\ complete = 0 /\ NoAck => NoAck'
      /\ complete = 0 /\ OneAck => OneAck'
  BY <1>1 DEF OldOnly, NoAck, OneAck
<1>4. Situation'
  <2>. USE <1>3 DEF InFile
  <2>. HIDE DEF OldOnly, NoAck, OneAck
  <2>1. Asking => Asking'
    BY DEF Asking
  <2>2. HeaderOut => HeaderOut'
    BY DEF HeaderOut
  <2>3. HeaderIn => HeaderIn'
    BY DEF HeaderIn
  <2>4. Started => Started'
    BY DEF Started
  <2>5. BlockOut => BlockOut'
    BY DEF BlockOut, Sending
  <2>6. BlockIn => BlockIn'
    BY DEF BlockIn, Sending
  <2>7. EotOut => EotOut'
    BY DEF EotOut
  <2>8. EotIn => EotIn'
    BY DEF EotIn
  <2>9. Closing => Closing'
    BY DEF Closing
  <2>10. Left => Left'
    BY DEF Left
  <2>. QED  BY <2>1, <2>2, <2>3, <2>4, <2>5, <2>6, <2>7, <2>8, <2>9, <2>10
            DEF Served, Situation
<1>. QED  BY <1>2, <1>4 DEF Served

(* The receiver answers without an acknowledgement, and stands still.      *)
LEMMA StandsStill ==
    ASSUME Typed, Served, NEW x \in Answers, Answer(<<x>>),
           toRcv' = toRcv \/ (toRcv # << >> /\ toRcv' = Tail(toRcv)),
           UNCHANGED <<packets_received, buf, buf_ptr, size, complete, host>>
    PROVE  Served'
<1>1. toRcv \in Seq(Token) /\ toSnd \in Seq(Reply) /\ x \in Reply
  BY TypedFacts DEF Answers
<1>2. Behind(toRcv', Old, Fresh) /\ (OldOnly => Within(toRcv', Old))
  BY NextToken DEF Served, OldOnly
<1>3. NoAck => Within(toSnd', Answers)
  BY <1>1, PutWithin DEF Answer, NoAck
<1>4. OneAck => AtMostOne(toSnd', "ACK")
  BY <1>1, PutOther DEF Answer, OneAck
<1>. QED  BY <1>2, <1>3, <1>4, NobodyMoves DEF host

(* Steps of the promise.                                                   *)
LEMMA Stutters ==
    ASSUME result = "none", UNCHANGED <<buf, buf_ptr, complete, result, wire>>
    PROVE  UNCHANGED Reception!vars
BY DEF Reception!vars, Returned, Strange, Faults

LEMMA GivesUp ==
    ASSUME result = "none", result' = "failed", UNCHANGED <<buf, buf_ptr, complete, wire>>
    PROVE  Reception!Next
<1>1. UNCHANGED <<Returned, Strange>>
  BY DEF Returned, Strange, Faults
<1>. QED  BY <1>1 DEF Reception!Next, Reception!GiveUp

Kept == result' = "none" => Served'
Done == result' = "received" =>
            /\ size' = Len(File)
            /\ \A i \in 1 .. Len(File) : buf'[i - 1] = File[i]
StepsWell == /\ Kept /\ Done
             /\ Reception!Next \/ UNCHANGED Reception!vars

LEMMA Survives ==
    ASSUME result = "none", UNCHANGED <<buf, buf_ptr, complete, wire>>,
           result' = "failed" \/ (result' = result /\ Served')
    PROVE  StepsWell
<1>1. CASE result' = "failed"
  BY <1>1, GivesUp DEF StepsWell, Kept, Done
<1>2. CASE result' = result /\ Served'
  BY <1>2, Stutters DEF StepsWell, Kept, Done
<1>. QED  BY <1>1, <1>2

LEMMA AnswerSet == {"CRC", "NAK", "noise", "CAN"} \subseteq Answers
BY DEF Answers, Reply

LEMMA ErrorWell ==
    ASSUME Typed, Served, result = "none", ReceiveError,
           toRcv' = toRcv \/ (toRcv # << >> /\ toRcv' = Tail(toRcv)),
           UNCHANGED <<complete, host, wire>>
    PROVE  StepsWell
<1>1. UNCHANGED <<packets_received, buf, buf_ptr, size>>
  BY DEF ReceiveError
<1>2. CASE packets_received # 0 /\ TooMany(Counted)
  <2>1. result' = "failed"
    BY <1>2 DEF ReceiveError, Fail
  <2>. QED  BY <1>1, <2>1, Survives
<1>3. CASE ~(packets_received # 0 /\ TooMany(Counted))
  <2>1. Answer(<<"CRC">>) /\ result' = result
    BY <1>3 DEF ReceiveError
  <2>2. Served'
    BY <1>1, <2>1, StandsStill, AnswerSet
  <2>. QED  BY <1>1, <2>1, <2>2, Survives
<1>. QED  BY <1>2, <1>3

(* The receiver takes the token it waits for: nothing newer is on the      *)
(* line, and the host was the one to speak.                                *)
LEMMA Advance ==
    ASSUME Typed, Served, toRcv # << >>, Head(toRcv) \notin Old
    PROVE  /\ Head(toRcv) = Current /\ Within(Tail(toRcv), Fresh)
           /\ HeaderOut \/ BlockOut \/ EotOut \/ Closing \/ Left
<1>1. Head(toRcv) = Current /\ Within(Tail(toRcv), Fresh) /\ ~OldOnly
  BY NextToken
<1>. QED  BY <1>1 DEF Served, Situation, Asking, HeaderIn, Started, BlockIn, EotIn

(* What the receiver has taken is old from then on.                        *)
LEMMA Overtaken ==
    ASSUME Within(toRcv', Fresh), Marks \subseteq Old', Current \in Old'
    PROVE  Within(toRcv', Old') /\ Behind(toRcv', Old', Fresh')
<1>1. Fresh \subseteq Old'
  BY DEF Fresh
<1>2. Within(toRcv', Old')
  BY <1>1, WithinMore
<1>. QED  BY <1>2, WithinBehind

LEMMA EotStep ==
    ASSUME Sole, Typed, Served, RcvEot, UNCHANGED <<host, wire>>,
           complete' = IF packets_received # 0 THEN complete + 1 ELSE complete
    PROVE  StepsWell
<1>1. /\ result = "none" /\ toRcv # << >> /\ Head(toRcv).kind = "EOT"
      /\ toRcv' = Tail(toRcv) /\ toSnd' = Put(toSnd, <<"ACK", "CRC">>)
      /\ packets_received' = 0 /\ buf_ptr' = 0
      /\ UNCHANGED <<buf, size, result>>
  BY DEF RcvEot, Reads, NextFile, Answer
<1>2. complete \in {0, 1} /\ (complete = 1 => packets_received = 0)
      /\ (packets_received = 0 => buf_ptr = 0)
  BY TypedFacts DEF Served, Progress
<1>3. CASE complete = 1
  <2>1. UNCHANGED <<packets_received, buf, buf_ptr, size, complete>>
    BY <1>1, <1>2, <1>3
  <2>2. Behind(toRcv', Old, Fresh) /\ (OldOnly => Within(toRcv', Old))
    BY <1>1, NextToken
  <2>3. Served'
    BY <1>3, <2>1, <2>2, NobodyMoves DEF host
  <2>. QED  BY <1>1, <2>1, <2>3, Survives
<1>4. CASE complete = 0
  <2>1. Head(toRcv) \notin Old
    BY <1>1, <1>4, SeenKinds
  <2>2. /\ Head(toRcv) = Current /\ Within(toRcv', Fresh)
        /\ HeaderOut \/ BlockOut \/ EotOut \/ Closing \/ Left
    BY <1>1, <2>1, Advance
  <2>3. /\ packets_received # 0 /\ buf_ptr >= Len(File) /\ Current = Eot
    <3>1. Current.kind = "EOT"
      BY <1>1, <2>2
    <3>2. packets_received # 0 /\ ~(buf_ptr < Len(File))
      BY <1>4, <3>1, Kinds DEF Current
    <3>3. Current = Eot
      BY <1>4, <3>2 DEF Current
    <3>. QED  BY <3>2, <3>3, SoleFile, TypedFacts
  <2>4. complete' = 1
    BY <1>4, <2>3
  <2>5. EotOut \/ Left
    <3>1. ~HeaderOut /\ ~Closing
      BY <1>4, <2>3 DEF HeaderOut, Closing
    <3>2. ~BlockOut
      BY <2>3, SoleFile, TypedFacts DEF BlockOut, Sending
    <3>. QED  BY <2>2, <3>1, <3>2
  <2>6. Old' = Marks \cup {Eot}
    BY <2>4 DEF Old, Seen
  <2>7. Within(toRcv', Old') /\ Behind(toRcv', Old', Fresh')
    BY <2>2, <2>3, <2>6, Overtaken
  <2>8. Progress'
    <3>1. size = Len(File)
      BY <2>3 DEF Served, Progress
    <3>2. \A i \in 1 .. Len(File) : i <= buf_ptr
      BY <2>3, SoleFile, TypedFacts
    <3>3. \A i \in 1 .. Len(File) : buf'[i - 1] = File[i]
      BY <1>1, <3>2 DEF Served, Progress, HasPrefix
    <3>. QED  BY <1>1, <2>4, <3>1, <3>3 DEF Progress, HasPrefix
  <2>9. Situation'
    <3>1. EotOut => EotIn'
      BY <2>4, <2>7 DEF EotOut, EotIn, InFile, OldOnly, host
    <3>2. Left => Left'
      BY DEF Left, host
    <3>. QED  BY <2>5, <3>1, <3>2 DEF Situation
  <2>10. Served'
    BY <2>7, <2>8, <2>9 DEF Served
  <2>11. Reception!EndFile
    <3>1. Reception!Under = File /\ complete < Len(Files)
      BY <1>4 DEF Reception!Under, File, Sole
    <3>2. UNCHANGED <<Returned, Strange>>
      BY <1>1 DEF Returned, Strange, Faults
    <3>. QED  BY <1>1, <1>4, <2>3, <2>4, <3>1, <3>2 DEF Reception!EndFile
  <2>. QED  BY <1>1, <2>10, <2>11 DEF StepsWell, Kept, Done, Reception!Next
<1>. QED  BY <1>2, <1>3, <1>4

LEMMA PacketRead ==
    ASSUME Typed, ReadsNext
    PROVE  /\ result = "none" /\ toRcv # << >>
           /\ Head(toRcv) \in Packet /\ Head(toRcv).kind = "packet"
           /\ Head(toRcv).seq = packets_received % SeqMod
           /\ toRcv' = Tail(toRcv)
<1>1. toRcv \in Seq(Token)
  BY TypedFacts
<1>2. /\ result = "none" /\ toRcv # << >> /\ toRcv' = Tail(toRcv)
      /\ Head(toRcv).kind = "packet" /\ InOrder(Head(toRcv))
  BY DEF ReadsNext, Reads
<1>3. Head(toRcv) \in Token
  BY <1>1, <1>2
<1>4. Head(toRcv) \in Packet
  BY <1>2, <1>3 DEF Token, Mark
<1>. QED  BY <1>2, <1>4 DEF InOrder

(* Before the header has come, every filename block is news.               *)
LEMMA HeaderIsNews ==
    ASSUME Typed, Served, ReadsNext, packets_received = 0
    PROVE  /\ Head(toRcv) = Current /\ Within(toRcv', Fresh)
           /\ IF Head(toRcv).empty THEN complete = 1
              ELSE complete = 0 /\ Current = FirstHeader
           /\ HeaderOut \/ Closing \/ Left
<1>1. /\ toRcv # << >> /\ Head(toRcv).kind = "packet" /\ toRcv' = Tail(toRcv)
  BY PacketRead
<1>2. Head(toRcv) \notin Old
  BY <1>1, SeenKinds
<1>3. /\ Head(toRcv) = Current /\ Within(toRcv', Fresh)
      /\ HeaderOut \/ BlockOut \/ EotOut \/ Closing \/ Left
  BY <1>1, <1>2, Advance
<1>4. ~BlockOut /\ ~EotOut
  BY DEF BlockOut, Sending, EotOut
<1>5. complete \in {0, 1}
  BY DEF Served, Progress
<1>6. CASE complete = 1
  BY <1>3, <1>4, <1>6, Kinds DEF Current
<1>7. CASE complete = 0
  BY <1>3, <1>4, <1>7, Kinds DEF Current
<1>. QED  BY <1>5, <1>6, <1>7

LEMMA HeaderStep ==
    ASSUME Sole, Typed, Served, RcvHeader, UNCHANGED <<host, wire, complete>>
    PROVE  StepsWell
<1>1. /\ ReadsNext /\ packets_received = 0 /\ ~Head(toRcv).empty
      /\ size' = Head(toRcv).size /\ UNCHANGED <<buf, buf_ptr>>
  BY DEF RcvHeader
<1>2. /\ result = "none" /\ Head(toRcv) \in Packet /\ buf_ptr = 0
  BY <1>1, PacketRead, TypedFacts
<1>3. CASE TooBig(size')
  <2>1. result' = "failed"
    BY <1>3 DEF RcvHeader, Fail
  <2>. QED  BY <1>1, <1>2, <2>1, Survives
<1>4. CASE ~TooBig(size')
  <2>1. /\ Answer(<<"ACK", IF crc_nak THEN "CRC" ELSE "NAK">>)
        /\ packets_received' = packets_received + 1 /\ result' = result
    BY <1>4 DEF RcvHeader
  <2>2. /\ Head(toRcv) = Current /\ Within(toRcv', Fresh)
        /\ complete = 0 /\ Current = FirstHeader
        /\ HeaderOut \/ Closing \/ Left
    BY <1>1, HeaderIsNews
  <2>3. packets_received' = 1 /\ size' = Len(File) /\ complete' = 0 /\ buf_ptr' = 0
    BY <1>1, <1>2, <2>1, <2>2, Kinds
  <2>4. Old' = Marks \cup {p \in Packet : p.seq = 0 % SeqMod}
    BY <2>3 DEF Old, Seen
  <2>5. Current \in Old'
    <3>1. Current.seq = 0 % SeqMod
      BY <1>1, <2>2, PacketRead
    <3>. QED  BY <1>2, <2>2, <2>4, <3>1
  <2>6. Within(toRcv', Old') /\ Behind(toRcv', Old', Fresh')
    BY <2>2, <2>4, <2>5, Overtaken
  <2>7. Progress'
    BY <2>3, SoleFile DEF Progress, HasPrefix
  <2>8. NoAck => OneAck'
    <3>1. (IF crc_nak THEN "CRC" ELSE "NAK") \in Answers /\ toSnd \in Seq(Reply)
      BY AnswerSet, TypedFacts
    <3>. QED  BY <2>1, <3>1, PutAck DEF Answer, NoAck, OneAck
  <2>9. Situation'
    <3>1. HeaderOut => HeaderIn'
      BY <2>3, <2>6, <2>8 DEF HeaderOut, HeaderIn, InFile, OldOnly, host
    <3>2. Left => Left'
      BY DEF Left, host
    <3>3. ~Closing
      BY <2>2 DEF Closing
    <3>. QED  BY <2>2, <3>1, <3>2, <3>3 DEF Situation
  <2>10. Served'
    BY <2>6, <2>7, <2>9 DEF Served
  <2>. QED  BY <1>1, <1>2, <2>1, <2>10, Survives
<1>. QED  BY <1>3, <1>4

LEMMA EmptyHeaderStep ==
    ASSUME Sole, Typed, Served, RcvEmptyHeader, UNCHANGED <<host, wire, complete>>
    PROVE  StepsWell
<1>1. /\ ReadsNext /\ packets_received = 0 /\ Head(toRcv).empty
      /\ result' = "received" /\ UNCHANGED <<buf, buf_ptr, size>>
  BY DEF RcvEmptyHeader
<1>2. complete = 1 /\ result = "none"
  BY <1>1, HeaderIsNews, PacketRead
<1>3. size = Len(File) /\ \A i \in 1 .. Len(File) : buf[i - 1] = File[i]
  BY <1>2 DEF Served, Progress, HasPrefix
<1>4. Reception!Succeed
  <2>1. Returned' = size /\ Len(File) = Len(Files[Len(Files)])
        /\ complete = Len(Files)
    BY <1>1, <1>2 DEF Returned, File, Sole
  <2>2. UNCHANGED Strange
    BY DEF Strange, Faults
  <2>. QED  BY <1>1, <1>2, <1>3, <2>1, <2>2 DEF Reception!Succeed
<1>. QED  BY <1>1, <1>3, <1>4 DEF StepsWell, Kept, Done, Reception!Next

(* Within the file, a block in order is the next block of the file.        *)
LEMMA BlockIsNews ==
    ASSUME Sole, Typed, Served, ReadsNext, packets_received # 0
    PROVE  /\ Head(toRcv) = Current /\ Within(toRcv', Fresh)
           /\ complete = 0 /\ buf_ptr < Len(File)
           /\ Current = BlockAt(packets_received, buf_ptr)
           /\ BlockOut \/ Left
<1>1. /\ toRcv # << >> /\ Head(toRcv).kind = "packet" /\ toRcv' = Tail(toRcv)
      /\ Head(toRcv).seq = packets_received % SeqMod
  BY PacketRead
<1>2. packets_received - 1 \in Nat /\ packets_received = (packets_received - 1) + 1
  BY TypedFacts
<1>3. packets_received % SeqMod # (packets_received - 1) % SeqMod
  BY <1>2, NeighboursDiffer
<1>4. Head(toRcv) \notin Old
  BY <1>1, <1>3, SeenKinds
<1>5. /\ Head(toRcv) = Current /\ Within(toRcv', Fresh)
      /\ HeaderOut \/ BlockOut \/ EotOut \/ Closing \/ Left
  BY <1>1, <1>4, Advance
<1>6. complete = 0
  BY DEF Served, Progress
<1>7. buf_ptr < Len(File) /\ Current = BlockAt(packets_received, buf_ptr)
  BY <1>1, <1>5, <1>6, Kinds DEF Current
<1>8. ~HeaderOut /\ ~Closing
  BY <1>6 DEF HeaderOut, Closing
<1>9. ~EotOut
  BY <1>7, SoleFile, TypedFacts DEF EotOut
<1>. QED  BY <1>5, <1>6, <1>7, <1>8, <1>9

LEMMA BlockBytes ==
    ASSUME NEW number, NEW offset
    PROVE  LET data == BlockAt(number, offset).data
           IN  /\ Len(data) = LenAt(offset)
               /\ \A i \in 1 .. LenAt(offset) :
                     offset + i <= Len(File) => data[i] = File[offset + i]
BY LenAtType DEF BlockAt

LEMMA DataStep ==
    ASSUME Sole, Typed, Served, RcvData, UNCHANGED <<host, wire, complete>>
    PROVE  StepsWell
<1>. DEFINE data == Head(toRcv).data
<1>1. ReadsNext /\ packets_received # 0 /\ UNCHANGED size
  BY DEF RcvData
<1>2. result = "none" /\ Head(toRcv) \in Packet /\ Head(toRcv).seq = packets_received % SeqMod
  BY <1>1, PacketRead
<1>3. CASE ~Fits(Head(toRcv))
  <2>1. result' = "failed" /\ UNCHANGED <<buf, buf_ptr>>
    BY <1>3 DEF RcvData, Fail
  <2>. QED  BY <1>2, <2>1, Survives
<1>4. CASE Fits(Head(toRcv))
  <2>1. /\ buf' = Stored(data, buf_ptr)
        /\ buf_ptr' = buf_ptr + Len(data)
        /\ packets_received' = packets_received + 1
        /\ Answer(<<"ACK">>) /\ result' = result
    BY <1>4 DEF RcvData
  <2>2. /\ Head(toRcv) = Current /\ Within(toRcv', Fresh)
        /\ complete = 0 /\ buf_ptr < Len(File)
        /\ Current = BlockAt(packets_received, buf_ptr)
        /\ BlockOut \/ Left
    BY <1>1, BlockIsNews
  <2>3. data \in Payload
    BY <1>2 DEF Packet
  <2>4. /\ Len(data) = LenAt(buf_ptr) /\ Len(data) \in Nat /\ Len(data) > 0
        /\ \A i \in 1 .. Len(data) :
              buf_ptr + i <= Len(File) => data[i] = File[buf_ptr + i]
    BY <2>2, BlockBytes, LenAtType
  <2>. HIDE DEF data
  <2>5. /\ buf_ptr \in Nat /\ packets_received \in Nat
        /\ buf_ptr' \in Nat /\ buf_ptr' > buf_ptr /\ buf_ptr' <= BufLen
        /\ Len(File) \in Nat
    <3>1. buf_ptr + Len(data) <= BufLen
      BY <1>4 DEF Fits, data
    <3>2. buf_ptr \in Nat /\ packets_received \in Nat /\ Len(File) \in Nat
      BY TypedFacts, SoleFile
    <3>. QED  BY <2>1, <2>4, <3>1, <3>2
  <2>6. \A i \in 0 .. BufLen : i < buf_ptr => buf'[i] = buf[i]
    BY <2>1, <2>3, StoredType, TypedFacts
  <2>7. \A i \in buf_ptr + 1 .. buf_ptr' : i <= Len(File) => buf'[i - 1] = File[i]
    <3>. SUFFICES ASSUME NEW i \in buf_ptr + 1 .. buf_ptr', i <= Len(File)
                  PROVE  buf'[i - 1] = File[i]
      OBVIOUS
    <3>1. /\ i - 1 \in 0 .. BufLen
          /\ i - 1 \in buf_ptr .. buf_ptr + Len(data) - 1
          /\ (i - 1) - buf_ptr + 1 = i - buf_ptr
          /\ i - buf_ptr \in 1 .. Len(data) /\ buf_ptr + (i - buf_ptr) = i
      BY <2>1, <2>4, <2>5
    <3>2. buf'[i - 1] = data[i - buf_ptr]
      BY <2>1, <3>1 DEF Stored
    <3>. QED  BY <2>4, <3>1, <3>2
  <2>8. \A i \in 1 .. buf_ptr : i - 1 \in 0 .. BufLen /\ i - 1 < buf_ptr
    BY <2>5
  <2>9. Reception!Store
    <3>1. Reception!Under = File /\ complete < Len(Files)
      BY <2>2 DEF Reception!Under, File, Sole
    <3>2. UNCHANGED <<Returned, Strange>>
      BY <1>2, <2>1 DEF Returned, Strange, Faults
    <3>3. buf_ptr' \in buf_ptr + 1 .. BufLen
      BY <2>5
    <3>4. \A i \in 1 .. buf_ptr : buf'[i - 1] = buf[i - 1]
      BY <2>6, <2>8
    <3>. QED  BY <1>2, <2>1, <2>7, <3>1, <3>2, <3>3, <3>4 DEF Reception!Store
  <2>10. Progress'
    <3>1. ASSUME NEW i \in 1 .. Len(File), i <= buf_ptr'
          PROVE  buf'[i - 1] = File[i]
      <4>1. CASE i <= buf_ptr
        <5>1. i \in 1 .. buf_ptr
          BY <2>5, <4>1
        <5>2. buf[i - 1] = File[i]
          BY <4>1 DEF Served, Progress, HasPrefix
        <5>. QED  BY <2>6, <2>8, <5>1, <5>2
      <4>2. CASE ~(i <= buf_ptr)
        <5>1. i \in buf_ptr + 1 .. buf_ptr' /\ i <= Len(File)
          BY <2>5, <3>1, <4>2
        <5>. QED  BY <2>7, <5>1
      <4>. QED  BY <4>1, <4>2
    <3>2. size' = Len(File)
      BY <1>1 DEF Served, Progress
    <3>. QED  BY <2>2, <3>1, <3>2 DEF Progress, HasPrefix
  <2>11. Old' = Marks \cup {p \in Packet : p.seq = packets_received % SeqMod}
    <3>1. complete' # 1 /\ packets_received' # 0
          /\ packets_received' - 1 = packets_received
      BY <2>1, <2>2, <2>5
    <3>. QED  BY <3>1 DEF Old, Seen
  <2>12. Within(toRcv', Old') /\ Behind(toRcv', Old', Fresh')
    BY <1>2, <2>2, <2>11, Overtaken
  <2>13. NoAck => OneAck'
    BY <2>1, PutAck, AnswerSet, TypedFacts DEF Answer, NoAck, OneAck
  <2>14. Situation'
    <3>1. BlockOut => BlockIn'
      <4>1. LenAt(sent)' = LenAt(sent)
        BY DEF host, LenAt
      <4>. QED  BY <2>1, <2>4, <2>12, <2>13, <4>1
                DEF BlockOut, BlockIn, Sending, InFile, OldOnly, host
    <3>2. Left => Left'
      BY DEF Left, host
    <3>. QED  BY <2>2, <3>1, <3>2 DEF Situation
  <2>15. Served'
    BY <2>10, <2>12, <2>14 DEF Served
  <2>. QED  BY <1>2, <2>1, <2>9, <2>15 DEF StepsWell, Kept, Done, Reception!Next
<1>. QED  BY <1>3, <1>4

LEMMA ReceiveStep ==
    ASSUME Sole, Typed, Served, Receives
    PROVE  StepsWell
<1>1. /\ RcvReads /\ UNCHANGED <<host, wire>>
      /\ complete' = IF EndsFile THEN complete + 1 ELSE complete
  BY DEF Receives, damage
<1>2. CASE RcvEot
  BY <1>1, <1>2, EotStep DEF EndsFile
<1>3. CASE ~RcvEot
  <2>1. complete' = complete
    BY <1>1, <1>3 DEF EndsFile
  <2>2. CASE RcvDamaged
    <3>1. ReceiveError /\ result = "none" /\ toRcv # << >> /\ toRcv' = Tail(toRcv)
      BY <2>2 DEF RcvDamaged, Reads
    <3>. QED  BY <1>1, <2>1, <3>1, ErrorWell
  <2>3. CASE RcvAbort
    BY <1>1, <2>1, <2>3, Survives DEF RcvAbort, Reads, Fail
  <2>4. CASE RcvWrongNumber
    <3>1. /\ result = "none" /\ result' = result
          /\ toRcv # << >> /\ toRcv' = Tail(toRcv) /\ Answer(<<"NAK">>)
          /\ UNCHANGED <<packets_received, buf, buf_ptr, size>>
      BY <2>4 DEF RcvWrongNumber, Reads
    <3>2. Served'
      BY <1>1, <2>1, <3>1, StandsStill, AnswerSet
    <3>. QED  BY <1>1, <2>1, <3>1, <3>2, Survives
  <2>. QED  BY <1>1, <1>3, <2>1, <2>2, <2>3, <2>4,
               HeaderStep, EmptyHeaderStep, DataStep DEF RcvReads
<1>. QED  BY <1>2, <1>3

-----------------------------------------------------------------------------
(* The host's half.                                                        *)
LEMMA MarksAreOld == Marks \subseteq Old /\ Marks \subseteq Fresh
BY DEF Old, Fresh

LEMMA EmitFresh ==
    ASSUME Typed, Served, Emit(Current)
    PROVE  Behind(toRcv', Old, Fresh)
<1>1. toRcv \in Seq(Token) /\ Current \in Fresh
  BY TypedFacts DEF Fresh
<1>. QED  BY <1>1, PutBehind DEF Served, Emit

LEMMA EmitOld ==
    ASSUME Typed, OldOnly, NEW token \in Old, Emit(token)
    PROVE  Within(toRcv', Old) /\ Behind(toRcv', Old, Fresh)
<1>1. toRcv \in Seq(Token)
  BY TypedFacts
<1>2. Within(toRcv', Old)
  BY <1>1, PutWithin DEF Emit, OldOnly
<1>. QED  BY <1>2, WithinBehind

(* What is repeated is what the receiver waits for, or has already.        *)
LEMMA Repeats ==
    ASSUME Sole, Typed, Served, phase \in {"header", "data", "eot"}
    PROVE  \/ Pending = Current /\ (HeaderOut \/ BlockOut \/ EotOut \/ Closing)
           \/ Pending \in Old /\ OldOnly
<1>1. CASE HeaderOut
  <2>1. Pending = FirstHeader
    BY <1>1, HostSends DEF HeaderOut, InFile, Pending
  <2>. QED  BY <1>1, <2>1 DEF HeaderOut, InFile, Current
<1>2. CASE HeaderIn
  <2>1. Pending = FirstHeader
    BY <1>2, HostSends DEF HeaderIn, InFile, Pending
  <2>2. FirstHeader \in Packet
    <3>1. Header \in Token /\ Header = FirstHeader
      <4>1. file = 1 /\ file \in 1 .. Len(Files) + 1
        BY <1>2 DEF HeaderIn, InFile, Typed, DownloadInv, HostInv, HostTypeOK
      <4>. QED  BY <4>1, HeaderToken, HostSends
    <3>. QED  BY <3>1, Kinds DEF Token, Mark
  <2>3. FirstHeader.seq = (packets_received - 1) % SeqMod
    BY <1>2, Kinds DEF HeaderIn
  <2>. QED  BY <1>2, <2>1, <2>2, <2>3 DEF HeaderIn, InFile, Old, Seen
<1>3. CASE BlockOut
  <2>1. Pending = BlockAt(block, sent)
    BY <1>3, HostSends DEF BlockOut, Sending, InFile, Pending
  <2>. QED  BY <1>3, <2>1 DEF BlockOut, Sending, InFile, Current
<1>4. CASE BlockIn
  <2>1. Pending = BlockAt(block, sent)
    BY <1>4, HostSends DEF BlockIn, Sending, InFile, Pending
  <2>2. file = 1 /\ file \in 1 .. Len(Files) /\ block \in Nat /\ sent \in Nat
    BY <1>4 DEF BlockIn, Sending, InFile, Typed, DownloadInv, HostInv, HostTypeOK
  <2>3. BlockAt(block, sent) \in Packet
    <3>1. BlockAt(block, sent) \in Token
      BY <2>2, BlockToken, HostSends
    <3>. QED  BY <3>1, Kinds DEF Token, Mark
  <2>4. /\ packets_received - 1 = block /\ packets_received # 0
        /\ complete # 1 /\ OldOnly
    BY <1>4, <2>2 DEF BlockIn, Sending, InFile
  <2>5. BlockAt(block, sent).seq = (packets_received - 1) % SeqMod
    BY <2>4, Kinds
  <2>. QED  BY <2>1, <2>3, <2>4, <2>5 DEF Old, Seen
<1>5. CASE EotOut
  <2>1. Pending = Eot
    BY <1>5 DEF EotOut, Pending
  <2>2. ~(buf_ptr < Len(File))
    BY <1>5, TypedFacts, SoleFile DEF EotOut
  <2>. QED  BY <1>5, <2>1, <2>2 DEF EotOut, InFile, Current
<1>6. CASE EotIn
  <2>1. Pending = Eot
    BY <1>6 DEF EotIn, Pending
  <2>. QED  BY <1>6, <2>1 DEF EotIn, Old, Seen
<1>7. CASE Closing
  <2>1. Pending = LastHeader /\ Current = LastHeader
    BY <1>7, HostCloses DEF Closing, Pending, Current
  <2>. QED  BY <1>7, <2>1
<1>. QED  BY <1>1, <1>2, <1>3, <1>4, <1>5, <1>6, <1>7
          DEF Served, Situation, Asking, Started, Left

LEMMA HostSet ==
    ASSUME UNCHANGED <<rcv, complete>>
    PROVE  /\ Old' = Old /\ Fresh' = Fresh /\ Current' = Current
           /\ Progress => Progress'
           /\ UNCHANGED <<packets_received, buf, buf_ptr, size>>
BY DEF rcv, Old, Fresh, Seen, Current, Progress, HasPrefix

LEMMA Hearing ==
    ASSUME NEW replies, Typed, Hears(replies)
    PROVE  /\ NoAck => Within(toSnd', Answers) /\ Head(toSnd) # "ACK"
           /\ OneAck => AtMostOne(toSnd', "ACK")
           /\ OneAck /\ Head(toSnd) = "ACK" => Within(toSnd', Answers)
           /\ Head(toSnd) \in replies
<1>1. toSnd \in Seq(Reply) /\ toSnd # << >> /\ toSnd' = Tail(toSnd)
      /\ Head(toSnd) \in replies
  BY TypedFacts DEF Hears
<1>2. NoAck => Within(toSnd', Answers) /\ Head(toSnd) \in Answers
  BY <1>1, TailWithin DEF NoAck
<1>3. /\ OneAck => AtMostOne(toSnd', "ACK")
      /\ OneAck /\ Head(toSnd) = "ACK" => Within(toSnd', Answers)
  BY <1>1, TailOne DEF OneAck
<1>. QED  BY <1>1, <1>2, <1>3 DEF Answers

LEMMA NewSituation ==
    ASSUME Served, UNCHANGED <<rcv, complete>>,
           Behind(toRcv', Old, Fresh), Situation'
    PROVE  Served'
BY HostSet DEF Served

LEMMA ResendStep ==
    ASSUME Sole, Typed, Served, GiveUpOrResend,
           phase \in {"header", "data", "eot"}, UNCHANGED <<rcv, complete>>,
           NoAck => Within(toSnd', Answers), OneAck => AtMostOne(toSnd', "ACK")
    PROVE  Served'
<1>1. CASE retries = MaxRetries
  <2>1. toRcv' = Put(toRcv, <<Can, Can>>) /\ phase' = "failed"
    BY <1>1 DEF GiveUpOrResend
  <2>2. toRcv \in Seq(Token) /\ Can \in Fresh
    BY TypedFacts DEF Fresh, Marks
  <2>3. Behind(toRcv', Old, Fresh)
    BY <2>1, <2>2, PutBehind DEF Served
  <2>. QED  BY <2>1, <2>3, NewSituation DEF Situation, Left
<1>2. CASE retries # MaxRetries
  <2>1. Emit(Pending) /\ UNCHANGED <<phase, file, sent, block>>
    BY <1>2 DEF GiveUpOrResend
  <2>2. CASE Pending = Current /\ (HeaderOut \/ BlockOut \/ EotOut \/ Closing)
    <3>1. Behind(toRcv', Old, Fresh)
      BY <2>1, <2>2, EmitFresh
    <3>2. UNCHANGED <<packets_received, buf_ptr>> /\ (NoAck => NoAck')
      BY DEF rcv, NoAck
    <3>. HIDE DEF NoAck
    <3>3. HeaderOut => HeaderOut'
      BY <2>1, <3>2 DEF HeaderOut, InFile
    <3>4. BlockOut => BlockOut'
      BY <2>1, <3>2 DEF BlockOut, Sending, InFile
    <3>5. EotOut => EotOut'
      BY <2>1, <3>2 DEF EotOut, InFile
    <3>6. Closing => Closing'
      BY <2>1 DEF Closing
    <3>. QED  BY <2>2, <3>1, <3>3, <3>4, <3>5, <3>6, NewSituation DEF Situation
  <2>3. CASE Pending \in Old /\ OldOnly
    <3>1. Within(toRcv', Old) /\ Behind(toRcv', Old, Fresh)
      BY <2>1, <2>3, EmitOld
    <3>. QED  BY <2>1, <3>1, NobodyMoves, HostSet
  <2>. QED  BY <2>2, <2>3, Repeats
<1>. QED  BY <1>1, <1>2

(* The next header, the first block or the next one goes out when all that *)
(* is on the line is old.                                                  *)
LEMMA HostHeaderStep ==
    ASSUME Sole, Typed, Served, HostHeader, UNCHANGED <<rcv, complete>>
    PROVE  Served'
<1>1. /\ phase = "ask" /\ phase' = "header" /\ file' = file
      /\ Emit(Header) /\ Hears({"CRC", "NAK"})
  BY DEF HostHeader
<1>2. CASE Asking
  <2>1. Header = Current
    BY <1>2, HostSends DEF Asking, InFile, Current
  <2>2. Behind(toRcv', Old, Fresh)
    BY <1>1, <2>1, EmitFresh
  <2>3. NoAck'
    BY <1>1, <1>2, Hearing DEF Asking, NoAck
  <2>4. HeaderOut'
    BY <1>1, <1>2, <2>3 DEF Asking, HeaderOut, InFile, rcv
  <2>. QED  BY <2>2, <2>4, NewSituation DEF Situation
<1>3. CASE Closing
  <2>1. Header = Current
    BY <1>3, HostCloses DEF Closing, Current
  <2>2. Behind(toRcv', Old, Fresh)
    BY <1>1, <2>1, EmitFresh
  <2>3. Closing'
    BY <1>1, <1>3 DEF Closing
  <2>. QED  BY <2>2, <2>3, NewSituation DEF Situation
<1>. QED  BY <1>1, <1>2, <1>3 DEF Served, Situation, HeaderOut, HeaderIn, Started,
             BlockOut, BlockIn, Sending, EotOut, EotIn, Left

LEMMA HostHeaderAckStep ==
    ASSUME Sole, Typed, Served, HostHeaderAck, UNCHANGED <<rcv, complete>>
    PROVE  Served'
<1>1. /\ phase = "header" /\ Hears({"ACK"})
      /\ phase' = IF file > Len(Files) THEN "done" ELSE "start"
      /\ UNCHANGED <<toRcv, file>>
  BY DEF HostHeaderAck
<1>2. Behind(toRcv', Old, Fresh)
  BY <1>1 DEF Served
<1>3. /\ ~HeaderOut
      /\ HeaderIn => Within(toSnd', Answers)
  BY <1>1, Hearing DEF HeaderOut, HeaderIn
<1>4. CASE HeaderIn
  <2>1. phase' = "start"
    BY <1>1, <1>4, SolePast DEF HeaderIn, InFile
  <2>2. OldOnly' /\ NoAck'
    BY <1>1, <1>3, <1>4, HostSet DEF HeaderIn, OldOnly, NoAck
  <2>3. Started'
    BY <1>1, <1>4, <2>1, <2>2 DEF HeaderIn, Started, InFile, rcv
  <2>. QED  BY <1>2, <2>3, NewSituation DEF Situation
<1>5. CASE Closing
  <2>1. Closing'
    BY <1>1, <1>5, SolePast DEF Closing
  <2>. QED  BY <1>2, <2>1, NewSituation DEF Situation
<1>. QED  BY <1>1, <1>3, <1>4, <1>5 DEF Served, Situation, Asking, Started,
             BlockOut, BlockIn, Sending, EotOut, EotIn, Left

LEMMA NextGoesOut ==
    ASSUME Sole, Typed, Served, InFile, packets_received # 0, NoAck',
           UNCHANGED <<rcv, complete, file>>,
           Emit(EndOrBlock(packets_received, buf_ptr)),
           phase' = EndOrData(buf_ptr),
           block' = packets_received, sent' = buf_ptr \/ phase' = "eot"
    PROVE  Served'
<1>1. /\ EndOrBlock(packets_received, buf_ptr) = Current
      /\ phase' = IF buf_ptr < Len(File) THEN "data" ELSE "eot"
  BY HostSends DEF InFile, Current
<1>2. Behind(toRcv', Old, Fresh)
  BY <1>1, EmitFresh
<1>3. CASE buf_ptr < Len(File)
  <2>1. BlockOut'
    BY <1>1, <1>3 DEF BlockOut, Sending, InFile, rcv
  <2>. QED  BY <1>2, <2>1, NewSituation DEF Situation
<1>4. CASE ~(buf_ptr < Len(File))
  <2>1. buf_ptr >= Len(File)
    BY <1>4, TypedFacts, SoleFile
  <2>2. EotOut'
    BY <1>1, <1>4, <2>1 DEF EotOut, InFile, rcv
  <2>. QED  BY <1>2, <2>2, NewSituation DEF Situation
<1>. QED  BY <1>3, <1>4

LEMMA HostStartStep ==
    ASSUME Sole, Typed, Served, HostStart, UNCHANGED <<rcv, complete>>
    PROVE  Served'
<1>1. /\ phase = "start" /\ Hears({"CRC", "NAK"}) /\ Emit(EndOrBlock(1, 0))
      /\ phase' = EndOrData(0) /\ block' = 1 /\ sent' = 0 /\ file' = file
  BY DEF HostStart
<1>2. Started
  BY <1>1 DEF Served, Situation, Asking, HeaderOut, HeaderIn, BlockOut, BlockIn,
              Sending, EotOut, EotIn, Closing, Left
<1>3. packets_received = 1 /\ buf_ptr = 0 /\ InFile /\ NoAck
  BY <1>2 DEF Started
<1>4. NoAck'
  BY <1>1, <1>3, Hearing DEF NoAck
<1>. QED  BY <1>1, <1>3, <1>4, NextGoesOut

LEMMA HostDataAckStep ==
    ASSUME Sole, Typed, Served, HostDataAck, UNCHANGED <<rcv, complete>>
    PROVE  Served'
<1>1. /\ phase = "data" /\ Hears({"ACK"})
      /\ sent' = sent + BlockLen(sent) /\ block' = block + 1
      /\ Emit(EndOrBlock(block', sent')) /\ phase' = EndOrData(sent')
      /\ file' = file
  BY DEF HostDataAck
<1>2. /\ ~BlockOut
      /\ BlockIn => Within(toSnd', Answers)
  BY <1>1, Hearing DEF BlockOut, BlockIn
<1>3. BlockIn
  BY <1>1, <1>2 DEF Served, Situation, Asking, HeaderOut, HeaderIn, Started,
                    EotOut, EotIn, Closing, Left
<1>4. InFile /\ BlockLen(sent) = LenAt(sent)
  BY <1>3, HostSends DEF BlockIn, Sending, InFile
<1>5. /\ packets_received = block' /\ buf_ptr = sent' /\ packets_received # 0
  BY <1>1, <1>3, <1>4, TypedFacts DEF BlockIn
<1>6. NoAck'
  BY <1>2, <1>3 DEF NoAck
<1>. QED  BY <1>1, <1>4, <1>5, <1>6, NextGoesOut

LEMMA HostEotAckStep ==
    ASSUME Sole, Typed, Served, HostEotAck, UNCHANGED <<rcv, complete>>
    PROVE  Served'
<1>1. /\ phase = "eot" /\ Hears({"ACK"}) /\ phase' = "ask"
      /\ file' = file + 1 /\ toRcv' = toRcv
  BY DEF HostEotAck
<1>2. ~EotOut
  BY <1>1, Hearing DEF EotOut
<1>3. EotIn
  BY <1>1, <1>2 DEF Served, Situation, Asking, HeaderOut, HeaderIn, Started,
                    BlockOut, BlockIn, Sending, Closing, Left
<1>4. Closing'
  BY <1>1, <1>3 DEF EotIn, Closing
<1>5. Behind(toRcv', Old, Fresh)
  BY <1>1 DEF Served
<1>. QED  BY <1>4, <1>5, NewSituation DEF Situation

LEMMA HostServes ==
    ASSUME Sole, Typed, Served, UNCHANGED <<rcv, complete>>,
           HostReads \/ HostTimeout \/ HostPatienceEnds
    PROVE  Served'
<1>1. CASE HostNotAcked
  <2>1. /\ NoAck => Within(toSnd', Answers)
        /\ OneAck => AtMostOne(toSnd', "ACK")
    BY <1>1, Hearing DEF HostNotAcked
  <2>. QED  BY <1>1, <2>1, ResendStep DEF HostNotAcked
<1>2. CASE HostTimeout
  BY <1>2, ResendStep DEF HostTimeout, NoAck, OneAck
<1>3. CASE HostIgnores
  <2>1. Hears({"ACK", "noise"}) /\ toRcv' = toRcv /\ UNCHANGED <<phase, file, sent, block>>
    BY <1>3 DEF HostIgnores, host
  <2>2. /\ NoAck => Within(toSnd', Answers)
        /\ OneAck => AtMostOne(toSnd', "ACK")
    BY <2>1, Hearing
  <2>3. Behind(toRcv', Old, Fresh) /\ (OldOnly => Within(toRcv', Old))
    BY <2>1 DEF Served, OldOnly
  <2>. QED  BY <2>1, <2>2, <2>3, HostSet, NobodyMoves
<1>4. CASE HostCancelled \/ HostPatienceEnds
  <2>1. phase' = "failed" /\ toRcv' = toRcv
    BY <1>4 DEF HostCancelled, HostPatienceEnds
  <2>. QED  BY <2>1, NewSituation DEF Served, Situation, Left
<1>. QED  BY <1>1, <1>2, <1>3, <1>4, HostHeaderStep, HostHeaderAckStep,
             HostStartStep, HostDataAckStep, HostEotAckStep DEF HostReads

-----------------------------------------------------------------------------
(* The wire's part: what it damages is old and fresh alike.                *)
LEMMA DamagedMark ==
    ASSUME Sole, wire \in Lines, NEW token, NEW tokens \in Damaged(token)
    PROVE  tokens = << >> \/ \E m \in Marks : tokens = <<m>>
BY DEF Sole, Damaged, Faults, Marks

LEMMA DamageStep ==
    ASSUME Sole, Typed, Served, Damage, UNCHANGED <<rcv, host, complete>>
    PROVE  Served'
<1>1. toRcv \in Seq(Token) /\ toSnd \in Seq(Reply) /\ wire \in Lines
  BY TypedFacts
<1>2. CASE DamagePacket
  <2>1. PICK tokens \in Damaged(Head(toRcv)) : toRcv' = tokens \o Tail(toRcv)
    BY <1>2 DEF DamagePacket
  <2>2. toRcv # << >> /\ toSnd' = toSnd
    BY <1>2 DEF DamagePacket
  <2>3. Behind(toRcv', Old, Fresh) /\ (OldOnly => Within(toRcv', Old))
    <3>1. CASE tokens = << >>
      <4>1. Tail(toRcv) \in Seq(Token)
        BY <1>1, <2>2
      <4>2. toRcv' = Tail(toRcv)
        BY <2>1, <3>1, <4>1
      <4>. QED  BY <2>2, <4>2, NextToken
    <3>2. CASE \E m \in Marks : tokens = <<m>>
      <4>1. PICK m \in Marks : tokens = <<m>>
        BY <3>2
      <4>2. m \in Old /\ m \in Old \cap Fresh /\ toRcv' = <<m>> \o Tail(toRcv)
        BY <2>1, <4>1, MarksAreOld
      <4>. QED  BY <1>1, <2>2, <4>2, HeadWithin, HeadBehind DEF Served, OldOnly
    <3>. QED  BY <1>1, <3>1, <3>2, DamagedMark
  <2>. QED  BY <2>2, <2>3, HostSet, NobodyMoves DEF NoAck, OneAck, host
<1>3. CASE DamageReply
  <2>1. /\ toSnd # << >> /\ toRcv' = toRcv
        /\ toSnd' = Tail(toSnd) \/ toSnd' = <<"noise">> \o Tail(toSnd)
    BY <1>3 DEF DamageReply
  <2>2. NoAck => Within(toSnd', Answers)
    BY <1>1, <2>1, TailWithin, HeadWithin, AnswerSet DEF NoAck
  <2>3. OneAck => AtMostOne(toSnd', "ACK")
    BY <1>1, <2>1, TailOne, NoisyOne DEF OneAck
  <2>4. Behind(toRcv', Old, Fresh) /\ (OldOnly => Within(toRcv', Old))
    BY <2>1 DEF Served, OldOnly
  <2>. QED  BY <2>2, <2>3, <2>4, HostSet, NobodyMoves DEF host
<1>. QED  BY <1>2, <1>3 DEF Damage

-----------------------------------------------------------------------------
Whole == size = Len(File) /\ \A i \in 1 .. Len(File) : buf[i - 1] = File[i]

(* The invariant of a download from an honest host.                        *)
Honest == ~Strange => /\ result = "none" => Served
                      /\ result = "received" => Whole

LEMMA HonestInit == ASSUME Sole, Init PROVE Honest /\ Reception!Init
<1>1. Reception!Init
  BY DEF Init, RcvInit, Reception!Init, Returned
<1>2. Len(File) \in Nat
  BY SoleFile
<1>3. /\ packets_received = 0 /\ buf_ptr = 0 /\ complete = 0 /\ result = "none"
      /\ toRcv = << >> /\ toSnd = << >> /\ phase = "ask" /\ file = 1
  BY DEF Init, RcvInit, HostInit
<1>4. OldOnly /\ NoAck /\ Behind(toRcv, Old, Fresh)
  BY <1>3 DEF OldOnly, NoAck, Behind, Within
<1>5. Progress
  BY <1>2, <1>3 DEF Progress, HasPrefix
<1>. QED  BY <1>1, <1>3, <1>4, <1>5 DEF Honest, Served, Situation, Asking, InFile

LEMMA HonestNext ==
    ASSUME Sole, Typed, Honest, [Next]_vars
    PROVE  Honest' /\ [~Strange => Reception!Next]_(Reception!vars)
<1>1. Strange' = Strange
  BY DEF Next, Receives, Sends, BoardTimesOut, HostTimesOut, Damage, Intrudes,
         vars, damage, Strange, Faults
<1>2. CASE Strange
  BY <1>1, <1>2 DEF Honest
<1>3. ASSUME ~Strange, result = "none", StepsWell
      PROVE  Honest' /\ [~Strange => Reception!Next]_(Reception!vars)
  BY <1>3 DEF StepsWell, Kept, Done, Honest, Whole
<1>4. ASSUME ~Strange, UNCHANGED <<rcv, complete>>, result = "none" => Served'
      PROVE  Honest' /\ [~Strange => Reception!Next]_(Reception!vars)
  <2>1. UNCHANGED Reception!vars
    BY <1>1, <1>4 DEF rcv, Reception!vars, Returned
  <2>2. Whole => Whole'
    BY <1>4 DEF Whole, rcv
  <2>3. result' = result
    BY <1>4 DEF rcv
  <2>. QED  BY <1>1, <1>4, <2>1, <2>2, <2>3 DEF Honest
<1>5. ASSUME ~Strange PROVE result = "none" => Served
  BY <1>5 DEF Honest
<1>6. CASE ~Strange
  <2>1. CASE Receives
    <3>1. result = "none"
      BY <2>1 DEF Receives, RcvReads, RcvDamaged, RcvAbort, RcvEot, RcvWrongNumber,
                  RcvHeader, RcvEmptyHeader, RcvData, ReadsNext, Reads
    <3>. QED  BY <1>3, <1>5, <1>6, <2>1, <3>1, ReceiveStep
  <2>2. CASE BoardTimesOut
    <3>1. /\ result = "none" /\ toRcv' = toRcv /\ ReceiveError
          /\ UNCHANGED <<host, wire, complete>>
      BY <2>2 DEF BoardTimesOut, RcvTimeout, damage
    <3>. QED  BY <1>3, <1>5, <1>6, <3>1, ErrorWell
  <2>3. CASE Sends \/ HostTimesOut
    <3>1. UNCHANGED <<rcv, complete>> /\ (HostReads \/ HostTimeout \/ HostPatienceEnds)
      BY <2>3 DEF Sends, HostTimesOut
    <3>. QED  BY <1>4, <1>5, <1>6, <3>1, HostServes
  <2>4. CASE Damage /\ UNCHANGED <<rcv, host, complete>>
    BY <1>4, <1>5, <1>6, <2>4, DamageStep
  <2>5. CASE Intrudes
    BY <1>6, <2>5 DEF Intrudes
  <2>6. CASE UNCHANGED vars
    <3>1. UNCHANGED <<rcv, complete, toRcv, toSnd, host>>
      BY <2>6 DEF vars, line
    <3>2. Served => Served'
      BY <3>1, HostSet, NobodyMoves DEF Served, OldOnly, NoAck, OneAck, host
    <3>. QED  BY <1>4, <1>5, <1>6, <3>1, <3>2
  <2>. QED  BY <2>1, <2>2, <2>3, <2>4, <2>5, <2>6 DEF Next
<1>. QED  BY <1>2, <1>6

LEMMA TypedAlways == Spec => []Typed /\ [][Next]_vars
<1>1. Init => Typed
  BY DownloadInit, InitInv DEF Typed
<1>2. Typed /\ [Next]_vars => Typed'
  BY ImplementsAnySender, NextInv DEF Typed
<1>. QED  BY <1>1, <1>2, PTL DEF Spec

LEMMA HonestAlways ==
    ASSUME Sole
    PROVE  Spec => []Honest /\ DeliversTheFiles
<1>1. Init => Honest /\ Reception!Init
  BY HonestInit
<1>2. Typed /\ Honest /\ [Next]_vars =>
         Honest' /\ [~Strange => Reception!Next]_(Reception!vars)
  BY HonestNext
<1>. QED  BY <1>1, <1>2, TypedAlways, PTL DEF Spec, DeliversTheFiles, Reception!Spec

(* However often packets and answers are damaged, lost, repeated or late,  *)
(* the receiver does to its caller what FileReception promises.            *)
THEOREM FileIsDelivered == Sole => (Spec => DeliversTheFiles)
<1>. SUFFICES ASSUME Sole PROVE Spec => DeliversTheFiles
  OBVIOUS
<1>1. Spec => []Honest /\ DeliversTheFiles
  BY HonestAlways
<1>. QED  BY <1>1, PTL

(* A length that is reported is that of the file, and the file is there.   *)
THEOREM ReportMeansWhole == Sole => (Spec => []ReceivedIsWhole)
<1>. SUFFICES ASSUME Sole PROVE Spec => []ReceivedIsWhole
  OBVIOUS
<1>1. Spec => []Honest /\ DeliversTheFiles
  BY HonestAlways
<1>2. Honest => ReceivedIsWhole
  <2>1. Files[Len(Files)] = File
    BY DEF Sole, File
  <2>. QED  BY <2>1 DEF Honest, Whole, ReceivedIsWhole, HoldsFile, Returned
<1>. QED  BY <1>1, <1>2, PTL
=============================================================================
