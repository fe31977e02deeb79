------------------------- MODULE YmodemUploadProofs -------------------------
(***************************************************************************)
(* What the host has after an upload, for every file, block length, number *)
(* of tries and amount of damage.                                          *)
(***************************************************************************)
EXTENDS YmodemUpload, TLAPS

(* The proofs are about lines whose host answers in its own time, that     *)
(* turn no packet into an EOT, and that bring at most two stale characters:*)
(* with more of them an old answer is taken for a new one.                 *)
Punctual == /\ Stale <= 2
            /\ \A w \in Lines : "host" \in w.patient /\ "forge" \notin w.kinds

-----------------------------------------------------------------------------
(* The phases of a session.                                                *)
Marks           == {Garbled, Short, Noise}
Header          == Packet0(TRUE)
Closing         == Packet0(FALSE)
Block           == DataPacket(blockno, left)
HeaderTokens    == Marks \cup {Header}
BlockTokens     == Marks \cup {Block}
ClosingTokens   == Marks \cup {Eot, Closing}
GotIsPrefix     == \A i \in 1 .. Len(got) : i <= SendSize => got[i] = Source[i]

(* The host asks and nobody has answered.                                  *)
Greeting ==
    /\ at \in {"flush", "greet"} /\ ret = "none"
    /\ expects = "header" /\ got = << >>
    /\ toRcv \in Seq({Noise})
    /\ toSnd \in Seq({"CRC", "noise"})
    /\ Len(toSnd) <= IF at = "flush" THEN 2 ELSE 1

(* The header was sent: one request or one header is under way, behind     *)
(* the greetings.                                                          *)
Announcing ==
    /\ at = "header" /\ ret = "none"
    /\ expects = "header" /\ got = << >>
    /\ toSnd \in Seq({"CRC", "noise"})
    /\ toRcv \in Seq(HeaderTokens)
    /\ \/ toRcv \in Seq({Noise}) /\ Len(toSnd) <= 1
       \/ /\ toSnd = << >> /\ toRcv # << >>
          /\ \A i \in 1 .. Len(toRcv) - 1 : toRcv[i] = Noise

(* The host has the header and asks for data once, in the same breath as   *)
(* it acknowledges; all else that is under way is about the header.        *)
NoStart == \A i \in 1 .. Len(toSnd) : toSnd[i] = "CRC" => i = 1 /\ at = "header"
Announced ==
    /\ at \in {"header", "asked"} /\ ret = "none"
    /\ got = << >>
    /\ toSnd \in Seq(Reply)
    /\ toRcv \in Seq(HeaderTokens)
    /\ \/ /\ expects = "data" /\ next = 1 /\ announced = SendSize
          /\ \/ /\ at = "header" /\ toRcv = << >>
                /\ toSnd \in {<<"ACK", "CRC">>, <<"noise", "CRC">>}
             \/ at = "asked" /\ toRcv = << >> /\ toSnd = <<"CRC">>
             \/ NoStart
       \/ expects = "failed" /\ NoStart

(* The sender has returned before it sent any data.                        *)
Refused ==
    /\ at = "returned" /\ ret = "zero"
    /\ expects \in {"header", "data", "failed"} /\ got = << >>
    /\ expects = "data" => next = 1
    /\ toRcv \in Seq(HeaderTokens \cup {Can})

(* A block is sent until it is acknowledged: it or its answer, one thing   *)
(* at a time.                                                              *)
InStep ==
    /\ (at = "data" /\ ret = "none") \/ (at = "returned" /\ ret = "size")
    /\ expects \in {"data", "failed"} /\ announced = SendSize
    /\ blockno \in Nat \ {0} /\ next \in {blockno, blockno + 1}
    /\ left = SendSize - (blockno - 1) * LongLen /\ left > 0
    /\ got \in Seq(Byte) /\ Len(got) = (next - 1) * LongLen /\ GotIsPrefix
    /\ expects = "data" => toRcv \in Seq(BlockTokens) /\ Len(toRcv) <= 1
    /\ at = "data" => /\ toSnd \in Seq(Reply)
                      /\ expects = "data" => Len(toRcv) + Len(toSnd) <= 1
                      /\ \A i \in 1 .. Len(toSnd) : toSnd[i] = "ACK" =>
                             expects = "data" /\ next = blockno + 1

(* The host has all of it.                                                 *)
Complete ==
    /\ \/ at \in {"eot", "closed", "last"} /\ ret = "none"
       \/ at = "returned" /\ ret = "size"
    /\ expects \in {"data", "end", "done", "failed"} /\ announced = SendSize
    /\ got \in Seq(Byte) /\ Len(got) >= SendSize /\ GotIsPrefix
    /\ toRcv \in Seq(ClosingTokens)

Inv == /\ wire \in Lines
       /\ \/ Greeting \/ Announcing \/ Announced \/ Refused
          \/ InStep \/ Complete

-----------------------------------------------------------------------------
(* Queues.                                                                 *)
LEMMA SeqMonotonic ==
    ASSUME NEW S, NEW T, S \subseteq T, NEW q \in Seq(S)
    PROVE  q \in Seq(T)
<1>1. Len(q) \in Nat /\ q \in [1 .. Len(q) -> T]
  OBVIOUS
<1>. QED  BY <1>1

LEMMA PutOne ==
    ASSUME NEW S, NEW q \in Seq(S), NEW x \in S
    PROVE  /\ Put(q, <<x>>) \in Seq(S)
           /\ q = << >> => Put(q, <<x>>) = <<x>>
           /\ Put(q, <<x>>) = q \/ Len(Put(q, <<x>>)) = Len(q) + 1
           /\ \A i \in 1 .. Len(q) : Put(q, <<x>>)[i] = q[i]
           /\ \A i \in 1 .. Len(Put(q, <<x>>)) :
                  i \in 1 .. Len(q) \/ Put(q, <<x>>)[i] = x
<1>. DEFINE y == <<x>>
<1>0. y \in Seq(S)
  OBVIOUS
<1>1. Len(y) = 1 /\ y[1] = x /\ Len(q) \in Nat
  OBVIOUS
<1>. HIDE DEF y
<1>2. /\ q \o y \in Seq(S) /\ Len(q \o y) = Len(q) + Len(y)
      /\ \A i \in 1 .. Len(q) : (q \o y)[i] = q[i]
      /\ \A i \in Len(q) + 1 .. Len(q) + Len(y) : (q \o y)[i] = y[i - Len(q)]
      /\ q = << >> => q \o y = y
  BY <1>0
<1>3. Len(q \o y) = Len(q) + 1 /\ (q \o y)[Len(q) + 1] = x
  BY <1>1, <1>2
<1>4. \A i \in 1 .. Len(q) + 1 : i \in 1 .. Len(q) \/ i = Len(q) + 1
  BY <1>1
<1>5. Put(q, y) = IF Len(q) + 1 <= LineCap THEN q \o y ELSE q
  BY <1>1 DEF Put
<1>6. q = << >> => Put(q, y) = y
  BY <1>2, <1>5, LineCapAssumption
<1>7. CASE Put(q, y) = q
  BY <1>6, <1>7 DEF y
<1>8. CASE Put(q, y) = q \o y
  BY <1>2, <1>3, <1>4, <1>6, <1>8 DEF y
<1>. QED  BY <1>5, <1>7, <1>8

LEMMA PutFirst ==
    ASSUME NEW x
    PROVE  Put(<< >>, <<x>>) = <<x>> /\ Len(<<x>>) = 1
<1>1. << >> \in Seq({x})
  OBVIOUS
<1>. QED  BY <1>1, PutOne

LEMMA PutTwo ==
    ASSUME NEW S, NEW q \in Seq(S), NEW x \in S, NEW y \in S
    PROVE  /\ Put(q, <<x, y>>) \in Seq(S)
           /\ q = << >> => Put(q, <<x, y>>) \in {<< >>, <<x, y>>}
           /\ \A i \in 1 .. Len(Put(q, <<x, y>>)) :
                  \/ i \in 1 .. Len(q) /\ Put(q, <<x, y>>)[i] = q[i]
                  \/ Put(q, <<x, y>>)[i] \in {x, y}
<1>. DEFINE two == <<x, y>>
<1>0. two \in Seq(S)
  OBVIOUS
<1>1. Len(two) = 2 /\ two[1] = x /\ two[2] = y /\ Len(q) \in Nat
  OBVIOUS
<1>. HIDE DEF two
<1>2. /\ q \o two \in Seq(S) /\ Len(q \o two) = Len(q) + Len(two)
      /\ \A i \in 1 .. Len(q) : (q \o two)[i] = q[i]
      /\ \A i \in Len(q) + 1 .. Len(q) + Len(two) : (q \o two)[i] = two[i - Len(q)]
      /\ q = << >> => q \o two = two
  BY <1>0
<1>3. /\ Len(q \o two) = Len(q) + 2
      /\ (q \o two)[Len(q) + 1] = x /\ (q \o two)[Len(q) + 2] = y
  BY <1>1, <1>2
<1>4. \A i \in 1 .. Len(q) + 2 : i \in 1 .. Len(q) \/ i = Len(q) + 1 \/ i = Len(q) + 2
  BY <1>1
<1>5. CASE Put(q, two) = q
  BY <1>5 DEF two
<1>6. CASE Put(q, two) = q \o two
  BY <1>2, <1>3, <1>4, <1>6 DEF two
<1>. QED  BY <1>5, <1>6 DEF Put, two

LEMMA ChangedHead ==
    ASSUME NEW S, NEW q \in Seq(S), q # << >>, NEW x \in S
    PROVE  /\ <<x>> \o Tail(q) \in Seq(S)
           /\ Len(<<x>> \o Tail(q)) = Len(q)
           /\ (<<x>> \o Tail(q))[1] = x
           /\ \A i \in 2 .. Len(q) : (<<x>> \o Tail(q))[i] = q[i]
<1>. DEFINE y == <<x>>
            r == Tail(q)
<1>0. y \in Seq(S) /\ r \in Seq(S)
  OBVIOUS
<1>1. Len(y) = 1 /\ y[1] = x
  OBVIOUS
<1>2. /\ Len(r) = Len(q) - 1 /\ Len(q) \in Nat \ {0}
      /\ \A i \in 2 .. Len(q) : r[i - 1] = q[i]
  OBVIOUS
<1>. HIDE DEF y, r
<1>3. /\ y \o r \in Seq(S) /\ Len(y \o r) = Len(y) + Len(r)
      /\ \A i \in 1 .. Len(y) : (y \o r)[i] = y[i]
      /\ \A i \in Len(y) + 1 .. Len(y) + Len(r) : (y \o r)[i] = r[i - Len(y)]
  BY <1>0
<1>4. Len(y \o r) = Len(q) /\ (y \o r)[1] = x
  BY <1>1, <1>2, <1>3
<1>5. ASSUME NEW i \in 2 .. Len(q) PROVE (y \o r)[i] = q[i]
  <2>1. i \in Len(y) + 1 .. Len(y) + Len(r) /\ i - Len(y) = i - 1
    BY <1>1, <1>2, <1>5
  <2>. QED  BY <1>2, <1>3, <2>1
<1>. QED  BY <1>3, <1>4, <1>5 DEF y, r

LEMMA TwoLong ==
    ASSUME NEW S, NEW q \in Seq(S)
    PROVE  Len(q) = 2 => q = <<q[1], q[2]>>
<1>1. q \in [1 .. Len(q) -> S]
  OBVIOUS
<1>2. Len(q) = 2 => q \in [1 .. 2 -> S]
  BY <1>1
<1>3. q \in [1 .. 2 -> S] => q = <<q[1], q[2]>>
  OBVIOUS
<1>. QED  BY <1>2, <1>3

LEMMA PairOf ==
    ASSUME NEW x, NEW y
    PROVE  /\ <<x>> \o <<y>> = <<x, y>> /\ Tail(<<x, y>>) = <<y>>
           /\ Tail(<<x>>) = << >> /\ <<x>> \o << >> = <<x>>
<1>1. <<x>> \o <<y>> = <<x, y>>
  <2>. DEFINE a == <<x>>
              b == <<y>>
  <2>1. a \in Seq({x, y}) /\ b \in Seq({x, y})
    OBVIOUS
  <2>2. Len(a) = 1 /\ Len(b) = 1 /\ a[1] = x /\ b[1] = y
    OBVIOUS
  <2>. HIDE DEF a, b
  <2>3. /\ a \o b \in Seq({x, y}) /\ Len(a \o b) = Len(a) + Len(b)
        /\ \A i \in 1 .. Len(a) : (a \o b)[i] = a[i]
        /\ \A i \in Len(a) + 1 .. Len(a) + Len(b) : (a \o b)[i] = b[i - Len(a)]
    BY <2>1
  <2>4. Len(a \o b) = 2 /\ (a \o b)[1] = x /\ (a \o b)[2] = y
    BY <2>2, <2>3
  <2>5. a \o b = <<(a \o b)[1], (a \o b)[2]>>
    BY <2>3, <2>4, TwoLong
  <2>. QED  BY <2>4, <2>5 DEF a, b
<1>2. Tail(<<x, y>>) = <<y>>
  OBVIOUS
<1>3. Tail(<<x>>) = << >>
  OBVIOUS
<1>4. <<x>> \o << >> = <<x>>
  OBVIOUS
<1>. QED  BY <1>1, <1>2, <1>3, <1>4

(* Tokens.                                                                 *)
LEMMA MarkKinds ==
    /\ \A t \in Marks : t.kind \in {"garbled", "short", "noise"}
    /\ Noise.kind = "noise" /\ Eot.kind = "EOT" /\ Can.kind = "CAN"
BY DEF Marks, Garbled, Short, Noise, Eot, Can

LEMMA HeaderPackets ==
    /\ Header.kind = "packet" /\ Header.seq = 0 /\ ~Header.empty
    /\ Header.size = SendSize
    /\ Closing.kind = "packet" /\ Closing.data \in Seq(Byte)
<1>1. [i \in 1 .. ShortLen |-> Pad] \in Seq(Byte)
  BY SourceAssumption, LenAssumption
<1>. QED  BY <1>1 DEF Header, Closing, Packet0

(* A block number is told from its neighbours by its remainder.            *)
LEMMA NeighboursDiffer ==
    ASSUME NEW n \in Nat
    PROVE  n % SeqMod # (n + 1) % SeqMod
<1>. DEFINE m == SeqMod
            a == n \div m
            b == (n + 1) \div m
<1>1. m \in Nat /\ m > 1
  BY SeqModAssumption
<1>2. a \in Int /\ n % m = n - m * a
  BY <1>1
<1>3. b \in Int /\ (n + 1) % m = (n + 1) - m * b
  BY <1>1
<1>. HIDE DEF a, b
<1>4. SUFFICES ASSUME n % m = (n + 1) % m PROVE FALSE
  OBVIOUS
<1>5. m * (b - a) = 1
  BY <1>1, <1>2, <1>3, <1>4
<1>6. b - a <= 0 => m * (b - a) <= 0
  BY <1>1, <1>2, <1>3
<1>7. b - a >= 1 => m * (b - a) >= m
  BY <1>1, <1>2, <1>3
<1>. QED  BY <1>1, <1>2, <1>3, <1>5, <1>6, <1>7

LEMMA EmptyInSeq ==
    ASSUME NEW S, NEW q, q = << >>
    PROVE  q \in Seq(S) /\ Len(q) = 0
OBVIOUS

LEMMA Lengths ==
    ASSUME NEW n \in Nat \ {0}
    PROVE  /\ n = 1 \/ 1 \in 1 .. n - 1
           /\ n <= 1 => n = 1
OBVIOUS

LEMMA OneThing ==
    ASSUME NEW a, NEW b
    PROVE  a = 0 /\ b = 1 => a + b <= 1
OBVIOUS

LEMMA EmptyWhenShort ==
    ASSUME NEW S, NEW q \in Seq(S), Len(q) = 0
    PROVE  q = << >>
OBVIOUS

LEMMA TailOf ==
    ASSUME NEW S, NEW q \in Seq(S), q # << >>
    PROVE  /\ Head(q) \in S /\ Head(q) = q[1]
           /\ Tail(q) \in Seq(S) /\ Len(q) \in Nat \ {0}
           /\ Len(Tail(q)) = Len(q) - 1
           /\ \A i \in 1 .. Len(Tail(q)) : Tail(q)[i] = q[i + 1]
           /\ Len(q) = 1 => Tail(q) = << >>
<1>1. /\ Head(q) \in S /\ Head(q) = q[1]
      /\ Tail(q) \in Seq(S) /\ Len(q) \in Nat \ {0}
      /\ Len(Tail(q)) = Len(q) - 1
      /\ \A i \in 1 .. Len(Tail(q)) : Tail(q)[i] = q[i + 1]
  OBVIOUS
<1>2. Len(Tail(q)) = 0 => Tail(q) = << >>
  BY <1>1, EmptyWhenShort
<1>. QED  BY <1>1, <1>2

-----------------------------------------------------------------------------
(* What the line may do: it takes the first token or reply away, or it     *)
(* puts a mark in the place of a packet and noise in that of a reply.      *)
LEMMA DamageCases ==
    ASSUME NEW S, toRcv \in Seq(S), Damage, "forge" \notin Faults
    PROVE  /\ wire' = wire
           /\ \/ /\ toRcv # << >> /\ toSnd' = toSnd
                 /\ \/ toRcv' = Tail(toRcv)
                    \/ /\ Head(toRcv).kind = "packet"
                       /\ \E m \in Marks : toRcv' = <<m>> \o Tail(toRcv)
              \/ /\ toSnd # << >> /\ toRcv' = toRcv
                 /\ toSnd' \in {Tail(toSnd), <<"noise">> \o Tail(toSnd)}
<1>1. wire' = wire
  BY DEF Damage
<1>2. CASE DamagePacket
  <2>1. PICK tokens \in Damaged(Head(toRcv)) : toRcv' = tokens \o Tail(toRcv)
    BY <1>2 DEF DamagePacket
  <2>2. \/ tokens = << >>
        \/ Head(toRcv).kind = "packet" /\ \E m \in Marks : tokens = <<m>>
    BY DEF Damaged, Marks
  <2>3. toRcv # << >> /\ toSnd' = toSnd
    BY <1>2 DEF DamagePacket
  <2>4. << >> \o Tail(toRcv) = Tail(toRcv)
    <3>1. Tail(toRcv) \in Seq(S)
      BY <2>3
    <3>. QED  BY <3>1
  <2>. QED  BY <1>1, <2>1, <2>2, <2>3, <2>4
<1>3. CASE DamageReply
  BY <1>1, <1>3 DEF DamageReply
<1>. QED  BY <1>2, <1>3 DEF Damage

LEMMA DamagedReplies ==
    ASSUME NEW S, "noise" \in S, toSnd \in Seq(S), toSnd # << >>,
           toSnd' \in {Tail(toSnd), <<"noise">> \o Tail(toSnd)}
    PROVE  /\ toSnd' \in Seq(S) /\ Len(toSnd') <= Len(toSnd) /\ Len(toSnd') \in Nat
           /\ \A i \in 1 .. Len(toSnd') :
                  \/ toSnd'[i] = "noise"
                  \/ i \in 1 .. Len(toSnd) /\ toSnd'[i] = toSnd[i]
                  \/ i + 1 \in 1 .. Len(toSnd) /\ toSnd'[i] = toSnd[i + 1]
<1>1. CASE toSnd' = Tail(toSnd)
  BY <1>1, TailOf
<1>2. CASE toSnd' = <<"noise">> \o Tail(toSnd)
  <2>1. /\ toSnd' \in Seq(S) /\ Len(toSnd') = Len(toSnd) /\ toSnd'[1] = "noise"
        /\ \A i \in 2 .. Len(toSnd) : toSnd'[i] = toSnd[i]
    BY <1>2, ChangedHead
  <2>. QED  BY <2>1
<1>. QED  BY <1>1, <1>2

LEMMA DamagedTokens ==
    ASSUME NEW S, Marks \subseteq S, toRcv \in Seq(S), toRcv # << >>,
           \/ toRcv' = Tail(toRcv)
           \/ \E m \in Marks : toRcv' = <<m>> \o Tail(toRcv)
    PROVE  toRcv' \in Seq(S) /\ Len(toRcv') <= Len(toRcv) /\ Len(toRcv') \in Nat
<1>1. ASSUME toRcv' = Tail(toRcv)
      PROVE  toRcv' \in Seq(S) /\ Len(toRcv') <= Len(toRcv) /\ Len(toRcv') \in Nat
  BY <1>1, TailOf
<1>2. ASSUME NEW m \in Marks, toRcv' = <<m>> \o Tail(toRcv)
      PROVE  toRcv' \in Seq(S) /\ Len(toRcv') <= Len(toRcv) /\ Len(toRcv') \in Nat
  <2>1. m \in S /\ Len(toRcv) \in Nat
    BY <1>2
  <2>2. toRcv' \in Seq(S) /\ Len(toRcv') = Len(toRcv)
    BY <1>2, <2>1, ChangedHead
  <2>. QED  BY <2>1, <2>2
<1>. QED  BY <1>1, <1>2

-----------------------------------------------------------------------------
(* What a reader finds in a queue of known tokens.                         *)
LEMMA TokenSets ==
    /\ Noise \in Marks /\ Marks \subseteq HeaderTokens
    /\ {Noise} \subseteq HeaderTokens
    /\ HeaderTokens \subseteq HeaderTokens \cup {Can}
    /\ Header \in HeaderTokens
    /\ Can \in HeaderTokens \cup {Can}
BY DEF HeaderTokens, Marks

LEMMA NoiseOnly ==
    ASSUME NEW q \in Seq({Noise}), q # << >>
    PROVE  Head(q).kind = "noise" /\ Tail(q) \in Seq({Noise})
<1>1. Head(q) = Noise /\ Tail(q) \in Seq({Noise})
  BY TailOf
<1>. QED  BY <1>1, MarkKinds

LEMMA GetsCases ==
    ASSUME NEW S, toSnd \in Seq(S), NEW chars, Gets(chars)
    PROVE  /\ toSnd # << >> /\ toSnd' = Tail(toSnd) /\ toSnd' \in Seq(S)
           /\ toSnd[1] \in chars \cap S /\ Len(toSnd) \in Nat \ {0}
           /\ Len(toSnd') = Len(toSnd) - 1
           /\ \A i \in 1 .. Len(toSnd') : toSnd'[i] = toSnd[i + 1]
           /\ Len(toSnd) = 1 => toSnd' = << >>
BY TailOf DEF Gets

LEMMA GreetingSends == Greeting /\ SndNext /\ UNCHANGED hostRcv
                           => (Greeting \/ Announcing \/ Refused)'
<1>. SUFFICES ASSUME Greeting, SndNext, UNCHANGED hostRcv
              PROVE  (Greeting \/ Announcing \/ Refused)'
  OBVIOUS
<1>1. /\ expects' = "header" /\ got' = << >> /\ ret = "none"
      /\ toRcv \in Seq({Noise}) /\ toSnd \in Seq({"CRC", "noise"})
      /\ Len(toSnd) \in Nat
  BY DEF Greeting, hostRcv
<1>2. CASE SndFlushed
  <2>1. toRcv' \in Seq({Noise})
    BY <1>1, <1>2, PutOne DEF SndFlushed, Transmit
  <2>2. toSnd' \in Seq({"CRC", "noise"}) /\ Len(toSnd') <= 1
    BY <1>1, <1>2, GetsCases DEF SndFlushed, Greeting
  <2>. QED  BY <1>1, <1>2, <2>1, <2>2 DEF SndFlushed, Greeting
<1>3. CASE SndGreetAgain
  <2>1. toRcv' \in Seq({Noise})
    BY <1>1, <1>3, PutOne DEF SndGreetAgain, Transmit
  <2>. QED  BY <1>1, <1>3, <2>1 DEF SndGreetAgain, NoAnswer, Greeting, snd
<1>4. CASE SndGreeted
  <2>1. toSnd' = << >>
    BY <1>1, <1>4, GetsCases DEF SndGreeted, Greeting
  <2>2. toRcv \in Seq(HeaderTokens)
    BY <1>1, SeqMonotonic, TokenSets
  <2>3. /\ toRcv' \in Seq(HeaderTokens)
        /\ toRcv' = toRcv \/ Len(toRcv') = Len(toRcv) + 1
        /\ \A i \in 1 .. Len(toRcv) : toRcv'[i] = toRcv[i]
    <3>1. toRcv' = Put(toRcv, <<Header>>)
      BY <1>4 DEF SndGreeted, Transmit, Header
    <3>. QED  BY <2>2, <3>1, PutOne, TokenSets
  <2>4. \A i \in 1 .. Len(toRcv) : toRcv[i] = Noise
    BY <1>1
  <2>5. toRcv' # toRcv => toRcv' # << >> /\ \A i \in 1 .. Len(toRcv') - 1 : toRcv'[i] = Noise
    BY <1>1, <2>3, <2>4
  <2>. QED  BY <1>1, <1>4, <2>1, <2>3, <2>5 DEF SndGreeted, Announcing
<1>5. CASE SndNotGreeted
  <2>1. toRcv \in Seq(HeaderTokens \cup {Can})
    BY <1>1, SeqMonotonic, TokenSets
  <2>2. toRcv' \in Seq(HeaderTokens \cup {Can})
    BY <1>5, <2>1, PutTwo, TokenSets DEF SndNotGreeted, SndCancels, Transmit
  <2>. QED  BY <1>1, <1>5, <2>2 DEF SndNotGreeted, SndCancels, Return, Refused
<1>6. at \in {"flush", "greet"}
  BY DEF Greeting
<1>. QED
  BY <1>2, <1>3, <1>4, <1>5, <1>6
  DEF SndNext, SndHeaderAck, SndHeaderAgain, SndHeaderRefused, SndAsked, SndNotAsked,
      SndBlockAck, SndGivesUp, SndBlockAgain, SndEotAck, SndEotAgain, SndClose,
      SndLastAck, SndLastAgain

LEMMA GreetingReceives == Greeting /\ HostRcvReads /\ UNCHANGED snd => Greeting'
<1>. SUFFICES ASSUME Greeting, HostRcvReads, UNCHANGED snd PROVE Greeting'
  OBVIOUS
<1>1. toRcv # << >>
  BY DEF HostRcvReads, HostTakesHeader, HostTakesBlock, HostTakesRepeat, HostTakesEot,
         HostTakesLast, HostSkips, HostRcvCancelled, HostTakesDamaged, Takes
<1>2. Head(toRcv).kind = "noise" /\ Tail(toRcv) \in Seq({Noise})
  BY <1>1, NoiseOnly DEF Greeting
<1>3. HostSkips
  BY <1>2 DEF HostRcvReads, HostTakesHeader, HostTakesBlock, HostTakesRepeat,
              HostTakesEot, HostTakesLast, HostRcvCancelled, HostTakesDamaged, Takes
<1>. QED  BY <1>2, <1>3 DEF HostSkips, Takes, hostRcv, snd, Greeting

(* The host's timer ends only when nothing is on the line.                 *)
LEMMA HostTimesOutCases ==
    ASSUME Punctual, wire \in Lines, HostTimesOut
    PROVE  /\ HostRcvTimeout /\ UNCHANGED snd /\ wire' = wire
           /\ toRcv = << >> /\ toRcv' = toRcv
           /\ at # "returned" => toSnd = << >>
           /\ expects \notin {"done", "failed"}
BY DEF Punctual, HostTimesOut, MayTimeOut, Busy, Patient, HostRcvTimeout, damage

LEMMA GreetingTimesOut ==
    Greeting /\ toSnd = << >> /\ HostRcvTimeout /\ UNCHANGED snd => Greeting'
<1>. SUFFICES ASSUME Greeting, toSnd = << >>, HostRcvTimeout, UNCHANGED snd
              PROVE  Greeting'
  OBVIOUS
<1>1. toSnd' = Put(toSnd, <<"CRC">>) /\ UNCHANGED hostRcv /\ toRcv' = toRcv
  BY DEF HostRcvTimeout, Replies, Greeting
<1>2. toSnd \in Seq({"CRC", "noise"})
  BY DEF Greeting
<1>3. toSnd' = <<"CRC">>
  BY <1>1, PutFirst
<1>4. toSnd' \in Seq({"CRC", "noise"}) /\ Len(toSnd') <= IF at' = "flush" THEN 2 ELSE 1
  BY <1>3
<1>. QED  BY <1>1, <1>4 DEF Greeting, hostRcv, snd

LEMMA GreetingDamaged ==
    Greeting /\ Damage /\ "forge" \notin Faults /\ UNCHANGED <<snd, hostRcv>> => Greeting'
<1>. SUFFICES ASSUME Greeting, Damage, "forge" \notin Faults, UNCHANGED <<snd, hostRcv>>
              PROVE  Greeting'
  OBVIOUS
<1>1. /\ toRcv \in Seq({Noise}) /\ toSnd \in Seq({"CRC", "noise"})
      /\ Len(toSnd) \in Nat /\ Len(toSnd) <= IF at = "flush" THEN 2 ELSE 1
  BY DEF Greeting
<1>2. toRcv # << >> => Head(toRcv).kind # "packet"
  BY <1>1, NoiseOnly
<1>3. CASE toRcv # << >> /\ toRcv' = Tail(toRcv) /\ toSnd' = toSnd
  <2>1. toRcv' \in Seq({Noise})
    BY <1>1, <1>3, NoiseOnly
  <2>. QED  BY <1>1, <1>3, <2>1 DEF Greeting, snd, hostRcv
<1>4. CASE /\ toSnd # << >> /\ toRcv' = toRcv
           /\ toSnd' \in {Tail(toSnd), <<"noise">> \o Tail(toSnd)}
  <2>1. /\ toSnd' \in Seq({"CRC", "noise"}) /\ Len(toSnd') <= Len(toSnd)
        /\ Len(toSnd') \in Nat
    BY <1>1, <1>4, DamagedReplies
  <2>2. Len(toSnd') <= IF at' = "flush" THEN 2 ELSE 1
    BY <1>1, <2>1 DEF snd
  <2>. QED  BY <1>1, <1>4, <2>1, <2>2 DEF Greeting, snd, hostRcv
<1>. QED  BY <1>1, <1>2, <1>3, <1>4, DamageCases

-----------------------------------------------------------------------------
LEMMA AnnouncingSends == Announcing /\ SndNext /\ UNCHANGED hostRcv
                             => (Announcing \/ Refused)'
<1>. SUFFICES ASSUME Announcing, SndNext, UNCHANGED hostRcv
              PROVE  (Announcing \/ Refused)'
  OBVIOUS
<1>1. /\ expects' = "header" /\ got' = << >> /\ ret = "none" /\ at = "header"
      /\ toRcv \in Seq(HeaderTokens) /\ toSnd \in Seq({"CRC", "noise"})
      /\ Len(toSnd) \in Nat
  BY DEF Announcing, hostRcv
<1>2. CASE SndHeaderAgain
  <2>1. toSnd # << >>
    BY <1>1, <1>2, GetsCases DEF SndHeaderAgain
  <2>2. toRcv \in Seq({Noise}) /\ Len(toSnd) = 1
    <3>1. Len(toSnd) # 0
      BY <1>1, <2>1, EmptyWhenShort
    <3>2. toRcv \in Seq({Noise}) /\ Len(toSnd) <= 1
      BY <2>1 DEF Announcing
    <3>3. Len(toSnd) \in Nat \ {0}
      BY <1>1, <3>1
    <3>. QED  BY <3>2, <3>3, Lengths
  <2>3. toSnd' = << >>
    BY <1>1, <1>2, <2>2, GetsCases DEF SndHeaderAgain
  <2>4. toRcv' = Put(toRcv, <<Header>>)
    BY <1>2 DEF SndHeaderAgain, Transmit, Header
  <2>5. /\ toRcv' \in Seq(HeaderTokens)
        /\ toRcv' = toRcv \/ Len(toRcv') = Len(toRcv) + 1
        /\ \A i \in 1 .. Len(toRcv) : toRcv'[i] = toRcv[i]
    BY <1>1, <2>4, PutOne, TokenSets
  <2>6. \A i \in 1 .. Len(toRcv) : toRcv[i] = Noise
    BY <2>2
  <2>7. toRcv' # toRcv => toRcv' # << >> /\ \A i \in 1 .. Len(toRcv') - 1 : toRcv'[i] = Noise
    BY <2>2, <2>5, <2>6
  <2>. QED  BY <1>1, <1>2, <2>2, <2>3, <2>5, <2>7 DEF SndHeaderAgain, Announcing
<1>3. CASE SndHeaderRefused
  <2>1. toRcv \in Seq(HeaderTokens \cup {Can})
    BY <1>1, SeqMonotonic, TokenSets
  <2>2. toRcv' \in Seq(HeaderTokens \cup {Can})
    BY <1>3, <2>1, PutTwo, TokenSets DEF SndHeaderRefused, SndCancels, Transmit
  <2>. QED  BY <1>1, <1>3, <2>2 DEF SndHeaderRefused, SndCancels, Return, Refused
<1>4. CASE SndHeaderAck
  BY <1>1, <1>4, GetsCases DEF SndHeaderAck
<1>. QED
  BY <1>1, <1>2, <1>3, <1>4
  DEF SndNext, SndFlushed, SndGreetAgain, SndGreeted, SndNotGreeted, SndAsked,
      SndNotAsked, SndBlockAck, SndGivesUp, SndBlockAgain, SndEotAck, SndEotAgain,
      SndClose, SndLastAck, SndLastAgain

(* A packet or its remains are the last thing that is under way.           *)
LEMMA LastOfAnnouncing ==
    ASSUME Announcing, toRcv # << >>
    PROVE  \/ Head(toRcv).kind = "noise"
           \/ /\ toSnd = << >> /\ Tail(toRcv) = << >>
              /\ \/ Head(toRcv) = Header
                 \/ Head(toRcv).kind \in {"garbled", "short"}
<1>1. toRcv \in Seq(HeaderTokens)
  BY DEF Announcing
<1>2. /\ Head(toRcv) = toRcv[1] /\ Head(toRcv) \in HeaderTokens
      /\ Len(toRcv) \in Nat \ {0}
      /\ Len(toRcv) = 1 => Tail(toRcv) = << >>
  BY <1>1, TailOf
<1>3. Head(toRcv) = Header \/ Head(toRcv).kind \in {"garbled", "short", "noise"}
  BY <1>2, MarkKinds DEF HeaderTokens
<1>4. CASE toRcv \in Seq({Noise})
  BY <1>4, NoiseOnly
<1>5. CASE toSnd = << >> /\ \A i \in 1 .. Len(toRcv) - 1 : toRcv[i] = Noise
  <2>1. Len(toRcv) # 1 => Head(toRcv) = Noise
    <3>1. Len(toRcv) \in Nat \ {0}
      BY <1>2
    <3>2. Len(toRcv) = 1 \/ 1 \in 1 .. Len(toRcv) - 1
      BY <3>1, Lengths
    <3>. QED  BY <1>2, <1>5, <3>2
  <2>. QED  BY <1>2, <1>3, <1>5, <2>1, MarkKinds
<1>. QED  BY <1>4, <1>5 DEF Announcing

LEMMA AnnouncingWithoutFirst ==
    ASSUME Announcing, toRcv # << >>, toRcv' = Tail(toRcv), toSnd' = toSnd,
           UNCHANGED <<snd, hostRcv>>
    PROVE  Announcing'
<1>1. /\ toRcv' \in Seq(HeaderTokens) /\ Len(toRcv) \in Nat \ {0}
      /\ Len(toRcv') = Len(toRcv) - 1
      /\ \A i \in 1 .. Len(toRcv') : toRcv'[i] = toRcv[i + 1]
  BY TailOf DEF Announcing
<1>2. toRcv \in Seq({Noise}) => toRcv' \in Seq({Noise})
  BY NoiseOnly
<1>3. (\A i \in 1 .. Len(toRcv) - 1 : toRcv[i] = Noise)
          => \A i \in 1 .. Len(toRcv') - 1 : toRcv'[i] = Noise
  BY <1>1
<1>4. /\ toRcv' = << >> => toRcv' \in Seq({Noise})
      /\ toSnd = << >> => Len(toSnd) = 0
  BY EmptyInSeq
<1>. QED  BY <1>1, <1>2, <1>3, <1>4 DEF Announcing, snd, hostRcv

LEMMA AnnouncingReceives == Announcing /\ HostRcvReads /\ UNCHANGED snd
                                => (Announcing \/ Announced)'
<1>. SUFFICES ASSUME Announcing, HostRcvReads, UNCHANGED snd
              PROVE  (Announcing \/ Announced)'
  OBVIOUS
<1>1. toRcv # << >>
  BY DEF HostRcvReads, HostTakesHeader, HostTakesBlock, HostTakesRepeat, HostTakesEot,
         HostTakesLast, HostSkips, HostRcvCancelled, HostTakesDamaged, Takes
<1>2. expects = "header" /\ got = << >> /\ at = "header" /\ ret = "none"
  BY DEF Announcing
<1>. USE DEF HostRcvReads, HostTakesHeader, HostTakesBlock, HostTakesRepeat,
             HostTakesEot, HostTakesLast, HostRcvCancelled, HostTakesDamaged, Takes
<1>3. CASE Head(toRcv).kind = "noise"
  <2>1. HostSkips
    BY <1>3
  <2>. QED  BY <1>1, <2>1, AnnouncingWithoutFirst DEF HostSkips, hostRcv
<1>4. CASE toSnd = << >> /\ Tail(toRcv) = << >> /\ Head(toRcv) = Header
  <2>1. HostTakesHeader
    BY <1>2, <1>4, HeaderPackets DEF HostSkips, OutOfPlace
  <2>2. toRcv' = << >> /\ toSnd' = Put(<< >>, <<"ACK", "CRC">>)
    BY <1>4, <2>1 DEF Replies
  <2>3. toSnd' \in {<< >>, <<"ACK", "CRC">>} /\ toSnd' \in Seq(Reply)
    <3>1. << >> \in Seq(Reply) /\ "ACK" \in Reply /\ "CRC" \in Reply
      BY DEF Reply
    <3>. QED  BY <2>2, <3>1, PutTwo
  <2>4. /\ expects' = "data" /\ next' = 1 /\ announced' = SendSize /\ got' = << >>
        /\ at' = "header" /\ ret' = "none"
    BY <1>2, <1>4, <2>1, HeaderPackets DEF snd
  <2>5. toRcv' \in Seq(HeaderTokens)
    BY <2>2, EmptyInSeq
  <2>6. toSnd' = << >> => NoStart'
    BY DEF NoStart
  <2>. QED  BY <2>2, <2>3, <2>4, <2>5, <2>6 DEF Announced
<1>5. CASE /\ toSnd = << >> /\ Tail(toRcv) = << >>
           /\ Head(toRcv).kind \in {"garbled", "short"}
  <2>1. HostTakesDamaged
    BY <1>2, <1>5 DEF HostSkips
  <2>2. toRcv' = << >> /\ BadReceive
    BY <1>5, <2>1
  <2>3. toRcv' \in Seq(HeaderTokens) /\ toRcv' \in Seq({Noise})
    BY <2>2, EmptyInSeq
  <2>4. CASE tries + 1 < MaxTries
    <3>1. /\ toSnd' = Put(<< >>, <<"CRC">>)
          /\ UNCHANGED <<expects, got>>
      BY <1>2, <1>5, <2>2, <2>4 DEF BadReceive, Replies
    <3>2. toSnd' = <<"CRC">>
      BY <3>1, PutFirst
    <3>3. toSnd' \in Seq({"CRC", "noise"}) /\ Len(toSnd') <= 1
      BY <3>2
    <3>. QED  BY <1>2, <2>3, <3>1, <3>3 DEF Announcing, snd
  <2>5. CASE ~(tries + 1 < MaxTries)
    <3>1. /\ toSnd' = Put(<< >>, <<"CAN", "CAN">>)
          /\ expects' = "failed" /\ got' = got
      BY <1>2, <1>5, <2>2, <2>5 DEF BadReceive, Replies
    <3>2. << >> \in Seq(Reply) /\ "CAN" \in Reply
      BY DEF Reply
    <3>3. /\ toSnd' \in Seq(Reply)
          /\ toSnd' \in {<< >>, <<"CAN", "CAN">>}
      BY <3>1, <3>2, PutTwo
    <3>4. NoStart'
      BY <3>3 DEF NoStart
    <3>. QED  BY <1>2, <2>3, <3>1, <3>3, <3>4 DEF Announced, snd
  <2>. QED  BY <2>4, <2>5
<1>. QED  BY <1>1, <1>3, <1>4, <1>5, LastOfAnnouncing

LEMMA AnnouncingTimesOut ==
    Announcing /\ toSnd = << >> /\ toRcv = << >> /\ HostRcvTimeout /\ UNCHANGED snd
        => Announcing'
<1>. SUFFICES ASSUME Announcing, toSnd = << >>, toRcv = << >>, HostRcvTimeout,
                     UNCHANGED snd
              PROVE  Announcing'
  OBVIOUS
<1>1. toSnd' = Put(<< >>, <<"CRC">>) /\ UNCHANGED hostRcv /\ toRcv' = << >>
  BY DEF HostRcvTimeout, Replies, Announcing
<1>2. toSnd' = <<"CRC">>
  BY <1>1, PutFirst
<1>3. toSnd' \in Seq({"CRC", "noise"}) /\ Len(toSnd') <= 1
  BY <1>2
<1>4. toRcv' \in Seq(HeaderTokens) /\ toRcv' \in Seq({Noise})
  BY <1>1, EmptyInSeq
<1>. QED  BY <1>1, <1>3, <1>4 DEF Announcing, hostRcv, snd

LEMMA AnnouncingDamaged ==
    Announcing /\ Damage /\ "forge" \notin Faults /\ UNCHANGED <<snd, hostRcv>>
        => Announcing'
<1>. SUFFICES ASSUME Announcing, Damage, "forge" \notin Faults,
                     UNCHANGED <<snd, hostRcv>>
              PROVE  Announcing'
  OBVIOUS
<1>1. toRcv \in Seq(HeaderTokens) /\ toSnd \in Seq({"CRC", "noise"})
  BY DEF Announcing
<1>2. CASE toRcv # << >> /\ toRcv' = Tail(toRcv) /\ toSnd' = toSnd
  BY <1>2, AnnouncingWithoutFirst
<1>3. ASSUME toRcv # << >>, toSnd' = toSnd, Head(toRcv).kind = "packet",
             NEW m \in Marks, toRcv' = <<m>> \o Tail(toRcv)
      PROVE  Announcing'
  <2>1. toSnd = << >> /\ Tail(toRcv) = << >>
    BY <1>3, LastOfAnnouncing
  <2>2. /\ m \in HeaderTokens /\ toRcv' \in Seq(HeaderTokens)
        /\ Len(toRcv') = Len(toRcv) /\ Len(toRcv) \in Nat \ {0}
        /\ Len(Tail(toRcv)) = Len(toRcv) - 1
    BY <1>1, <1>3, TokenSets, ChangedHead, TailOf
  <2>3. Len(Tail(toRcv)) = 0
    BY <2>1, EmptyInSeq
  <2>4. toRcv' # << >> /\ Len(toRcv') - 1 = 0
    BY <2>2, <2>3, EmptyInSeq
  <2>. QED  BY <1>1, <1>3, <2>1, <2>2, <2>4 DEF Announcing, hostRcv, snd
<1>4. CASE /\ toSnd # << >> /\ toRcv' = toRcv
           /\ toSnd' \in {Tail(toSnd), <<"noise">> \o Tail(toSnd)}
  <2>1. /\ toSnd' \in Seq({"CRC", "noise"}) /\ Len(toSnd') <= Len(toSnd)
        /\ Len(toSnd') \in Nat /\ Len(toSnd) \in Nat
    BY <1>1, <1>4, DamagedReplies
  <2>2. toRcv \in Seq({Noise}) /\ Len(toSnd) <= 1
    BY <1>4 DEF Announcing
  <2>. QED  BY <1>1, <1>4, <2>1, <2>2 DEF Announcing, hostRcv, snd
<1>. QED  BY <1>1, <1>2, <1>3, <1>4, DamageCases

-----------------------------------------------------------------------------
(* The request for data has its acknowledgement before it, or the sender   *)
(* waits for it, or it will not be taken for one.                          *)
Asked == \/ /\ at = "header" /\ toRcv = << >>
            /\ toSnd \in {<<"ACK", "CRC">>, <<"noise", "CRC">>}
         \/ at = "asked" /\ toRcv = << >> /\ toSnd = <<"CRC">>

LEMMA AskedCases ==
    ASSUME Asked, NEW chars, Gets(chars)
    PROVE  \/ /\ at = "header" /\ chars \cap {"ACK", "noise"} # {}
              /\ toSnd' = <<"CRC">>
           \/ at = "asked" /\ "CRC" \in chars /\ toSnd' = << >>
<1>1. /\ Head(<<"ACK", "CRC">>) = "ACK" /\ Tail(<<"ACK", "CRC">>) = <<"CRC">>
      /\ Head(<<"noise", "CRC">>) = "noise" /\ Tail(<<"noise", "CRC">>) = <<"CRC">>
      /\ Head(<<"CRC">>) = "CRC" /\ Tail(<<"CRC">>) = << >>
  OBVIOUS
<1>2. Head(toSnd) \in chars /\ toSnd' = Tail(toSnd)
  BY DEF Gets
<1>3. CASE at = "header" /\ toSnd = <<"ACK", "CRC">>
  <2>1. "ACK" \in chars /\ toSnd' = <<"CRC">>
    BY <1>1, <1>2, <1>3
  <2>. QED  BY <1>3, <2>1
<1>4. CASE at = "header" /\ toSnd = <<"noise", "CRC">>
  <2>1. "noise" \in chars /\ toSnd' = <<"CRC">>
    BY <1>1, <1>2, <1>4
  <2>. QED  BY <1>4, <2>1
<1>5. CASE at = "asked" /\ toSnd = <<"CRC">>
  BY <1>1, <1>2, <1>5
<1>. QED  BY <1>3, <1>4, <1>5 DEF Asked

LEMMA NoStartCases ==
    ASSUME NoStart, toSnd \in Seq(Reply), NEW chars, Gets(chars)
    PROVE  /\ \A i \in 1 .. Len(toSnd') : toSnd'[i] # "CRC"
           /\ at = "asked" => chars # {"CRC"}
<1>1. /\ toSnd[1] \in chars /\ Len(toSnd) \in Nat \ {0}
      /\ Len(toSnd') = Len(toSnd) - 1
      /\ \A i \in 1 .. Len(toSnd') : toSnd'[i] = toSnd[i + 1]
  BY GetsCases
<1>2. ASSUME NEW i \in 1 .. Len(toSnd') PROVE toSnd'[i] # "CRC"
  <2>1. i + 1 \in 1 .. Len(toSnd) /\ i + 1 # 1
    BY <1>1
  <2>. QED  BY <1>1, <2>1 DEF NoStart
<1>3. 1 \in 1 .. Len(toSnd)
  BY <1>1
<1>. QED  BY <1>1, <1>2, <1>3 DEF NoStart

LEMMA AnnouncedSends == Announced /\ SndNext /\ UNCHANGED hostRcv
                            => (Announced \/ Refused \/ InStep \/ Complete)'
<1>. SUFFICES ASSUME Announced, SndNext, UNCHANGED hostRcv
              PROVE  (Announced \/ Refused \/ InStep \/ Complete)'
  OBVIOUS
<1>1. /\ UNCHANGED <<expects, next, announced>> /\ got' = << >> /\ got = << >>
      /\ ret = "none" /\ toRcv \in Seq(HeaderTokens) /\ toSnd \in Seq(Reply)
      /\ at \in {"header", "asked"} /\ expects \in {"data", "failed"}
      /\ expects = "data" => next = 1
  BY DEF Announced, hostRcv
<1>2. Asked \/ NoStart
  BY DEF Announced, Asked
<1>3. expects = "failed" => NoStart
  BY DEF Announced
<1>4. CASE SndHeaderAck
  <2>1. at = "header" /\ at' = "asked" /\ toRcv' = toRcv /\ ret' = "none" /\ Gets({"ACK"})
    BY <1>1, <1>4 DEF SndHeaderAck
  <2>2. toSnd' \in Seq(Reply)
    BY <1>1, <2>1, GetsCases
  <2>3. CASE Asked /\ expects = "data"
    <3>1. toSnd' = <<"CRC">> /\ toRcv = << >>
      BY <2>1, <2>3, AskedCases DEF Asked
    <3>. QED  BY <1>1, <2>1, <2>2, <2>3, <3>1 DEF Announced
  <2>4. CASE NoStart
    <3>1. NoStart'
      BY <1>1, <2>1, <2>4, NoStartCases DEF NoStart
    <3>. QED  BY <1>1, <2>1, <2>2, <3>1 DEF Announced
  <2>. QED  BY <1>1, <1>2, <1>3, <2>3, <2>4
<1>5. CASE SndHeaderAgain \/ SndNotAsked
  <2>1. at' = "header" /\ ret' = "none" /\ toRcv' = Put(toRcv, <<Header>>)
    BY <1>1, <1>5 DEF SndHeaderAgain, SndNotAsked, Transmit, Header
  <2>2. toRcv' \in Seq(HeaderTokens)
    BY <1>1, <2>1, PutOne, TokenSets
  <2>3. toSnd' \in Seq(Reply)
    BY <1>1, <1>5, GetsCases DEF SndHeaderAgain, SndNotAsked, GetsOther, NoAnswer
  <2>4. \/ at = "header" /\ \E c \in {"CRC", "NAK"} : Gets({c})
        \/ at = "asked" /\ Gets(Reply \ {"CRC"})
        \/ at = "asked" /\ NoAnswer
    BY <1>5 DEF SndHeaderAgain, SndNotAsked, GetsOther
  <2>5. NoStart'
    <3>1. ASSUME NEW c \in {"CRC", "NAK"}, at = "header", Gets({c}) PROVE NoStart'
      <4>1. NoStart
        BY <1>2, <3>1, AskedCases
      <4>. QED  BY <1>1, <3>1, <4>1, NoStartCases DEF NoStart
    <3>2. CASE at = "asked" /\ Gets(Reply \ {"CRC"})
      <4>1. NoStart
        BY <1>2, <3>2, AskedCases
      <4>. QED  BY <1>1, <3>2, <4>1, NoStartCases DEF NoStart
    <3>3. CASE at = "asked" /\ NoAnswer
      <4>1. NoStart => NoStart'
        BY <2>1, <3>3 DEF NoStart, NoAnswer
      <4>2. Asked => toSnd' = <<"CRC">>
        BY <3>3 DEF Asked, NoAnswer
      <4>3. toSnd' = <<"CRC">> => NoStart'
        BY <2>1 DEF NoStart
      <4>. QED  BY <1>2, <4>1, <4>2, <4>3
    <3>. QED  BY <2>4, <3>1, <3>2, <3>3
  <2>. QED  BY <1>1, <2>1, <2>2, <2>3, <2>5 DEF Announced
<1>6. CASE SndHeaderRefused
  <2>1. toRcv \in Seq(HeaderTokens \cup {Can})
    BY <1>1, SeqMonotonic, TokenSets
  <2>2. toRcv' \in Seq(HeaderTokens \cup {Can})
    BY <1>6, <2>1, PutTwo, TokenSets DEF SndHeaderRefused, SndCancels, Transmit
  <2>. QED  BY <1>1, <1>6, <2>2 DEF SndHeaderRefused, SndCancels, Return, Refused
<1>7. CASE SndAsked
  <2>1. Gets({"CRC"}) /\ at = "asked"
    BY <1>7 DEF SndAsked
  <2>2. ~NoStart
    BY <1>1, <2>1, NoStartCases
  <2>3. Asked /\ expects = "data" /\ next = 1 /\ announced = SendSize
    BY <1>2, <2>2 DEF Announced
  <2>4. toSnd' = << >> /\ toRcv = << >> /\ toRcv' = Put(toRcv, <<IF SendSize > 0
                                           THEN DataPacket(1, SendSize) ELSE Eot>>)
    BY <1>7, <2>1, <2>3, AskedCases DEF Asked, SndAsked, BlockOrEot, Transmit
  <2>5. blockno' = 1 /\ left' = SendSize /\ ret' = "none"
        /\ at' = IF SendSize > 0 THEN "data" ELSE "eot"
    BY <1>1, <1>7 DEF SndAsked, BlockOrEot
  <2>6. Block' = DataPacket(1, SendSize)
    BY <2>5 DEF Block
  <2>7. got' \in Seq(Byte) /\ Len(got') = 0 /\ GotIsPrefix'
    BY <1>1, EmptyInSeq DEF GotIsPrefix
  <2>8. SendSize \in Nat /\ LongLen \in Nat
    BY SendSizeAssumption, LenAssumption
  <2>9. CASE SendSize > 0
    <3>1. toRcv' = <<Block'>>
      BY <2>4, <2>6, <2>9, PutFirst
    <3>2. toRcv' \in Seq(BlockTokens') /\ Len(toRcv') = 1
      BY <3>1 DEF BlockTokens
    <3>3. toSnd' \in Seq(Reply) /\ Len(toSnd') = 0
      BY <2>4, EmptyInSeq
    <3>4. (next' - 1) * LongLen = 0 /\ left' = SendSize - (blockno' - 1) * LongLen
      BY <1>1, <2>3, <2>5, <2>8
    <3>. QED  BY <1>1, <2>3, <2>5, <2>7, <2>9, <3>2, <3>3, <3>4 DEF InStep
  <2>10. CASE SendSize = 0
    <3>1. toRcv' = <<Eot>>
      BY <2>4, <2>10, PutFirst
    <3>2. toRcv' \in Seq(ClosingTokens)
      BY <3>1 DEF ClosingTokens
    <3>. QED  BY <1>1, <2>3, <2>5, <2>7, <2>8, <2>10, <3>2 DEF Complete
  <2>. QED  BY <2>8, <2>9, <2>10
<1>. QED
  BY <1>1, <1>4, <1>5, <1>6, <1>7
  DEF SndNext, SndFlushed, SndGreetAgain, SndGreeted, SndNotGreeted,
      SndBlockAck, SndGivesUp, SndBlockAgain, SndEotAck, SndEotAgain,
      SndClose, SndLastAck, SndLastAgain

(* What the host answers to anything while it waits for the first block.   *)
LEMMA AnnouncedAnswers ==
    ASSUME NoStart, toSnd \in Seq(Reply), expects = "data", at' = at,
           \/ Replies(<<"ACK">>) /\ UNCHANGED <<expects, next, got, announced>>
           \/ BadReceive
    PROVE  /\ NoStart' /\ toSnd' \in Seq(Reply)
           /\ UNCHANGED <<next, got, announced>> /\ expects' \in {"data", "failed"}
<1>1. {"ACK", "NAK", "CAN"} \subseteq Reply
  BY DEF Reply
<1>2. ASSUME NEW c \in {"ACK", "NAK"}, toSnd' = Put(toSnd, <<c>>)
      PROVE  NoStart' /\ toSnd' \in Seq(Reply)
  <2>1. c \in Reply /\ c # "CRC"
    BY <1>1, <1>2
  <2>2. /\ toSnd' \in Seq(Reply)
        /\ \A i \in 1 .. Len(toSnd) : toSnd'[i] = toSnd[i]
        /\ \A i \in 1 .. Len(toSnd') : i \in 1 .. Len(toSnd) \/ toSnd'[i] = c
    BY <1>2, <2>1, PutOne
  <2>. QED  BY <2>1, <2>2 DEF NoStart
<1>3. ASSUME toSnd' = Put(toSnd, <<"CAN", "CAN">>)
      PROVE  NoStart' /\ toSnd' \in Seq(Reply)
  <2>1. /\ toSnd' \in Seq(Reply)
        /\ \A i \in 1 .. Len(toSnd') :
               \/ i \in 1 .. Len(toSnd) /\ toSnd'[i] = toSnd[i]
               \/ toSnd'[i] = "CAN"
    <3>1. "CAN" \in Reply
      BY <1>1
    <3>. QED  BY <1>3, <3>1, PutTwo
  <2>. QED  BY <2>1 DEF NoStart
<1>4. \/ /\ toSnd' = Put(toSnd, <<"CAN", "CAN">>) /\ expects' = "failed"
         /\ UNCHANGED <<next, got, announced>>
      \/ /\ toSnd' = Put(toSnd, <<"NAK">>) \/ toSnd' = Put(toSnd, <<"ACK">>)
         /\ UNCHANGED <<expects, next, got, announced>>
  BY DEF BadReceive, Replies
<1>. QED  BY <1>2, <1>3, <1>4

LEMMA AnnouncedReceives == Announced /\ HostRcvReads /\ UNCHANGED snd => Announced'
<1>. SUFFICES ASSUME Announced, HostRcvReads, UNCHANGED snd PROVE Announced'
  OBVIOUS
<1>1. /\ toRcv # << >> /\ toRcv' = Tail(toRcv) /\ expects \notin {"done", "failed"}
      /\ \/ HostTakesHeader \/ HostTakesBlock \/ HostTakesRepeat \/ HostTakesEot
         \/ HostTakesLast \/ HostSkips \/ HostRcvCancelled \/ HostTakesDamaged
  BY DEF HostRcvReads, HostTakesHeader, HostTakesBlock, HostTakesRepeat, HostTakesEot,
         HostTakesLast, HostSkips, HostRcvCancelled, HostTakesDamaged, Takes
<1>2. /\ expects = "data" /\ next = 1 /\ announced = SendSize /\ NoStart
      /\ got = << >> /\ ret = "none" /\ at \in {"header", "asked"}
      /\ toRcv \in Seq(HeaderTokens) /\ toSnd \in Seq(Reply)
  BY <1>1 DEF Announced
<1>3. Head(toRcv) \in HeaderTokens /\ toRcv' \in Seq(HeaderTokens)
  BY <1>1, <1>2, TailOf
<1>4. Head(toRcv) = Header \/ Head(toRcv).kind \in {"garbled", "short", "noise"}
  BY <1>3, MarkKinds DEF HeaderTokens
<1>5. 1 % SeqMod # 0
  BY SeqModAssumption
<1>6. CASE HostSkips
  BY <1>2, <1>3, <1>6 DEF HostSkips, Announced, hostRcv, snd, NoStart
<1>7. CASE HostTakesRepeat \/ HostTakesDamaged
  <2>1. \/ Replies(<<"ACK">>) /\ UNCHANGED <<expects, next, got, announced>>
        \/ BadReceive
    BY <1>7 DEF HostTakesRepeat, HostTakesDamaged, hostRcv
  <2>2. /\ NoStart' /\ toSnd' \in Seq(Reply)
        /\ UNCHANGED <<next, got, announced>> /\ expects' \in {"data", "failed"}
    BY <1>2, <2>1, AnnouncedAnswers DEF snd
  <2>. QED  BY <1>2, <1>3, <2>2 DEF Announced, snd
<1>8. ~HostTakesBlock
  BY <1>2, <1>4, <1>5, HeaderPackets DEF HostTakesBlock, Takes
<1>9. ~HostTakesHeader /\ ~HostTakesLast /\ ~HostTakesEot /\ ~HostRcvCancelled
  BY <1>2, <1>4, HeaderPackets
  DEF HostTakesHeader, HostTakesLast, HostTakesEot, HostRcvCancelled, Takes
<1>. QED  BY <1>1, <1>6, <1>7, <1>8, <1>9

LEMMA AnnouncedTimesOut ==
    Announced /\ toSnd = << >> /\ HostRcvTimeout /\ UNCHANGED snd => Announced'
<1>. SUFFICES ASSUME Announced, toSnd = << >>, HostRcvTimeout, UNCHANGED snd
              PROVE  Announced'
  OBVIOUS
<1>1. /\ expects = "data" /\ next = 1 /\ announced = SendSize
      /\ got = << >> /\ ret = "none" /\ at \in {"header", "asked"}
      /\ toRcv \in Seq(HeaderTokens) /\ toSnd \in Seq(Reply)
  BY DEF Announced, HostRcvTimeout
<1>2. BadReceive /\ toRcv' = toRcv
  BY <1>1 DEF HostRcvTimeout
<1>3. NoStart
  BY EmptyInSeq DEF NoStart
<1>4. /\ NoStart' /\ toSnd' \in Seq(Reply)
      /\ UNCHANGED <<next, got, announced>> /\ expects' \in {"data", "failed"}
  BY <1>1, <1>2, <1>3, AnnouncedAnswers DEF snd
<1>. QED  BY <1>1, <1>2, <1>4 DEF Announced, snd

LEMMA AnnouncedDamaged ==
    Announced /\ Damage /\ "forge" \notin Faults /\ UNCHANGED <<snd, hostRcv>>
        => Announced'
<1>. SUFFICES ASSUME Announced, Damage, "forge" \notin Faults,
                     UNCHANGED <<snd, hostRcv>>
              PROVE  Announced'
  OBVIOUS
<1>1. /\ toRcv \in Seq(HeaderTokens) /\ toSnd \in Seq(Reply) /\ "noise" \in Reply
      /\ UNCHANGED <<at, ret, got, expects, next, announced>>
  BY DEF Announced, Reply, snd, hostRcv
<1>2. CASE /\ toRcv # << >> /\ toSnd' = toSnd
           /\ \/ toRcv' = Tail(toRcv)
              \/ \E m \in Marks : toRcv' = <<m>> \o Tail(toRcv)
  <2>1. toRcv' \in Seq(HeaderTokens)
    BY <1>1, <1>2, DamagedTokens, TokenSets
  <2>2. expects = "data" => next = 1 /\ announced = SendSize
    BY DEF Announced
  <2>3. NoStart
    BY <1>2 DEF Announced
  <2>4. NoStart'
    BY <1>1, <1>2, <2>3 DEF NoStart
  <2>5. /\ at' \in {"header", "asked"} /\ ret' = "none" /\ got' = << >>
        /\ expects' \in {"data", "failed"}
        /\ expects' = "data" => next' = 1 /\ announced' = SendSize
    BY <1>1, <2>2 DEF Announced
  <2>. QED  BY <1>1, <1>2, <2>1, <2>4, <2>5 DEF Announced
<1>3. CASE /\ toSnd # << >> /\ toRcv' = toRcv
           /\ toSnd' \in {Tail(toSnd), <<"noise">> \o Tail(toSnd)}
  <2>1. /\ toSnd' \in Seq(Reply)
        /\ \A i \in 1 .. Len(toSnd') :
               \/ toSnd'[i] = "noise"
               \/ i \in 1 .. Len(toSnd) /\ toSnd'[i] = toSnd[i]
               \/ i + 1 \in 1 .. Len(toSnd) /\ toSnd'[i] = toSnd[i + 1]
    BY <1>1, <1>3, DamagedReplies
  <2>2. /\ at' \in {"header", "asked"} /\ ret' = "none" /\ got' = << >>
        /\ toRcv' \in Seq(HeaderTokens)
        /\ \/ expects' = "data" /\ next' = 1 /\ announced' = SendSize
           \/ expects' = "failed"
    BY <1>1, <1>3 DEF Announced
  <2>3. CASE NoStart
    <3>1. NoStart'
      BY <1>1, <2>1, <2>3 DEF NoStart
    <3>. QED  BY <2>1, <2>2, <3>1 DEF Announced
  <2>4. CASE /\ at = "header" /\ toSnd \in {<<"ACK", "CRC">>, <<"noise", "CRC">>}
             /\ toRcv = << >> /\ expects = "data"
    <3>1. /\ Tail(<<"ACK", "CRC">>) = <<"CRC">> /\ Tail(<<"noise", "CRC">>) = <<"CRC">>
          /\ <<"noise">> \o <<"CRC">> = <<"noise", "CRC">>
      BY PairOf
    <3>2. toSnd' = <<"CRC">> \/ toSnd' = <<"noise", "CRC">>
      BY <1>3, <2>4, <3>1
    <3>3. toSnd' = <<"CRC">> => NoStart'
      BY <1>1, <2>4 DEF NoStart
    <3>. QED  BY <1>1, <1>3, <2>1, <2>2, <2>4, <3>2, <3>3 DEF Announced
  <2>5. CASE at = "asked" /\ toSnd = <<"CRC">>
    <3>1. Tail(<<"CRC">>) = << >> /\ <<"noise">> \o << >> = <<"noise">>
      OBVIOUS
    <3>2. toSnd' = << >> \/ toSnd' = <<"noise">>
      BY <1>3, <2>5, <3>1
    <3>3. NoStart'
      BY <3>2 DEF NoStart
    <3>. QED  BY <2>1, <2>2, <3>3 DEF Announced
  <2>. QED  BY <2>3, <2>4, <2>5 DEF Announced
<1>. QED  BY <1>1, <1>2, <1>3, DamageCases

-----------------------------------------------------------------------------
LEMMA RefusedSends == Refused /\ SndNext => FALSE
BY DEF Refused, SndNext, SndFlushed, SndGreetAgain, SndGreeted, SndNotGreeted,
       SndHeaderAck, SndHeaderAgain, SndHeaderRefused, SndAsked, SndNotAsked,
       SndBlockAck, SndGivesUp, SndBlockAgain, SndEotAck, SndEotAgain, SndClose,
       SndLastAck, SndLastAgain

LEMMA RefusedReceives == Refused /\ HostRcvReads /\ UNCHANGED snd => Refused'
<1>. SUFFICES ASSUME Refused, HostRcvReads, UNCHANGED snd PROVE Refused'
  OBVIOUS
<1>1. /\ toRcv # << >> /\ toRcv' = Tail(toRcv) /\ expects \notin {"done", "failed"}
      /\ \/ HostTakesHeader \/ HostTakesBlock \/ HostTakesRepeat \/ HostTakesEot
         \/ HostTakesLast \/ HostSkips \/ HostRcvCancelled \/ HostTakesDamaged
  BY DEF HostRcvReads, HostTakesHeader, HostTakesBlock, HostTakesRepeat, HostTakesEot,
         HostTakesLast, HostSkips, HostRcvCancelled, HostTakesDamaged, Takes
<1>2. toRcv \in Seq(HeaderTokens \cup {Can})
  BY DEF Refused
<1>3. Head(toRcv) \in HeaderTokens \cup {Can} /\ toRcv' \in Seq(HeaderTokens \cup {Can})
  BY <1>1, <1>2, TailOf
<1>4. Head(toRcv) = Header \/ Head(toRcv).kind \in {"garbled", "short", "noise", "CAN"}
  BY <1>3, MarkKinds DEF HeaderTokens
<1>5. 1 % SeqMod # 0
  BY SeqModAssumption
<1>6. ~HostTakesBlock
  BY <1>4, <1>5, HeaderPackets DEF HostTakesBlock, Takes, Refused
<1>7. ~HostTakesLast /\ ~HostTakesEot
  BY <1>4, HeaderPackets DEF HostTakesLast, HostTakesEot, Takes, Refused
<1>8. CASE HostTakesHeader
  BY <1>3, <1>8 DEF HostTakesHeader, Refused, snd
<1>9. CASE HostTakesRepeat \/ HostSkips
  BY <1>3, <1>9 DEF HostTakesRepeat, HostSkips, Refused, snd, hostRcv
<1>10. CASE HostRcvCancelled \/ HostTakesDamaged
  BY <1>3, <1>10 DEF HostRcvCancelled, HostTakesDamaged, BadReceive, Refused, snd
<1>. QED  BY <1>1, <1>6, <1>7, <1>8, <1>9, <1>10

LEMMA RefusedTimesOut == Refused /\ HostRcvTimeout /\ UNCHANGED snd => Refused'
BY DEF HostRcvTimeout, BadReceive, Refused, snd, hostRcv

LEMMA RefusedDamaged ==
    Refused /\ Damage /\ "forge" \notin Faults /\ UNCHANGED <<snd, hostRcv>> => Refused'
<1>. SUFFICES ASSUME Refused, Damage, "forge" \notin Faults, UNCHANGED <<snd, hostRcv>>
              PROVE  Refused'
  OBVIOUS
<1>1. toRcv \in Seq(HeaderTokens \cup {Can}) /\ Marks \subseteq HeaderTokens \cup {Can}
  BY TokenSets DEF Refused
<1>2. toRcv' \in Seq(HeaderTokens \cup {Can})
  BY <1>1, DamageCases, DamagedTokens
<1>. QED  BY <1>2 DEF Refused, snd, hostRcv

-----------------------------------------------------------------------------
(* A block.                                                                *)
LEMMA TimesIsMonotonic ==
    ASSUME NEW l \in Nat, NEW a \in Nat, NEW b \in Nat, a <= b
    PROVE  a * l <= b * l
<1>1. PICK d \in Nat : b = a + d
  <2>1. b - a \in Nat /\ b = a + (b - a)
    OBVIOUS
  <2>. QED  BY <2>1
<1>2. b * l = a * l + d * l
  BY <1>1
<1>. QED  BY <1>2

(* The caller's buffer holds the whole of every block that has to be sent. *)
LEMMA BufferHoldsBlock ==
    ASSUME NEW b \in Nat, b * LongLen < SendSize
    PROVE  b * LongLen + LongLen <= Len(Source)
<1>. DEFINE blocks == (SendSize + LongLen - 1) \div LongLen
<1>1. LongLen \in Nat \ {0} /\ SendSize \in Nat
  BY LenAssumption, SendSizeAssumption
<1>2. /\ blocks \in Nat /\ SendSize + LongLen - 1 < blocks * LongLen + LongLen
      /\ blocks * LongLen <= Len(Source)
  BY <1>1, SendSizeAssumption
<1>. HIDE DEF blocks
<1>3. b * LongLen \in Nat /\ blocks * LongLen \in Nat
  BY <1>1, <1>2
<1>4. b * LongLen < blocks * LongLen
  BY <1>1, <1>2, <1>3
<1>5. b + 1 <= blocks
  <2>1. blocks <= b => blocks * LongLen <= b * LongLen
    BY <1>1, <1>2, TimesIsMonotonic
  <2>. QED  BY <1>2, <1>3, <1>4, <2>1
<1>6. (b + 1) * LongLen <= blocks * LongLen
  BY <1>1, <1>2, <1>5, TimesIsMonotonic
<1>7. (b + 1) * LongLen = b * LongLen + LongLen
  BY <1>1
<1>8. Len(Source) \in Nat
  BY SourceAssumption
<1>. QED  BY <1>1, <1>2, <1>3, <1>6, <1>7, <1>8

LEMMA BlockIs ==
    ASSUME blockno \in Nat \ {0}, left = SendSize - (blockno - 1) * LongLen, left > 0
    PROVE  /\ Block.kind = "packet" /\ Block.seq = blockno % SeqMod
           /\ Block.data \in Seq(Byte) /\ Len(Block.data) = LongLen
           /\ \A i \in 1 .. LongLen :
                  Block.data[i] = Source[(blockno - 1) * LongLen + i]
<1>. DEFINE sent == (blockno - 1) * LongLen
<1>1. LongLen \in Nat /\ SendSize \in Nat /\ blockno - 1 \in Nat /\ sent \in Nat
  BY LenAssumption, SendSizeAssumption
<1>2. sent < SendSize /\ SendSize - left = sent
  BY <1>1
<1>3. sent + LongLen <= Len(Source)
  BY <1>1, <1>2, BufferHoldsBlock
<1>4. Block.data = [i \in 1 .. LongLen |-> Source[SendSize - left + i]]
  BY DEF Block, DataPacket
<1>. HIDE DEF sent
<1>5. ASSUME NEW i \in 1 .. LongLen PROVE Source[sent + i] \in Byte
  <2>1. sent + i \in 1 .. Len(Source)
    BY <1>1, <1>3, SourceAssumption
  <2>. QED  BY <2>1, SourceAssumption
<1>6. Block.data = [i \in 1 .. LongLen |-> Source[sent + i]]
  BY <1>2, <1>4
<1>7. Block.data \in [1 .. LongLen -> Byte]
  BY <1>5, <1>6
<1>8. Block.data \in Seq(Byte) /\ Len(Block.data) = LongLen
  BY <1>1, <1>7
<1>9. Block.kind = "packet" /\ Block.seq = blockno % SeqMod
  BY DEF Block, DataPacket
<1>. QED  BY <1>6, <1>8, <1>9 DEF sent

-----------------------------------------------------------------------------
(* Either the host stored the block or it waits for it.                    *)
LEMMA InStepFacts ==
    ASSUME InStep
    PROVE  /\ LongLen \in Nat \ {0} /\ SendSize \in Nat
           /\ blockno \in Nat \ {0} /\ next \in {blockno, blockno + 1}
           /\ (blockno - 1) * LongLen \in Nat
           /\ blockno * LongLen = (blockno - 1) * LongLen + LongLen
           /\ left \in Nat \ {0} /\ left = SendSize - (blockno - 1) * LongLen
           /\ got \in Seq(Byte) /\ Len(got) = (next - 1) * LongLen /\ GotIsPrefix
<1>1. /\ blockno \in Nat \ {0} /\ next \in {blockno, blockno + 1}
      /\ left = SendSize - (blockno - 1) * LongLen /\ left > 0
      /\ got \in Seq(Byte) /\ Len(got) = (next - 1) * LongLen /\ GotIsPrefix
  BY DEF InStep
<1>2. LongLen \in Nat \ {0} /\ SendSize \in Nat
  BY LenAssumption, SendSizeAssumption
<1>3. /\ (blockno - 1) * LongLen \in Nat
      /\ blockno * LongLen = (blockno - 1) * LongLen + LongLen
  BY <1>1, <1>2
<1>. QED  BY <1>1, <1>2, <1>3

LEMMA InStepSends == InStep /\ SndNext /\ UNCHANGED hostRcv
                         => (InStep \/ Complete)'
<1>. SUFFICES ASSUME InStep, SndNext, UNCHANGED hostRcv
              PROVE  (InStep \/ Complete)'
  OBVIOUS
<1>1. at = "data" /\ (SndBlockAck \/ SndGivesUp \/ SndBlockAgain)
  <2>1. at \in {"data", "returned"}
    BY DEF InStep
  <2>. QED
    BY <2>1
    DEF SndNext, SndFlushed, SndGreetAgain, SndGreeted, SndNotGreeted,
        SndHeaderAck, SndHeaderAgain, SndHeaderRefused, SndAsked, SndNotAsked,
        SndBlockAck, SndBlockAgain, SndGivesUp,
        SndEotAck, SndEotAgain, SndClose, SndLastAck, SndLastAgain
<1>2. /\ ret = "none" /\ expects \in {"data", "failed"} /\ announced = SendSize
      /\ toSnd \in Seq(Reply)
      /\ expects = "data" => toRcv \in Seq(BlockTokens) /\ Len(toRcv) + Len(toSnd) <= 1
      /\ \A i \in 1 .. Len(toSnd) : toSnd[i] = "ACK" =>
             expects = "data" /\ next = blockno + 1
  BY <1>1 DEF InStep
<1>3. /\ UNCHANGED <<expects, next, got, announced>>
      /\ GotIsPrefix' = GotIsPrefix
  BY DEF hostRcv, GotIsPrefix
<1>4. ASSUME NEW chars, Gets(chars)
      PROVE  /\ toSnd' \in Seq(Reply) /\ toSnd[1] \in chars /\ 1 \in 1 .. Len(toSnd)
             /\ expects = "data" => toRcv = << >> /\ Len(toSnd') = 0
             /\ \A i \in 1 .. Len(toSnd') : toSnd'[i] = "ACK" =>
                    expects = "data" /\ next = blockno + 1
  <2>1. /\ toSnd' \in Seq(Reply) /\ toSnd[1] \in chars /\ Len(toSnd) \in Nat \ {0}
        /\ Len(toSnd') = Len(toSnd) - 1
        /\ \A i \in 1 .. Len(toSnd') : toSnd'[i] = toSnd[i + 1]
    BY <1>2, <1>4, GetsCases
  <2>2. \A i \in 1 .. Len(toSnd') : i + 1 \in 1 .. Len(toSnd)
    BY <2>1
  <2>3. ASSUME expects = "data" PROVE toRcv = << >> /\ Len(toSnd') = 0
    <3>1. toRcv \in Seq(BlockTokens) /\ Len(toRcv) \in Nat
      BY <1>2, <2>3
    <3>2. Len(toRcv) = 0 /\ Len(toSnd') = 0
      BY <1>2, <2>1, <2>3, <3>1
    <3>. QED  BY <3>1, <3>2, EmptyWhenShort
  <2>. QED  BY <1>2, <2>1, <2>2, <2>3
<1>5. CASE SndBlockAck
  <2>1. /\ expects = "data" /\ next = blockno + 1 /\ toRcv = << >>
        /\ toSnd' \in Seq(Reply) /\ Len(toSnd') = 0
    BY <1>2, <1>4, <1>5 DEF SndBlockAck
  <2>2. /\ blockno' = blockno + 1 /\ left' = AfterBlock(left) /\ ret' = "none"
        /\ IF left' > 0
           THEN at' = "data" /\ toRcv' = Put(<< >>, <<DataPacket(blockno', left')>>)
           ELSE at' = "eot" /\ toRcv' = Put(<< >>, <<Eot>>)
    BY <1>2, <1>5, <2>1 DEF SndBlockAck, BlockOrEot, Transmit
  <2>3. CASE left > LongLen
    <3>1. /\ left' = left - LongLen /\ left' > 0
          /\ left' = SendSize - (blockno' - 1) * LongLen
          /\ blockno' \in Nat \ {0} /\ next' = blockno'
      <4>1. left' = left - LongLen
        BY <2>2, <2>3 DEF AfterBlock
      <4>2. blockno' - 1 = blockno
        BY <2>2, InStepFacts
      <4>3. /\ left = SendSize - (blockno - 1) * LongLen
            /\ blockno * LongLen = (blockno - 1) * LongLen + LongLen
            /\ blockno * LongLen \in Nat /\ left \in Nat
            /\ LongLen \in Nat /\ SendSize \in Nat /\ blockno \in Nat
        BY InStepFacts
      <4>4. left' > 0 /\ left' = SendSize - blockno * LongLen
        BY <2>3, <4>1, <4>3
      <4>5. next' = blockno + 1
        BY <1>3, <2>1
      <4>. QED  BY <2>2, <4>1, <4>2, <4>3, <4>4, <4>5
    <3>2. toRcv' = <<Block'>> /\ at' = "data"
      BY <2>2, <3>1, PutFirst DEF Block
    <3>3. toRcv' \in Seq(BlockTokens') /\ Len(toRcv') = 1
      BY <3>2 DEF BlockTokens
    <3>. QED  BY <1>2, <1>3, <2>1, <2>2, <3>1, <3>2, <3>3, InStepFacts DEF InStep
  <2>4. CASE ~(left > LongLen)
    <3>1. left' = 0 /\ at' = "eot" /\ toRcv' = <<Eot>>
      BY <2>2, <2>4, PutFirst DEF AfterBlock
    <3>2. toRcv' \in Seq(ClosingTokens)
      BY <3>1 DEF ClosingTokens
    <3>3. Len(got) = blockno * LongLen /\ Len(got) >= SendSize
      BY <2>1, <2>4, InStepFacts
    <3>. QED  BY <1>2, <1>3, <2>1, <2>2, <3>1, <3>2, <3>3, InStepFacts DEF Complete
  <2>. QED  BY <2>3, <2>4
<1>6. CASE SndGivesUp
  BY <1>1, <1>2, <1>3, <1>6, InStepFacts
  DEF SndGivesUp, Return, InStep, BlockTokens, Block
<1>7. CASE SndBlockAgain
  <2>1. Gets({"NAK", "CRC", "noise"}) /\ toRcv' = Put(toRcv, <<Block>>) /\ UNCHANGED snd
    BY <1>7 DEF SndBlockAgain, Transmit, Block
  <2>2. ASSUME expects = "data" PROVE toRcv' \in Seq(BlockTokens') /\ Len(toRcv') = 1
    <3>1. toRcv' = <<Block>> /\ Block' = Block
      BY <1>4, <2>1, <2>2, PutFirst DEF Block, snd
    <3>. QED  BY <3>1 DEF BlockTokens
  <2>3. /\ toSnd' \in Seq(Reply)
        /\ expects = "data" => Len(toSnd') = 0
        /\ \A i \in 1 .. Len(toSnd') : toSnd'[i] = "ACK" =>
               expects = "data" /\ next = blockno + 1
    BY <1>4, <2>1
  <2>4. expects = "data" => Len(toRcv') <= 1 /\ Len(toRcv') + Len(toSnd') <= 1
    <3>1. expects = "data" => Len(toRcv') = 1
      BY <2>2
    <3>2. expects = "data" => Len(toSnd') = 0
      BY <2>3
    <3>. QED  BY <3>1, <3>2
  <2>. QED
    BY <1>1, <1>2, <1>3, <2>1, <2>2, <2>3, <2>4, InStepFacts DEF InStep, snd
<1>. QED  BY <1>1, <1>5, <1>6, <1>7

(* What the host does with a bad receive or with nothing while a block or  *)
(* its answer is under way.                                                *)
LEMMA InStepAnswers ==
    ASSUME InStep, expects = "data", toRcv' = << >>, at = "data" => toSnd = << >>,
           UNCHANGED snd, BadReceive \/ UNCHANGED <<toSnd, hostRcv>>
    PROVE  InStep'
<1>1. /\ UNCHANGED <<next, got, announced>> /\ expects' \in {"data", "failed"}
      /\ UNCHANGED <<at, blockno, left, ret>>
  BY DEF BadReceive, hostRcv, snd
<1>2. GotIsPrefix' = GotIsPrefix
  BY <1>1 DEF GotIsPrefix
<1>3. toRcv' \in Seq(BlockTokens') /\ Len(toRcv') = 0
  BY EmptyInSeq
<1>4. at = "data" => /\ toSnd' \in Seq(Reply)
                     /\ expects' = "data" => Len(toSnd') <= 1
                     /\ \A i \in 1 .. Len(toSnd') : toSnd'[i] # "ACK"
  <2>. SUFFICES ASSUME at = "data"
                PROVE  /\ toSnd' \in Seq(Reply)
                       /\ expects' = "data" => Len(toSnd') <= 1
                       /\ \A i \in 1 .. Len(toSnd') : toSnd'[i] # "ACK"
    OBVIOUS
  <2>1. \/ toSnd' = << >>
        \/ toSnd' = Put(<< >>, <<"NAK">>)
        \/ toSnd' = Put(<< >>, <<"CAN", "CAN">>) /\ expects' = "failed"
    BY DEF BadReceive, Replies
  <2>2. \/ toSnd' = << >> \/ toSnd' = <<"NAK">>
        \/ toSnd' = <<"CAN", "CAN">> /\ expects' = "failed"
    <3>1. << >> \in Seq(Reply) /\ "CAN" \in Reply
      BY DEF Reply
    <3>2. Put(<< >>, <<"CAN", "CAN">>) \in {<< >>, <<"CAN", "CAN">>}
      BY <3>1, PutTwo
    <3>3. Put(<< >>, <<"NAK">>) = <<"NAK">>
      BY PutFirst
    <3>. QED  BY <2>1, <3>2, <3>3
  <2>3. CASE toSnd' = << >>
    BY <2>3
  <2>4. CASE toSnd' = <<"NAK">>
    BY <2>4 DEF Reply
  <2>5. CASE toSnd' = <<"CAN", "CAN">> /\ expects' = "failed"
    BY <2>5 DEF Reply
  <2>. QED  BY <2>2, <2>3, <2>4, <2>5
<1>5. at = "data" => (expects' = "data" => Len(toRcv') + Len(toSnd') <= 1)
  <2>1. at = "data" => /\ toSnd' \in Seq(Reply)
                       /\ expects' = "data" => Len(toSnd') <= 1
    BY <1>4
  <2>2. toSnd' \in Seq(Reply) => Len(toSnd') \in Nat
    OBVIOUS
  <2>3. Len(toRcv') = 0
    BY <1>3
  <2>. QED  BY <2>1, <2>2, <2>3
<1>6. Len(toRcv') <= 1
  <2>1. Len(toRcv') = 0
    BY <1>3
  <2>. QED  BY <2>1
<1>7. toRcv' \in Seq(BlockTokens')
  BY <1>3
<1>8. /\ (at' = "data" /\ ret' = "none") \/ (at' = "returned" /\ ret' = "size")
      /\ announced' = SendSize
  BY <1>1 DEF InStep
<1>. QED  BY <1>1, <1>2, <1>4, <1>5, <1>6, <1>7, <1>8, InStepFacts DEF InStep

(* What is stored continues what was stored.                               *)
LEMMA StoredIsPrefix ==
    ASSUME InStep, next = blockno, got' = got \o Block.data
    PROVE  got' \in Seq(Byte) /\ Len(got') = blockno * LongLen /\ GotIsPrefix'
<1>. DEFINE d == Block.data
<1>1. /\ d \in Seq(Byte) /\ Len(d) = LongLen
      /\ \A i \in 1 .. LongLen : d[i] = Source[(blockno - 1) * LongLen + i]
  BY BlockIs, InStepFacts
<1>. HIDE DEF d
<1>2. got \in Seq(Byte) /\ Len(got) = (blockno - 1) * LongLen /\ GotIsPrefix
  BY InStepFacts
<1>3. d \in Seq(Byte) /\ got \in Seq(Byte)
  BY <1>1, <1>2
<1>4. /\ got \o d \in Seq(Byte) /\ Len(got \o d) = Len(got) + Len(d)
      /\ \A i \in 1 .. Len(got) : (got \o d)[i] = got[i]
      /\ \A i \in Len(got) + 1 .. Len(got) + Len(d) : (got \o d)[i] = d[i - Len(got)]
      /\ Len(got) \in Nat
  BY <1>3
<1>5. ASSUME NEW i \in 1 .. Len(got \o d), i <= SendSize
      PROVE  (got \o d)[i] = Source[i]
  <2>1. CASE i \in 1 .. Len(got)
    BY <1>2, <1>4, <1>5, <2>1 DEF GotIsPrefix
  <2>2. CASE i \notin 1 .. Len(got)
    <3>1. LongLen \in Nat /\ Len(d) = LongLen
      BY <1>1, LenAssumption
    <3>2. i \in Len(got) + 1 .. Len(got) + Len(d) /\ i - Len(got) \in 1 .. LongLen
      BY <1>4, <2>2, <3>1
    <3>3. (got \o d)[i] = d[i - Len(got)]
      BY <1>4, <3>2
    <3>4. d[i - Len(got)] = Source[Len(got) + (i - Len(got))]
      BY <1>1, <1>2, <3>2
    <3>5. Len(got) + (i - Len(got)) = i
      BY <1>4
    <3>. QED  BY <3>3, <3>4, <3>5
  <2>. QED  BY <2>1, <2>2
<1>6. got' = got \o d
  BY DEF d
<1>7. Len(got \o d) = blockno * LongLen
  BY <1>1, <1>2, <1>4, InStepFacts
<1>. QED  BY <1>4, <1>5, <1>6, <1>7 DEF GotIsPrefix

LEMMA InStepReceives == InStep /\ HostRcvReads /\ UNCHANGED snd => InStep'
<1>. SUFFICES ASSUME InStep, HostRcvReads, UNCHANGED snd PROVE InStep'
  OBVIOUS
<1>1. /\ toRcv # << >> /\ toRcv' = Tail(toRcv) /\ expects \notin {"done", "failed"}
      /\ \/ HostTakesHeader \/ HostTakesBlock \/ HostTakesRepeat \/ HostTakesEot
         \/ HostTakesLast \/ HostSkips \/ HostRcvCancelled \/ HostTakesDamaged
  BY DEF HostRcvReads, HostTakesHeader, HostTakesBlock, HostTakesRepeat, HostTakesEot,
         HostTakesLast, HostSkips, HostRcvCancelled, HostTakesDamaged, Takes
<1>2. /\ expects = "data" /\ announced = SendSize
      /\ toRcv \in Seq(BlockTokens) /\ Len(toRcv) <= 1
      /\ at = "data" => toSnd \in Seq(Reply) /\ Len(toRcv) + Len(toSnd) <= 1
  BY <1>1 DEF InStep
<1>3. /\ Head(toRcv) \in BlockTokens /\ Len(toRcv) \in Nat \ {0}
      /\ Len(toRcv) = 1 => toRcv' = << >>
  BY <1>1, <1>2, TailOf
<1>4. toRcv' = << >>
  <2>1. Len(toRcv) \in Nat \ {0} /\ Len(toRcv) <= 1
    BY <1>2, <1>3
  <2>. QED  BY <1>3, <2>1, Lengths
<1>5. at = "data" => toSnd = << >>
  <2>1. at = "data" => toSnd \in Seq(Reply) /\ Len(toRcv) + Len(toSnd) <= 1
    BY <1>2
  <2>2. toSnd \in Seq(Reply) => Len(toSnd) \in Nat
    OBVIOUS
  <2>3. at = "data" => Len(toSnd) = 0
    <3>1. Len(toRcv) \in Nat \ {0}
      BY <1>3
    <3>2. at = "data" => Len(toSnd) \in Nat /\ Len(toRcv) + Len(toSnd) <= 1
      BY <2>1, <2>2
    <3>. QED  BY <3>1, <3>2
  <2>. QED  BY <2>1, <2>3, EmptyWhenShort
<1>6. Block.kind = "packet" /\ Block.seq = blockno % SeqMod
  BY BlockIs, InStepFacts
<1>7. Head(toRcv) = Block \/ Head(toRcv).kind \in {"garbled", "short", "noise"}
  <2>1. Head(toRcv) \in BlockTokens
    BY <1>3
  <2>. QED  BY <2>1, MarkKinds DEF BlockTokens
<1>8. ~HostTakesHeader /\ ~HostTakesLast /\ ~HostTakesEot /\ ~HostRcvCancelled
  BY <1>2, <1>6, <1>7
  DEF HostTakesHeader, HostTakesLast, HostTakesEot, HostRcvCancelled, Takes
<1>9. CASE HostSkips \/ HostTakesDamaged
  BY <1>2, <1>4, <1>5, <1>9, InStepAnswers DEF HostSkips, HostTakesDamaged
<1>10. UNCHANGED <<at, blockno, left, ret>> /\ blockno \in Nat /\ Block' = Block
  BY InStepFacts DEF snd, Block
<1>11. /\ toRcv' \in Seq(BlockTokens') /\ Len(toRcv') = 0
       /\ (at' = "data" /\ ret' = "none") \/ (at' = "returned" /\ ret' = "size")
  BY <1>4, <1>10, EmptyInSeq DEF InStep
<1>12. ASSUME Replies(<<"ACK">>), next' = blockno + 1, UNCHANGED <<expects, announced>>,
              got' \in Seq(Byte), Len(got') = blockno * LongLen, GotIsPrefix'
       PROVE  InStep'
  <2>1. at = "data" => toSnd' = <<"ACK">>
    BY <1>5, <1>12, PutFirst DEF Replies
  <2>2. toSnd' = <<"ACK">> => toSnd' \in Seq(Reply) /\ Len(toSnd') = 1
    BY DEF Reply
  <2>3. at = "data" => Len(toRcv') + Len(toSnd') <= 1
    <3>1. at = "data" => Len(toSnd') = 1
      BY <2>1, <2>2
    <3>2. Len(toRcv') = 0
      BY <1>11
    <3>. QED  BY <3>1, <3>2, OneThing
  <2>4. Len(toRcv') <= 1 /\ next' - 1 = blockno
    <3>1. Len(toRcv') = 0
      BY <1>11
    <3>. QED  BY <1>10, <1>12, <3>1
  <2>5. at' = "data" => toSnd' \in Seq(Reply)
    BY <1>10, <2>1, <2>2
  <2>. QED
    BY <1>2, <1>10, <1>11, <1>12, <2>3, <2>4, <2>5, InStepFacts DEF InStep
<1>13. CASE HostTakesBlock
  <2>1. Head(toRcv) = Block /\ blockno % SeqMod = next % SeqMod
    BY <1>6, <1>7, <1>13 DEF HostTakesBlock, Takes
  <2>2. next = blockno
    BY <2>1, NeighboursDiffer, InStepFacts
  <2>3. got' \in Seq(Byte) /\ Len(got') = blockno * LongLen /\ GotIsPrefix'
    BY <1>13, <2>1, <2>2, StoredIsPrefix DEF HostTakesBlock
  <2>. QED  BY <1>12, <1>13, <2>2, <2>3 DEF HostTakesBlock
<1>14. CASE HostTakesRepeat
  <2>1. Head(toRcv) = Block /\ blockno % SeqMod = (next - 1) % SeqMod
    BY <1>6, <1>7, <1>14 DEF HostTakesRepeat, Takes
  <2>2. blockno - 1 \in Nat /\ (blockno - 1) + 1 = blockno
    <3>1. blockno \in Nat \ {0}
      BY InStepFacts
    <3>. QED  BY <3>1
  <2>3. next = blockno + 1
    BY <2>1, <2>2, NeighboursDiffer, InStepFacts
  <2>4. Len(got) = blockno * LongLen
    <3>1. next - 1 = blockno
      BY <1>10, <2>3
    <3>. QED  BY <3>1, InStepFacts
  <2>5. GotIsPrefix'
    BY <1>14, InStepFacts DEF HostTakesRepeat, hostRcv, GotIsPrefix
  <2>. QED  BY <1>12, <1>14, <2>3, <2>4, <2>5, InStepFacts DEF HostTakesRepeat, hostRcv
<1>. QED  BY <1>1, <1>8, <1>9, <1>13, <1>14

LEMMA InStepTimesOut ==
    InStep /\ toRcv = << >> /\ (at # "returned" => toSnd = << >>)
           /\ HostRcvTimeout /\ UNCHANGED snd => InStep'
<1>. SUFFICES ASSUME InStep, toRcv = << >>, at # "returned" => toSnd = << >>,
                     HostRcvTimeout, UNCHANGED snd
              PROVE  InStep'
  OBVIOUS
<1>1. expects = "data" /\ toRcv' = << >> /\ BadReceive
  BY DEF InStep, HostRcvTimeout
<1>. QED  BY <1>1, InStepAnswers

LEMMA InStepDamaged ==
    InStep /\ Damage /\ "forge" \notin Faults /\ UNCHANGED <<snd, hostRcv>> => InStep'
<1>. SUFFICES ASSUME InStep, Damage, "forge" \notin Faults, UNCHANGED <<snd, hostRcv>>
              PROVE  InStep'
  OBVIOUS
<1>1. /\ UNCHANGED <<at, blockno, left, ret, expects, next, got, announced>>
      /\ Block' = Block /\ BlockTokens' = BlockTokens /\ GotIsPrefix' = GotIsPrefix
  BY DEF snd, hostRcv, Block, BlockTokens, GotIsPrefix
<1>2. \/ toSnd' = toSnd
      \/ /\ toSnd # << >> /\ toRcv' = toRcv
         /\ toSnd' \in {Tail(toSnd), <<"noise">> \o Tail(toSnd)}
  BY DEF Damage, DamagePacket, DamageReply
<1>3. expects = "data" => toRcv \in Seq(BlockTokens) /\ Len(toRcv) <= 1
  BY DEF InStep
<1>4. expects = "data" => /\ toRcv' \in Seq(BlockTokens) /\ Len(toRcv') <= 1
                          /\ Len(toRcv') <= Len(toRcv) /\ Len(toRcv') \in Nat
  <2>. SUFFICES ASSUME expects = "data"
                PROVE  /\ toRcv' \in Seq(BlockTokens) /\ Len(toRcv') <= 1
                       /\ Len(toRcv') <= Len(toRcv) /\ Len(toRcv') \in Nat
    OBVIOUS
  <2>1. Marks \subseteq BlockTokens /\ toRcv \in Seq(BlockTokens) /\ Len(toRcv) <= 1
    BY <1>3 DEF BlockTokens
  <2>2. Len(toRcv) \in Nat
    BY <2>1
  <2>3. CASE toRcv' = toRcv
    BY <2>1, <2>2, <2>3
  <2>4. CASE /\ toRcv # << >>
             /\ toRcv' = Tail(toRcv) \/ \E m \in Marks : toRcv' = <<m>> \o Tail(toRcv)
    <3>1. /\ toRcv' \in Seq(BlockTokens) /\ Len(toRcv') <= Len(toRcv)
          /\ Len(toRcv') \in Nat
      BY <2>1, <2>4, DamagedTokens
    <3>2. Len(toRcv) \in Nat /\ Len(toRcv) <= 1
      BY <2>1, <2>2
    <3>. QED  BY <3>1, <3>2
  <2>. QED  BY <2>1, <2>3, <2>4, DamageCases
<1>5. at = "data" => toSnd \in Seq(Reply)
          /\ (expects = "data" => Len(toRcv) + Len(toSnd) <= 1)
          /\ \A i \in 1 .. Len(toSnd) : toSnd[i] = "ACK" =>
                             expects = "data" /\ next = blockno + 1
  BY DEF InStep
<1>6. at = "data" => /\ toSnd' \in Seq(Reply) /\ Len(toSnd') <= Len(toSnd)
                     /\ Len(toSnd') \in Nat /\ Len(toSnd) \in Nat
                     /\ \A i \in 1 .. Len(toSnd') : toSnd'[i] = "ACK" =>
                             expects = "data" /\ next = blockno + 1
  <2>. SUFFICES ASSUME at = "data"
                PROVE  /\ toSnd' \in Seq(Reply) /\ Len(toSnd') <= Len(toSnd)
                       /\ Len(toSnd') \in Nat /\ Len(toSnd) \in Nat
                       /\ \A i \in 1 .. Len(toSnd') : toSnd'[i] = "ACK" =>
                             expects = "data" /\ next = blockno + 1
    OBVIOUS
  <2>1. toSnd \in Seq(Reply) /\ Len(toSnd) \in Nat /\ "noise" \in Reply
    BY <1>5 DEF Reply
  <2>2. CASE toSnd' = toSnd
    BY <1>5, <2>1, <2>2
  <2>3. CASE toSnd # << >> /\ toSnd' \in {Tail(toSnd), <<"noise">> \o Tail(toSnd)}
    <3>1. /\ toSnd' \in Seq(Reply) /\ Len(toSnd') <= Len(toSnd) /\ Len(toSnd') \in Nat
          /\ \A i \in 1 .. Len(toSnd') :
                  \/ toSnd'[i] = "noise"
                  \/ i \in 1 .. Len(toSnd) /\ toSnd'[i] = toSnd[i]
                  \/ i + 1 \in 1 .. Len(toSnd) /\ toSnd'[i] = toSnd[i + 1]
      BY <2>1, <2>3, DamagedReplies
    <3>. QED  BY <1>5, <2>1, <3>1
  <2>. QED  BY <1>2, <2>2, <2>3
<1>7. at = "data" => (expects = "data" => Len(toRcv') + Len(toSnd') <= 1)
  <2>1. expects = "data" => Len(toRcv) \in Nat
    BY <1>3
  <2>2. at = "data" => (expects = "data" => Len(toRcv) + Len(toSnd) <= 1)
    BY <1>5
  <2>3. at = "data" => /\ Len(toSnd') <= Len(toSnd)
                       /\ Len(toSnd') \in Nat /\ Len(toSnd) \in Nat
    BY <1>6
  <2>4. expects = "data" => Len(toRcv') <= Len(toRcv) /\ Len(toRcv') \in Nat
    BY <1>4
  <2>. QED  BY <2>1, <2>2, <2>3, <2>4
<1>8. /\ (at' = "data" /\ ret' = "none") \/ (at' = "returned" /\ ret' = "size")
      /\ expects' \in {"data", "failed"} /\ announced' = SendSize
  BY <1>1 DEF InStep
<1>9. expects = "data" => toRcv' \in Seq(BlockTokens') /\ Len(toRcv') <= 1
  BY <1>1, <1>4
<1>10. at = "data" => /\ toSnd' \in Seq(Reply)
                      /\ \A i \in 1 .. Len(toSnd') : toSnd'[i] = "ACK" =>
                             expects' = "data" /\ next' = blockno' + 1
  BY <1>1, <1>6
<1>. QED  BY <1>1, <1>7, <1>8, <1>9, <1>10, InStepFacts DEF InStep

-----------------------------------------------------------------------------
(* More than the whole may come, but it does not change what was there.    *)
LEMMA ClosingTokensAre ==
    Eot \in ClosingTokens /\ Closing \in ClosingTokens /\ Marks \subseteq ClosingTokens
BY DEF ClosingTokens

LEMMA CompleteSends == Complete /\ SndNext /\ UNCHANGED hostRcv => Complete'
<1>. SUFFICES ASSUME Complete, SndNext, UNCHANGED hostRcv PROVE Complete'
  OBVIOUS
<1>1. /\ expects' \in {"data", "end", "done", "failed"} /\ announced' = SendSize
      /\ got' \in Seq(Byte) /\ Len(got') >= SendSize /\ GotIsPrefix'
      /\ toRcv \in Seq(ClosingTokens)
      /\ \/ at \in {"eot", "closed", "last"} /\ ret = "none"
         \/ at = "returned" /\ ret = "size"
  BY DEF Complete, hostRcv, GotIsPrefix
<1>2. SndGivesUp \/ SndEotAck \/ SndEotAgain \/ SndClose \/ SndLastAck \/ SndLastAgain
  BY <1>1
  DEF SndNext, SndFlushed, SndGreetAgain, SndGreeted, SndNotGreeted,
      SndHeaderAck, SndHeaderAgain, SndHeaderRefused, SndAsked, SndNotAsked,
      SndBlockAck, SndGivesUp, SndBlockAgain, SndEotAck, SndEotAgain, SndClose,
      SndLastAck, SndLastAgain
<1>3. /\ \/ at' \in {"eot", "closed", "last"} /\ ret' = "none"
         \/ at' = "returned" /\ ret' = "size"
      /\ \/ toRcv' = toRcv
         \/ toRcv' = Put(toRcv, <<Eot>>)
         \/ toRcv' = Put(toRcv, <<Closing>>)
  BY <1>1, <1>2 DEF SndGivesUp, SndEotAck, SndEotAgain, SndClose, SndLastAck,
                    SndLastAgain, Return, Transmit, Closing, snd
<1>4. toRcv' \in Seq(ClosingTokens)
  BY <1>1, <1>3, PutOne, ClosingTokensAre
<1>. QED  BY <1>1, <1>3, <1>4 DEF Complete

LEMMA CompleteReceives == Complete /\ HostRcvReads /\ UNCHANGED snd => Complete'
<1>. SUFFICES ASSUME Complete, HostRcvReads, UNCHANGED snd PROVE Complete'
  OBVIOUS
<1>1. /\ toRcv # << >> /\ toRcv' = Tail(toRcv)
      /\ \/ HostTakesHeader \/ HostTakesBlock \/ HostTakesRepeat \/ HostTakesEot
         \/ HostTakesLast \/ HostSkips \/ HostRcvCancelled \/ HostTakesDamaged
  BY DEF HostRcvReads, HostTakesHeader, HostTakesBlock, HostTakesRepeat, HostTakesEot,
         HostTakesLast, HostSkips, HostRcvCancelled, HostTakesDamaged, Takes
<1>2. /\ expects \in {"data", "end", "done", "failed"} /\ announced = SendSize
      /\ got \in Seq(Byte) /\ Len(got) >= SendSize /\ GotIsPrefix
      /\ toRcv \in Seq(ClosingTokens)
      /\ \/ at' \in {"eot", "closed", "last"} /\ ret' = "none"
         \/ at' = "returned" /\ ret' = "size"
  BY DEF Complete, snd
<1>3. Head(toRcv) \in ClosingTokens /\ toRcv' \in Seq(ClosingTokens)
  BY <1>1, <1>2, TailOf
<1>4. ASSUME got' = got, announced' = announced,
             expects' \in {"data", "end", "done", "failed"}
      PROVE  Complete'
  <2>1. GotIsPrefix'
    BY <1>2, <1>4 DEF GotIsPrefix
  <2>. QED  BY <1>2, <1>3, <1>4, <2>1 DEF Complete
<1>5. CASE HostTakesBlock
  <2>1. Head(toRcv) = Closing
    <3>1. Head(toRcv).kind = "packet"
      BY <1>5 DEF HostTakesBlock, Takes
    <3>2. Head(toRcv) \in Marks \cup {Eot, Closing}
      BY <1>3 DEF ClosingTokens
    <3>. QED  BY <3>1, <3>2, MarkKinds
  <2>2. got' = got \o Closing.data /\ UNCHANGED <<expects, announced>>
    BY <1>5, <2>1 DEF HostTakesBlock
  <2>. DEFINE d == Closing.data
  <2>3. d \in Seq(Byte) /\ got \in Seq(Byte)
    BY <1>2, HeaderPackets
  <2>. HIDE DEF d
  <2>4. /\ got \o d \in Seq(Byte) /\ Len(got \o d) >= Len(got) /\ Len(got) \in Nat
        /\ Len(got \o d) \in Nat
        /\ \A i \in 1 .. Len(got) : (got \o d)[i] = got[i]
    BY <2>3
  <2>5. got' = got \o d
    BY <2>2 DEF d
  <2>6. SendSize \in Nat
    BY SendSizeAssumption
  <2>7. Len(got') >= SendSize /\ GotIsPrefix'
    BY <1>2, <2>4, <2>5, <2>6 DEF GotIsPrefix
  <2>. QED  BY <1>2, <1>3, <2>2, <2>4, <2>5, <2>7 DEF Complete
<1>6. CASE ~HostTakesBlock
  <2>1. UNCHANGED <<got, announced>> /\ expects' \in {"data", "end", "done", "failed"}
    BY <1>1, <1>2, <1>6
    DEF HostTakesHeader, HostTakesRepeat, HostTakesEot, HostTakesLast, HostSkips,
        HostRcvCancelled, HostTakesDamaged, BadReceive, hostRcv
  <2>. QED  BY <1>4, <2>1
<1>. QED  BY <1>5, <1>6

LEMMA CompleteTimesOut == Complete /\ HostRcvTimeout /\ UNCHANGED snd => Complete'
BY DEF HostRcvTimeout, BadReceive, Complete, snd, hostRcv, GotIsPrefix

LEMMA CompleteDamaged ==
    Complete /\ Damage /\ "forge" \notin Faults /\ UNCHANGED <<snd, hostRcv>> => Complete'
<1>. SUFFICES ASSUME Complete, Damage, "forge" \notin Faults, UNCHANGED <<snd, hostRcv>>
              PROVE  Complete'
  OBVIOUS
<1>1. toRcv \in Seq(ClosingTokens)
  BY DEF Complete
<1>2. toRcv' \in Seq(ClosingTokens)
  BY <1>1, DamageCases, DamagedTokens, ClosingTokensAre
<1>. QED  BY <1>2 DEF Complete, snd, hostRcv, GotIsPrefix

-----------------------------------------------------------------------------
LEMMA InitInv == ASSUME Punctual PROVE Init => Inv
<1>. SUFFICES ASSUME Init PROVE Greeting /\ wire \in Lines
  BY DEF Inv
<1>1. PICK n \in 0 .. Stale : toSnd = [i \in 1 .. n |-> "CRC"]
  BY DEF Init
<1>2. Stale \in Nat /\ Stale <= 2
  BY StaleAssumption, LineCapAssumption DEF Punctual
<1>3. n \in Nat /\ n <= 2
  BY <1>2
<1>4. toSnd \in Seq({"CRC", "noise"}) /\ Len(toSnd) = n
  BY <1>1, <1>3
<1>5. Len(toSnd) <= 2
  BY <1>3, <1>4
<1>6. toRcv \in Seq({Noise})
  BY EmptyInSeq DEF Init
<1>. QED
  BY <1>4, <1>5, <1>6 DEF Init, SndInit, HostRcvInit, DamageInit, Greeting

LEMMA NextInv == ASSUME Punctual PROVE Inv /\ [Next]_vars => Inv'
<1>. SUFFICES ASSUME Inv, [Next]_vars PROVE Inv'
  OBVIOUS
<1>1. /\ wire \in Lines /\ "forge" \notin Faults
      /\ Greeting \/ Announcing \/ Announced \/ Refused \/ InStep \/ Complete
  BY DEF Inv, Punctual, Faults
<1>2. CASE Sends \/ BoardTimesOut
  <2>1. SndNext /\ UNCHANGED hostRcv /\ wire' = wire
    BY <1>2 DEF Sends, BoardTimesOut, SndReads, SndTimes, damage
  <2>. QED  BY <1>1, <2>1, GreetingSends, AnnouncingSends, AnnouncedSends, RefusedSends,
               InStepSends, CompleteSends DEF Inv
<1>3. CASE Receives
  <2>1. HostRcvReads /\ UNCHANGED snd /\ wire' = wire
    BY <1>3 DEF Receives, damage
  <2>. QED  BY <1>1, <2>1, GreetingReceives, AnnouncingReceives, AnnouncedReceives,
               RefusedReceives, InStepReceives, CompleteReceives DEF Inv
<1>4. CASE HostTimesOut
  <2>1. /\ HostRcvTimeout /\ UNCHANGED snd /\ wire' = wire /\ toRcv = << >>
        /\ at # "returned" => toSnd = << >>
    BY <1>1, <1>4, HostTimesOutCases
  <2>2. Greeting \/ Announcing \/ Announced => toSnd = << >>
    BY <2>1 DEF Greeting, Announcing, Announced
  <2>. QED  BY <1>1, <2>1, <2>2, GreetingTimesOut, AnnouncingTimesOut, AnnouncedTimesOut,
               RefusedTimesOut, InStepTimesOut, CompleteTimesOut DEF Inv
<1>5. CASE Damage /\ UNCHANGED <<snd, hostRcv>>
  <2>1. wire' = wire
    BY <1>5 DEF Damage
  <2>. QED  BY <1>1, <1>5, <2>1, GreetingDamaged, AnnouncingDamaged, AnnouncedDamaged,
               RefusedDamaged, InStepDamaged, CompleteDamaged DEF Inv
<1>6. CASE UNCHANGED vars
  BY <1>6
  DEF vars, line, snd, hostRcv, damage, Inv, Greeting, Announcing, Announced, NoStart,
      Refused, InStep, Complete, GotIsPrefix, BlockTokens, Block
<1>. QED  BY <1>2, <1>3, <1>4, <1>5, <1>6 DEF Next

(* What the host has is a prefix of what the caller gave, and all of it    *)
(* when the session ends well: whatever the line damages, loses or adds,   *)
(* as long as it makes no EOT of a packet (ymodem.c:414-456).              *)
THEOREM HostHasThePrefix == ASSUME Punctual PROVE Spec => []UploadIsWhole
<1>1. Inv => UploadIsWhole
  BY DEF Inv, Greeting, Announcing, Announced, Refused, InStep, Complete,
         GotIsPrefix, UploadIsWhole
<1>. QED  BY <1>1, InitInv, NextInv, PTL DEF Spec

(* A block counts as acknowledged only when the host has stored it: no ACK *)
(* is taken for the answer to another block (ymodem.c:424-440).            *)
THEOREM NoBlockIsSkipped == ASSUME Punctual PROVE Spec => []CountsAgree
<1>1. ASSUME InStep PROVE SendSize - left <= Len(got)
  <2>1. /\ LongLen \in Nat /\ SendSize \in Nat /\ blockno \in Nat \ {0}
        /\ next \in {blockno, blockno + 1} /\ Len(got) = (next - 1) * LongLen
        /\ left = SendSize - (blockno - 1) * LongLen
        /\ (blockno - 1) * LongLen \in Nat
        /\ blockno * LongLen = (blockno - 1) * LongLen + LongLen
    BY <1>1, InStepFacts
  <2>2. SendSize - left = (blockno - 1) * LongLen
    BY <2>1
  <2>3. CASE next = blockno
    BY <2>1, <2>2, <2>3
  <2>4. CASE next = blockno + 1
    <3>1. next - 1 = blockno
      BY <2>1, <2>4
    <3>2. Len(got) = blockno * LongLen
      BY <2>1, <3>1
    <3>. QED  BY <2>1, <2>2, <3>2
  <2>. QED  BY <2>1, <2>3, <2>4
<1>2. Inv => CountsAgree
  BY <1>1 DEF Inv, Greeting, Announcing, Announced, Refused, Complete, CountsAgree
<1>. QED  BY <1>2, InitInv, NextInv, PTL DEF Spec

(* 0 is returned only before any data was stored (ymodem.c:479, 501).      *)
THEOREM ZeroIsHonest == ASSUME Punctual PROVE Spec => []ZeroMeansNothingSent
<1>1. Inv => ZeroMeansNothingSent
  BY DEF Inv, Greeting, Announcing, Announced, Refused, InStep, Complete,
         ZeroMeansNothingSent
<1>. QED  BY <1>1, InitInv, NextInv, PTL DEF Spec
=============================================================================
