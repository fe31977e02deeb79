------------------------------ MODULE JjyProofs ------------------------------
(***************************************************************************)
(* The decoder gives every undamaged minute back, for all times and        *)
(* sequences of minutes.                                                   *)
(*                                                                         *)
(* First what a minute spells: each block is a word of binary digits, so   *)
(* that the symbol of every second is a digit of a number (SignalReads).   *)
(* Then the dates.  Then the decoder: within a second it counts what was   *)
(* sent but for the misread samples, at the end of a second it has the     *)
(* digits that were sent so far, at the end of a block their number.       *)
(***************************************************************************)
EXTENDS JjyReception, TLAPS

Symbols == {"zero", "one", "mark"}

(* s is a word of n symbols.  The length is bounded from both sides because *)
(* the provers lose it when it is equated with a number.                    *)
Word(s, n) == s \in Seq(Symbols) /\ Len(s) >= n /\ Len(s) <= n

Power(k) == CASE k = 0 -> 1  [] k = 1 -> 2  [] k = 2 -> 4   [] k = 3 -> 8   [] k = 4 -> 16
              [] k = 5 -> 32 [] k = 6 -> 64 [] k = 7 -> 128 [] k = 8 -> 256 [] k = 9 -> 512

(* The symbol for binary digit k of n, and the word of the len lowest.      *)
Bit(n, k) == IF (n \div Power(k)) % 2 = 1 THEN "one" ELSE "zero"
Spells(s, n, len) == Word(s, len) /\ \A k \in 1 .. len : s[k] = Bit(n, len - k)

LEMMA Powers ==
    /\ Power(0) = 1 /\ Power(1) = 2 /\ Power(2) = 4 /\ Power(3) = 8 /\ Power(4) = 16
    /\ Power(5) = 32 /\ Power(6) = 64 /\ Power(7) = 128 /\ Power(8) = 256 /\ Power(9) = 512
BY DEF Power

LEMMA Doubled ==
    ASSUME NEW a \in Nat, NEW b \in 0 .. 1
    PROVE  /\ Bit(2 * a + b, 0) = Bit(b, 0)
           /\ \A k \in 1 .. 8 : Bit(2 * a + b, k) = Bit(a, k - 1)
<1>1. Bit(2 * a + b, 0) = Bit(b, 0)
  BY Powers DEF Bit
<1>2. ASSUME NEW k \in 1 .. 8 PROVE Bit(2 * a + b, k) = Bit(a, k - 1)
  <2>1. k = 1 \/ k = 2 \/ k = 3 \/ k = 4 \/ k = 5 \/ k = 6 \/ k = 7 \/ k = 8
    OBVIOUS
  <2>. QED  BY <2>1, Powers DEF Bit
<1>. QED  BY <1>1, <1>2

LEMMA Halves ==
    ASSUME NEW b \in Nat
    PROVE  \E c \in Nat, x \in 0 .. 1 : b = 2 * c + x
<1>. DEFINE c == b \div 2
            x == b % 2
<1>1. c \in Int
  OBVIOUS
<1>2. c >= 0
  OBVIOUS
<1>3. x \in 0 .. 1
  OBVIOUS
<1>4. b = 2 * c + x
  OBVIOUS
<1>. QED  BY <1>1, <1>2, <1>3, <1>4

(* The digits of b behind those of a.                                       *)
Shifts(q) ==
    \A a, b \in Nat, k \in 0 .. 8 : b < Power(q) =>
        Bit(a * Power(q) + b, k) = IF k < q THEN Bit(b, k) ELSE Bit(a, k - q)

LEMMA ShiftsMore ==
    ASSUME NEW q \in 0 .. 8, Shifts(q)
    PROVE  Shifts(q + 1)
<1>. SUFFICES ASSUME NEW a \in Nat, NEW b \in Nat, NEW k \in 0 .. 8, b < Power(q + 1)
     PROVE  Bit(a * Power(q + 1) + b, k) = IF k < q + 1 THEN Bit(b, k) ELSE Bit(a, k - (q + 1))
  BY DEF Shifts
<1>1. Power(q) \in Nat /\ Power(q + 1) = 2 * Power(q)
  BY DEF Power
<1>2. PICK c \in Nat, x \in 0 .. 1 : b = 2 * c + x
  BY Halves
<1>3. c < Power(q)
  BY <1>1, <1>2
<1>. DEFINE P == Power(q)
            m == a * P + c
<1>. HIDE DEF P
<1>4. P \in Nat /\ m \in Nat
  BY <1>1, <1>2 DEF P
<1>5. a * (2 * P) + (2 * c + x) = 2 * m + x
  BY <1>1, <1>2, <1>4
<1>6. Bit(a * Power(q + 1) + b, k) = Bit(2 * m + x, k)
  BY <1>1, <1>2, <1>5 DEF P
<1>7. CASE k = 0
  <2>1. Bit(2 * m + x, 0) = Bit(x, 0) /\ Bit(2 * c + x, 0) = Bit(x, 0)
    BY <1>2, <1>4, Doubled
  <2>. QED  BY <1>6, <1>7, <1>2, <2>1
<1>8. CASE k # 0
  <2>1. k \in 1 .. 8
    BY <1>8
  <2>2. Bit(b, k) = Bit(c, k - 1)
    BY <1>2, <2>1, Doubled
  <2>3. Bit(2 * m + x, k) = Bit(m, k - 1)
    <3>. HIDE DEF m
    <3>. QED  BY <1>2, <1>4, <2>1, Doubled
  <2>4. Bit(m, k - 1) = IF k - 1 < q THEN Bit(c, k - 1) ELSE Bit(a, k - 1 - q)
    BY <1>8, <1>2, <1>3 DEF Shifts, P
  <2>5. k - 1 - q = k - (q + 1) /\ (k - 1 < q <=> k < q + 1)
    OBVIOUS
  <2>. QED  BY <1>6, <2>2, <2>3, <2>4, <2>5
<1>. QED  BY <1>7, <1>8

LEMMA ShiftsHold == \A q \in 0 .. 6 : Shifts(q)
<1>0. Shifts(0)
  BY Powers DEF Shifts
<1>1. Shifts(1)
  BY <1>0, ShiftsMore, 0 + 1 = 1
<1>2. Shifts(2)
  BY <1>1, ShiftsMore, 1 + 1 = 2
<1>3. Shifts(3)
  BY <1>2, ShiftsMore, 2 + 1 = 3
<1>4. Shifts(4)
  BY <1>3, ShiftsMore, 3 + 1 = 4
<1>5. Shifts(5)
  BY <1>4, ShiftsMore, 4 + 1 = 5
<1>6. Shifts(6)
  BY <1>5, ShiftsMore, 5 + 1 = 6
<1>. QED  BY <1>0, <1>1, <1>2, <1>3, <1>4, <1>5, <1>6

LEMMA Joined ==
    ASSUME NEW p \in Nat, NEW q \in 0 .. 6, p + q <= 9, NEW a \in Nat, NEW b \in Nat,
           b < Power(q), NEW s, NEW u, Spells(s, a, p), Spells(u, b, q)
    PROVE  Spells(s \o u, a * Power(q) + b, p + q)
<1>1. /\ s \in Seq(Symbols) /\ Len(s) >= p /\ Len(s) <= p
      /\ u \in Seq(Symbols) /\ Len(u) >= q /\ Len(u) <= q
  BY DEF Spells, Word
<1>. DEFINE x == s \o u
<1>2. x \in Seq(Symbols)
  BY <1>1
<1>3. Len(x) >= p + q /\ Len(x) <= p + q
  BY <1>1
<1>4. \A i \in 1 .. p : x[i] = s[i]
  BY <1>1
<1>5. \A i \in p + 1 .. p + q : x[i] = u[i - p]
  BY <1>1
<1>. HIDE DEF x
<1>6. ASSUME NEW i \in 1 .. p + q PROVE x[i] = Bit(a * Power(q) + b, p + q - i)
  <2>1. p + q - i \in 0 .. 8
    OBVIOUS
  <2>2. Bit(a * Power(q) + b, p + q - i)
           = IF p + q - i < q THEN Bit(b, p + q - i) ELSE Bit(a, p + q - i - q)
    BY <2>1, ShiftsHold DEF Shifts
  <2>3. CASE i <= p
    <3>1. x[i] = s[i] /\ s[i] = Bit(a, p - i)
      BY <2>3, <1>4 DEF Spells
    <3>2. p + q - i - q = p - i /\ ~(p + q - i < q)
      BY <2>3
    <3>. QED  BY <3>1, <3>2, <2>2
  <2>4. CASE i > p
    <3>1. x[i] = u[i - p]
      BY <2>4, <1>5
    <3>2. i - p \in 1 .. q
      BY <2>4
    <3>3. u[i - p] = Bit(b, q - (i - p))
      BY <3>2 DEF Spells
    <3>4. q - (i - p) = p + q - i /\ p + q - i < q
      BY <2>4
    <3>. QED  BY <3>1, <3>3, <3>4, <2>2
  <2>. QED  BY <2>3, <2>4
<1>. QED  BY <1>2, <1>3, <1>6 DEF Spells, Word, x

LEMMA JoinedBy ==
    ASSUME NEW p \in 0 .. 8, NEW a \in Nat, NEW b \in Nat, NEW s, NEW u, Spells(s, a, p)
    PROVE  /\ p <= 8 /\ b <= 1  /\ Spells(u, b, 1) => Spells(s \o u, a * 2 + b, p + 1)
           /\ p <= 7 /\ b <= 3  /\ Spells(u, b, 2) => Spells(s \o u, a * 4 + b, p + 2)
           /\ p <= 5 /\ b <= 15 /\ Spells(u, b, 4) => Spells(s \o u, a * 16 + b, p + 4)
           /\ p <= 3 /\ b <= 63 /\ Spells(u, b, 6) => Spells(s \o u, a * 64 + b, p + 6)
<1>1. ASSUME p <= 8, b <= 1, Spells(u, b, 1) PROVE Spells(s \o u, a * Power(1) + b, p + 1)
  BY <1>1, Joined, Powers
<1>2. ASSUME p <= 7, b <= 3, Spells(u, b, 2) PROVE Spells(s \o u, a * Power(2) + b, p + 2)
  <2>1. p \in Nat /\ p + 2 <= 9 /\ b < Power(2) /\ 2 \in 0 .. 6
    BY <1>2, Powers
  <2>. QED  BY <1>2, <2>1, Joined
<1>3. ASSUME p <= 5, b <= 15, Spells(u, b, 4) PROVE Spells(s \o u, a * Power(4) + b, p + 4)
  <2>1. p \in Nat /\ p + 4 <= 9 /\ b < Power(4) /\ 4 \in 0 .. 6
    BY <1>3, Powers
  <2>. QED  BY <1>3, <2>1, Joined
<1>4. ASSUME p <= 3, b <= 63, Spells(u, b, 6) PROVE Spells(s \o u, a * Power(6) + b, p + 6)
  <2>1. p \in Nat /\ p + 6 <= 9 /\ b < Power(6) /\ 6 \in 0 .. 6
    BY <1>4, Powers
  <2>. QED  BY <1>4, <2>1, Joined
<1>. QED  BY <1>1, <1>2, <1>3, <1>4, Powers

LEMMA Tuples ==
    ASSUME NEW a \in Symbols, NEW b \in Symbols, NEW c \in Symbols, NEW d \in Symbols
    PROVE  /\ Word(<<a>>, 1) /\ Word(<<a, b>>, 2) /\ Word(<<a, b, c>>, 3)
           /\ Word(<<a, b, c, d>>, 4)
BY DEF Word

LEMMA DigitSpells ==
    ASSUME NEW n \in Nat
    PROVE  /\ Spells(Digit(n, Nibble), n, 4)
           /\ Spells(Digit(n, <<4, 2, 1>>), n, 3)
           /\ Spells(Digit(n, <<2, 1>>), n, 2)
<1>1. /\ Digit(n, Nibble) = <<Bit(n, 3), Bit(n, 2), Bit(n, 1), Bit(n, 0)>>
      /\ Digit(n, <<4, 2, 1>>) = <<Bit(n, 2), Bit(n, 1), Bit(n, 0)>>
      /\ Digit(n, <<2, 1>>) = <<Bit(n, 1), Bit(n, 0)>>
  <2>1. /\ n % (2 * 1) >= 1 <=> (n \div 1) % 2 = 1
        /\ n % (2 * 2) >= 2 <=> (n \div 2) % 2 = 1
        /\ n % (2 * 4) >= 4 <=> (n \div 4) % 2 = 1
        /\ n % (2 * 8) >= 8 <=> (n \div 8) % 2 = 1
    OBVIOUS
  <2>. QED  BY <2>1, Powers DEF Digit, Nibble, Bit
<1>2. \A k : Bit(n, k) \in Symbols
  BY DEF Bit, Symbols
<1>3. /\ Word(Digit(n, Nibble), 4) /\ Word(Digit(n, <<4, 2, 1>>), 3)
      /\ Word(Digit(n, <<2, 1>>), 2)
  BY <1>1, <1>2, Tuples
<1>4. \A k \in 1 .. 4 : <<Bit(n, 3), Bit(n, 2), Bit(n, 1), Bit(n, 0)>>[k] = Bit(n, 4 - k)
  OBVIOUS
<1>5. \A k \in 1 .. 3 : <<Bit(n, 2), Bit(n, 1), Bit(n, 0)>>[k] = Bit(n, 3 - k)
  OBVIOUS
<1>6. \A k \in 1 .. 2 : <<Bit(n, 1), Bit(n, 0)>>[k] = Bit(n, 2 - k)
  OBVIOUS
<1>. QED  BY <1>1, <1>3, <1>4, <1>5, <1>6 DEF Spells

LEMMA ZerosSpell ==
    ASSUME NEW n \in 1 .. 9
    PROVE  Spells(Zeros(n), 0, n)
<1>1. Word(Zeros(n), n) /\ \A i \in 1 .. n : Zeros(n)[i] = "zero"
  BY DEF Zeros, Word, Symbols
<1>2. \A k \in 0 .. 8 : Bit(0, k) = "zero"
  BY DEF Bit, Power
<1>. QED  BY <1>1, <1>2 DEF Spells

(* The numbers that the blocks of a minute spell: two decimal digits, five  *)
(* bits apart, in most of them.  Parity is 1 if evenparity() sends a one.   *)
Pair(n) == (n \div 10) * 32 + (n % 10)
Parity(symbols) == IF Cardinality({i \in DOMAIN symbols : symbols[i] = "one"}) % 2 = 1
                   THEN 1 ELSE 0

Number(k, t) ==
    CASE k = 0 -> Pair(t.min)
      [] k = 1 -> Pair(t.hour)
      [] k = 2 -> Pair(t.yday \div 10)
      [] k = 3 -> (t.yday % 10) * 32 + Parity(HourBits(t)) * 4 + Parity(MinuteBits(t)) * 2
      [] k = 4 -> IF Alt(t) THEN 0 ELSE ((t.year % 100) \div 10) * 16 + (t.year % 10)
      [] k = 5 -> IF Alt(t) THEN 0 ELSE t.wday * 64

LEMMA ParitySpells ==
    ASSUME NEW s
    PROVE  Parity(s) \in 0 .. 1 /\ Spells(evenparity(s), Parity(s), 1)
<1>. DEFINE odd == Cardinality({i \in DOMAIN s : s[i] = "one"}) % 2 = 1
<1>1. Parity(s) = IF odd THEN 1 ELSE 0
  BY DEF Parity
<1>2. evenparity(s) = <<IF odd THEN "one" ELSE "zero">>
  BY DEF evenparity
<1>. HIDE DEF odd
<1>3. Bit(1, 0) = "one" /\ Bit(0, 0) = "zero"
  BY Powers DEF Bit
<1>4. Word(<<"one">>, 1) /\ Word(<<"zero">>, 1)
  BY Tuples DEF Symbols
<1>5. evenparity(s)[1] = Bit(Parity(s), 1 - 1)
  BY <1>1, <1>2, <1>3
<1>. QED  BY <1>1, <1>2, <1>4, <1>5 DEF Spells

LEMMA PairSpells ==
    ASSUME NEW a \in Nat, NEW b \in 0 .. 9, NEW p \in 2 .. 4, NEW s, Spells(s, a, p),
           NEW u, Spells(u, b, 4)
    PROVE  Spells(s \o Zeros(1) \o u, a * 32 + b, p + 5)
<1>1. Spells(s \o Zeros(1), a * 2 + 0, p + 1)
  BY ZerosSpell, JoinedBy
<1>. DEFINE c == a * 2  r == p + 1  w == s \o Zeros(1)
<1>2. c \in Nat /\ r \in 0 .. 5 /\ Spells(w, c, r)
  BY <1>1
<1>. HIDE DEF c, r, w
<1>3. Spells(w \o u, c * 16 + b, r + 4)
  BY <1>2, JoinedBy
<1>4. c * 16 + b = a * 32 + b /\ r + 4 = p + 5
  BY DEF c, r
<1>. QED  BY <1>3, <1>4 DEF w

LEMMA Numbers ==
    ASSUME NEW t
    PROVE  /\ Number(0, t) = Pair(t.min)
           /\ Number(1, t) = Pair(t.hour)
           /\ Number(2, t) = Pair(t.yday \div 10)
           /\ Number(3, t) = (t.yday % 10) * 32 + Parity(HourBits(t)) * 4 + Parity(MinuteBits(t)) * 2
           /\ Number(4, t) = IF Alt(t) THEN 0 ELSE ((t.year % 100) \div 10) * 16 + (t.year % 10)
           /\ Number(5, t) = IF Alt(t) THEN 0 ELSE t.wday * 64
BY DEF Number

LEMMA BlocksSpell ==
    ASSUME NEW t \in Time
    PROVE  /\ Spells(MinuteBits(t), Number(0, t), 8)
           /\ Spells(HourBits(t), Number(1, t), 9)
           /\ Spells(DayBits(t), Number(2, t), 9)
           /\ Spells(UnitBits(t), Number(3, t), 9)
           /\ Spells(YearBits(t), Number(4, t), 9)
           /\ Spells(WeekBits(t), Number(5, t), 9)
<1>1. /\ t.min \in 0 .. 59 /\ t.hour \in 0 .. 23 /\ t.yday \in 0 .. 365
      /\ t.year \in 100 .. 199 /\ t.wday \in 0 .. 6
  BY DEF Time
<1>2. ASSUME NEW a \in 0 .. 3
      PROVE  Spells(Zeros(2) \o Digit(a, <<2, 1>>), a, 4)
  <2>1. Spells(Zeros(2), 0, 2) /\ Spells(Digit(a, <<2, 1>>), a, 2) /\ a < Power(2)
    BY ZerosSpell, DigitSpells, Powers
  <2>2. Spells(Zeros(2) \o Digit(a, <<2, 1>>), 0 * Power(2) + a, 2 + 2)
    BY <2>1, Joined
  <2>3. 0 * Power(2) + a = a /\ 2 + 2 = 4
    BY Powers
  <2>. QED  BY <2>2, <2>3
<1>3. Spells(MinuteBits(t), Number(0, t), 8)
  <2>. DEFINE a == t.min \div 10  b == t.min % 10
  <2>1. a \in 0 .. 5 /\ b \in 0 .. 9
    BY <1>1
  <2>2. Spells(Digit(a, <<4, 2, 1>>), a, 3) /\ Spells(Digit(b, Nibble), b, 4)
    BY <2>1, DigitSpells
  <2>3. MinuteBits(t) = Digit(a, <<4, 2, 1>>) \o Zeros(1) \o Digit(b, Nibble)
    BY DEF MinuteBits
  <2>4. Number(0, t) = a * 32 + b
    <3>1. Number(0, t) = Pair(t.min)
      BY Numbers
    <3>. QED  BY <3>1 DEF Pair
  <2>. HIDE DEF a, b
  <2>5. Spells(Digit(a, <<4, 2, 1>>) \o Zeros(1) \o Digit(b, Nibble), a * 32 + b, 3 + 5)
    BY <2>1, <2>2, PairSpells
  <2>. QED  BY <2>3, <2>4, <2>5, 3 + 5 = 8
<1>4. Spells(HourBits(t), Number(1, t), 9)
  <2>. DEFINE a == t.hour \div 10  b == t.hour % 10  w == Zeros(2) \o Digit(a, <<2, 1>>)
  <2>1. a \in 0 .. 3 /\ b \in 0 .. 9
    BY <1>1
  <2>2. Spells(w, a, 4) /\ Spells(Digit(b, Nibble), b, 4)
    BY <2>1, <1>2, DigitSpells
  <2>3. HourBits(t) = w \o Zeros(1) \o Digit(b, Nibble)
    BY DEF HourBits
  <2>4. Number(1, t) = a * 32 + b
    <3>1. Number(1, t) = Pair(t.hour)
      BY Numbers
    <3>. QED  BY <3>1 DEF Pair
  <2>. HIDE DEF a, b, w
  <2>5. Spells(w \o Zeros(1) \o Digit(b, Nibble), a * 32 + b, 4 + 5)
    BY <2>1, <2>2, PairSpells
  <2>. QED  BY <2>3, <2>4, <2>5, 4 + 5 = 9
<1>5. Spells(DayBits(t), Number(2, t), 9)
  <2>. DEFINE a == t.yday \div 100  b == (t.yday \div 10) % 10
              w == Zeros(2) \o Digit(a, <<2, 1>>)
  <2>1. a \in 0 .. 3 /\ b \in 0 .. 9 /\ (t.yday \div 10) \div 10 = a
    BY <1>1
  <2>2. Spells(w, a, 4) /\ Spells(Digit(b, Nibble), b, 4)
    BY <2>1, <1>2, DigitSpells
  <2>3. DayBits(t) = w \o Zeros(1) \o Digit(b, Nibble)
    BY DEF DayBits
  <2>4. Number(2, t) = a * 32 + b
    <3>1. Number(2, t) = Pair(t.yday \div 10)
      BY Numbers
    <3>. QED  BY <2>1, <3>1 DEF Pair
  <2>. HIDE DEF a, b, w
  <2>5. Spells(w \o Zeros(1) \o Digit(b, Nibble), a * 32 + b, 4 + 5)
    BY <2>1, <2>2, PairSpells
  <2>. QED  BY <2>3, <2>4, <2>5, 4 + 5 = 9
<1>6. Spells(UnitBits(t), Number(3, t), 9)
  <2>. DEFINE u == t.yday % 10
              h == Parity(HourBits(t))
              m == Parity(MinuteBits(t))
              w == Digit(u, Nibble) \o Zeros(2)
              x == w \o evenparity(HourBits(t))
              y == x \o evenparity(MinuteBits(t))
  <2>1. u \in 0 .. 9 /\ h \in 0 .. 1 /\ m \in 0 .. 1
    BY <1>1, ParitySpells
  <2>2. /\ Spells(Digit(u, Nibble), u, 4)
        /\ Spells(Zeros(2), 0, 2) /\ Spells(Zeros(1), 0, 1)
        /\ Spells(evenparity(HourBits(t)), h, 1) /\ Spells(evenparity(MinuteBits(t)), m, 1)
    BY <2>1, DigitSpells, ZerosSpell, ParitySpells
  <2>. HIDE DEF u, h, m
  <2>3. Spells(w, u * 4, 6)
    <3>1. Spells(w, u * 4 + 0, 4 + 2)
      BY <2>1, <2>2, JoinedBy
    <3>. QED  BY <3>1, <2>1
  <2>. DEFINE u4 == u * 4  u8 == u4 * 2 + h  u16 == u8 * 2 + m
  <2>4. u4 \in Nat /\ u8 \in Nat /\ u16 \in Nat
    BY <2>1
  <2>. HIDE DEF w, u4
  <2>5. Spells(x, u8, 7)
    <3>1. Spells(x, u4 * 2 + h, 6 + 1)
      BY <2>1, <2>2, <2>3, <2>4, JoinedBy DEF u4
    <3>. QED  BY <3>1, 6 + 1 = 7
  <2>. HIDE DEF x, u8
  <2>6. Spells(y, u16, 8)
    <3>1. Spells(y, u8 * 2 + m, 7 + 1)
      BY <2>1, <2>2, <2>4, <2>5, JoinedBy
    <3>. QED  BY <3>1, 7 + 1 = 8
  <2>. HIDE DEF y, u16
  <2>7. Spells(y \o Zeros(1), u16 * 2 + 0, 8 + 1)
    BY <2>2, <2>4, <2>6, JoinedBy
  <2>8. u16 * 2 + 0 = u * 32 + h * 4 + m * 2 /\ 8 + 1 = 9
    BY <2>1 DEF u16, u8, u4
  <2>. QED  BY <2>7, <2>8, Numbers DEF UnitBits, u, h, m, w, x, y
<1>7. Spells(YearBits(t), Number(4, t), 9)
  <2>1. CASE Alt(t)
    BY <2>1, ZerosSpell, Numbers DEF YearBits
  <2>2. CASE ~Alt(t)
    <3>. DEFINE a == (t.year % 100) \div 10
                b == t.year % 10
                w == Zeros(1) \o Digit(a, Nibble)
    <3>1. a \in 0 .. 9 /\ b \in 0 .. 9
      BY <1>1
    <3>2. Spells(Zeros(1), 0, 1) /\ Spells(Digit(a, Nibble), a, 4) /\ Spells(Digit(b, Nibble), b, 4)
      BY <3>1, ZerosSpell, DigitSpells
    <3>3. YearBits(t) = w \o Digit(b, Nibble) /\ Number(4, t) = a * 16 + b
      <4>1. YearBits(t) = w \o Digit(b, Nibble)
        BY <2>2 DEF YearBits
      <4>2. Number(4, t) = a * 16 + b
        BY <2>2, Numbers
      <4>. QED  BY <4>1, <4>2
    <3>. HIDE DEF a, b
    <3>4. Spells(w, 0 * 16 + a, 1 + 4)
      BY <3>1, <3>2, JoinedBy
    <3>. HIDE DEF w
    <3>5. Spells(w, a, 5)
      BY <3>1, <3>4
    <3>6. Spells(w \o Digit(b, Nibble), a * 16 + b, 5 + 4)
      BY <3>1, <3>2, <3>5, JoinedBy
    <3>. QED  BY <3>3, <3>6, 5 + 4 = 9
  <2>. QED  BY <2>1, <2>2
<1>8. Spells(WeekBits(t), Number(5, t), 9)
  <2>1. CASE Alt(t)
    BY <2>1, ZerosSpell, Numbers DEF WeekBits
  <2>2. CASE ~Alt(t)
    <3>1. Spells(Digit(t.wday, <<4, 2, 1>>), t.wday, 3) /\ Spells(Zeros(6), 0, 6)
      BY <1>1, ZerosSpell, DigitSpells
    <3>2. Spells(Digit(t.wday, <<4, 2, 1>>) \o Zeros(6), t.wday * 64 + 0, 3 + 6)
      BY <1>1, <3>1, JoinedBy
    <3>3. t.wday * 64 + 0 = t.wday * 64 /\ 3 + 6 = 9
      BY <1>1
    <3>. QED  BY <2>2, <3>2, <3>3, Numbers DEF WeekBits
  <2>. QED  BY <2>1, <2>2
<1>. QED  BY <1>3, <1>4, <1>5, <1>6, <1>7, <1>8

Then(s, u, m) == s \o u \o m

LEMMA OneMore ==
    ASSUME NEW n \in Nat, NEW s, NEW u, NEW m, Word(s, n), Word(u, 9), Word(m, 1),
           NEW x, x = Then(s, u, m)
    PROVE  /\ Word(x, n + 10)
           /\ \A i \in 1 .. n : x[i] = s[i]
           /\ \A i \in 1 .. 9 : x[n + i] = u[i]
           /\ x[n + 10] = m[1]
<1>1. /\ s \in Seq(Symbols) /\ u \in Seq(Symbols) /\ m \in Seq(Symbols)
      /\ Len(s) >= n /\ Len(s) <= n /\ Len(u) >= 9 /\ Len(u) <= 9 /\ Len(m) >= 1 /\ Len(m) <= 1
  BY DEF Word
<1>. USE DEF Then
<1>2. x \in Seq(Symbols)
  BY <1>1
<1>3. Len(x) >= n + 10 /\ Len(x) <= n + 10
  BY <1>1
<1>4. \A i \in 1 .. n : x[i] = s[i]
  BY <1>1
<1>5. \A i \in 1 .. 9 : x[n + i] = u[i]
  BY <1>1
<1>6. x[n + 10] = m[1]
  BY <1>1
<1>. QED  BY <1>2, <1>3, <1>4, <1>5, <1>6 DEF Word

(* What is sent in second n of a minute.                                    *)
SymbolAt(t, n) ==
    IF n = 0 \/ n % 10 = 9 THEN "mark" ELSE Bit(Number(n \div 10, t), 8 - (n % 10))

LEMMA SignalReads ==
    ASSUME NEW t \in Time, NEW n \in 0 .. 59
    PROVE  sendtime(t)[n + 1] = SymbolAt(t, n)
<1>. DEFINE a == MinuteBits(t)  b == HourBits(t)  c == DayBits(t)
            d == UnitBits(t)    e == YearBits(t)  f == WeekBits(t)
            x1 == Mark \o a \o Mark
            x2 == Then(x1, b, Mark)
            x3 == Then(x2, c, Mark)
            x4 == Then(x3, d, Mark)
            x5 == Then(x4, e, Mark)
            x6 == Then(x5, f, Mark)
<1>1. /\ Spells(a, Number(0, t), 8) /\ Spells(b, Number(1, t), 9) /\ Spells(c, Number(2, t), 9)
      /\ Spells(d, Number(3, t), 9) /\ Spells(e, Number(4, t), 9) /\ Spells(f, Number(5, t), 9)
  BY BlocksSpell
<1>2. /\ Word(a, 8) /\ Word(b, 9) /\ Word(c, 9) /\ Word(d, 9) /\ Word(e, 9) /\ Word(f, 9)
      /\ Word(Mark, 1) /\ Mark[1] = "mark"
  BY <1>1, Tuples DEF Spells, Mark, Symbols
<1>3. x6 = sendtime(t)
  BY DEF sendtime, Then
<1>. HIDE DEF a, b, c, d, e, f
<1>4. Word(x1, 10) /\ x1[1] = "mark" /\ (\A i \in 1 .. 8 : x1[1 + i] = a[i]) /\ x1[10] = "mark"
  BY <1>2 DEF Word
<1>. HIDE DEF x1, x2, x3, x4, x5, x6
<1>5. Word(x2, 20) /\ (\A i \in 1 .. 10 : x2[i] = x1[i])
      /\ (\A i \in 1 .. 9 : x2[10 + i] = b[i]) /\ x2[20] = "mark"
  <2>1. /\ Word(x2, 10 + 10) /\ x2[10 + 10] = Mark[1]
        /\ \A i \in 1 .. 10 : x2[i] = x1[i]
        /\ \A i \in 1 .. 9 : x2[10 + i] = b[i]
    BY <1>2, <1>4, OneMore DEF x2
  <2>. QED  BY <2>1, <1>2, 10 + 10 = 20
<1>6. Word(x3, 30) /\ (\A i \in 1 .. 20 : x3[i] = x2[i])
      /\ (\A i \in 1 .. 9 : x3[20 + i] = c[i]) /\ x3[30] = "mark"
  <2>1. /\ Word(x3, 20 + 10) /\ x3[20 + 10] = Mark[1]
        /\ \A i \in 1 .. 20 : x3[i] = x2[i]
        /\ \A i \in 1 .. 9 : x3[20 + i] = c[i]
    BY <1>2, <1>5, OneMore DEF x3
  <2>. QED  BY <2>1, <1>2, 20 + 10 = 30
<1>7. Word(x4, 40) /\ (\A i \in 1 .. 30 : x4[i] = x3[i])
      /\ (\A i \in 1 .. 9 : x4[30 + i] = d[i]) /\ x4[40] = "mark"
  <2>1. /\ Word(x4, 30 + 10) /\ x4[30 + 10] = Mark[1]
        /\ \A i \in 1 .. 30 : x4[i] = x3[i]
        /\ \A i \in 1 .. 9 : x4[30 + i] = d[i]
    BY <1>2, <1>6, OneMore DEF x4
  <2>. QED  BY <2>1, <1>2, 30 + 10 = 40
<1>8. Word(x5, 50) /\ (\A i \in 1 .. 40 : x5[i] = x4[i])
      /\ (\A i \in 1 .. 9 : x5[40 + i] = e[i]) /\ x5[50] = "mark"
  <2>1. /\ Word(x5, 40 + 10) /\ x5[40 + 10] = Mark[1]
        /\ \A i \in 1 .. 40 : x5[i] = x4[i]
        /\ \A i \in 1 .. 9 : x5[40 + i] = e[i]
    BY <1>2, <1>7, OneMore DEF x5
  <2>. QED  BY <2>1, <1>2, 40 + 10 = 50
<1>9. (\A i \in 1 .. 50 : x6[i] = x5[i])
      /\ (\A i \in 1 .. 9 : x6[50 + i] = f[i]) /\ x6[60] = "mark"
  <2>1. /\ Word(x6, 50 + 10) /\ x6[50 + 10] = Mark[1]
        /\ \A i \in 1 .. 50 : x6[i] = x5[i]
        /\ \A i \in 1 .. 9 : x6[50 + i] = f[i]
    BY <1>2, <1>8, OneMore DEF x6
  <2>. QED  BY <2>1, <1>2, 50 + 10 = 60
<1>10. CASE n \in 0 .. 9
  <2>1. x6[n + 1] = x1[n + 1]
    BY <1>10, <1>5, <1>6, <1>7, <1>8, <1>9
  <2>2. n \in 1 .. 8 => x1[1 + n] = Bit(Number(0, t), 8 - n)
    BY <1>1, <1>4 DEF Spells
  <2>3. n \in 1 .. 8 => n \div 10 = 0 /\ n % 10 = n
    OBVIOUS
  <2>4. n = 0 \/ n \in 1 .. 8 \/ n = 9
    BY <1>10
  <2>. QED  BY <1>3, <1>4, <2>1, <2>2, <2>3, <2>4 DEF SymbolAt
<1>11. CASE n \in 10 .. 19
  <2>1. x6[n + 1] = x2[n + 1]
    BY <1>11, <1>6, <1>7, <1>8, <1>9
  <2>2. ASSUME n \in 10 .. 18 PROVE x2[n + 1] = Bit(Number(1, t), 8 - (n % 10))
    <3>1. n - 9 \in 1 .. 9 /\ n + 1 = 10 + (n - 9) /\ 9 - (n - 9) = 8 - (n % 10)
      BY <2>2
    <3>2. b[n - 9] = Bit(Number(1, t), 9 - (n - 9))
      BY <3>1, <1>1 DEF Spells
    <3>. QED  BY <3>1, <3>2, <1>5
  <2>3. n \in 10 .. 18 => n \div 10 = 1 /\ n % 10 # 9
    OBVIOUS
  <2>4. n \in 10 .. 18 \/ n = 19
    BY <1>11
  <2>. QED  BY <1>3, <1>5, <2>1, <2>2, <2>3, <2>4 DEF SymbolAt
<1>12. CASE n \in 20 .. 29
  <2>1. x6[n + 1] = x3[n + 1]
    BY <1>12, <1>7, <1>8, <1>9
  <2>2. ASSUME n \in 20 .. 28 PROVE x3[n + 1] = Bit(Number(2, t), 8 - (n % 10))
    <3>1. n - 19 \in 1 .. 9 /\ n + 1 = 20 + (n - 19) /\ 9 - (n - 19) = 8 - (n % 10)
      BY <2>2
    <3>2. c[n - 19] = Bit(Number(2, t), 9 - (n - 19))
      BY <3>1, <1>1 DEF Spells
    <3>. QED  BY <3>1, <3>2, <1>6
  <2>3. n \in 20 .. 28 => n \div 10 = 2 /\ n % 10 # 9
    OBVIOUS
  <2>4. n \in 20 .. 28 \/ n = 29
    BY <1>12
  <2>. QED  BY <1>3, <1>6, <2>1, <2>2, <2>3, <2>4 DEF SymbolAt
<1>13. CASE n \in 30 .. 39
  <2>1. x6[n + 1] = x4[n + 1]
    BY <1>13, <1>8, <1>9
  <2>2. ASSUME n \in 30 .. 38 PROVE x4[n + 1] = Bit(Number(3, t), 8 - (n % 10))
    <3>1. n - 29 \in 1 .. 9 /\ n + 1 = 30 + (n - 29) /\ 9 - (n - 29) = 8 - (n % 10)
      BY <2>2
    <3>2. d[n - 29] = Bit(Number(3, t), 9 - (n - 29))
      BY <3>1, <1>1 DEF Spells
    <3>. QED  BY <3>1, <3>2, <1>7
  <2>3. n \in 30 .. 38 => n \div 10 = 3 /\ n % 10 # 9
    OBVIOUS
  <2>4. n \in 30 .. 38 \/ n = 39
    BY <1>13
  <2>. QED  BY <1>3, <1>7, <2>1, <2>2, <2>3, <2>4 DEF SymbolAt
<1>14. CASE n \in 40 .. 49
  <2>1. x6[n + 1] = x5[n + 1]
    BY <1>14, <1>9
  <2>2. ASSUME n \in 40 .. 48 PROVE x5[n + 1] = Bit(Number(4, t), 8 - (n % 10))
    <3>1. n - 39 \in 1 .. 9 /\ n + 1 = 40 + (n - 39) /\ 9 - (n - 39) = 8 - (n % 10)
      BY <2>2
    <3>2. e[n - 39] = Bit(Number(4, t), 9 - (n - 39))
      BY <3>1, <1>1 DEF Spells
    <3>. QED  BY <3>1, <3>2, <1>8
  <2>3. n \in 40 .. 48 => n \div 10 = 4 /\ n % 10 # 9
    OBVIOUS
  <2>4. n \in 40 .. 48 \/ n = 49
    BY <1>14
  <2>. QED  BY <1>3, <1>8, <2>1, <2>2, <2>3, <2>4 DEF SymbolAt
<1>15. CASE n \in 50 .. 59
  <2>1. x6[n + 1] = x6[n + 1]
    BY <1>15
  <2>2. ASSUME n \in 50 .. 58 PROVE x6[n + 1] = Bit(Number(5, t), 8 - (n % 10))
    <3>1. n - 49 \in 1 .. 9 /\ n + 1 = 50 + (n - 49) /\ 9 - (n - 49) = 8 - (n % 10)
      BY <2>2
    <3>2. f[n - 49] = Bit(Number(5, t), 9 - (n - 49))
      BY <3>1, <1>1 DEF Spells
    <3>. QED  BY <3>1, <3>2, <1>9
  <2>3. n \in 50 .. 58 => n \div 10 = 5 /\ n % 10 # 9
    OBVIOUS
  <2>4. n \in 50 .. 58 \/ n = 59
    BY <1>15
  <2>. QED  BY <1>3, <1>9, <2>1, <2>2, <2>3, <2>4 DEF SymbolAt
<1>. QED  BY <1>10, <1>11, <1>12, <1>13, <1>14, <1>15

-----------------------------------------------------------------------------
(* The days of a common year before each month, January first.              *)
FirstOf == <<0, 31, 59, 90, 120, 151, 181, 212, 243, 273, 304, 334>>

LEMMA FirstDays ==
    /\ FirstOf[1] = 0 /\ FirstOf[2] = 31 /\ FirstOf[3] = 59 /\ FirstOf[4] = 90
    /\ FirstOf[5] = 120 /\ FirstOf[6] = 151 /\ FirstOf[7] = 181 /\ FirstOf[8] = 212
    /\ FirstOf[9] = 243 /\ FirstOf[10] = 273 /\ FirstOf[11] = 304 /\ FirstOf[12] = 334
BY DEF FirstOf

LEMMA MonthLengths ==
    /\ daysinmonth[1] = 31 /\ daysinmonth[2] = 28 /\ daysinmonth[3] = 31 /\ daysinmonth[4] = 30
    /\ daysinmonth[5] = 31 /\ daysinmonth[6] = 30 /\ daysinmonth[7] = 31 /\ daysinmonth[8] = 31
    /\ daysinmonth[9] = 30 /\ daysinmonth[10] = 31 /\ daysinmonth[11] = 30
    /\ daysinmonth[12] = 31
BY DEF daysinmonth

LEMMA TwelveMonths ==
    \A m \in Months : m = 1 \/ m = 2 \/ m = 3 \/ m = 4 \/ m = 5 \/ m = 6 \/ m = 7 \/ m = 8
                      \/ m = 9 \/ m = 10 \/ m = 11 \/ m = 12
BY DEF Months

LEMMA NextMonth ==
    \A m \in 1 .. 11 : /\ FirstOf[m + 1] = FirstOf[m] + daysinmonth[m]
                       /\ FirstOf[m] \in 0 .. 304 /\ daysinmonth[m] \in 28 .. 31
<1>. SUFFICES ASSUME NEW m \in 1 .. 11
              PROVE  /\ FirstOf[m + 1] = FirstOf[m] + daysinmonth[m]
                     /\ FirstOf[m] \in 0 .. 304 /\ daysinmonth[m] \in 28 .. 31
  OBVIOUS
<1>1. m = 1 \/ m = 2 \/ m = 3 \/ m = 4 \/ m = 5 \/ m = 6 \/ m = 7 \/ m = 8
      \/ m = 9 \/ m = 10 \/ m = 11
  OBVIOUS
<1>. QED  BY <1>1, FirstDays, MonthLengths

(* What the loop of jjy_doytomonth() comes to a month with.                 *)
LEMMA DaysBeforeIs ==
    ASSUME NEW leap \in BOOLEAN
    PROVE  \A m \in Months : DaysBefore(leap)[m] = FirstOf[m] + (IF leap /\ m > 3 THEN 1 ELSE 0)
<1>. DEFINE Leaped(m) == IF leap /\ m > 3 THEN 1 ELSE 0
            Added(k)  == IF leap /\ k = LeapMonth THEN 1 ELSE 0
            Days(f) == [m \in Months |->
                 IF m = 1 THEN 0
                 ELSE f[m - 1] + daysinmonth[m - 1] + (IF leap /\ m - 1 = LeapMonth THEN 1 ELSE 0)]
            days == [m \in Months |-> FirstOf[m] + Leaped(m)]
<1>1. ASSUME NEW k \in 1 .. 11
      PROVE  FirstOf[k + 1] + Leaped(k + 1) = FirstOf[k] + Leaped(k) + daysinmonth[k] + Added(k)
  <2>1. Leaped(k + 1) = Leaped(k) + Added(k) /\ Leaped(k) \in 0 .. 1 /\ Added(k) \in 0 .. 1
    BY DEF LeapMonth
  <2>2. /\ FirstOf[k + 1] = FirstOf[k] + daysinmonth[k]
        /\ FirstOf[k] \in 0 .. 304 /\ daysinmonth[k] \in 28 .. 31
    BY NextMonth
  <2>. HIDE DEF Leaped, Added
  <2>. QED  BY <2>1, <2>2
<1>2. FirstOf[1] + Leaped(1) = 0
  BY FirstDays
<1>3. ASSUME NEW m \in Months, m # 1
      PROVE  \E k \in 1 .. 11 : k = m - 1 /\ m = k + 1 /\ k \in Months
  BY <1>3 DEF Months
<1>4. days = Days(days)
  <2>1. ASSUME NEW m \in Months
        PROVE  days[m] = Days(days)[m]
    <3>1. CASE m = 1
      BY <1>2, <3>1
    <3>2. CASE m # 1
      <4>1. PICK k \in 1 .. 11 : k = m - 1 /\ m = k + 1 /\ k \in Months
        BY <1>3, <3>2
      <4>2. days[m] = FirstOf[k + 1] + Leaped(k + 1) /\ days[k] = FirstOf[k] + Leaped(k)
        BY <4>1
      <4>3. Days(days)[m] = days[k] + daysinmonth[k] + Added(k)
        BY <3>2, <4>1
      <4>. HIDE DEF days, Days, Leaped, Added
      <4>. QED  BY <1>1, <4>2, <4>3
    <3>. QED  BY <3>1, <3>2
  <2>. QED  BY <2>1
<1>5. DaysBefore(leap) = CHOOSE f : f = Days(f)
  BY DEF DaysBefore
<1>6. PICK f : f = Days(f) /\ f = DaysBefore(leap)
  BY <1>4, <1>5
<1>. DEFINE Right(m) == f[m] = FirstOf[m] + Leaped(m)
<1>7. Right(1)
  <2>1. f[1] = 0
    BY <1>6 DEF Months
  <2>. QED  BY <1>2, <2>1
<1>8. ASSUME NEW k \in 1 .. 11, Right(k)
      PROVE  Right(k + 1)
  <2>1. k + 1 \in Months /\ k + 1 # 1 /\ (k + 1) - 1 = k
    BY DEF Months
  <2>2. f[k + 1] = f[k] + daysinmonth[k] + Added(k)
    BY <1>6, <2>1
  <2>. HIDE DEF Days, Leaped, Added
  <2>. QED  BY <1>1, <1>8, <2>2
<1>. HIDE DEF Right
<1>9. Right(2) /\ Right(3) /\ Right(4)
  <2>1. Right(1 + 1)
    BY <1>7, <1>8
  <2>2. Right(2 + 1)
    BY <1>8, <2>1
  <2>3. Right(3 + 1)
    BY <1>8, <2>2
  <2>. QED  BY <2>1, <2>2, <2>3
<1>10. Right(5) /\ Right(6) /\ Right(7) /\ Right(8)
  <2>1. Right(4 + 1)
    BY <1>9, <1>8
  <2>2. Right(5 + 1)
    BY <1>8, <2>1
  <2>3. Right(6 + 1)
    BY <1>8, <2>2
  <2>4. Right(7 + 1)
    BY <1>8, <2>3
  <2>. QED  BY <2>1, <2>2, <2>3, <2>4
<1>11. Right(9) /\ Right(10) /\ Right(11) /\ Right(12)
  <2>1. Right(8 + 1)
    BY <1>10, <1>8
  <2>2. Right(9 + 1)
    BY <1>8, <2>1
  <2>3. Right(10 + 1)
    BY <1>8, <2>2
  <2>4. Right(11 + 1)
    BY <1>8, <2>3
  <2>. QED  BY <2>1, <2>2, <2>3, <2>4
<1>12. \A m \in Months : Right(m)
  BY <1>7, <1>9, <1>10, <1>11, TwelveMonths
<1>. QED  BY <1>6, <1>12 DEF Right

(* The days of the calendar before each month, January 0.                   *)
LEMMA OrdinalIs ==
    ASSUME NEW leap \in BOOLEAN, NEW n \in 0 .. 11, NEW d \in Nat
    PROVE  Ordinal(<<n, d>>, leap) = (FirstOf[n + 1] + (IF leap /\ n >= 2 THEN 1 ELSE 0) + d) - 1
<1>. DEFINE Leaped(m) == IF leap /\ m >= 2 THEN 1 ELSE 0
            Days(f) == [m \in 0 .. 11 |-> IF m = 0 THEN 0 ELSE f[m - 1] + DaysIn(m - 1, leap)]
            days == [m \in 0 .. 11 |-> FirstOf[m + 1] + Leaped(m)]
<1>1. ASSUME NEW k \in 0 .. 10
      PROVE  FirstOf[(k + 1) + 1] + Leaped(k + 1) = FirstOf[k + 1] + Leaped(k) + DaysIn(k, leap)
  <2>1. PICK j \in 1 .. 11 : j = k + 1
    OBVIOUS
  <2>2. /\ FirstOf[(k + 1) + 1] = FirstOf[k + 1] + daysinmonth[k + 1]
        /\ FirstOf[k + 1] \in 0 .. 304 /\ daysinmonth[k + 1] \in 28 .. 31
    BY <2>1, NextMonth
  <2>3. CASE k = 1
    BY <2>2, <2>3, MonthLengths DEF DaysIn
  <2>4. CASE k # 1
    <3>1. DaysIn(k, leap) = daysinmonth[k + 1] /\ Leaped(k + 1) = Leaped(k) /\ Leaped(k) \in 0 .. 1
      BY <2>4 DEF DaysIn
    <3>. HIDE DEF Leaped
    <3>. QED  BY <2>2, <3>1
  <2>. QED  BY <2>3, <2>4
<1>2. FirstOf[0 + 1] + Leaped(0) = 0
  BY FirstDays
<1>3. days = Days(days)
  <2>1. ASSUME NEW m \in 0 .. 11
        PROVE  days[m] = Days(days)[m]
    <3>1. CASE m = 0
      BY <1>2, <3>1
    <3>2. CASE m # 0
      <4>1. PICK k \in 0 .. 10 : k = m - 1 /\ m = k + 1 /\ k \in 0 .. 11
        BY <3>2
      <4>2. days[m] = FirstOf[(k + 1) + 1] + Leaped(k + 1) /\ days[k] = FirstOf[k + 1] + Leaped(k)
        BY <4>1
      <4>3. Days(days)[m] = days[k] + DaysIn(k, leap)
        BY <3>2, <4>1
      <4>. HIDE DEF days, Days, Leaped
      <4>. QED  BY <1>1, <4>2, <4>3
    <3>. QED  BY <3>1, <3>2
  <2>. QED  BY <2>1
<1>4. PICK f : f = Days(f) /\ f = CHOOSE g : g = Days(g)
  BY <1>3
<1>5. Ordinal(<<n, d>>, leap) = f[n] + (d - 1)
  BY <1>4 DEF Ordinal
<1>. DEFINE Right(m) == f[m] = FirstOf[m + 1] + Leaped(m)
<1>6. Right(0)
  <2>1. f[0] = 0
    BY <1>4
  <2>. QED  BY <1>2, <2>1
<1>7. ASSUME NEW k \in 0 .. 10, Right(k)
      PROVE  Right(k + 1)
  <2>1. k + 1 \in 0 .. 11 /\ k + 1 # 0 /\ (k + 1) - 1 = k
    OBVIOUS
  <2>2. f[k + 1] = f[k] + DaysIn(k, leap)
    BY <1>4, <2>1
  <2>. HIDE DEF Days, Leaped
  <2>. QED  BY <1>1, <1>7, <2>2
<1>. HIDE DEF Right
<1>8. Right(1) /\ Right(2) /\ Right(3) /\ Right(4)
  <2>1. Right(0 + 1)
    BY <1>6, <1>7
  <2>2. Right(1 + 1)
    BY <1>7, <2>1
  <2>3. Right(2 + 1)
    BY <1>7, <2>2
  <2>4. Right(3 + 1)
    BY <1>7, <2>3
  <2>. QED  BY <2>1, <2>2, <2>3, <2>4
<1>9. Right(5) /\ Right(6) /\ Right(7) /\ Right(8)
  <2>1. Right(4 + 1)
    BY <1>7, <1>8
  <2>2. Right(5 + 1)
    BY <1>7, <2>1
  <2>3. Right(6 + 1)
    BY <1>7, <2>2
  <2>4. Right(7 + 1)
    BY <1>7, <2>3
  <2>. QED  BY <2>1, <2>2, <2>3, <2>4
<1>10. Right(9) /\ Right(10) /\ Right(11)
  <2>1. Right(8 + 1)
    BY <1>7, <1>9
  <2>2. Right(9 + 1)
    BY <1>7, <2>1
  <2>3. Right(10 + 1)
    BY <1>7, <2>2
  <2>. QED  BY <2>1, <2>2, <2>3
<1>11. Right(n)
  <2>1. n = 0 \/ n = 1 \/ n = 2 \/ n = 3 \/ n = 4 \/ n = 5 \/ n = 6 \/ n = 7 \/ n = 8 \/ n = 9
        \/ n = 10 \/ n = 11
    OBVIOUS
  <2>. QED  BY <2>1, <1>6, <1>8, <1>9, <1>10
<1>12. Leaped(n) \in 0 .. 1
  OBVIOUS
<1>13. FirstOf[n + 1] \in Nat
  BY FirstDays, TwelveMonths, n + 1 \in Months DEF Months
<1>14. Ordinal(<<n, d>>, leap) = (FirstOf[n + 1] + Leaped(n) + d) - 1
  <2>. HIDE DEF Leaped
  <2>. QED  BY <1>5, <1>11, <1>12, <1>13 DEF Right
<1>. QED  BY <1>14

(* Where the month of a day of the year ends, as the loop has it.           *)
LEMMA MonthEnds ==
    ASSUME NEW leap \in BOOLEAN, NEW l \in 0 .. 1, l = IF leap THEN 1 ELSE 0
    PROVE  LET before == DaysBefore(leap)
           IN  /\ before[1] = 0 /\ before[2] = 31 /\ before[3] = 59 /\ before[4] = 90 + l
               /\ before[5] = 120 + l /\ before[6] = 151 + l /\ before[7] = 181 + l
               /\ before[8] = 212 + l /\ before[9] = 243 + l /\ before[10] = 273 + l
               /\ before[11] = 304 + l /\ before[12] = 334 + l
<1>. DEFINE before == DaysBefore(leap)
<1>1. \A m \in Months : before[m] = FirstOf[m] + (IF leap /\ m > 3 THEN 1 ELSE 0)
  BY DaysBeforeIs
<1>2. before[1] = FirstOf[1] + 0 /\ before[2] = FirstOf[2] + 0 /\ before[3] = FirstOf[3] + 0
  BY <1>1 DEF Months
<1>3. /\ before[4] = FirstOf[4] + l /\ before[5] = FirstOf[5] + l /\ before[6] = FirstOf[6] + l
      /\ before[7] = FirstOf[7] + l /\ before[8] = FirstOf[8] + l /\ before[9] = FirstOf[9] + l
      /\ before[10] = FirstOf[10] + l /\ before[11] = FirstOf[11] + l
      /\ before[12] = FirstOf[12] + l
  BY <1>1 DEF Months
<1>. HIDE DEF before
<1>4. QED  BY <1>2, <1>3, FirstDays DEF before

(* The month is the first that ends after the day.                          *)
FirstAfter(d, leap, m) ==
    /\ jjy_doytomonth(d, leap) = <<m - 1, d - DaysBefore(leap)[m] + 1>>
    /\ d < DaysBefore(leap)[m] + daysinmonth[m]
    /\ \A k \in Months : k < m => ~(d < DaysBefore(leap)[k] + daysinmonth[k])

LEMMA MonthFound ==
    ASSUME NEW d \in 0 .. 365, NEW leap \in BOOLEAN, d = 365 => leap
    PROVE  \E m \in Months : FirstAfter(d, leap, m)
<1>. DEFINE before == DaysBefore(leap)
            Fits(m) == d < before[m] + daysinmonth[m]
            Found(m) == Fits(m) /\ \A k \in 1 .. m - 1 : ~Fits(k)
<1>1. PICK l \in 0 .. 1 : l = IF leap THEN 1 ELSE 0
  OBVIOUS
<1>2. /\ before[1] = 0 /\ before[2] = 31 /\ before[3] = 59 /\ before[4] = 90 + l
      /\ before[5] = 120 + l /\ before[6] = 151 + l /\ before[7] = 181 + l
      /\ before[8] = 212 + l /\ before[9] = 243 + l /\ before[10] = 273 + l
      /\ before[11] = 304 + l /\ before[12] = 334 + l
  BY <1>1, MonthEnds
<1>. HIDE DEF before
<1>3. /\ (Fits(1) <=> d < 31) /\ (Fits(2) <=> d < 59) /\ (Fits(3) <=> d < 90)
      /\ (Fits(4) <=> d < 120 + l) /\ (Fits(5) <=> d < 151 + l) /\ (Fits(6) <=> d < 181 + l)
  BY <1>2, MonthLengths
<1>8. /\ (Fits(7) <=> d < 212 + l) /\ (Fits(8) <=> d < 243 + l) /\ (Fits(9) <=> d < 273 + l)
      /\ (Fits(10) <=> d < 304 + l) /\ (Fits(11) <=> d < 334 + l)
      /\ (Fits(12) <=> d < 365 + l)
  BY <1>2, MonthLengths
<1>. HIDE DEF Fits
<1>4. d < 365 + l
  BY <1>1
<1>5. \E m \in Months : Found(m)
  <2>1. Fits(12) /\ 12 \in Months
    BY <1>8, <1>4 DEF Months
  <2>2. PICK m \in Months : Fits(m) /\ \A k \in Months : k < m => ~Fits(k)
    BY <1>3, <1>8, <2>1, TwelveMonths DEF Months
  <2>. QED  BY <2>2 DEF Months
<1>6. PICK m \in Months : Found(m) /\ m = CHOOSE k \in Months : Found(k)
  BY <1>5
<1>7. jjy_doytomonth(d, leap) = <<m - 1, d - before[m] + 1>>
  BY <1>5, <1>6 DEF jjy_doytomonth, before, Fits
<1>9. Fits(m) /\ \A k \in Months : k < m => ~Fits(k)
  BY <1>6 DEF Months
<1>. QED  BY <1>7, <1>9 DEF before, Fits, FirstAfter

(* jjy.c:33-48 gives the day of the year its date, but for the days between *)
(* the leap day and the one that is added (jjy.c:42).                       *)
LEMMA DatesAreRight ==
    ASSUME NEW d \in 0 .. 365, NEW leap \in BOOLEAN, d = 365 => leap,
           leap => d \notin 59 .. 90
    PROVE  IsDateOf(jjy_doytomonth(d, leap), d, leap)
<1>. DEFINE before == DaysBefore(leap)
<1>1. PICK l \in 0 .. 1 : l = IF leap THEN 1 ELSE 0
  OBVIOUS
<1>0. PICK m \in Months : FirstAfter(d, leap, m)
  BY MonthFound
<1>2. /\ jjy_doytomonth(d, leap) = <<m - 1, d - before[m] + 1>>
      /\ d < before[m] + daysinmonth[m]
      /\ \A k \in Months : k < m => ~(d < before[k] + daysinmonth[k])
  BY <1>0 DEF FirstAfter
<1>3. /\ before[1] = 0 /\ before[2] = 31 /\ before[3] = 59 /\ before[4] = 90 + l
      /\ before[5] = 120 + l /\ before[6] = 151 + l /\ before[7] = 181 + l
      /\ before[8] = 212 + l /\ before[9] = 243 + l /\ before[10] = 273 + l
      /\ before[11] = 304 + l /\ before[12] = 334 + l
  BY <1>1, MonthEnds
<1>. HIDE DEF before
<1>4. PICK o \in 0 .. 1 : o = (IF leap /\ m >= 3 THEN 1 ELSE 0)
  OBVIOUS
<1>5. before[m] = FirstOf[m] + o /\ FirstOf[m] + o <= d
  <2>1. CASE m = 1
    BY <1>3, <1>4, <2>1, FirstDays
  <2>2. CASE m = 2
    <3>1. ~(d < 31)
      BY <1>2, <1>3, <2>2, MonthLengths DEF Months
    <3>. QED  BY <1>3, <1>4, <2>2, <3>1, FirstDays
  <2>3. CASE m = 3
    <3>1. ~(d < 59) /\ d < 90
      BY <1>2, <1>3, <2>3, MonthLengths DEF Months
    <3>. QED  BY <1>3, <1>4, <2>3, <3>1, FirstDays
  <2>4. CASE m \in {4, 5, 6, 7}
    <3>1. o = l /\ ~(d < 90)
      BY <1>1, <1>2, <1>3, <1>4, <2>4, MonthLengths DEF Months
    <3>2. /\ m = 5 => ~(d < 120 + l)
          /\ m = 6 => ~(d < 151 + l)
          /\ m = 7 => ~(d < 181 + l)
      BY <1>2, <1>3, <2>4, MonthLengths DEF Months
    <3>3. 90 + l <= d
      BY <1>1, <3>1
    <3>. QED  BY <1>3, <2>4, <3>1, <3>2, <3>3, FirstDays
  <2>5. CASE m \in {8, 9, 10, 11, 12}
    <3>1. o = l
      BY <1>1, <1>4, <2>5
    <3>2. /\ m = 8 => ~(d < 212 + l)
          /\ m = 9 => ~(d < 243 + l)
      BY <1>2, <1>3, <2>5, MonthLengths DEF Months
    <3>3. /\ m = 10 => ~(d < 273 + l)
          /\ m = 11 => ~(d < 304 + l)
          /\ m = 12 => ~(d < 334 + l)
      BY <1>2, <1>3, <2>5, MonthLengths DEF Months
    <3>. QED  BY <1>3, <2>5, <3>1, <3>2, <3>3, FirstDays
  <2>. QED  BY <2>1, <2>2, <2>3, <2>4, <2>5, TwelveMonths
<1>6. FirstOf[m] \in Nat /\ daysinmonth[m] \in Nat
  BY TwelveMonths, FirstDays, MonthLengths
<1>7. PICK n \in 0 .. 11, day \in Nat :
         n = m - 1 /\ day = (d - before[m]) + 1 /\ day >= 1 /\ day <= daysinmonth[m]
         /\ m = n + 1
  <2>1. m - 1 \in 0 .. 11 /\ m = (m - 1) + 1
    BY DEF Months
  <2>2. before[m] \in Nat /\ before[m] <= d
    BY <1>5, <1>6
  <2>. QED  BY <1>2, <1>6, <2>1, <2>2
<1>8. jjy_doytomonth(d, leap) = <<n, day>>
  BY <1>2, <1>7
<1>9. day \in 1 .. DaysIn(n, leap)
  <2>1. daysinmonth[2] = 28
    BY MonthLengths
  <2>2. n = 1 => m = 2
    BY <1>7
  <2>. QED  BY <1>6, <1>7, <2>1, <2>2 DEF DaysIn
<1>10. Ordinal(<<n, day>>, leap) = (FirstOf[m] + o + day) - 1
  <2>1. o = (IF leap /\ n >= 2 THEN 1 ELSE 0)
    BY <1>4, <1>7
  <2>. QED  BY <1>7, <2>1, OrdinalIs
<1>11. (FirstOf[m] + o + day) - 1 = d
  BY <1>5, <1>6, <1>7
<1>. QED  BY <1>7, <1>8, <1>9, <1>10, <1>11 DEF IsDateOf

(* From 29 February to 31 March of a leap year it does not: the day is      *)
(* given the date of the next, and the last of them that of no day.         *)
LEMMA DatesAreWrong ==
    ASSUME NEW d \in 59 .. 90, NEW leap \in BOOLEAN,
           NEW l \in 0 .. 1, l = (IF leap THEN 1 ELSE 0), l = 1
    PROVE  ~IsDateOf(jjy_doytomonth(d, leap), d, leap)
<1>. DEFINE before == DaysBefore(leap)
<1>0. PICK m \in Months : FirstAfter(d, leap, m)
  <2>1. d \in 0 .. 365
    OBVIOUS
  <2>. QED  BY <2>1, MonthFound
<1>2. /\ jjy_doytomonth(d, leap) = <<m - 1, d - before[m] + 1>>
      /\ d < before[m] + daysinmonth[m]
      /\ \A k \in Months : k < m => ~(d < before[k] + daysinmonth[k])
  BY <1>0 DEF FirstAfter
<1>3. before[1] = 0 /\ before[2] = 31 /\ before[3] = 59 /\ before[4] = 91
  <2>1. before[1] = 0 /\ before[2] = 31 /\ before[3] = 59 /\ before[4] = 90 + l
    BY MonthEnds
  <2>. HIDE DEF before
  <2>. QED  BY <2>1
<1>. HIDE DEF before
<1>4. CASE d < 90
  <2>1. m = 3
    <3>1. m # 1 /\ m # 2
      BY <1>2, <1>3, MonthLengths
    <3>2. ~(m > 3)
      BY <1>2, <1>3, <1>4, MonthLengths DEF Months
    <3>. QED  BY <3>1, <3>2 DEF Months
  <2>2. PICK day \in Nat : day = (d - 59) + 1
    OBVIOUS
  <2>3. jjy_doytomonth(d, leap) = <<2, day>>
    BY <1>2, <1>3, <2>1, <2>2
  <2>4. Ordinal(<<2, day>>, leap) = (59 + 1 + day) - 1
    <3>1. PICK n \in 0 .. 11 : n = 2 /\ n + 1 = 3
      OBVIOUS
    <3>2. Ordinal(<<n, day>>, leap) = (FirstOf[n + 1] + (IF leap /\ n >= 2 THEN 1 ELSE 0) + day) - 1
      BY OrdinalIs
    <3>. QED  BY <3>1, <3>2, FirstDays
  <2>5. Ordinal(<<2, day>>, leap) # d
    BY <2>2, <2>4
  <2>. QED  BY <2>3, <2>5 DEF IsDateOf
<1>5. CASE d = 90
  <2>1. m = 4
    <3>1. m # 1 /\ m # 2 /\ m # 3
      BY <1>2, <1>3, <1>5, MonthLengths
    <3>2. ~(m > 4)
      BY <1>2, <1>3, <1>5, MonthLengths DEF Months
    <3>. QED  BY <3>1, <3>2 DEF Months
  <2>2. jjy_doytomonth(d, leap) = <<3, 0>>
    BY <1>2, <1>3, <1>5, <2>1
  <2>3. 0 \notin 1 .. DaysIn(3, leap)
    OBVIOUS
  <2>. QED  BY <2>2, <2>3 DEF IsDateOf
<1>6. d < 90 \/ d = 90
  OBVIOUS
<1>. QED  BY <1>4, <1>5, <1>6

-----------------------------------------------------------------------------
(* Only data symbols are misread, and never so many samples of a second     *)
(* that one of them looks like a mark.                                      *)
Readable == Damages \subseteq {"zero", "one"} /\ Burst <= 2

Running == index <= Len(sent.times)
Now     == sent.times[index]

(* The second under way: the samples as they were sent, but for the slips.  *)
HighsSent == IF tick < Highs(Sending) THEN tick ELSE Highs(Sending)
LowsSent  == tick - HighsSent

Second ==
    /\ samples = tick
    /\ tick = 0 => highs = 0 /\ lows = 0 /\ slips = 0
    /\ clean => slips = 0
    /\ Running =>
          /\ HighsSent - slips <= highs /\ highs <= HighsSent + slips
          /\ LowsSent - slips <= lows   /\ lows <= LowsSent + slips
          /\ Sending = "mark" => slips = 0
    /\ ~Running => tick = 0 /\ sec = 0

(* No mark is lost and none is added, whatever is damaged.                  *)
Minute ==
    /\ marks = IF sec = 0 THEN 0 ELSE (sec \div 10) + 1
    /\ sec <= 9 => ~alt
    /\ sec = 0 => bits = 0 /\ bitsuntilnextmark = 0

(* In an undamaged minute bits holds the digits of the block so far, and    *)
(* the fields what the blocks before spelled.                               *)
Block ==
    (clean /\ Running /\ sec > 0) =>
        /\ bitsuntilnextmark = 9 - (sec % 10)
        /\ bits = Number(sec \div 10, Now) \div Power(9 - (sec % 10))

Fields ==
    (clean /\ Running) =>
        /\ sec >= 10 => minutes = Now.min /\ alt = Alt(Now)
        /\ sec >= 20 => hours = Now.hour
        /\ sec \in 30 .. 39 => doy = (Now.yday \div 10) * 10
        /\ sec >= 40 => doy = Now.yday
        /\ sec >= 50 => (~Alt(Now) => year = Now.year)

Decoded ==
    (sec = 0 /\ index > 1 /\ lastclean) =>
        /\ minutes = Before.min /\ hours = Before.hour /\ doy = Before.yday
        /\ ~Alt(Before) => year = Before.year /\ dow = Before.wday

Ready == timeready <=> OnTheMinute

IInv == TypeOK /\ Second /\ Minute /\ Block /\ Fields /\ Decoded /\ Ready

-----------------------------------------------------------------------------
LEMMA SymbolCases ==
    ASSUME NEW h, NEW l
    PROVE  /\ Symbol(h, l) \in {"zero", "one", "mark", "none"}
           /\ Symbol(h, l) = "zero" <=> h = 8 /\ l = 2
           /\ Symbol(h, l) = "one" <=> h = 5 /\ l = 5
           /\ Symbol(h, l) = "mark" <=> h = 2 /\ l = 8
<1>. h = 8 => h # 5 /\ h # 2
  OBVIOUS
<1>. QED BY DEF Symbol

LEMMA BlockLengths ==
    /\ BlockLength \in {0, 8, 9}
    /\ marks = 0 => BlockLength = 8
    /\ marks \in 1 .. 5 => BlockLength = 9
    /\ marks = 6 => BlockLength = 0
<1>. 6 # 0 /\ \A m \in 1 .. 5 : m # 0 /\ m # 6
  OBVIOUS
<1>. QED BY DEF BlockLength

Sizes ==
    /\ bits < Power(9 - bitsuntilnextmark)
    /\ marks = 4 => doy <= 1650

LEMMA PowerUp == \A k \in 0 .. 8 : Power(k + 1) = 2 * Power(k) /\ Power(k) \in 1 .. 256
<1>. SUFFICES ASSUME NEW k \in 0 .. 8 PROVE Power(k + 1) = 2 * Power(k) /\ Power(k) \in 1 .. 256
  OBVIOUS
<1>1. k = 0 \/ k = 1 \/ k = 2 \/ k = 3 \/ k = 4 \/ k = 5 \/ k = 6 \/ k = 7 \/ k = 8
  OBVIOUS
<1>. QED  BY <1>1, Powers

(* All that the samples of a second do not touch.                           *)
RestTypes == MinuteTypeOK /\ TimeTypeOK /\ alt \in BOOLEAN /\ timeready \in BOOLEAN /\ Sizes

LEMMA RestStays ==
    ASSUME RestTypes, TimeGone, UNCHANGED <<block, minute, time>>
    PROVE  RestTypes'
<1>1. /\ bits' = bits /\ bitsuntilnextmark' = bitsuntilnextmark /\ marks' = marks /\ alt' = alt
      /\ minutes' = minutes /\ hours' = hours /\ doy' = doy /\ year' = year /\ dow' = dow
      /\ timeready' = FALSE
  BY DEF block, minute, time, TimeGone
<1>2. MinuteTypeOK' /\ TimeTypeOK' /\ Sizes'
  BY <1>1 DEF RestTypes, MinuteTypeOK, TimeTypeOK, Sizes
<1>. QED  BY <1>1, <1>2, Zenon DEF RestTypes

(* What a sample does to the types, whoever sends it.                       *)
LEMMA SampleTypes ==
    ASSUME SecondTypeOK, RestTypes, NEW v, jjy_addsample(v)
    PROVE  SecondTypeOK' /\ RestTypes'
<1>. USE DEF SAMPLESPERSECOND
<1>. DEFINE h == highs + (IF v = 1 THEN 1 ELSE 0)
            l == lows  + IF v = 0 THEN 1 ELSE 0
<1>1. h \in 0 .. 10 /\ l \in 0 .. 10 /\ h + l <= samples + 1
  BY DEF SecondTypeOK
<1>2. CASE samples + 1 < SAMPLESPERSECOND
  <2>1. samples' = samples + 1 /\ highs' = h /\ lows' = l /\ TimeGone
        /\ UNCHANGED <<block, minute, time>>
    BY <1>2 DEF jjy_addsample
  <2>. HIDE DEF h, l
  <2>2. SecondTypeOK'
    BY <1>1, <1>2, <2>1 DEF SecondTypeOK
  <2>. QED  BY <2>1, <2>2, RestStays
<1>3. CASE ~(samples + 1 < SAMPLESPERSECOND)
  <2>1. samples' = 0 /\ highs' = 0 /\ lows' = 0 /\ Decode(Symbol(h, l))
    BY <1>3 DEF jjy_addsample
  <2>2. SecondTypeOK'
    BY <2>1 DEF SecondTypeOK
  <2>3. ASSUME NEW b \in 0 .. 1, jjy_bit(b)
        PROVE  RestTypes'
    <3>1. CASE bitsuntilnextmark = 0
      BY <2>3, <3>1, RestStays DEF jjy_bit
    <3>2. CASE bitsuntilnextmark # 0
      <4>1. bits' = (bits * 2) + b /\ bitsuntilnextmark' = bitsuntilnextmark - 1 /\ TimeGone
            /\ UNCHANGED <<minute, time>>
        BY <2>3, <3>2 DEF jjy_bit
      <4>2. /\ bits \in 0 .. 511 /\ bitsuntilnextmark \in 1 .. 9 /\ marks \in 0 .. 6
            /\ bits < Power(9 - bitsuntilnextmark)
        BY <3>2 DEF RestTypes, MinuteTypeOK, Sizes
      <4>3. 9 - bitsuntilnextmark \in 0 .. 8
            /\ 9 - bitsuntilnextmark' = (9 - bitsuntilnextmark) + 1
        BY <4>1, <4>2
      <4>4. bits' < Power(9 - bitsuntilnextmark') /\ bits' \in 0 .. 511
        <5>. DEFINE P == Power(9 - bitsuntilnextmark)
        <5>1. Power(9 - bitsuntilnextmark') = 2 * P /\ P \in 1 .. 256
          BY <4>3, PowerUp
        <5>. HIDE DEF P
        <5>2. bits < P
          BY <4>2 DEF P
        <5>. QED  BY <4>1, <4>2, <5>1, <5>2
      <4>5. /\ marks' = marks /\ alt' = alt /\ minutes' = minutes /\ hours' = hours
            /\ doy' = doy /\ year' = year /\ dow' = dow /\ timeready' = FALSE
        BY <4>1 DEF minute, time, TimeGone
      <4>6. MinuteTypeOK'
        BY <4>1, <4>2, <4>4, <4>5 DEF MinuteTypeOK
      <4>7. TimeTypeOK' /\ Sizes'
        BY <4>4, <4>5 DEF RestTypes, TimeTypeOK, Sizes
      <4>. QED  BY <4>5, <4>6, <4>7, Zenon DEF RestTypes
    <3>. QED  BY <3>1, <3>2
  <2>4. ASSUME jjy_mark PROVE RestTypes'
    <3>1. /\ bits' = 0 /\ marks' = (marks + 1) % 7 /\ bitsuntilnextmark' = BlockLength
      BY <2>4 DEF jjy_mark, NoBits
    <3>2. timeready' \in BOOLEAN
      BY <2>4 DEF jjy_mark
    <3>3. /\ Low4 \in 0 .. 15 /\ Above5 \in 0 .. 15 /\ (bits \div 16) % 16 \in 0 .. 15
          /\ (bits \div 64) % 8 \in 0 .. 7 /\ Above5 % 16 \in 0 .. 15
      BY DEF RestTypes, MinuteTypeOK, Low4, Above5
    <3>4. bitsuntilnextmark' \in 0 .. 9 /\ 0 < Power(9 - bitsuntilnextmark')
      BY <3>1, BlockLengths, Powers
    <3>5. marks' \in 0 .. 6 /\ (marks' = 4 => marks = 3)
      BY <3>1 DEF RestTypes, MinuteTypeOK
    <3>6. TimeTypeOK' /\ (marks = 3 => doy' <= 1650)
      <4>. USE DEF TimeTypeOK
      <4>0. TimeTypeOK /\ Sizes
        BY DEF RestTypes
      <4>1. CASE FirstMark
        BY <4>0, <4>1 DEF FirstMark, time
      <4>2. CASE MinuteBlock
        BY <4>0, <4>2, <3>3 DEF MinuteBlock
      <4>3. CASE HourBlock
        BY <4>0, <4>3, <3>3 DEF HourBlock
      <4>4. CASE DayBlock
        BY <4>0, <4>4, <3>3 DEF DayBlock, Sizes
      <4>5. CASE YearBlock
        BY <4>0, <4>5, <3>3 DEF YearBlock
      <4>6. CASE WeekBlock
        <5>1. /\ minutes' = minutes /\ hours' = hours /\ doy' = doy /\ year' = year
              /\ dow' \in {dow, (bits \div 64) % 8} /\ marks = 6
          BY <4>6 DEF WeekBlock
        <5>. QED  BY <4>0, <5>1, <3>3
      <4>. QED  BY <2>4, <4>1, <4>2, <4>3, <4>4, <4>5, <4>6 DEF jjy_mark
    <3>7. alt' \in BOOLEAN
      BY <2>4 DEF RestTypes, jjy_mark, FirstMark, MinuteBlock, HourBlock, DayBlock, YearBlock,
                  WeekBlock
    <3>8. MinuteTypeOK' /\ Sizes'
      BY <3>1, <3>4, <3>5, <3>6 DEF MinuteTypeOK, Sizes
    <3>9. TimeTypeOK'
      BY <3>6
    <3>. QED  BY <3>2, <3>7, <3>8, <3>9, Zenon DEF RestTypes
  <2>5. RestTypes'
    BY <2>1, <2>3, <2>4, RestStays DEF Decode
  <2>. QED  BY <2>2, <2>5
<1>. QED  BY <1>2, <1>3

LEMMA InitTypes == Init => TypeOK /\ Sizes
<1>. SUFFICES ASSUME Init PROVE TypeOK /\ Sizes
  OBVIOUS
<1>1. DecoderTypeOK /\ Sizes
  <2>0. SecondTypeOK /\ MinuteTypeOK /\ TimeTypeOK
    BY DEF Init, DecoderInit, SecondTypeOK, MinuteTypeOK, TimeTypeOK, SAMPLESPERSECOND
  <2>1. DecoderTypeOK
    BY <2>0, Zenon DEF Init, DecoderInit, DecoderTypeOK
  <2>2. bits = 0 /\ bitsuntilnextmark = 0 /\ marks = 0
    BY DEF Init, DecoderInit
  <2>. QED  BY <2>1, <2>2, Powers DEF Sizes
<1>2. Len(sent.times) \in Nat /\ sent.faults \in Nat /\ sent \in Broadcast /\ Burst \in Nat
  BY JjyAssumption DEF Init
<1>. QED  BY <1>1, <1>2 DEF Init, TypeOK, SAMPLESPERSECOND

LEMMA NextTypes == TypeOK /\ Sizes /\ [Next]_vars => TypeOK' /\ Sizes'
<1>. SUFFICES ASSUME TypeOK, Sizes, [Next]_vars PROVE TypeOK' /\ Sizes'
  OBVIOUS
<1>1. Len(sent.times) \in Nat /\ sent.faults \in Nat /\ sent \in Broadcast /\ Burst \in Nat
  BY JjyAssumption DEF TypeOK
<1>2. ASSUME NEW v, NEW u \in BOOLEAN, index <= Len(sent.times), jjy_addsample(v), Advance(u),
             u \/ (faults < sent.faults /\ slips < Burst)
      PROVE  TypeOK' /\ Sizes'
  <2>1. DecoderTypeOK' /\ Sizes'
    <3>1. SecondTypeOK /\ RestTypes
      BY Zenon DEF TypeOK, DecoderTypeOK, RestTypes
    <3>2. SecondTypeOK' /\ RestTypes'
      BY <1>2, <3>1, SampleTypes
    <3>. QED  BY <3>2, Zenon DEF DecoderTypeOK, RestTypes
  <2>2. sent' = sent /\ index' \in 1 .. Len(sent.times) + 1 /\ sec' \in 0 .. 59 /\ tick' \in 0 .. 9
        /\ clean' \in BOOLEAN /\ lastclean' \in BOOLEAN
    BY <1>1, <1>2 DEF Advance, TypeOK, SAMPLESPERSECOND
  <2>3. faults' \in 0 .. sent.faults /\ slips' \in 0 .. Burst
    BY <1>1, <1>2 DEF Advance, TypeOK, SAMPLESPERSECOND
  <2>. QED  BY <1>1, <2>1, <2>2, <2>3 DEF TypeOK, SAMPLESPERSECOND
<1>3. CASE Heard
  BY <1>2, <1>3 DEF Heard
<1>4. CASE Misheard
  BY <1>2, <1>4 DEF Misheard
<1>5. CASE UNCHANGED vars
  <2>1. /\ samples' = samples /\ lows' = lows /\ highs' = highs /\ bits' = bits
        /\ bitsuntilnextmark' = bitsuntilnextmark /\ marks' = marks /\ alt' = alt
        /\ minutes' = minutes /\ hours' = hours /\ doy' = doy /\ year' = year /\ dow' = dow
        /\ timeready' = timeready
    BY <1>5 DEF vars, decoder
  <2>2. /\ sent' = sent /\ index' = index /\ sec' = sec /\ tick' = tick /\ faults' = faults
        /\ slips' = slips /\ clean' = clean /\ lastclean' = lastclean
    BY <1>5 DEF vars, station
  <2>3. SecondTypeOK' /\ MinuteTypeOK' /\ TimeTypeOK' /\ Sizes'
    BY <2>1 DEF TypeOK, DecoderTypeOK, SecondTypeOK, MinuteTypeOK, TimeTypeOK, Sizes
  <2>4. DecoderTypeOK'
    BY <2>1, <2>3, Zenon DEF TypeOK, DecoderTypeOK
  <2>5. /\ index' \in 1 .. Len(sent'.times) + 1 /\ sec' \in 0 .. 59
        /\ tick' \in 0 .. SAMPLESPERSECOND - 1
        /\ faults' \in 0 .. sent'.faults /\ slips' \in 0 .. Burst
    BY <2>2 DEF TypeOK
  <2>. QED  BY <2>2, <2>3, <2>4, <2>5, Zenon DEF TypeOK
<1>. QED  BY <1>3, <1>4, <1>5 DEF Next

-----------------------------------------------------------------------------
LEMMA SendingReads ==
    ASSUME TypeOK, Running
    PROVE  Now \in Time /\ Sending = SymbolAt(Now, sec) /\ Sending \in Symbols
<1>1. sent \in Broadcast /\ sent.times \in Seq(Time) /\ index \in DOMAIN sent.times /\ sec \in 0 .. 59
  BY JjyAssumption DEF TypeOK, Running
<1>2. Now \in Time /\ Now \in {sent.times[i] : i \in DOMAIN sent.times}
  BY <1>1 DEF Now
<1>3. Now \in Times
  BY <1>1, <1>2 DEF Times
<1>4. Sending = sendtime(Now)[sec + 1]
  BY <1>3 DEF Sending, Signal, Now
<1>5. Sending = SymbolAt(Now, sec)
  BY <1>1, <1>2, <1>4, SignalReads
<1>6. SymbolAt(Now, sec) \in Symbols
  BY DEF SymbolAt, Symbols, Bit
<1>. QED  BY <1>2, <1>5, <1>6

LEMMA SampleShares ==
    /\ Highs("zero") = 8 /\ Highs("one") = 5 /\ Highs("mark") = 2
BY DEF Highs

(* The symbol that the counts of a whole second are taken for.              *)
LEMMA HeardAs ==
    ASSUME NEW s \in Symbols, NEW h \in Nat, NEW l \in Nat, NEW slip \in 0 .. 2,
           s = "mark" => slip = 0,
           Highs(s) - slip <= h, h <= Highs(s) + slip,
           (10 - Highs(s)) - slip <= l, l <= (10 - Highs(s)) + slip
    PROVE  /\ slip = 0 => Symbol(h, l) = s
           /\ Symbol(h, l) = "mark" <=> s = "mark"
           /\ Symbol(h, l) \in {"zero", "one", "mark", "none"}
<1>1. CASE s = "zero"
  BY <1>1, SampleShares, SymbolCases
<1>2. CASE s = "one"
  BY <1>2, SampleShares, SymbolCases
<1>3. CASE s = "mark"
  BY <1>3, SampleShares, SymbolCases
<1>. QED  BY <1>1, <1>2, <1>3 DEF Symbols

(* A digit more of a number.                                                *)
LEMMA DigitMore ==
    ASSUME NEW n \in Nat, NEW k \in 0 .. 8
    PROVE  (n \div Power(k + 1)) * 2 + (IF Bit(n, k) = "one" THEN 1 ELSE 0) = n \div Power(k)
<1>1. k = 0 \/ k = 1 \/ k = 2 \/ k = 3 \/ k = 4 \/ k = 5 \/ k = 6 \/ k = 7 \/ k = 8
  OBVIOUS
<1>. DEFINE m == n \div Power(k)
<1>2. m \in Nat /\ n \div Power(k + 1) = m \div 2
  BY <1>1, Powers
<1>3. (m \div 2) * 2 + (m % 2) = m
  BY <1>2
<1>4. Bit(n, k) = IF m % 2 = 1 THEN "one" ELSE "zero"
  BY DEF Bit
<1>. HIDE DEF m
<1>5. m % 2 = 0 \/ m % 2 = 1
  BY <1>2
<1>. QED  BY <1>2, <1>3, <1>4, <1>5 DEF m

LEMMA PairBounds ==
    ASSUME NEW n \in Nat, n <= 99
    PROVE  /\ Pair(n) \in 0 .. 297
           /\ n <= 79 => Pair(n) <= 255
           /\ (Pair(n) % 16) + (Pair(n) \div 32) * 10 = n
<1>1. n \div 10 \in 0 .. 9 /\ n % 10 \in 0 .. 9 /\ n = (n \div 10) * 10 + (n % 10)
  OBVIOUS
<1>. DEFINE a == n \div 10  b == n % 10
<1>2. a \in 0 .. 9 /\ b \in 0 .. 9 /\ n = a * 10 + b
  BY <1>1
<1>3. Pair(n) = a * 32 + b
  BY DEF Pair
<1>. HIDE DEF a, b
<1>4. (a * 32 + b) % 16 = b /\ (a * 32 + b) \div 32 = a
  BY <1>2
<1>. QED  BY <1>2, <1>3, <1>4

LEMMA NumberBounds ==
    ASSUME NEW t \in Time, NEW b \in 0 .. 5
    PROVE  Number(b, t) \in 0 .. 511 /\ Number(0, t) <= 255
<1>1. /\ t.min \in 0 .. 59 /\ t.hour \in 0 .. 23 /\ t.yday \in 0 .. 365
      /\ t.year \in 100 .. 199 /\ t.wday \in 0 .. 6
  BY DEF Time
<1>2. Number(0, t) \in 0 .. 255
  <2>1. t.min \in Nat /\ t.min <= 79
    BY <1>1
  <2>2. Pair(t.min) \in 0 .. 297 /\ Pair(t.min) <= 255
    BY <2>1, PairBounds
  <2>. QED  BY <2>2, Numbers
<1>3. Number(1, t) \in 0 .. 511
  <2>1. t.hour \in Nat /\ t.hour <= 99
    BY <1>1
  <2>2. Pair(t.hour) \in 0 .. 297
    BY <2>1, PairBounds
  <2>. QED  BY <2>2, Numbers
<1>4. Number(2, t) \in 0 .. 511
  <2>1. t.yday \div 10 \in Nat /\ t.yday \div 10 <= 99
    BY <1>1
  <2>2. Pair(t.yday \div 10) \in 0 .. 297
    BY <2>1, PairBounds
  <2>. QED  BY <2>2, Numbers
<1>5. Number(3, t) \in 0 .. 511
  BY <1>1, Numbers, ParitySpells
<1>6. Number(4, t) \in 0 .. 511
  BY <1>1, Numbers
<1>7. Number(5, t) \in 0 .. 511
  BY <1>1, Numbers
<1>8. b = 0 \/ b = 1 \/ b = 2 \/ b = 3 \/ b = 4 \/ b = 5
  OBVIOUS
<1>. QED  BY <1>2, <1>3, <1>4, <1>5, <1>6, <1>7, <1>8

(* A sample of the minute under way: as it was sent, or misread.            *)
Sampled(v, u) ==
    /\ Running /\ jjy_addsample(v) /\ Advance(u)
    /\ u => v = SampleOf(Sending, tick)
    /\ ~u => v \in {1 - SampleOf(Sending, tick), 2} /\ slips < Burst /\ Sending \in Damages

LEMMA NextSamples ==
    ASSUME Next
    PROVE  \E v : \E u \in BOOLEAN : Sampled(v, u)
<1>1. CASE Heard
  <2>1. Sampled(SampleOf(Sending, tick), TRUE)
    BY <1>1 DEF Heard, Sampled, Running
  <2>. QED  BY <2>1
<1>2. CASE Misheard
  <2>1. PICK v \in {1 - SampleOf(Sending, tick), 2} : jjy_addsample(v)
    BY <1>2 DEF Misheard
  <2>2. Sampled(v, FALSE)
    BY <1>2, <2>1 DEF Misheard, Sampled, Running
  <2>. QED  BY <2>2
<1>. QED  BY <1>1, <1>2 DEF Next

(* What a sample does to the counts of the second.                          *)
LEMMA CountsFollow ==
    ASSUME Readable, TypeOK, Second, NEW v, NEW u \in BOOLEAN, Sampled(v, u),
           NEW h2, h2 = highs + (IF v = 1 THEN 1 ELSE 0),
           NEW l2, l2 = lows + (IF v = 0 THEN 1 ELSE 0),
           NEW slip2, slip2 = IF u THEN slips ELSE slips + 1,
           NEW hs2, hs2 = IF tick + 1 < Highs(Sending) THEN tick + 1 ELSE Highs(Sending)
    PROVE  /\ hs2 - slip2 <= h2 /\ h2 <= hs2 + slip2
           /\ ((tick + 1) - hs2) - slip2 <= l2 /\ l2 <= ((tick + 1) - hs2) + slip2
           /\ slip2 \in 0 .. 2 /\ (Sending = "mark" => slip2 = 0)
           /\ clean /\ u => slip2 = 0
           /\ h2 \in Nat /\ l2 \in Nat
<1>1. Running /\ Sending \in Symbols
  BY SendingReads DEF Sampled
<1>2. highs \in Nat /\ lows \in Nat /\ tick \in 0 .. 9 /\ slips \in Nat /\ slips <= Burst
      /\ Burst \in Nat /\ Burst <= 2
  BY JjyAssumption DEF TypeOK, DecoderTypeOK, SecondTypeOK, SAMPLESPERSECOND, Readable
<1>3. /\ HighsSent - slips <= highs /\ highs <= HighsSent + slips
      /\ (tick - HighsSent) - slips <= lows /\ lows <= (tick - HighsSent) + slips
      /\ Sending = "mark" => slips = 0
  BY <1>1 DEF Second, LowsSent
<1>4. /\ u => v = SampleOf(Sending, tick)
      /\ ~u => v \in {1 - SampleOf(Sending, tick), 2} /\ slips < Burst /\ Sending # "mark"
  BY DEF Sampled, Readable
<1>5. HighsSent = IF tick < Highs(Sending) THEN tick ELSE Highs(Sending)
  BY DEF HighsSent
<1>6. /\ hs2 - slip2 <= h2 /\ h2 <= hs2 + slip2
      /\ ((tick + 1) - hs2) - slip2 <= l2 /\ l2 <= ((tick + 1) - hs2) + slip2
  <2>1. Highs(Sending) \in {2, 5, 8}
    BY <1>1, SampleShares DEF Symbols
  <2>2. CASE tick < Highs(Sending)
    <3>1. SampleOf(Sending, tick) = 1
      BY <2>2 DEF SampleOf
    <3>2. HighsSent = tick /\ hs2 = tick + 1
      BY <1>2, <1>5, <2>1, <2>2
    <3>3. CASE u
      BY <1>2, <1>3, <1>4, <3>1, <3>2, <3>3
    <3>4. CASE ~u
      <4>1. (v = 0 \/ v = 2) /\ slip2 = slips + 1
        BY <1>4, <3>1, <3>4
      <4>. QED  BY <1>2, <1>3, <3>2, <4>1
    <3>. QED  BY <3>3, <3>4
  <2>3. CASE ~(tick < Highs(Sending))
    <3>1. SampleOf(Sending, tick) = 0
      BY <2>3 DEF SampleOf
    <3>2. HighsSent = Highs(Sending) /\ hs2 = Highs(Sending)
      BY <1>2, <1>5, <2>1, <2>3
    <3>3. CASE u
      BY <1>2, <1>3, <1>4, <2>1, <3>1, <3>2, <3>3
    <3>4. CASE ~u
      <4>1. (v = 1 \/ v = 2) /\ slip2 = slips + 1
        BY <1>4, <3>1, <3>4
      <4>. QED  BY <1>2, <1>3, <2>1, <3>2, <4>1
    <3>. QED  BY <3>3, <3>4
  <2>. QED  BY <2>2, <2>3
<1>7. slip2 \in 0 .. 2
  BY <1>2, <1>4
<1>8. Sending = "mark" => slip2 = 0
  BY <1>3, <1>4
<1>9. clean /\ u => slip2 = 0
  BY DEF Second
<1>. QED  BY <1>2, <1>6, <1>7, <1>8, <1>9

(* The station, within a second and at the end of one.                      *)
LEMMA StationGoes ==
    ASSUME TypeOK, NEW u \in BOOLEAN, Advance(u)
    PROVE  /\ sent' = sent
           /\ tick < 9 => /\ tick' = tick + 1 /\ sec' = sec /\ index' = index
                          /\ slips' = IF u THEN slips ELSE slips + 1
                          /\ clean' => clean /\ u
                          /\ lastclean' = lastclean
           /\ tick = 9 => /\ tick' = 0 /\ slips' = 0
                          /\ sec < 59 => /\ sec' = sec + 1 /\ index' = index
                                         /\ clean' => clean /\ u
                                         /\ lastclean' = lastclean
                          /\ sec = 59 => /\ sec' = 0 /\ index' = index + 1
                                         /\ lastclean' => clean /\ u
<1>1. tick \in 0 .. 9 /\ sec \in 0 .. 59 /\ index \in Nat
  BY DEF TypeOK, SAMPLESPERSECOND
<1>2. sent' = sent
  BY DEF Advance
<1>3. CASE tick < 9
  <2>1. tick + 1 # SAMPLESPERSECOND /\ (tick + 1) % SAMPLESPERSECOND = tick + 1
    BY <1>1, <1>3 DEF SAMPLESPERSECOND
  <2>2. /\ tick' = tick + 1 /\ sec' = sec /\ index' = index
        /\ slips' = IF u THEN slips ELSE slips + 1
    BY <1>3, <2>1 DEF Advance
  <2>3. (clean' => clean /\ u) /\ lastclean' = lastclean
    BY <2>1, Zenon DEF Advance
  <2>4. tick # 9
    BY <1>3
  <2>. QED  BY <1>2, <2>2, <2>3, <2>4, Zenon
<1>4. CASE tick = 9
  <2>1. tick + 1 = SAMPLESPERSECOND /\ (tick + 1) % SAMPLESPERSECOND = 0
    BY <1>4 DEF SAMPLESPERSECOND
  <2>2. sec < 59 => sec # 59 /\ (sec + 1) % 60 = sec + 1
    BY <1>1
  <2>3. sec = 59 => (sec + 1) % 60 = 0
    OBVIOUS
  <2>4. tick' = 0 /\ slips' = 0
    BY <2>1 DEF Advance
  <2>5. ASSUME sec < 59
        PROVE  sec' = sec + 1 /\ index' = index /\ (clean' => clean /\ u) /\ lastclean' = lastclean
    <3>1. sec' = sec + 1 /\ index' = index
      BY <2>1, <2>2, <2>5 DEF Advance
    <3>2. (clean' => clean /\ u) /\ lastclean' = lastclean
      BY <2>1, <2>2, <2>5, Zenon DEF Advance
    <3>. QED  BY <3>1, <3>2, Zenon
  <2>6. ASSUME sec = 59
        PROVE  sec' = 0 /\ index' = index + 1 /\ (lastclean' => clean /\ u)
    <3>1. sec' = 0 /\ index' = index + 1
      BY <2>1, <2>3, <2>6 DEF Advance
    <3>2. lastclean' => clean /\ u
      BY <2>1, <2>6, Zenon DEF Advance
    <3>. QED  BY <3>1, <3>2, Zenon
  <2>7. ~(tick < 9)
    BY <1>4
  <2>. QED  BY <1>2, <2>4, <2>5, <2>6, <2>7, Zenon
<1>. QED  BY <1>1, <1>3, <1>4

LEMMA WithinASecond ==
    ASSUME Readable, IInv, TypeOK', NEW v, NEW u \in BOOLEAN, Sampled(v, u), tick < 9
    PROVE  IInv'
<1>1. TypeOK /\ Second /\ Minute /\ Block /\ Fields /\ Decoded /\ Ready
  BY Zenon DEF IInv
<1>2. jjy_addsample(v) /\ Advance(u) /\ Running
  BY DEF Sampled
<1>3. samples = tick /\ tick \in 0 .. 8 /\ sec \in 0 .. 59 /\ index \in Nat
  BY <1>1 DEF TypeOK, SAMPLESPERSECOND, Second
<1>4. /\ sent' = sent /\ tick' = tick + 1 /\ sec' = sec /\ index' = index
      /\ slips' = IF u THEN slips ELSE slips + 1
      /\ lastclean' = lastclean
  BY <1>1, <1>2, <1>3, StationGoes
<1>5. clean' => clean /\ u
  BY <1>1, <1>2, <1>3, StationGoes
<1>6. /\ samples' = samples + 1
      /\ highs' = highs + (IF v = 1 THEN 1 ELSE 0)
      /\ lows' = lows + (IF v = 0 THEN 1 ELSE 0)
      /\ TimeGone /\ UNCHANGED <<block, minute, time>>
  BY <1>2, <1>3 DEF jjy_addsample, SAMPLESPERSECOND
<1>7. /\ bits' = bits /\ bitsuntilnextmark' = bitsuntilnextmark /\ marks' = marks /\ alt' = alt
      /\ minutes' = minutes /\ hours' = hours /\ doy' = doy /\ year' = year /\ dow' = dow
  BY <1>6 DEF block, minute, time
<1>8. Sending' = Sending /\ Running' /\ Now' = Now /\ Before' = Before
  BY <1>2, <1>4 DEF Sending, Running, Now, Before
<1>9. Second'
  <2>0. PICK hs2 : hs2 = IF tick + 1 < Highs(Sending) THEN tick + 1 ELSE Highs(Sending)
    OBVIOUS
  <2>1. HighsSent' = hs2 /\ LowsSent' = (tick + 1) - hs2
    <3>1. HighsSent' = hs2
      BY <2>0, <1>4, <1>8, Zenon DEF HighsSent
    <3>2. LowsSent' = tick' - HighsSent'
      BY DEF LowsSent
    <3>3. tick' = tick + 1
      BY <1>4
    <3>. QED  BY <3>1, <3>2, <3>3
  <2>2. /\ hs2 - slips' <= highs' /\ highs' <= hs2 + slips'
        /\ ((tick + 1) - hs2) - slips' <= lows' /\ lows' <= ((tick + 1) - hs2) + slips'
        /\ Sending = "mark" => slips' = 0
        /\ clean /\ u => slips' = 0
    BY <2>0, <1>1, <1>4, <1>6, CountsFollow
  <2>3. clean' => slips' = 0
    BY <1>5, <2>2
  <2>4. samples' = tick' /\ tick' # 0
    BY <1>3, <1>4, <1>6
  <2>. QED  BY <1>8, <2>1, <2>2, <2>3, <2>4 DEF Second
<1>10. Minute'
  BY <1>1, <1>4, <1>7 DEF Minute
<1>11. Block'
  BY <1>1, <1>2, <1>4, <1>5, <1>7, <1>8 DEF Block
<1>12. Fields'
  BY <1>1, <1>2, <1>4, <1>5, <1>7, <1>8 DEF Fields, Alt
<1>13. Decoded'
  BY <1>1, <1>4, <1>7, <1>8 DEF Decoded, Alt
<1>14. Ready'
  <2>1. timeready' = FALSE
    BY <1>6 DEF TimeGone
  <2>2. tick' # 0
    BY <1>3, <1>4
  <2>. QED  BY <2>1, <2>2 DEF Ready, OnTheMinute
<1>. QED  BY <1>9, <1>10, <1>11, <1>12, <1>13, <1>14, Zenon DEF IInv

(* What is known when a second ends: the symbol that was heard.             *)
HeardSecond(symbol, undamaged) ==
    /\ Running /\ Decode(symbol) /\ Advance(undamaged)
    /\ symbol \in {"zero", "one", "mark", "none"}
    /\ symbol = "mark" <=> Sending = "mark"
    /\ clean /\ undamaged => symbol = Sending

LEMMA SecondEnds ==
    ASSUME Readable, TypeOK, Second, TypeOK', NEW v, NEW u \in BOOLEAN, Sampled(v, u), tick = 9
    PROVE  /\ \E symbol : HeardSecond(symbol, u)
           /\ Second'
<1>1. jjy_addsample(v) /\ Advance(u) /\ Running
  BY DEF Sampled
<1>2. samples = tick /\ tick = 9 /\ sec \in 0 .. 59 /\ index \in Nat
  BY DEF TypeOK, SAMPLESPERSECOND, Second
<1>3. PICK h2 : h2 = highs + (IF v = 1 THEN 1 ELSE 0)
  OBVIOUS
<1>4. PICK l2 : l2 = lows + (IF v = 0 THEN 1 ELSE 0)
  OBVIOUS
<1>5. samples' = 0 /\ highs' = 0 /\ lows' = 0 /\ Decode(Symbol(h2, l2))
  BY <1>1, <1>2, <1>3, <1>4 DEF jjy_addsample, SAMPLESPERSECOND
<1>6. Sending \in Symbols
  BY <1>1, SendingReads
<1>7. PICK slip2 : slip2 = IF u THEN slips ELSE slips + 1
  OBVIOUS
<1>8. PICK hs2 : hs2 = IF tick + 1 < Highs(Sending) THEN tick + 1 ELSE Highs(Sending)
  OBVIOUS
<1>9. /\ hs2 - slip2 <= h2 /\ h2 <= hs2 + slip2
      /\ ((tick + 1) - hs2) - slip2 <= l2 /\ l2 <= ((tick + 1) - hs2) + slip2
      /\ slip2 \in 0 .. 2 /\ (Sending = "mark" => slip2 = 0)
      /\ clean /\ u => slip2 = 0
      /\ h2 \in Nat /\ l2 \in Nat
  BY <1>3, <1>4, <1>7, <1>8, CountsFollow
<1>10. hs2 = Highs(Sending) /\ tick + 1 = 10
  <2>1. Highs(Sending) \in {2, 5, 8}
    BY <1>6, SampleShares DEF Symbols
  <2>. QED  BY <1>2, <1>8, <2>1
<1>11. /\ slip2 = 0 => Symbol(h2, l2) = Sending
       /\ Symbol(h2, l2) = "mark" <=> Sending = "mark"
       /\ Symbol(h2, l2) \in {"zero", "one", "mark", "none"}
  BY <1>6, <1>9, <1>10, HeardAs
<1>12. HeardSecond(Symbol(h2, l2), u)
  BY <1>1, <1>5, <1>9, <1>11, Zenon DEF HeardSecond
<1>13. Second'
  <2>1. tick' = 0 /\ slips' = 0
    BY <1>1, <1>2, StationGoes
  <2>2. ~Running' => sec' = 0
    <3>1. sec < 59 => index' = index /\ sent' = sent
      BY <1>1, <1>2, StationGoes
    <3>2. sec = 59 => sec' = 0
      BY <1>1, <1>2, StationGoes
    <3>. QED  BY <1>1, <1>2, <3>1, <3>2 DEF Running
  <2>3. Running' => Highs(Sending') \in {2, 5, 8}
    <3>1. Running' => (Sending \in Symbols)'
      BY SendingReads, PTL
    <3>. QED  BY <3>1, SampleShares DEF Symbols
  <2>4. Running' => HighsSent' = 0 /\ LowsSent' = 0
    BY <2>1, <2>3 DEF HighsSent, LowsSent
  <2>. QED  BY <1>5, <2>1, <2>2, <2>4 DEF Second
<1>. QED  BY <1>12, <1>13

(* A digit.                                                                 *)
LEMMA DigitEnds ==
    ASSUME TypeOK, Minute, Block, Fields, NEW symbol, NEW u \in BOOLEAN, HeardSecond(symbol, u),
           tick = 9, Sending # "mark"
    PROVE  Minute' /\ Block' /\ Fields' /\ Decoded' /\ Ready'
<1>1. sec \in 0 .. 59 /\ Now \in Time /\ Sending = SymbolAt(Now, sec) /\ index \in Nat
  BY SendingReads DEF HeardSecond, TypeOK
<1>2. sec \in 1 .. 58 /\ sec % 10 \in 0 .. 8 /\ Sending = Bit(Number(sec \div 10, Now), 8 - (sec % 10))
  BY <1>1 DEF SymbolAt
<1>3. /\ sent' = sent /\ tick' = 0 /\ sec' = sec + 1 /\ index' = index
      /\ lastclean' = lastclean
  BY <1>2, StationGoes DEF HeardSecond
<1>4. clean' => clean /\ u
  BY <1>2, StationGoes DEF HeardSecond
<1>5. Running' = Running /\ Now' = Now /\ Before' = Before
  BY <1>3 DEF Running, Now, Before
<1>6. PICK b \in 0 .. 1 : \/ symbol = (IF b = 1 THEN "one" ELSE "zero") /\ jjy_bit(b)
                          \/ symbol = "none" /\ TimeGone /\ UNCHANGED <<block, minute, time>>
  <2>1. symbol # "mark" /\ Decode(symbol)
    BY DEF HeardSecond
  <2>2. CASE symbol = "zero" /\ jjy_bit(0)
    BY <2>2
  <2>3. CASE symbol = "one" /\ jjy_bit(1)
    BY <2>3
  <2>4. CASE symbol = "none" /\ TimeGone /\ UNCHANGED <<block, minute, time>>
    BY <2>4
  <2>. QED  BY <2>1, <2>2, <2>3, <2>4 DEF Decode
<1>7. /\ marks' = marks /\ alt' = alt /\ timeready' = FALSE
      /\ minutes' = minutes /\ hours' = hours /\ doy' = doy /\ year' = year /\ dow' = dow
  BY <1>6 DEF jjy_bit, minute, time, TimeGone
<1>8. Minute'
  <2>1. (sec + 1) \div 10 = sec \div 10 /\ sec + 1 # 0 /\ sec # 0 /\ (sec + 1 <= 9 => sec <= 9)
    BY <1>2
  <2>. QED  BY <2>1, <1>3, <1>7 DEF Minute
<1>9. Block'
  <2>1. SUFFICES ASSUME clean', Running'
                 PROVE  /\ bitsuntilnextmark' = 9 - (sec' % 10)
                        /\ bits' = Number(sec' \div 10, Now') \div Power(9 - (sec' % 10))
    BY DEF Block
  <2>2. clean /\ u /\ Running
    BY <1>4, <1>5, <2>1
  <2>. DEFINE n == Number(sec \div 10, Now)  k == 8 - (sec % 10)
  <2>3. bitsuntilnextmark = k + 1 /\ bits = n \div Power(k + 1)
    <3>1. sec > 0 /\ 9 - (sec % 10) = (8 - (sec % 10)) + 1
      BY <1>2
    <3>. QED  BY <2>2, <3>1 DEF Block
  <2>4. symbol = Bit(n, k)
    BY <2>2, <1>2 DEF HeardSecond
  <2>5. n \in Nat /\ k \in 0 .. 8
    <3>1. sec \div 10 \in 0 .. 5 /\ k \in 0 .. 8
      BY <1>2
    <3>2. Number(sec \div 10, Now) \in 0 .. 511
      BY <1>1, <3>1, NumberBounds, Zenon
    <3>. QED  BY <3>1, <3>2
  <2>6. (sec + 1) \div 10 = sec \div 10 /\ 9 - ((sec + 1) % 10) = k
    BY <1>2
  <2>. HIDE DEF n, k
  <2>7. b = IF Bit(n, k) = "one" THEN 1 ELSE 0
    BY <1>6, <2>4 DEF Bit
  <2>8. bits' = (bits * 2) + b /\ bitsuntilnextmark' = bitsuntilnextmark - 1
    <3>1. jjy_bit(b)
      BY <1>6, <2>4 DEF Bit
    <3>2. bitsuntilnextmark # 0
      BY <2>3, <2>5
    <3>. QED  BY <3>1, <3>2 DEF jjy_bit
  <2>9. bits' = n \div Power(k) /\ bitsuntilnextmark' = k
    BY <2>3, <2>5, <2>7, <2>8, DigitMore
  <2>. QED  BY <1>3, <1>5, <2>6, <2>9 DEF n
<1>10. Fields'
  <2>1. /\ sec + 1 >= 10 => sec >= 10
        /\ sec + 1 >= 20 => sec >= 20
        /\ sec + 1 \in 30 .. 39 => sec \in 30 .. 39
        /\ sec + 1 >= 40 => sec >= 40
        /\ sec + 1 >= 50 => sec >= 50
    BY <1>2
  <2>. QED  BY <1>3, <1>4, <1>5, <1>7, <2>1 DEF Fields, Alt
<1>11. Decoded' /\ Ready'
  BY <1>2, <1>3, <1>7 DEF Decoded, Ready, OnTheMinute
<1>. QED  BY <1>8, <1>9, <1>10, <1>11, Zenon

(* What each block is read as, when all its digits were heard.              *)
LEMMA BlocksRead ==
    ASSUME NEW t \in Time
    PROVE  /\ (Number(0, t) % 16) + ((Number(0, t) \div 32) * 10) = t.min
           /\ (Number(1, t) % 16) + ((Number(1, t) \div 32) * 10) = t.hour
           /\ ((Number(2, t) % 16) * 10) + ((Number(2, t) \div 32) * 100) = (t.yday \div 10) * 10
           /\ ((t.yday \div 10) * 10) + ((Number(3, t) \div 32) % 16) = t.yday
           /\ ~Alt(t) => ((Number(4, t) % 16) + (((Number(4, t) \div 16) % 16) * 10)) + 100 = t.year
           /\ ~Alt(t) => (Number(5, t) \div 64) % 8 = t.wday
<1>1. /\ t.min \in 0 .. 59 /\ t.hour \in 0 .. 23 /\ t.yday \in 0 .. 365
      /\ t.year \in 100 .. 199 /\ t.wday \in 0 .. 6
  BY DEF Time
<1>2. (Number(0, t) % 16) + ((Number(0, t) \div 32) * 10) = t.min
  <2>1. t.min \in Nat /\ t.min <= 99
    BY <1>1
  <2>. QED  BY <2>1, Numbers, PairBounds
<1>3. (Number(1, t) % 16) + ((Number(1, t) \div 32) * 10) = t.hour
  <2>1. t.hour \in Nat /\ t.hour <= 99
    BY <1>1
  <2>. QED  BY <2>1, Numbers, PairBounds
<1>4. ((Number(2, t) % 16) * 10) + ((Number(2, t) \div 32) * 100) = (t.yday \div 10) * 10
  <2>. DEFINE n == t.yday \div 10
  <2>1. n \in Nat /\ n <= 99
    BY <1>1
  <2>2. Number(2, t) = Pair(n)
    BY Numbers
  <2>. HIDE DEF n
  <2>3. (Pair(n) % 16) + (Pair(n) \div 32) * 10 = n /\ Pair(n) \in 0 .. 297
    BY <2>1, PairBounds
  <2>. DEFINE a == Pair(n) % 16  b == Pair(n) \div 32
  <2>4. a \in Int /\ b \in Int /\ a + b * 10 = n
    BY <2>3
  <2>. HIDE DEF a, b
  <2>5. (a * 10) + (b * 100) = n * 10
    BY <2>1, <2>4
  <2>. QED  BY <2>2, <2>5 DEF a, b, n
<1>5. ((t.yday \div 10) * 10) + ((Number(3, t) \div 32) % 16) = t.yday
  <2>. DEFINE d == t.yday % 10  p == Parity(HourBits(t))  q == Parity(MinuteBits(t))
  <2>1. d \in 0 .. 9 /\ p \in 0 .. 1 /\ q \in 0 .. 1 /\ ((t.yday \div 10) * 10) + d = t.yday
    BY <1>1, ParitySpells
  <2>2. Number(3, t) = (d * 32 + p * 4) + q * 2
    BY <2>1, Numbers
  <2>. HIDE DEF d, p, q
  <2>3. (((d * 32 + p * 4) + q * 2) \div 32) % 16 = d
    BY <2>1
  <2>. QED  BY <2>1, <2>2, <2>3
<1>6. ~Alt(t) => ((Number(4, t) % 16) + (((Number(4, t) \div 16) % 16) * 10)) + 100 = t.year
  <2>. DEFINE a == (t.year % 100) \div 10  b == t.year % 10
  <2>1. a \in 0 .. 9 /\ b \in 0 .. 9 /\ (b + a * 10) + 100 = t.year
    BY <1>1
  <2>2. ~Alt(t) => Number(4, t) = a * 16 + b
    BY Numbers
  <2>. HIDE DEF a, b
  <2>3. (a * 16 + b) % 16 = b /\ ((a * 16 + b) \div 16) % 16 = a
    BY <2>1
  <2>. QED  BY <2>1, <2>2, <2>3
<1>7. ~Alt(t) => (Number(5, t) \div 64) % 8 = t.wday
  BY <1>1, Numbers
<1>. QED  BY <1>2, <1>3, <1>4, <1>5, <1>6, <1>7

(* A mark.                                                                  *)
LEMMA MarkEnds ==
    ASSUME TypeOK, Minute, Block, Fields, NEW symbol, NEW u \in BOOLEAN, HeardSecond(symbol, u),
           tick = 9, Sending = "mark"
    PROVE  Minute' /\ Block' /\ Fields' /\ Decoded' /\ Ready'
<1>1. sec \in 0 .. 59 /\ Now \in Time /\ Sending = SymbolAt(Now, sec) /\ index \in Nat /\ index >= 1
  BY SendingReads DEF HeardSecond, TypeOK
<1>2. sec \in {0, 9, 19, 29, 39, 49, 59}
  <2>1. \A n, k : Bit(n, k) # "mark"
    BY DEF Bit
  <2>2. sec = 0 \/ sec % 10 = 9
    BY <1>1, <2>1 DEF SymbolAt
  <2>. QED  BY <1>1, <2>2
<1>3. jjy_mark
  BY DEF HeardSecond, Decode
<1>4. /\ bitsuntilnextmark' = BlockLength /\ marks' = (marks + 1) % 7 /\ bits' = 0
  BY <1>3 DEF jjy_mark, NoBits
<1>5. timeready' <=> marks = 6
  BY <1>3, Zenon DEF jjy_mark
<1>6. sent' = sent /\ tick' = 0
  BY StationGoes DEF HeardSecond
<1>7. marks = IF sec = 0 THEN 0 ELSE (sec \div 10) + 1
  BY DEF Minute
<1>8. ASSUME clean, sec > 0
      PROVE  bits = Number(sec \div 10, Now)
  <2>1. 9 - (sec % 10) = 0
    BY <1>2, <1>8
  <2>2. bits = Number(sec \div 10, Now) \div 1
    BY <1>8, <2>1, Powers DEF Block, HeardSecond
  <2>3. sec \div 10 \in 0 .. 5
    BY <1>2
  <2>4. Number(sec \div 10, Now) \in 0 .. 511
    BY <1>1, <2>3, NumberBounds, Zenon
  <2>. QED  BY <2>2, <2>4
<1>9. /\ marks = 0 => FirstMark
      /\ marks = 1 => MinuteBlock
      /\ marks = 2 => HourBlock
      /\ marks \in {3, 4} => DayBlock
      /\ marks = 5 => YearBlock
      /\ marks = 6 => WeekBlock
  BY <1>3 DEF jjy_mark, FirstMark, MinuteBlock, HourBlock, DayBlock, YearBlock, WeekBlock
<1>10. CASE sec < 59
  <2>1. sec' = sec + 1 /\ index' = index /\ lastclean' = lastclean
    BY <1>10, StationGoes DEF HeardSecond
  <2>2. clean' => clean /\ u
    BY <1>10, StationGoes DEF HeardSecond
  <2>3. Now' = Now /\ Running' = Running /\ Before' = Before
    BY <1>6, <2>1 DEF Now, Running, Before
  <2>4. sec' # 0 /\ sec' \in {1, 10, 20, 30, 40, 50}
    BY <1>2, <1>10, <2>1
  <2>5. Decoded' /\ Ready'
    <3>1. marks # 6
      BY <1>2, <1>7, <1>10
    <3>. QED  BY <1>5, <2>4, <3>1 DEF Decoded, Ready, OnTheMinute
  <2>6. Minute'
    <3>1. marks' = IF sec' = 0 THEN 0 ELSE (sec' \div 10) + 1
      BY <1>2, <1>4, <1>7, <1>10, <2>1
    <3>2. ASSUME sec' <= 9 PROVE ~alt'
      <4>1. sec = 0 /\ marks = 0
        BY <1>2, <1>7, <2>1, <3>2
      <4>2. alt' = alt
        BY <1>9, <4>1 DEF FirstMark
      <4>. QED  BY <4>1, <4>2 DEF Minute
    <3>. QED  BY <2>4, <3>1, <3>2, Zenon DEF Minute
  <2>7. Block'
    <3>1. bitsuntilnextmark' = 9 - (sec' % 10)
      <4>1. CASE sec = 0
        BY <1>4, <1>7, <2>1, <4>1, BlockLengths
      <4>2. CASE sec # 0
        <5>1. marks \in 1 .. 5 /\ sec' % 10 = 0
          BY <1>2, <1>7, <1>10, <2>1, <4>2
        <5>. QED  BY <1>4, <5>1, BlockLengths
      <4>. QED  BY <4>1, <4>2
    <3>2. Number(sec' \div 10, Now) \div Power(9 - (sec' % 10)) = 0
      <4>0. sec' = 1 \/ sec' = 10 \/ sec' = 20 \/ sec' = 30 \/ sec' = 40 \/ sec' = 50
        BY <2>4
      <4>1. sec' \div 10 \in 0 .. 5
        BY <4>0
      <4>2. Number(sec' \div 10, Now) \in 0 .. 511 /\ Number(0, Now) <= 255
        BY <1>1, <4>1, NumberBounds, Zenon
      <4>3. CASE sec' = 1
        <5>1. sec' \div 10 = 0 /\ 9 - (sec' % 10) = 8
          BY <4>3
        <5>. QED  BY <4>2, <5>1, Powers
      <4>4. CASE sec' # 1
        <5>1. 9 - (sec' % 10) = 9
          BY <4>0, <4>4
        <5>. QED  BY <4>2, <5>1, Powers
      <4>. QED  BY <4>3, <4>4
    <3>. QED  BY <1>4, <2>3, <3>1, <3>2 DEF Block
  <2>8. Fields'
    <3>. SUFFICES ASSUME clean', Running'
                  PROVE  /\ sec' >= 10 => minutes' = Now.min /\ alt' = Alt(Now)
                         /\ sec' >= 20 => hours' = Now.hour
                         /\ sec' \in 30 .. 39 => doy' = (Now.yday \div 10) * 10
                         /\ sec' >= 40 => doy' = Now.yday
                         /\ sec' >= 50 => (~Alt(Now) => year' = Now.year)
      BY <2>3, Zenon DEF Fields
    <3>1. clean /\ Running
      BY <2>2, <2>3
    <3>2. /\ sec >= 10 => minutes = Now.min /\ alt = Alt(Now)
          /\ sec >= 20 => hours = Now.hour
          /\ sec \in 30 .. 39 => doy = (Now.yday \div 10) * 10
          /\ sec >= 40 => doy = Now.yday
      BY <3>1 DEF Fields
    <3>3. CASE sec = 0
      BY <2>1, <3>3
    <3>4. CASE sec = 9
      <4>1. sec' = 10 /\ marks = 1 /\ sec \div 10 = 0 /\ ~alt
        BY <1>7, <2>1, <3>4 DEF Minute
      <4>2. bits = Number(0, Now)
        BY <1>8, <3>1, <3>4, <4>1
      <4>3. minutes' = Now.min
        BY <1>1, <1>9, <4>1, <4>2, BlocksRead DEF MinuteBlock, Low4, Above5
      <4>4. alt' = (alt \/ minutes' \in {15, 45})
        BY <1>9, <4>1, Zenon DEF MinuteBlock
      <4>5. alt' = Alt(Now)
        BY <4>1, <4>3, <4>4 DEF Alt
      <4>. QED  BY <4>1, <4>3, <4>5
    <3>5. CASE sec = 19
      <4>1. sec' = 20 /\ marks = 2 /\ sec \div 10 = 1 /\ sec > 0
        BY <1>7, <2>1, <3>5
      <4>2. bits = Number(1, Now)
        BY <1>8, <3>1, <4>1
      <4>3. hours' = Now.hour /\ minutes' = minutes /\ alt' = alt
        BY <1>1, <1>9, <4>1, <4>2, BlocksRead DEF HourBlock, Low4, Above5
      <4>. QED  BY <3>2, <3>5, <4>1, <4>3
    <3>6. CASE sec = 29
      <4>1. sec' = 30 /\ marks = 3 /\ sec \div 10 = 2 /\ sec > 0
        BY <1>7, <2>1, <3>6
      <4>2. bits = Number(2, Now)
        BY <1>8, <3>1, <4>1
      <4>3. doy' = (Now.yday \div 10) * 10 /\ minutes' = minutes /\ alt' = alt /\ hours' = hours
        BY <1>1, <1>9, <4>1, <4>2, BlocksRead DEF DayBlock, Low4, Above5
      <4>. QED  BY <3>2, <3>6, <4>1, <4>3
    <3>7. CASE sec = 39
      <4>1. sec' = 40 /\ marks = 4 /\ sec \div 10 = 3 /\ sec > 0
        BY <1>7, <2>1, <3>7
      <4>2. bits = Number(3, Now) /\ doy = (Now.yday \div 10) * 10
        BY <1>8, <3>1, <3>2, <3>7, <4>1
      <4>3. doy' = Now.yday /\ minutes' = minutes /\ alt' = alt /\ hours' = hours
        BY <1>1, <1>9, <4>1, <4>2, BlocksRead DEF DayBlock, Above5
      <4>. QED  BY <3>2, <3>7, <4>1, <4>3
    <3>8. CASE sec = 49
      <4>1. sec' = 50 /\ marks = 5 /\ sec \div 10 = 4 /\ sec > 0
        BY <1>7, <2>1, <3>8
      <4>2. bits = Number(4, Now) /\ alt = Alt(Now)
        BY <1>8, <3>1, <3>2, <3>8, <4>1
      <4>3. minutes' = minutes /\ alt' = alt /\ hours' = hours /\ doy' = doy
        BY <1>9, <4>1 DEF YearBlock
      <4>4. ~Alt(Now) => year' = Now.year
        BY <1>1, <1>9, <4>1, <4>2, BlocksRead DEF YearBlock, Low4
      <4>. QED  BY <3>2, <3>8, <4>1, <4>3, <4>4
    <3>. QED  BY <1>2, <1>10, <3>3, <3>4, <3>5, <3>6, <3>7, <3>8
  <2>. QED  BY <2>5, <2>6, <2>7, <2>8, Zenon
<1>11. CASE sec = 59
  <2>1. sec' = 0 /\ index' = index + 1 /\ marks = 6 /\ sec \div 10 = 5 /\ sec > 0
    BY <1>7, <1>11, StationGoes DEF HeardSecond
  <2>2. lastclean' => clean /\ u
    BY <1>11, StationGoes DEF HeardSecond
  <2>3. /\ minutes' = minutes /\ hours' = hours /\ doy' = doy /\ year' = year
        /\ dow' = (IF alt THEN dow ELSE (bits \div 64) % 8)
    BY <1>9, <2>1 DEF WeekBlock
  <2>4. alt' = FALSE
    BY <1>9, <2>1 DEF WeekBlock
  <2>5. Minute'
    <3>1. marks' = 0 /\ bitsuntilnextmark' = 0
      BY <1>4, <2>1, BlockLengths
    <3>. QED  BY <1>4, <2>1, <2>4, <3>1 DEF Minute
  <2>6. Block' /\ Fields'
    BY <2>1 DEF Block, Fields
  <2>7. Ready'
    <3>1. index + 1 > 1
      BY <1>1
    <3>. QED  BY <1>5, <1>6, <2>1, <3>1 DEF Ready, OnTheMinute
  <2>8. Decoded'
    <3>1. Before' = Now
      BY <1>1, <1>6, <2>1 DEF Before, Now
    <3>2. ASSUME lastclean'
          PROVE  /\ minutes' = Now.min /\ hours' = Now.hour /\ doy' = Now.yday
                 /\ ~Alt(Now) => year' = Now.year /\ dow' = Now.wday
      <4>1. clean /\ Running
        BY <2>2, <3>2 DEF HeardSecond
      <4>2. minutes = Now.min /\ hours = Now.hour /\ doy = Now.yday /\ alt = Alt(Now)
            /\ (~Alt(Now) => year = Now.year)
        BY <1>11, <4>1 DEF Fields
      <4>3. bits = Number(5, Now)
        BY <1>8, <2>1, <4>1
      <4>4. ~Alt(Now) => dow' = Now.wday
        BY <1>1, <2>3, <4>2, <4>3, BlocksRead
      <4>. QED  BY <2>3, <4>2, <4>4
    <3>. QED  BY <3>1, <3>2 DEF Decoded
  <2>. QED  BY <2>5, <2>6, <2>7, <2>8
<1>. QED  BY <1>1, <1>10, <1>11

-----------------------------------------------------------------------------
LEMMA InitIInv == Init => IInv
<1>. SUFFICES ASSUME Init PROVE IInv
  OBVIOUS
<1>1. TypeOK
  BY InitTypes
<1>2. /\ samples = 0 /\ lows = 0 /\ highs = 0 /\ bits = 0 /\ bitsuntilnextmark = 0 /\ marks = 0
      /\ alt = FALSE /\ timeready = FALSE
      /\ index = 1 /\ sec = 0 /\ tick = 0 /\ slips = 0
  BY DEF Init, DecoderInit
<1>3. Second
  <2>1. Running => Highs(Sending) \in {2, 5, 8}
    BY <1>1, SendingReads, SampleShares DEF Symbols
  <2>2. Running => HighsSent = 0 /\ LowsSent = 0
    BY <1>2, <2>1 DEF HighsSent, LowsSent
  <2>. QED  BY <1>2, <2>2 DEF Second
<1>4. Minute /\ Block /\ Fields /\ Decoded /\ Ready
  BY <1>2 DEF Minute, Block, Fields, Decoded, Ready, OnTheMinute
<1>. QED  BY <1>1, <1>3, <1>4, Zenon DEF IInv

LEMMA NextIInv ==
    ASSUME Readable, IInv, TypeOK', [Next]_vars
    PROVE  IInv'
<1>1. CASE Next
  <2>1. PICK v, u : u \in BOOLEAN /\ Sampled(v, u)
    BY <1>1, NextSamples
  <2>2. TypeOK /\ Second /\ Minute /\ Block /\ Fields /\ Decoded
    BY Zenon DEF IInv
  <2>3. tick \in 0 .. 9
    BY <2>2 DEF TypeOK, SAMPLESPERSECOND
  <2>4. CASE tick < 9
    BY <2>1, <2>4, WithinASecond
  <2>5. CASE tick = 9
    <3>1. Second' /\ \E symbol : HeardSecond(symbol, u)
      BY <2>1, <2>2, <2>5, SecondEnds
    <3>2. PICK symbol : HeardSecond(symbol, u)
      BY <3>1
    <3>3. Minute' /\ Block' /\ Fields' /\ Decoded' /\ Ready'
      BY <2>1, <2>2, <2>5, <3>2, DigitEnds, MarkEnds
    <3>. QED  BY <3>1, <3>3, Zenon DEF IInv
  <2>. QED  BY <2>3, <2>4, <2>5
<1>2. CASE UNCHANGED vars
  <2>1. /\ samples' = samples /\ lows' = lows /\ highs' = highs /\ bits' = bits
        /\ bitsuntilnextmark' = bitsuntilnextmark /\ marks' = marks /\ alt' = alt
        /\ minutes' = minutes /\ hours' = hours /\ doy' = doy /\ year' = year /\ dow' = dow
        /\ timeready' = timeready
    BY <1>2 DEF vars, decoder
  <2>2. /\ sent' = sent /\ index' = index /\ sec' = sec /\ tick' = tick
        /\ slips' = slips /\ clean' = clean /\ lastclean' = lastclean
    BY <1>2 DEF vars, station
  <2>3. Sending' = Sending /\ Running' = Running /\ Now' = Now /\ Before' = Before
    BY <2>2 DEF Sending, Running, Now, Before
  <2>4. HighsSent' = HighsSent /\ LowsSent' = LowsSent
    BY <2>2, <2>3 DEF HighsSent, LowsSent
  <2>5. Second'
    BY <2>1, <2>2, <2>3, <2>4 DEF IInv, Second
  <2>6. Minute'
    BY <2>1, <2>2 DEF IInv, Minute
  <2>7. Block' /\ Fields' /\ Decoded'
    BY <2>1, <2>2, <2>3 DEF IInv, Block, Fields, Decoded, Alt
  <2>8. Ready'
    BY <2>1, <2>2 DEF IInv, Ready, OnTheMinute
  <2>. QED  BY <2>5, <2>6, <2>7, <2>8, Zenon DEF IInv
<1>. QED  BY <1>1, <1>2

(* jjy.c:18-171: whatever is misread of it, no minute takes a variable of  *)
(* the decoder out of range.                                               *)
THEOREM TypeCorrect == Spec => []TypeOK
<1>. QED  BY InitTypes, NextTypes, PTL DEF Spec

LEMMA Invariance == Readable => (Spec => []IInv)
<1>. SUFFICES ASSUME Readable PROVE Spec => []IInv
  OBVIOUS
<1>1. IInv /\ TypeOK' /\ [Next]_vars => IInv'
  BY NextIInv
<1>2. Spec => []TypeOK
  BY TypeCorrect
<1>. QED  BY <1>1, <1>2, InitIInv, PTL DEF Spec

LEMMA DecodedMinute == IInv => CleanMinuteDecodes
BY DEF IInv, Decoded, Ready, OnTheMinute, CleanMinuteDecodes

(* The day and the year of an undamaged minute that names them.             *)
LEMMA DecodedDay ==
    ASSUME IInv, OnTheMinute, lastclean, ~Alt(Before)
    PROVE  /\ doy = Before.yday
           /\ doy \in 0 .. 365 /\ Leap \in BOOLEAN /\ (doy = 365 => Leap)
<1>1. doy = Before.yday /\ year = Before.year
  BY DEF IInv, Decoded, OnTheMinute
<1>2. Before \in Time
  <2>1. sent \in Broadcast /\ sent.times \in Seq(Time) /\ index \in 1 .. Len(sent.times) + 1
    BY JjyAssumption DEF IInv, TypeOK
  <2>2. index - 1 \in 1 .. Len(sent.times)
    BY <2>1 DEF OnTheMinute
  <2>. QED  BY <2>1, <2>2 DEF Before
<1>3. doy \in 0 .. 365 /\ (doy = 365 => Leap)
  BY <1>1, <1>2 DEF Time, Leap
<1>. QED  BY <1>1, <1>3 DEF Leap, jjy_isleapyear

LEMMA DecodedDate == IInv => DateIsRight
<1>. SUFFICES ASSUME IInv, OnTheMinute, lastclean, ~Alt(Before), Leap => doy \notin LeapGap
              PROVE  IsDateOf(Date, Before.yday, Leap)
  BY DEF DateIsRight
<1>. QED  BY DecodedDay, DatesAreRight DEF Date, LeapGap

-----------------------------------------------------------------------------
(* jjy.c:50-118, :136-171: for any times sent one after the other, and as  *)
(* long as no second loses its mark or gains one, a minute that was heard  *)
(* undamaged is decoded as it was sent, whatever the minutes before were.  *)
THEOREM CleanMinutesAreDecoded == Readable => (Spec => []CleanMinuteDecodes)
<1>. QED  BY Invariance, DecodedMinute, PTL

(* jjy.c:33-48, :173-191: its date is the date of the day sent, on every   *)
(* day of a common year, and in a leap year up to 28 February and again    *)
(* from 1 April.                                                           *)
THEOREM DatesAreServed == Readable => (Spec => []DateIsRight)
<1>. QED  BY Invariance, DecodedDate, PTL

(* jjy.c:42: on the days between, and there are 32 of them in every leap   *)
(* year, the date is never the one of the day.                             *)
THEOREM LeapGapIsWrong ==
    Readable => (Spec => [](OnTheMinute /\ lastclean /\ ~Alt(Before) /\ Leap
                               /\ doy \in LeapGap
                            => ~IsDateOf(Date, Before.yday, Leap)))
<1>. DEFINE Wrong == (OnTheMinute /\ lastclean /\ ~Alt(Before) /\ Leap /\ doy \in LeapGap)
                        => ~IsDateOf(Date, Before.yday, Leap)
<1>1. IInv => Wrong
  <2>. SUFFICES ASSUME IInv, OnTheMinute, lastclean, ~Alt(Before), Leap, doy \in LeapGap
                PROVE  ~IsDateOf(Date, Before.yday, Leap)
    OBVIOUS
  <2>1. doy = Before.yday /\ Leap = TRUE
    BY DecodedDay
  <2>2. PICK l \in 0 .. 1 : l = 1 /\ l = (IF Leap THEN 1 ELSE 0)
    BY <2>1
  <2>. QED  BY <2>1, <2>2, DecodedDay, DatesAreWrong DEF Date, LeapGap
<1>. QED  BY <1>1, Invariance, PTL

(* jjy.c:91, :137: a time is never offered but with the last sample of a   *)
(* minute, damaged or not.                                                 *)
THEOREM NoTimeIsStale == Readable => (Spec => []TimeOnlyOnTheMinute)
<1>1. IInv => TimeOnlyOnTheMinute
  BY DEF IInv, Ready, TimeOnlyOnTheMinute
<1>. QED  BY <1>1, Invariance, PTL
=============================================================================
