---------------------------- MODULE JjyReception ----------------------------
(***************************************************************************)
(* The JJY decoder and a station that sends one minute after the other, as *)
(* the harness of the decoder (generic/JJY/jjy_test.c) builds them, over a *)
(* path on which single samples are misread.                               *)
(***************************************************************************)
EXTENDS Jjy, JjyCalendar, FiniteSets

CONSTANTS
    Broadcast,  \* programmes: the times that are sent, one after the other,
                \* and a bound on the samples of them that are misread
    Damages,    \* the symbols whose samples may be misread
    Burst       \* a bound on the samples misread in one second

(* struct tm, in the century that two digits of a year stand for.          *)
Time == {t \in [min : 0 .. 59, hour : 0 .. 23, yday : 0 .. 365, year : 100 .. 199,
                wday : 0 .. 6] :
             t.yday = 365 => jjy_isleapyear(t.year + 1900)}

ASSUME JjyAssumption ==
    /\ \A p \in Broadcast : p.faults \in Nat /\ p.times \in Seq(Time) /\ p.times # << >>
    /\ Damages \subseteq {"zero", "one", "mark"}
    /\ Burst \in Nat

VARIABLES
    sent,       \* the programme under way
    index,      \* the minute under way
    sec, tick,  \* its second, and the sample of the second
    faults,     \* samples misread
    slips,      \* those of the second under way
    clean,      \* no sample of the minute has been misread
    lastclean   \* none of the minute before

station == <<sent, index, sec, tick, faults, slips, clean, lastclean>>
vars    == <<decoder, station>>

-----------------------------------------------------------------------------
(* sendtime(): one symbol for each second.  BITFORVALUE takes the weights  *)
(* off one after the other, which gives decimal digits in binary.          *)
Mark     == <<"mark">>
Zeros(n) == [i \in 1 .. n |-> "zero"]
Digit(n, weights) ==
    [i \in DOMAIN weights |-> IF n % (2 * weights[i]) >= weights[i] THEN "one" ELSE "zero"]
Nibble   == <<8, 4, 2, 1>>

evenparity(symbols) ==
    <<IF Cardinality({i \in DOMAIN symbols : symbols[i] = "one"}) % 2 = 1
      THEN "one" ELSE "zero">>

Alt(t) == t.min \in {15, 45}

MinuteBits(t) == Digit(t.min \div 10, <<4, 2, 1>>) \o Zeros(1) \o Digit(t.min % 10, Nibble)
HourBits(t)   == Zeros(2) \o Digit(t.hour \div 10, <<2, 1>>) \o Zeros(1)
                    \o Digit(t.hour % 10, Nibble)
DayBits(t)    == Zeros(2) \o Digit(t.yday \div 100, <<2, 1>>) \o Zeros(1)
                    \o Digit((t.yday \div 10) % 10, Nibble)
UnitBits(t)   == Digit(t.yday % 10, Nibble) \o Zeros(2)
                    \o evenparity(HourBits(t)) \o evenparity(MinuteBits(t)) \o Zeros(1)
YearBits(t)   == IF Alt(t) THEN Zeros(9)
                 ELSE Zeros(1) \o Digit((t.year % 100) \div 10, Nibble)
                               \o Digit(t.year % 10, Nibble)
WeekBits(t)   == IF Alt(t) THEN Zeros(9) ELSE Digit(t.wday, <<4, 2, 1>>) \o Zeros(6)

sendtime(t) == Mark \o MinuteBits(t) \o Mark \o HourBits(t) \o Mark \o DayBits(t)
                 \o Mark \o UnitBits(t) \o Mark \o YearBits(t) \o Mark \o WeekBits(t)
                 \o Mark

Times  == UNION {{p.times[i] : i \in DOMAIN p.times} : p \in Broadcast}
Signal == [t \in Times |-> sendtime(t)]

(* jjy_zero(), jjy_one() and jjy_mark() of the harness: highs first.       *)
Highs(symbol)  == CASE symbol = "zero" -> 8 [] symbol = "one" -> 5 [] symbol = "mark" -> 2
Sending        == Signal[sent.times[index]][sec + 1]
SampleOf(s, n) == IF n < Highs(s) THEN 1 ELSE 0

-----------------------------------------------------------------------------
TypeOK ==
    /\ DecoderTypeOK
    /\ sent \in Broadcast
    /\ index \in 1 .. Len(sent.times) + 1
    /\ sec \in 0 .. 59
    /\ tick \in 0 .. SAMPLESPERSECOND - 1
    /\ faults \in 0 .. sent.faults /\ slips \in 0 .. Burst
    /\ clean \in BOOLEAN /\ lastclean \in BOOLEAN

Init ==
    /\ DecoderInit
    /\ sent \in Broadcast
    /\ index = 1 /\ sec = 0 /\ tick = 0
    /\ faults = 0 /\ slips = 0 /\ clean = TRUE /\ lastclean = TRUE

Advance(undamaged) ==
    LET secondEnds == tick + 1 = SAMPLESPERSECOND
        minuteEnds == secondEnds /\ sec = 59
    IN  /\ tick' = (tick + 1) % SAMPLESPERSECOND
        /\ sec' = IF secondEnds THEN (sec + 1) % 60 ELSE sec
        /\ index' = IF minuteEnds THEN index + 1 ELSE index
        /\ clean' = (minuteEnds \/ (clean /\ undamaged))
        /\ lastclean' = IF minuteEnds THEN clean /\ undamaged ELSE lastclean
        /\ faults' = IF undamaged THEN faults ELSE faults + 1
        /\ slips' = IF secondEnds THEN 0 ELSE IF undamaged THEN slips ELSE slips + 1
        /\ UNCHANGED sent

Heard ==
    /\ index <= Len(sent.times)
    /\ jjy_addsample(SampleOf(Sending, tick))
    /\ Advance(TRUE)

(* The other level, or a sample that is neither.                           *)
Misheard ==
    /\ index <= Len(sent.times)
    /\ faults < sent.faults /\ slips < Burst
    /\ Sending \in Damages
    /\ \E sample \in {1 - SampleOf(Sending, tick), 2} : jjy_addsample(sample)
    /\ Advance(FALSE)

Next == Heard \/ Misheard

Spec == Init /\ [][Next]_vars

-----------------------------------------------------------------------------
(* jjy_gettime(), asked after every sample: the date it gives.             *)
Leap == jjy_isleapyear(year + 1900)
Date == jjy_doytomonth(doy, Leap)

OnTheMinute == sec = 0 /\ tick = 0 /\ index > 1
Before      == sent.times[index - 1]

(* jjy.c:50-118: at the end of a minute that was heard undamaged the time  *)
(* is ready and is the one sent, whatever was lost of the bits of earlier  *)
(* minutes.                                                                *)
CleanMinuteDecodes ==
    OnTheMinute /\ lastclean =>
        /\ timeready
        /\ minutes = Before.min /\ hours = Before.hour /\ doy = Before.yday
        /\ ~Alt(Before) => year = Before.year /\ dow = Before.wday

(* jjy.c:91, :137: a time is ready with the last sample of a minute only,  *)
(* so that nobody is given it later.                                       *)
TimeOnlyOnTheMinute == timeready => OnTheMinute

(* jjy.c:33-48: the date is the one of the day that was sent, on every day *)
(* of a common year, and in a leap year up to 28 February and again from   *)
(* 1 April.  On the days between (29 February to 31 March) it is not: the  *)
(* leap day is added after March instead of after February (jjy.c:42).     *)
LeapGap == 59 .. 90
DateIsRight ==
    (OnTheMinute /\ lastclean /\ ~Alt(Before) /\ (Leap => doy \notin LeapGap)) =>
        IsDateOf(Date, Before.yday, Leap)
=============================================================================
