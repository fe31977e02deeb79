-------------------------------- MODULE Jjy --------------------------------
(***************************************************************************)
(* The JJY time signal decoder (generic/JJY/jjy.c).                        *)
(*                                                                         *)
(* The caller hands over one sample after the other, high or low.  Ten     *)
(* make a second, whose share of highs tells a zero, a one or a mark;      *)
(* seven marks make a minute, and the seventh leaves the time ready until  *)
(* the next sample.  bits holds at most the nine bits between two marks.   *)
(***************************************************************************)
EXTENDS Integers, Sequences

SAMPLESPERSECOND == 10

VARIABLES
    samples, lows, highs,               \* the second under way
    bits, bitsuntilnextmark,            \* the block under way
    marks, alt,                         \* the minute under way
    minutes, hours, doy, year, dow,     \* the time
    timeready

second  == <<samples, lows, highs>>
block   == <<bits, bitsuntilnextmark>>
minute  == <<marks, alt>>
time    == <<minutes, hours, doy, year, dow>>
decoder == <<samples, lows, highs, bits, bitsuntilnextmark, marks, alt,
             minutes, hours, doy, year, dow, timeready>>

SecondTypeOK ==
    /\ samples \in 0 .. SAMPLESPERSECOND - 1
    /\ lows \in 0 .. samples /\ highs \in 0 .. samples - lows

MinuteTypeOK ==
    /\ bits \in 0 .. 511 /\ bitsuntilnextmark \in 0 .. 9
    /\ marks \in 0 .. 6

TimeTypeOK ==
    /\ minutes \in 0 .. 165 /\ hours \in 0 .. 165
    /\ doy \in 0 .. 1650 + 15
    /\ year \in {0} \cup 100 .. 265
    /\ dow \in 0 .. 7

DecoderTypeOK ==
    /\ SecondTypeOK /\ MinuteTypeOK /\ TimeTypeOK
    /\ alt \in BOOLEAN /\ timeready \in BOOLEAN

DecoderInit ==
    /\ samples = 0 /\ lows = 0 /\ highs = 0
    /\ bits = 0 /\ bitsuntilnextmark = 0
    /\ marks = 0 /\ alt = FALSE
    /\ minutes = 0 /\ hours = 0 /\ doy = 0 /\ year = 0 /\ dow = 0
    /\ timeready = FALSE

-----------------------------------------------------------------------------
Low4   == bits % 16
Above5 == bits \div 32

MinuteBlock ==
    /\ marks = 1
    /\ minutes' = Low4 + (Above5 * 10)
    /\ alt' = (alt \/ minutes' \in {15, 45})
    /\ UNCHANGED <<hours, doy, year, dow>>

HourBlock ==
    /\ marks = 2
    /\ hours' = Low4 + (Above5 * 10)
    /\ UNCHANGED <<alt, minutes, doy, year, dow>>

DayBlock ==
    /\ marks \in {3, 4}
    /\ doy' = IF marks = 3 THEN (Low4 * 10) + (Above5 * 100) ELSE doy + (Above5 % 16)
    /\ UNCHANGED <<alt, minutes, hours, year, dow>>

YearBlock ==
    /\ marks = 5
    /\ year' = IF alt THEN year ELSE Low4 + (((bits \div 16) % 16) * 10) + 100
    /\ UNCHANGED <<alt, minutes, hours, doy, dow>>

WeekBlockX ==
    /\ marks = 6
    /\ dow' = IF alt THEN dow ELSE (bits \div 64) % 8
    /\ UNCHANGED <<alt, minutes, hours, doy, year>>

WeekBlock ==
    /\ marks = 6
    /\ dow' = IF alt THEN dow ELSE (bits \div 64) % 8
    /\ alt' = FALSE
    /\ UNCHANGED <<minutes, hours, doy, year>>

FirstMark == marks = 0 /\ UNCHANGED <<alt, time>>

(* Bits to expect after a mark; a mark that comes early is only reported.  *)
BlockLength == CASE marks = 0 -> 8 [] marks = 6 -> 0 [] OTHER -> 9

NoBits == 0

jjy_mark ==
    /\ FirstMark \/ MinuteBlock \/ HourBlock \/ DayBlock \/ YearBlock \/ WeekBlock
    /\ timeready' = (marks = 6)
    /\ bitsuntilnextmark' = BlockLength
    /\ marks' = (marks + 1) % 7
    /\ bits' = NoBits

(* Every sample takes back the time that the one before left ready.        *)
TimeGoneX == UNCHANGED timeready
TimeGone  == timeready' = FALSE

jjy_bit(bit) ==
    /\ IF bitsuntilnextmark = 0 THEN UNCHANGED block
       ELSE /\ bits' = (bits * 2) + bit
            /\ bitsuntilnextmark' = bitsuntilnextmark - 1
    /\ UNCHANGED <<minute, time>>
    /\ TimeGone

(* Any other share of highs is no symbol, and the second is skipped.       *)
Symbol(h, l) == CASE h = 8 /\ l = 2 -> "zero"
                  [] h = 5 /\ l = 5 -> "one"
                  [] h = 2 /\ l = 8 -> "mark"
                  [] OTHER          -> "none"

Decode(symbol) ==
    \/ symbol = "zero" /\ jjy_bit(0)
    \/ symbol = "one"  /\ jjy_bit(1)
    \/ symbol = "mark" /\ jjy_mark
    \/ symbol = "none" /\ TimeGone /\ UNCHANGED <<block, minute, time>>

jjy_addsample(sample) ==
    LET h == highs + (IF sample = 1 THEN 1 ELSE 0)
        l == lows  + IF sample = 0 THEN 1 ELSE 0
    IN  IF samples + 1 < SAMPLESPERSECOND
        THEN /\ samples' = samples + 1 /\ highs' = h /\ lows' = l
             /\ TimeGone
             /\ UNCHANGED <<block, minute, time>>
        ELSE /\ samples' = 0 /\ highs' = 0 /\ lows' = 0
             /\ Decode(Symbol(h, l))
=============================================================================
