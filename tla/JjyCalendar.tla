---------------------------- MODULE JjyCalendar ----------------------------
(***************************************************************************)
(* How jjy_gettime() of the JJY decoder (generic/JJY/jjy.c) turns the day  *)
(* of the year into a date, and what a date is.                            *)
(***************************************************************************)
EXTENDS Integers

daysinmonth == <<31, 28, 31, 30, 31, 30, 31, 31, 30, 31, 30, 31>>
Months == 1 .. 12

jjy_isleapyear(year) == year % 4 = 0 /\ (year % 100 # 0 \/ year % 400 = 0)

(* What the loop has in days when it comes to a month: the leap day is     *)
(* added at the end of month 2, counted from 0.                            *)
LeapMonth  == 3

(* (The X form never adds it.)                                             *)
DaysBeforeX(isleap) ==
    LET days[m \in Months] ==
            IF m = 1 THEN 0 ELSE days[m - 1] + daysinmonth[m - 1]
    IN  days

DaysBefore(isleap) ==
    LET days[m \in Months] ==
            IF m = 1 THEN 0
            ELSE days[m - 1] + daysinmonth[m - 1]
                 + IF isleap /\ m - 1 = LeapMonth THEN 1 ELSE 0
    IN  days

(* The month, 0 for January, and the day of the month.  For a day that is  *)
(* in no month the code returns -1 and leaves the day of the month unset.  *)
jjy_doytomonth(yday, isleap) ==
    LET before == DaysBefore(isleap)
        Fits(m) == yday < before[m] + daysinmonth[m]
    IN  IF \E m \in Months : Fits(m)
        THEN LET month == CHOOSE m \in Months :
                            Fits(m) /\ \A k \in 1 .. m - 1 : ~Fits(k)
             IN  <<month - 1, yday - before[month] + 1>>
        ELSE <<-1, 0>>

-----------------------------------------------------------------------------
(* A date of the calendar, and how many days of the year come before it.   *)
DaysIn(month, isleap) == IF isleap /\ month = 1 THEN 29 ELSE daysinmonth[month + 1]

Ordinal(date, isleap) ==
    LET before[m \in 0 .. 11] == IF m = 0 THEN 0 ELSE before[m - 1] + DaysIn(m - 1, isleap)
    IN  before[date[1]] + date[2] - 1

IsDateOf(date, yday, isleap) ==
    /\ date[1] \in 0 .. 11
    /\ date[2] \in 1 .. DaysIn(date[1], isleap)
    /\ Ordinal(date, isleap) = yday
=============================================================================
