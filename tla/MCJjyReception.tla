--------------------------- MODULE MCJjyReception ---------------------------
EXTENDS JjyReception

At(y, d, h, m, w) == [year |-> y, yday |-> d, hour |-> h, min |-> m, wday |-> w]

(* Into and out of a minute that sends the call sign; the end of a year.   *)
DamagedMinutes ==
    {[faults |-> 2, times |-> p] : p \in
        {<<At(112, 47, 21, 14, 5), At(112, 47, 21, 15, 5), At(112, 47, 21, 16, 5)>>,
         <<At(112, 365, 23, 59, 1), At(113, 0, 0, 0, 2)>>}}

(* A minute of every day of a common and of a leap year, undamaged.        *)
EveryDay ==
    {[faults |-> 0, times |-> <<At(t[1], t[2], 12, 34, 3)>>] : t \in
        ({111} \X (0 .. 364)) \cup ({112} \X (0 .. 365))}

MCBroadcast == DamagedMinutes \cup EveryDay
=============================================================================
