-------------------------------- MODULE Clock --------------------------------
(***************************************************************************)
(* What kernel_time.h keeps: a clock that counts seconds, days and the     *)
(* days of the week.  Day 0 is Monday, 1 January of the year 1.            *)
(***************************************************************************)
EXTENDS Naturals

CONSTANT DaySeconds

VARIABLES
    days,                   \* complete days
    second,                 \* of the day
    weekday                 \* 0 is Monday

Init ==
    /\ days \in Nat
    /\ second \in 0 .. DaySeconds - 1
    /\ weekday = days % 7

Second ==
    /\ second < DaySeconds - 1
    /\ second' = second + 1
    /\ UNCHANGED <<days, weekday>>

Midnight ==
    /\ second = DaySeconds - 1
    /\ second' = 0
    /\ days' = days + 1
    /\ weekday' = days' % 7

Next == Second \/ Midnight

Spec == Init /\ [][Next]_<<days, second, weekday>>
=============================================================================
