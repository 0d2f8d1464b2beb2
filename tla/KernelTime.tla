------------------------------ MODULE KernelTime -----------------------------
(***************************************************************************)
(* libs/components/kernel/time_manager/kernel_time.c: the calendar that    *)
(* the compare interrupt of RTC 2 moves on by one second each time.        *)
(*                                                                         *)
(* It starts at the time and date kernel_time_pre_init is given, or at     *)
(* 12:05:12 on Monday, 2 October 2023; nothing in the firmware sets it     *)
(* afterwards.  The fields are a uint8_t each, the year is a uint16_t.     *)
(***************************************************************************)
EXTENDS Integers

CONSTANTS
    KERNEL_TIME_SECONDS_MAX,
    KERNEL_TIME_MINUTE_MAX,
    KERNEL_TIME_HOUR_MAX,
    StartYears,             \* of the dates kernel_time_pre_init may be given
    MaxYear                 \* bound

\* The limits fit a uint8_t that is incremented before it is compared.  Every
\* fourth year is a leap year from 1901 to 2099.
ASSUME TimeAssumption ==
    /\ KERNEL_TIME_SECONDS_MAX \in 0 .. 254
    /\ KERNEL_TIME_MINUTE_MAX \in 0 .. 254
    /\ KERNEL_TIME_HOUR_MAX \in 0 .. 254
    /\ MaxYear \in 1901 .. 2099
    /\ StartYears \subseteq 1901 .. MaxYear

VARIABLES
    current_time,
    current_date

timeVars == <<current_time, current_date>>

\* month_enum_t and day_enum_t
MONTH_JAN == 0
MONTH_FEB == 1
MONTH_DEC == 11
DAY_MON == 0
DAY_SUN == 6

\* the short months with 30 days: April, June, September, November
kernel_months_max_Days ==
    [m \in MONTH_JAN .. MONTH_DEC |->
        IF m = MONTH_FEB THEN 28 ELSE IF m \in {3, 5, 8, 10} THEN 30 ELSE 31]

kernel_months_max_Days_leap_year == [kernel_months_max_Days EXCEPT ![MONTH_FEB] = 29]

LEAP_YEAR_BASE_NUMBER == 4

\* mutant: the two tables change places
DaysOf_Swapped(month, year) ==
    IF year % LEAP_YEAR_BASE_NUMBER = 0 THEN kernel_months_max_Days[month]
    ELSE kernel_months_max_Days_leap_year[month]

DaysOf(month, year) ==
    IF year % LEAP_YEAR_BASE_NUMBER # 0 THEN kernel_months_max_Days[month]
    ELSE kernel_months_max_Days_leap_year[month]

Times == [hour : 0 .. KERNEL_TIME_HOUR_MAX, minutes : 0 .. KERNEL_TIME_MINUTE_MAX,
          seconds : 0 .. KERNEL_TIME_SECONDS_MAX]

----------------------------------------------------------------------------
(* The Gregorian calendar, for reference: the number of days before a date *)
(* since 1 January of the year 1, a Monday.                                 *)

LeapDay(y) == IF y % 4 = 0 /\ (y % 100 # 0 \/ y % 400 = 0) THEN 1 ELSE 0

DaysBeforeMonth ==
    [m \in 0 .. 11 |->
        CASE m = 0 -> 0    [] m = 1 -> 31   [] m = 2 -> 59   [] m = 3 -> 90
          [] m = 4 -> 120  [] m = 5 -> 151  [] m = 6 -> 181  [] m = 7 -> 212
          [] m = 8 -> 243  [] m = 9 -> 273  [] m = 10 -> 304 [] m = 11 -> 334]

DaysBeforeYear(y) == 365 * (y - 1) + (y - 1) \div 4 - (y - 1) \div 100 + (y - 1) \div 400

DayNumber(d) ==
    DaysBeforeYear(d.year) + DaysBeforeMonth[d.month]
    + (IF d.month > 1 THEN LeapDay(d.year) ELSE 0) + d.date - 1

----------------------------------------------------------------------------
\* A date of the calendar, with its day of the week.
Dates(years) ==
    {d \in [date : 1 .. 31, month : MONTH_JAN .. MONTH_DEC, year : years, day : DAY_MON .. DAY_SUN] :
        /\ d.date <= DaysOf(d.month, d.year)
        /\ d.day = DayNumber(d) % 7}

\* kernel_time_pre_init
TimeInit == current_time \in Times /\ current_date \in Dates(StartYears)

\* Each field is incremented; past its limit it starts again and carries.
NextTime(t) ==
    IF t.seconds < KERNEL_TIME_SECONDS_MAX THEN [t EXCEPT !.seconds = @ + 1]
    ELSE IF t.minutes < KERNEL_TIME_MINUTE_MAX
         THEN [t EXCEPT !.seconds = 0, !.minutes = @ + 1]
    ELSE IF t.hour < KERNEL_TIME_HOUR_MAX
         THEN [t EXCEPT !.seconds = 0, !.minutes = 0, !.hour = @ + 1]
    ELSE [t EXCEPT !.seconds = 0, !.minutes = 0, !.hour = 0]

NextDay(day) == IF day + 1 > DAY_SUN THEN DAY_MON ELSE day + 1

NextDate(d) ==
    LET next == [d EXCEPT !.day = NextDay(@)]
    IN  IF d.date + 1 <= DaysOf(d.month, d.year) THEN [next EXCEPT !.date = @ + 1]
        ELSE IF d.month + 1 <= MONTH_DEC THEN [next EXCEPT !.date = 1, !.month = @ + 1]
        ELSE [next EXCEPT !.date = 1, !.month = MONTH_JAN, !.year = (@ + 1) % 2^16]

LastSecond(t) ==
    /\ t.seconds = KERNEL_TIME_SECONDS_MAX
    /\ t.minutes = KERNEL_TIME_MINUTE_MAX
    /\ t.hour = KERNEL_TIME_HOUR_MAX

\* the compare event of the RTC, up to the end of MaxYear
rtc_timer_2_handler ==
    /\ current_time' = NextTime(current_time)
    /\ current_date' = IF LastSecond(current_time) THEN NextDate(current_date)
                       ELSE current_date
    /\ current_date'.year <= MaxYear

TimeNext == rtc_timer_2_handler

TimeSpec == TimeInit /\ [][TimeNext]_timeVars

----------------------------------------------------------------------------
MinuteSeconds == KERNEL_TIME_SECONDS_MAX + 1
HourSeconds == (KERNEL_TIME_MINUTE_MAX + 1) * MinuteSeconds

clock == INSTANCE Clock WITH
    DaySeconds <- (KERNEL_TIME_HOUR_MAX + 1) * HourSeconds,
    days <- DayNumber(current_date),
    second <- current_time.hour * HourSeconds + current_time.minutes * MinuteSeconds
              + current_time.seconds,
    weekday <- current_date.day

\* The carries of rtc_timer_2_handler neither lose nor repeat a second, a day
\* or a day of the week: every interrupt is the next second of the Gregorian
\* calendar, over the ends of months, February and years, from 1901 to 2099.
ClockSpec == clock!Spec
=============================================================================
