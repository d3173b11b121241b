------------------------------ MODULE Calendar ------------------------------
(***************************************************************************)
(* The conversions of common/timer.cpp between an instant (seconds since   *)
(* 1970) and the local time as text, here the sequence of its fields.  A   *)
(* zone is an offset in seconds and the interval of instants with an hour  *)
(* more; localtime, strptime and mktime are modelled as glibc has them.    *)
(***************************************************************************)
EXTENDS Integers, Sequences

CONSTANT Wrap    \* 2^32: times are returned as uint32_t

ASSUME WrapAssumption == Wrap \in Nat \ {0}

Day == 86400
Hour == 3600

Year == 1970 .. 2099
Month == 1 .. 12

Leap(year) == year % 4 = 0    \* in these years

DaysIn(year, month) ==
    IF month = 2 THEN (IF Leap(year) THEN 29 ELSE 28) ELSE IF month \in {4, 6, 9, 11} THEN 30 ELSE 31

YearStart(year) == 365 * (year - 1970) + (year - 1969) \div 4

MonthStart(year, month) ==
    LET start[m \in Month] == IF m = 1 THEN YearStart(year) ELSE start[m - 1] + DaysIn(year, m - 1)
    IN  start[month]

IsDate(f) == f[2] \in Month /\ f[3] \in 1 .. DaysIn(f[1], f[2])

\* A day that the month does not have is one of the next month.
DayNumber(f) == MonthStart(f[1], f[2]) + f[3] - 1

DateOf(day) ==
    LET year  == CHOOSE y \in Year : day \in YearStart(y) .. YearStart(y + 1) - 1
        month == CHOOSE m \in Month : day \in MonthStart(year, m) .. MonthStart(year, m) + DaysIn(year, m) - 1
    IN  <<year, month, day - MonthStart(year, month) + 1>>

IsSummer(t, zone) == t >= zone.from /\ t < zone.until

Local(t, zone) == t + zone.offset + (IF IsSummer(t, zone) THEN Hour ELSE 0)

\* localtime_r
LocalTime(t, zone) ==
    LET date  == DateOf(Local(t, zone) \div Day)
        clock == Local(t, zone) % Day
    IN  <<date[1], date[2], date[3], clock \div Hour, (clock % Hour) \div 60, clock % 60>>

\* mktime with tm_isdst = 0: the fields are in winter time.
MkTime(f, zone) == DayNumber(f) * Day + f[4] * Hour + f[5] * 60 + f[6] - zone.offset

\* timeToStr, getSafeNow
TimeToStr(t, zone) == LocalTime(t, zone)

\* (uint32_t)
Unsigned(t) == t % Wrap

Rejected == Wrap - 1    \* (uint32_t) -1

\* What strptime accepts: each field for itself.
InRange(f) == /\ f[2] \in Month /\ f[3] \in 1 .. 31
              /\ f[4] \in 0 .. 23 /\ f[5] \in 0 .. 59 /\ f[6] \in 0 .. 61

ParseTime(f, zone) == IF InRange(f) THEN Unsigned(MkTime(f, zone)) ELSE Rejected

\* parseDayShortTime does not ask whether strptime failed: the fields from there on are 0,
\* and month 0 of the structure is January.
ParseDayShortTime(f, zone) ==
    Unsigned(MkTime(IF f[2] \notin Month THEN <<f[1], 1, 0, 0, 0, 0>>
                    ELSE IF f[3] \notin 1 .. 31 THEN <<f[1], f[2], 0, 0, 0, 0>>
                    ELSE <<f[1], f[2], f[3], 0, 0, 0>>, zone))

TimestampToDay(t, zone) == ParseTime([LocalTime(t, zone) EXCEPT ![4] = 0, ![5] = 0, ![6] = 0], zone)

TimestampToMinute(t, zone) == ParseTime([LocalTime(t, zone) EXCEPT ![6] = 0], zone)

TimestampToHour(t, zone) == ParseTime([LocalTime(t, zone) EXCEPT ![5] = 0, ![6] = 0], zone)
=============================================================================
