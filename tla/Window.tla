------------------------------- MODULE Window -------------------------------
(***************************************************************************)
(* The fixed windows of the per-token rate limit: windowBounds of          *)
(* src/internal/auth/ratelimit.go, and the part of Go's time package that  *)
(* it calls.                                                               *)
(*                                                                         *)
(* An instant is a natural number of ticks since Go's zero time, midnight  *)
(* UTC of January 1 of year 1: that is the origin time.Truncate rounds     *)
(* from.  The lengths of the clock units are parameters, so that TLC can   *)
(* run a clock with few ticks to the day; the theorems hold for the real   *)
(* ones (10^9 ticks to the second, and so on) as for any other.            *)
(***************************************************************************)
EXTENDS Integers, Sequences

CONSTANTS Second, Minute, Hour, Day     \* lengths, in ticks

ASSUME DurationAssumption ==
    /\ Second \in Nat \ {0}
    /\ Minute \in Nat \ {0}
    /\ Hour \in Nat \ {0}
    /\ Day \in Nat \ {0}

Week == 7 * Day

(***************************************************************************)
(* The Gregorian calendar of Go's time package, in days since the zero     *)
(* time.  Date normalises a month beyond December into the next year, as   *)
(* time.Date and Time.AddDate do.                                          *)
(***************************************************************************)
IsLeap(y) == y % 4 = 0 /\ (y % 100 # 0 \/ y % 400 = 0)

DaysBeforeYear(y) ==
    365 * (y - 1) + (y - 1) \div 4 - (y - 1) \div 100 + (y - 1) \div 400

DaysBeforeMonth == <<0, 31, 59, 90, 120, 151, 181, 212, 243, 273, 304, 334>>

Date(y, m) ==
    LET year  == y + (m - 1) \div 12
        month == ((m - 1) % 12) + 1
    IN  DaysBeforeYear(year) + DaysBeforeMonth[month]
          + (IF month > 2 /\ IsLeap(year) THEN 1 ELSE 0)

YearOf(day) ==
    CHOOSE y \in (day \div 366 + 1) .. (day \div 365 + 1) :
        DaysBeforeYear(y) <= day /\ day < DaysBeforeYear(y + 1)

MonthOf(day) ==
    LET y == YearOf(day)
    IN  CHOOSE m \in 1 .. 12 : Date(y, m) <= day /\ day < Date(y, m + 1)

(***************************************************************************)
(* windowBounds.  Fixed periods are rounded down by Truncate and end one   *)
(* length later; months and years follow the UTC calendar.                 *)
(***************************************************************************)
FixedPeriods    == {"second", "minute", "hour", "day", "week"}
CalendarPeriods == {"month", "year"}
Periods         == FixedPeriods \cup CalendarPeriods

LengthOf ==
    [second |-> Second, minute |-> Minute, hour |-> Hour, day |-> Day,
     week   |-> Week]

Truncate(now, d) == now - (now % d)

FixedBounds(period, now) ==
    LET start == Truncate(now, LengthOf[period])
    IN  [start |-> start, end |-> start + LengthOf[period]]

\* Mutant: a month as a fixed duration, which Truncate could have served.
ThirtyDayMonths(now) ==
    LET start == Day * Date(YearOf(now \div Day), MonthOf(now \div Day))
    IN  [start |-> start, end |-> start + 30 * Day]

MonthBounds(now) ==
    LET y == YearOf(now \div Day)
        m == MonthOf(now \div Day)
    IN  [start |-> Day * Date(y, m), end |-> Day * Date(y, m + 1)]

\* Mutant: a year as 365 days.
CommonYears(now) ==
    LET start == Day * Date(YearOf(now \div Day), 1)
    IN  [start |-> start, end |-> start + 365 * Day]

YearBounds(now) ==
    LET y == YearOf(now \div Day)
    IN  [start |-> Day * Date(y, 1), end |-> Day * Date(y + 1, 1)]

windowBounds(period, now) ==
    IF period = "month" THEN MonthBounds(now)
    ELSE IF period = "year" THEN YearBounds(now)
    ELSE FixedBounds(period, now)

(***************************************************************************)
(* The Retry-After header: the time to the end of the window, in whole     *)
(* seconds rounded down, plus one.                                         *)
(***************************************************************************)
\* Mutant: without the one more second.
RoundedDownOnly(d) == d \div Second

RetryAfterSeconds(d) == d \div Second + 1
=============================================================================
