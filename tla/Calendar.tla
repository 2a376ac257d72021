------------------------------ MODULE Calendar ------------------------------
(***************************************************************************)
(* A clock that walks the calendar by counting, to hold windowBounds of    *)
(* Window against: a year has 365 days, or 366 by the Gregorian rule, a    *)
(* month the days it has on any calendar on the wall, and nothing else is  *)
(* known.  The walk either ticks or, at a new year, skips the whole year.  *)
(***************************************************************************)
EXTENDS Window

CONSTANTS
    LastYear,    \* the walk ends when it leaves this year
    TickedYears  \* the years walked tick by tick; the others are skipped

VARIABLES now, year, month, monthStart, yearStart

calendar == <<now, year, month, monthStart, yearStart>>

WallMonths == <<31, 28, 31, 30, 31, 30, 31, 31, 30, 31, 30, 31>>

LeapYears ==
    {y \in Nat : 4 * (y \div 4) = y}
      \ {y \in Nat : 100 * (y \div 100) = y /\ 400 * (y \div 400) # y}

WallLength(y, m) ==
    Day * IF m = 2 /\ y \in LeapYears THEN 29 ELSE WallMonths[m]

DayOne ==
    /\ now = 0
    /\ year = 1
    /\ month = 1
    /\ monthStart = 0
    /\ yearStart = 0

NewYear(at) ==
    /\ year' = year + 1
    /\ month' = 1
    /\ monthStart' = at
    /\ yearStart' = at

\* One tick later: the month and the year turn when their days are used up.
Count ==
    /\ year \in TickedYears
    /\ now' = now + 1
    /\ IF now' < monthStart + WallLength(year, month)
       THEN UNCHANGED <<year, month, monthStart, yearStart>>
       ELSE IF month < 12
       THEN /\ month' = month + 1
            /\ monthStart' = now'
            /\ UNCHANGED <<year, yearStart>>
       ELSE NewYear(now')

SkipYear ==
    /\ now = yearStart
    /\ year <= LastYear
    /\ now' = now + Day * (IF year \in LeapYears THEN 366 ELSE 365)
    /\ NewYear(now')

Walk == Count \/ SkipYear
-----------------------------------------------------------------------------
\* Month and year windows start at the first instant of the month and the
\* year the walk is in, and end where the walk will turn the page.
FollowsTheWallCalendar ==
    /\ windowBounds("month", now) =
         [start |-> monthStart, end |-> monthStart + WallLength(year, month)]
    /\ windowBounds("year", now) =
         [start |-> yearStart,
          end   |-> yearStart + Day * (IF year \in LeapYears THEN 366 ELSE 365)]
=============================================================================
