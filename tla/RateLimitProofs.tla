-------------------------- MODULE RateLimitProofs --------------------------
(***************************************************************************)
(* Theorems about RateLimit and the windows it counts in: for any set of   *)
(* requests, any token rows, any instant and any lengths of the clock's    *)
(* units.                                                                  *)
(***************************************************************************)
EXTENDS RateLimit, Calendar, FiniteSetTheorems, TLAPS

(***************************************************************************)
(* First the windows: windowBounds and the calendar it is made of.         *)
(***************************************************************************)
\* Truncate rounds down to a multiple of d, by less than d.
LEMMA TruncateRounds ==
    ASSUME NEW t \in Nat, NEW d \in Nat \ {0}
    PROVE  /\ Truncate(t, d) \in Nat
           /\ Truncate(t, d) <= t
           /\ t < Truncate(t, d) + d
           /\ \E q \in Nat : Truncate(t, d) = q * d
<1>1. /\ t % d \in 0 .. d - 1
      /\ t \div d \in Nat
      /\ t = d * (t \div d) + (t % d)
  OBVIOUS
<1>2. Truncate(t, d) = (t \div d) * d
  BY <1>1 DEF Truncate
<1>3. t % d <= t
  BY <1>1, Z3
<1>. QED
  BY <1>1, <1>2, <1>3 DEF Truncate

LEMMA DaysBeforeYearType ==
    ASSUME NEW y \in Nat \ {0}
    PROVE  /\ DaysBeforeYear(y) \in Nat
           /\ 365 * (y - 1) <= DaysBeforeYear(y)
           /\ DaysBeforeYear(y) <= 366 * (y - 1)
           /\ DaysBeforeYear(y + 1) - DaysBeforeYear(y)
                = IF IsLeap(y) THEN 366 ELSE 365
BY DEF DaysBeforeYear, IsLeap

LEMMA YearsAreOrdered ==
    ASSUME NEW y \in Nat \ {0}, NEW z \in Nat \ {0}, y < z
    PROVE  DaysBeforeYear(y + 1) <= DaysBeforeYear(z)
BY DEF DaysBeforeYear

LEMMA YearExists ==
    ASSUME NEW day \in Nat
    PROVE  \E y \in (day \div 366 + 1) .. (day \div 365 + 1) :
               DaysBeforeYear(y) <= day /\ day < DaysBeforeYear(y + 1)
<1>. DEFINE g == (400 * day) \div 146097
<1>1. g \in Nat
  OBVIOUS
<1>2. DaysBeforeYear(g + 3) > day
  BY <1>1 DEF DaysBeforeYear
<1>3. g = 0 \/ DaysBeforeYear(g) <= day
  BY <1>1 DEF DaysBeforeYear
<1>4. DaysBeforeYear(1) <= day
  BY DEF DaysBeforeYear
<1>5. PICK y \in Nat \ {0} :
         DaysBeforeYear(y) <= day /\ day < DaysBeforeYear(y + 1)
  <2>. HIDE DEF g
  <2>1. /\ DaysBeforeYear(g + 1) \in Nat
        /\ DaysBeforeYear(g + 2) \in Nat
    BY <1>1, DaysBeforeYearType
  <2>. QED
    BY <1>1, <1>2, <1>3, <1>4, <2>1
<1>6. 365 * (y - 1) <= day /\ day < 366 * y
  <2>. HIDE DEF g
  <2>1. /\ DaysBeforeYear(y) \in Nat
        /\ 365 * (y - 1) <= DaysBeforeYear(y)
    BY DaysBeforeYearType
  <2>2. /\ DaysBeforeYear(y + 1) \in Nat
        /\ DaysBeforeYear(y + 1) <= 366 * ((y + 1) - 1)
    <3>1. y + 1 \in Nat \ {0}
      OBVIOUS
    <3>. QED
      BY <3>1, DaysBeforeYearType
  <2>. QED
    BY <1>5, <2>1, <2>2
<1>7. y \in (day \div 366 + 1) .. (day \div 365 + 1)
  BY <1>6
<1>. QED
  BY <1>5, <1>7

LEMMA YearOfIsTheYear ==
    ASSUME NEW day \in Nat
    PROVE  /\ YearOf(day) \in Nat \ {0}
           /\ DaysBeforeYear(YearOf(day)) <= day
           /\ day < DaysBeforeYear(YearOf(day) + 1)
<1>1. /\ YearOf(day) \in (day \div 366 + 1) .. (day \div 365 + 1)
      /\ DaysBeforeYear(YearOf(day)) <= day
      /\ day < DaysBeforeYear(YearOf(day) + 1)
  BY YearExists DEF YearOf
<1>. QED
  BY <1>1

\* Date(y, m) counts the days before a month; Date(y, 13) is the new year.
LEMMA DateIsADay ==
    ASSUME NEW y \in Nat \ {0}, NEW m \in 1 .. 12
    PROVE  /\ Date(y, m) \in Nat
           /\ DaysBeforeYear(y) <= Date(y, m)
           /\ Date(y, m) < Date(y, m + 1)
           /\ Date(y, m + 1) <= DaysBeforeYear(y + 1)
           /\ Date(y, 1) = DaysBeforeYear(y)
           /\ Date(y, 13) = DaysBeforeYear(y + 1)
<1>1. /\ DaysBeforeYear(y) \in Nat
      /\ DaysBeforeYear(y + 1) - DaysBeforeYear(y)
           = IF IsLeap(y) THEN 366 ELSE 365
      /\ DaysBeforeYear(y + 1) \in Nat
  <2>1. y + 1 \in Nat \ {0}
    OBVIOUS
  <2>. QED
    BY <2>1, DaysBeforeYearType
<1>2. \A n \in 1 .. 12 :
         Date(y, n) = DaysBeforeYear(y) + DaysBeforeMonth[n]
                        + (IF n > 2 /\ IsLeap(y) THEN 1 ELSE 0)
  <2>. TAKE n \in 1 .. 12
  <2>1. y + (n - 1) \div 12 = y /\ ((n - 1) % 12) + 1 = n
    OBVIOUS
  <2>. QED
    BY <2>1 DEF Date
<1>3. Date(y, 13) = DaysBeforeYear(y + 1)
  <2>1. y + (13 - 1) \div 12 = y + 1 /\ ((13 - 1) % 12) + 1 = 1
    OBVIOUS
  <2>2. DaysBeforeMonth[1] = 0
    BY DEF DaysBeforeMonth
  <2>. QED
    BY <1>1, <2>1, <2>2 DEF Date
<1>. QED
  BY <1>1, <1>2, <1>3 DEF DaysBeforeMonth

LEMMA MonthOfIsTheMonth ==
    ASSUME NEW day \in Nat
    PROVE  LET y == YearOf(day) m == MonthOf(day)
           IN  /\ m \in 1 .. 12
               /\ Date(y, m) <= day
               /\ day < Date(y, m + 1)
<1>. DEFINE y == YearOf(day)
<1>1. /\ y \in Nat \ {0}
      /\ DaysBeforeYear(y) <= day
      /\ day < DaysBeforeYear(y + 1)
  BY YearOfIsTheYear
<1>. HIDE DEF y
<1>2. \E m \in 1 .. 12 : Date(y, m) <= day /\ day < Date(y, m + 1)
  <2>1. \A m \in 1 .. 12 : Date(y, m) \in Nat
    BY <1>1, DateIsADay
  <2>2. Date(y, 1) <= day /\ day < Date(y, 13)
    BY <1>1, DateIsADay
  <2>. QED
    BY <2>1, <2>2
<1>. QED
  BY <1>2 DEF MonthOf, y

(***************************************************************************)
(* A window starts at or before the instant it is computed for and ends    *)
(* after it: what makes end.Sub(now) in CheckRateLimit positive.           *)
(***************************************************************************)
THEOREM WindowContainsNow ==
    ASSUME NEW p \in Periods, NEW t \in Nat
    PROVE  LET w == windowBounds(p, t)
           IN  w.start \in Nat /\ w.end \in Nat /\ w.start <= t /\ t < w.end
<1>1. CASE p \in FixedPeriods
  <2>. DEFINE d == LengthOf[p]
  <2>1. d \in Nat \ {0}
    BY <1>1, DurationAssumption DEF FixedPeriods, LengthOf, Week
  <2>. HIDE DEF d
  <2>2. windowBounds(p, t) =
          [start |-> Truncate(t, d), end |-> Truncate(t, d) + d]
    BY <1>1 DEF windowBounds, FixedBounds, FixedPeriods, d
  <2>3. /\ Truncate(t, d) \in Nat
        /\ Truncate(t, d) <= t
        /\ t < Truncate(t, d) + d
    BY <2>1, TruncateRounds
  <2>. QED
    BY <2>1, <2>2, <2>3
<1>. DEFINE day == t \div Day
            y == YearOf(day)
            m == MonthOf(day)
<1>2. /\ day \in Nat
      /\ Day * day <= t
      /\ t < Day * (day + 1)
  <2>1. Day \in Nat \ {0}
    BY DurationAssumption
  <2>2. /\ t \div Day \in Nat
        /\ t % Day \in 0 .. Day - 1
        /\ t = Day * (t \div Day) + (t % Day)
    BY <2>1
  <2>. QED
    BY <2>1, <2>2
<1>. HIDE DEF day
<1>3. /\ y \in Nat \ {0}
      /\ DaysBeforeYear(y) <= day
      /\ day < DaysBeforeYear(y + 1)
  BY <1>2, YearOfIsTheYear
<1>4. ASSUME NEW first \in Nat, NEW next \in Nat, first <= day, day < next
      PROVE  /\ Day * first \in Nat /\ Day * next \in Nat
             /\ Day * first <= t /\ t < Day * next
  <2>1. Day \in Nat \ {0}
    BY DurationAssumption
  <2>2. Day * first <= Day * day
    BY <1>2, <1>4, <2>1
  <2>3. Day * (day + 1) <= Day * next
    BY <1>2, <1>4, <2>1
  <2>4. Day * first \in Nat /\ Day * next \in Nat
    BY <2>1
  <2>5. Day * day \in Nat /\ Day * (day + 1) \in Nat
    BY <1>2, <2>1
  <2>. HIDE <2>1
  <2>. QED
    BY <1>2, <2>2, <2>3, <2>4, <2>5
<1>5. CASE p = "month"
  <2>1. windowBounds(p, t) =
          [start |-> Day * Date(y, m), end |-> Day * Date(y, m + 1)]
    BY <1>5 DEF windowBounds, MonthBounds, day
  <2>2. m \in 1 .. 12 /\ Date(y, m) <= day /\ day < Date(y, m + 1)
    BY <1>2, MonthOfIsTheMonth
  <2>. HIDE DEF y, m
  <2>3. Date(y, m) \in Nat /\ Date(y, m + 1) \in Nat
    <3>1. Date(y, m) \in Nat
      BY <1>3, <2>2, DateIsADay
    <3>2. CASE m = 12
      <4>1. 1 \in 1 .. 12 /\ m + 1 = 13 /\ y + 1 \in Nat \ {0}
        BY <1>3, <3>2
      <4>2. Date(y, m + 1) = DaysBeforeYear(y + 1)
        BY <1>3, <4>1, DateIsADay
      <4>3. DaysBeforeYear(y + 1) \in Nat
        BY <4>1, DaysBeforeYearType
      <4>. QED
        BY <3>1, <4>2, <4>3
    <3>3. CASE m # 12
      <4>1. m + 1 \in 1 .. 12
        BY <2>2, <3>3
      <4>. QED
        BY <1>3, <3>1, <4>1, DateIsADay
    <3>. QED
      BY <3>2, <3>3
  <2>. QED
    BY <1>4, <2>1, <2>2, <2>3
<1>6. CASE p = "year"
  <2>1. windowBounds(p, t) =
          [start |-> Day * Date(y, 1), end |-> Day * Date(y + 1, 1)]
    BY <1>6 DEF windowBounds, YearBounds, day
  <2>. HIDE DEF y
  <2>2. y + 1 \in Nat \ {0} /\ 1 \in 1 .. 12
    BY <1>3
  <2>3. Date(y, 1) = DaysBeforeYear(y) /\ Date(y, 1) \in Nat
    BY <1>3, <2>2, DateIsADay
  <2>4. Date(y + 1, 1) = DaysBeforeYear(y + 1) /\ Date(y + 1, 1) \in Nat
    BY <2>2, DateIsADay
  <2>. QED
    BY <1>3, <1>4, <2>1, <2>3, <2>4
<1>. QED
  BY <1>1, <1>5, <1>6 DEF Periods, CalendarPeriods

LEMMA YearOfIsUnique ==
    ASSUME NEW day \in Nat, NEW y \in Nat \ {0},
           DaysBeforeYear(y) <= day, day < DaysBeforeYear(y + 1)
    PROVE  YearOf(day) = y
<1>. DEFINE z == YearOf(day)
<1>1. /\ z \in Nat \ {0}
      /\ DaysBeforeYear(z) <= day
      /\ day < DaysBeforeYear(z + 1)
  BY YearOfIsTheYear
<1>. HIDE DEF z
<1>2. /\ y + 1 \in Nat \ {0}
      /\ z + 1 \in Nat \ {0}
  BY <1>1
<1>3. /\ DaysBeforeYear(y) \in Nat /\ DaysBeforeYear(y + 1) \in Nat
      /\ DaysBeforeYear(z) \in Nat /\ DaysBeforeYear(z + 1) \in Nat
  BY <1>1, <1>2, DaysBeforeYearType
<1>4. ~(y < z)
  <2>1. SUFFICES ASSUME y < z PROVE FALSE
    OBVIOUS
  <2>2. DaysBeforeYear(y + 1) <= DaysBeforeYear(z)
    BY <1>1, <2>1, YearsAreOrdered
  <2>. QED
    BY <1>1, <1>3, <2>2
<1>5. ~(z < y)
  <2>1. SUFFICES ASSUME z < y PROVE FALSE
    OBVIOUS
  <2>2. DaysBeforeYear(z + 1) <= DaysBeforeYear(y)
    BY <1>1, <2>1, YearsAreOrdered
  <2>. QED
    BY <1>1, <1>3, <2>2
<1>. QED
  BY <1>1, <1>4, <1>5 DEF z

LEMMA MonthsAreOrdered ==
    ASSUME NEW y \in Nat \ {0}, NEW m \in 1 .. 12, NEW n \in 1 .. 12, m < n
    PROVE  Date(y, m + 1) <= Date(y, n)
<1>1. \A k \in 1 .. 12 :
         Date(y, k) = DaysBeforeYear(y) + DaysBeforeMonth[k]
                        + (IF k > 2 /\ IsLeap(y) THEN 1 ELSE 0)
  <2>. TAKE k \in 1 .. 12
  <2>1. y + (k - 1) \div 12 = y /\ ((k - 1) % 12) + 1 = k
    OBVIOUS
  <2>. QED
    BY <2>1 DEF Date
<1>2. DaysBeforeYear(y) \in Nat
  BY DaysBeforeYearType
<1>3. m + 1 \in 1 .. 12
  OBVIOUS
<1>. QED
  BY <1>1, <1>2, <1>3 DEF DaysBeforeMonth

LEMMA MonthOfIsUnique ==
    ASSUME NEW day \in Nat, NEW m \in 1 .. 12,
           Date(YearOf(day), m) <= day, day < Date(YearOf(day), m + 1)
    PROVE  MonthOf(day) = m
<1>. DEFINE y == YearOf(day)
            n == MonthOf(day)
<1>1. y \in Nat \ {0}
  BY YearOfIsTheYear
<1>2. n \in 1 .. 12 /\ Date(y, n) <= day /\ day < Date(y, n + 1)
  BY MonthOfIsTheMonth
<1>3. Date(y, m) <= day /\ day < Date(y, m + 1)
  OBVIOUS
<1>. HIDE DEF y, n
<1>4. Date(y, m) \in Nat /\ Date(y, n) \in Nat
  BY <1>1, <1>2, DateIsADay
<1>5. ~(m < n)
  <2>1. SUFFICES ASSUME m < n PROVE FALSE
    OBVIOUS
  <2>2. Date(y, m + 1) <= Date(y, n)
    BY <1>1, <1>2, <2>1, MonthsAreOrdered
  <2>3. m + 1 \in 1 .. 12
    BY <1>2, <2>1
  <2>4. Date(y, m + 1) \in Nat
    BY <1>1, <2>3, DateIsADay
  <2>. QED
    BY <1>2, <1>3, <1>4, <2>2, <2>4
<1>6. ~(n < m)
  <2>1. SUFFICES ASSUME n < m PROVE FALSE
    OBVIOUS
  <2>2. Date(y, n + 1) <= Date(y, m)
    BY <1>1, <1>2, <2>1, MonthsAreOrdered
  <2>3. n + 1 \in 1 .. 12
    BY <1>2, <2>1
  <2>4. Date(y, n + 1) \in Nat
    BY <1>1, <2>3, DateIsADay
  <2>. QED
    BY <1>2, <1>3, <1>4, <2>2, <2>4
<1>. QED
  BY <1>2, <1>5, <1>6 DEF n

\* Rounding an instant of [q * d, q * d + d) down gives q * d.
LEMMA TruncateIsUnique ==
    ASSUME NEW d \in Nat \ {0}, NEW q \in Nat, NEW u \in Nat,
           q * d <= u, u < q * d + d
    PROVE  Truncate(u, d) = q * d
<1>1. PICK r \in Nat : /\ Truncate(u, d) = r * d
                       /\ r * d <= u
                       /\ u < r * d + d
  BY TruncateRounds
<1>2. q * d \in Nat /\ r * d \in Nat
  BY <1>1
<1>3. r < q => r * d + d <= q * d
  <2>1. SUFFICES ASSUME r < q PROVE (r + 1) * d <= q * d
    BY (r + 1) * d = r * d + d
  <2>. QED
    BY <1>1, <2>1
<1>4. q < r => q * d + d <= r * d
  <2>1. SUFFICES ASSUME q < r PROVE (q + 1) * d <= r * d
    BY (q + 1) * d = q * d + d
  <2>. QED
    BY <1>1, <2>1
<1>5. ~(r < q) /\ ~(q < r)
  BY <1>1, <1>2, <1>3, <1>4
<1>. QED
  BY <1>1, <1>5

\* The day an instant of [Day * first, Day * next) falls on.
LEMMA DayOfInstant ==
    ASSUME NEW first \in Nat, NEW next \in Nat, NEW u \in Nat,
           Day * first <= u, u < Day * next
    PROVE  /\ u \div Day \in Nat
           /\ first <= u \div Day
           /\ u \div Day < next
<1>. DEFINE v == u \div Day
<1>1. Day \in Nat \ {0}
  BY DurationAssumption
<1>2. v \in Nat /\ u % Day \in 0 .. Day - 1 /\ u = Day * v + (u % Day)
  BY <1>1
<1>3. Day * v \in Nat /\ Day * (v + 1) = Day * v + Day
  BY <1>1, <1>2
<1>. HIDE DEF v
<1>4. v < first => Day * (v + 1) <= Day * first
  BY <1>1, <1>2
<1>5. next <= v => Day * next <= Day * v
  BY <1>1, <1>2
<1>6. Day * first \in Nat /\ Day * next \in Nat
  BY <1>1
<1>. QED
  BY <1>1, <1>2, <1>3, <1>4, <1>5, <1>6 DEF v

LEMMA MonthBoundsAgree ==
    ASSUME NEW y \in Nat \ {0}, NEW m \in 1 .. 12, NEW u \in Nat,
           Day * Date(y, m) <= u, u < Day * Date(y, m + 1)
    PROVE  windowBounds("month", u) =
             [start |-> Day * Date(y, m), end |-> Day * Date(y, m + 1)]
<1>1. /\ Date(y, m) \in Nat
      /\ DaysBeforeYear(y) <= Date(y, m)
      /\ Date(y, m) < Date(y, m + 1)
      /\ Date(y, m + 1) <= DaysBeforeYear(y + 1)
  BY DateIsADay
<1>2. DaysBeforeYear(y) \in Nat /\ DaysBeforeYear(y + 1) \in Nat
  <2>1. y + 1 \in Nat \ {0}
    OBVIOUS
  <2>. QED
    BY <2>1, DaysBeforeYearType
<1>3. Date(y, m + 1) \in Nat
  <2>1. CASE m = 12
    <3>1. m + 1 = 13 /\ 1 \in 1 .. 12
      BY <2>1
    <3>2. Date(y, 13) = DaysBeforeYear(y + 1)
      BY <3>1, DateIsADay
    <3>. QED
      BY <1>2, <3>1, <3>2
  <2>2. CASE m # 12
    <3>1. m + 1 \in 1 .. 12
      BY <2>2
    <3>. QED
      BY <3>1, DateIsADay
  <2>. QED
    BY <2>1, <2>2
<1>4. /\ u \div Day \in Nat
      /\ Date(y, m) <= u \div Day
      /\ u \div Day < Date(y, m + 1)
  BY <1>1, <1>3, DayOfInstant
<1>5. YearOf(u \div Day) = y
  <2>1. DaysBeforeYear(y) <= u \div Day /\ u \div Day < DaysBeforeYear(y + 1)
    BY <1>1, <1>2, <1>3, <1>4
  <2>. QED
    BY <1>4, <2>1, YearOfIsUnique
<1>6. MonthOf(u \div Day) = m
  BY <1>4, <1>5, MonthOfIsUnique
<1>. QED
  BY <1>5, <1>6 DEF windowBounds, MonthBounds

LEMMA YearBoundsAgree ==
    ASSUME NEW y \in Nat \ {0}, NEW u \in Nat,
           Day * Date(y, 1) <= u, u < Day * Date(y + 1, 1)
    PROVE  windowBounds("year", u) =
             [start |-> Day * Date(y, 1), end |-> Day * Date(y + 1, 1)]
<1>1. y + 1 \in Nat \ {0} /\ 1 \in 1 .. 12
  OBVIOUS
<1>2. Date(y, 1) = DaysBeforeYear(y) /\ Date(y, 1) \in Nat
  BY <1>1, DateIsADay
<1>3. Date(y + 1, 1) = DaysBeforeYear(y + 1) /\ Date(y + 1, 1) \in Nat
  BY <1>1, DateIsADay
<1>4. /\ u \div Day \in Nat
      /\ Date(y, 1) <= u \div Day
      /\ u \div Day < Date(y + 1, 1)
  BY <1>2, <1>3, DayOfInstant
<1>5. YearOf(u \div Day) = y
  BY <1>2, <1>3, <1>4, YearOfIsUnique
<1>. QED
  BY <1>5 DEF windowBounds, YearBounds

LEMMA FixedBoundsAgree ==
    ASSUME NEW p \in FixedPeriods, NEW q \in Nat, NEW u \in Nat,
           q * LengthOf[p] <= u, u < q * LengthOf[p] + LengthOf[p]
    PROVE  windowBounds(p, u) =
             [start |-> q * LengthOf[p], end |-> q * LengthOf[p] + LengthOf[p]]
<1>1. LengthOf[p] \in Nat \ {0}
  BY DurationAssumption DEF FixedPeriods, LengthOf, Week
<1>2. Truncate(u, LengthOf[p]) = q * LengthOf[p]
  BY <1>1, TruncateIsUnique
<1>. QED
  BY <1>2 DEF windowBounds, FixedBounds, FixedPeriods

(***************************************************************************)
(* The windows of a period tile time: every instant of a window has that   *)
(* window, whichever replica computes it, and the instant it ends at       *)
(* starts the next one.                                                    *)
(***************************************************************************)
THEOREM WindowsTileTime ==
    ASSUME NEW p \in Periods, NEW t \in Nat
    PROVE  LET w == windowBounds(p, t)
           IN  /\ \A u \in Nat :
                     w.start <= u /\ u < w.end => windowBounds(p, u) = w
               /\ windowBounds(p, w.end).start = w.end
<1>. DEFINE w == windowBounds(p, t)
<1>1. w.start \in Nat /\ w.end \in Nat /\ w.start <= t /\ t < w.end
  BY WindowContainsNow
<1>2. CASE p \in FixedPeriods
  <2>. DEFINE d == LengthOf[p]
  <2>1. d \in Nat \ {0}
    BY <1>2, DurationAssumption DEF FixedPeriods, LengthOf, Week
  <2>2. PICK q \in Nat : Truncate(t, d) = q * d
    BY <2>1, TruncateRounds
  <2>3. w = [start |-> q * d, end |-> q * d + d]
    BY <1>2, <2>2 DEF windowBounds, FixedBounds, FixedPeriods
  <2>4. \A u \in Nat : w.start <= u /\ u < w.end => windowBounds(p, u) = w
    BY <1>2, <2>3, FixedBoundsAgree
  <2>5. windowBounds(p, w.end).start = w.end
    <3>. HIDE DEF d, w
    <3>1. q + 1 \in Nat /\ (q + 1) * d = q * d + d /\ (q + 1) * d \in Nat
      BY <2>1
    <3>2. windowBounds(p, (q + 1) * d).start = (q + 1) * d
      <4>1. (q + 1) * d <= (q + 1) * d /\ (q + 1) * d < (q + 1) * d + d
        BY <2>1, <3>1
      <4>. QED
        BY <1>2, <3>1, <4>1, FixedBoundsAgree DEF d
    <3>. QED
      BY <2>3, <3>1, <3>2
  <2>. QED
    BY <2>4, <2>5
<1>. DEFINE day == t \div Day
            y == YearOf(day)
            m == MonthOf(day)
<1>3. day \in Nat
  BY DurationAssumption
<1>4. y \in Nat \ {0} /\ y + 1 \in Nat \ {0} /\ y + 2 \in Nat \ {0}
  <2>1. y \in Nat \ {0}
    BY <1>3, YearOfIsTheYear
  <2>. QED
    BY <2>1
<1>5. m \in 1 .. 12
  BY <1>3, MonthOfIsTheMonth
<1>6. Day \in Nat \ {0}
  BY DurationAssumption
<1>7. ASSUME NEW first \in Nat, NEW next \in Nat, first < next
      PROVE  /\ Day * first \in Nat
             /\ Day * first <= Day * first
             /\ Day * first < Day * next
  BY <1>6, <1>7
<1>8. CASE p = "month"
  <2>1. w = [start |-> Day * Date(y, m), end |-> Day * Date(y, m + 1)]
    BY <1>8 DEF windowBounds, MonthBounds
  <2>. HIDE DEF w, y, m
  <2>2. \A u \in Nat : w.start <= u /\ u < w.end => windowBounds(p, u) = w
    BY <1>4, <1>5, <1>8, <2>1, MonthBoundsAgree
  <2>3. PICK z \in Nat \ {0}, n \in 1 .. 12 : Date(z, n) = Date(y, m + 1)
    <3>1. CASE m = 12
      <4>1. m + 1 = 13 /\ 1 \in 1 .. 12
        BY <3>1
      <4>2. Date(y, 13) = DaysBeforeYear(y + 1)
        BY <1>4, <4>1, DateIsADay
      <4>3. Date(y + 1, 1) = DaysBeforeYear(y + 1)
        BY <1>4, <4>1, DateIsADay
      <4>. QED
        BY <1>4, <4>1, <4>2, <4>3
    <3>2. CASE m # 12
      <4>1. m + 1 \in 1 .. 12
        BY <1>5, <3>2
      <4>. QED
        BY <1>4, <4>1
    <3>. QED
      BY <3>1, <3>2
  <2>4. /\ Date(z, n) \in Nat
        /\ Date(z, n) < Date(z, n + 1)
    BY DateIsADay
  <2>5. Date(z, n + 1) \in Nat
    <3>1. CASE n = 12
      <4>1. n + 1 = 13 /\ 1 \in 1 .. 12 /\ z + 1 \in Nat \ {0}
        BY <3>1
      <4>2. Date(z, 13) = DaysBeforeYear(z + 1)
        BY <4>1, DateIsADay
      <4>3. DaysBeforeYear(z + 1) \in Nat
        BY <4>1, DaysBeforeYearType
      <4>. QED
        BY <4>1, <4>2, <4>3
    <3>2. CASE n # 12
      <4>1. n + 1 \in 1 .. 12
        BY <3>2
      <4>. QED
        BY <4>1, DateIsADay
    <3>. QED
      BY <3>1, <3>2
  <2>6. windowBounds("month", Day * Date(z, n)).start = Day * Date(z, n)
    <3>1. /\ Day * Date(z, n) \in Nat
          /\ Day * Date(z, n) <= Day * Date(z, n)
          /\ Day * Date(z, n) < Day * Date(z, n + 1)
      BY <1>7, <2>4, <2>5
    <3>. QED
      BY <3>1, MonthBoundsAgree
  <2>7. windowBounds(p, w.end).start = w.end
    BY <1>8, <2>1, <2>3, <2>6
  <2>. QED
    BY <2>2, <2>7 DEF w
<1>9. CASE p = "year"
  <2>1. w = [start |-> Day * Date(y, 1), end |-> Day * Date(y + 1, 1)]
    BY <1>9 DEF windowBounds, YearBounds
  <2>. HIDE DEF w, y
  <2>2. \A u \in Nat : w.start <= u /\ u < w.end => windowBounds(p, u) = w
    BY <1>4, <1>9, <2>1, YearBoundsAgree
  <2>3. /\ Date(y + 1, 1) = DaysBeforeYear(y + 1) /\ Date(y + 1, 1) \in Nat
        /\ Date(y + 2, 1) = DaysBeforeYear(y + 2) /\ Date(y + 2, 1) \in Nat
    <3>1. 1 \in 1 .. 12
      OBVIOUS
    <3>. QED
      BY <1>4, <3>1, DateIsADay
  <2>4. Date(y + 1, 1) < Date(y + 2, 1)
    <3>1. DaysBeforeYear(y + 1) < DaysBeforeYear(y + 2)
      BY <1>4 DEF DaysBeforeYear
    <3>. QED
      BY <2>3, <3>1
  <2>5. windowBounds("year", Day * Date(y + 1, 1)).start = Day * Date(y + 1, 1)
    <3>1. /\ Day * Date(y + 1, 1) \in Nat
          /\ Day * Date(y + 1, 1) <= Day * Date(y + 1, 1)
          /\ Day * Date(y + 1, 1) < Day * Date(y + 2, 1)
      BY <1>7, <2>3, <2>4
    <3>2. (y + 1) + 1 = y + 2
      BY <1>4
    <3>. QED
      BY <1>4, <3>1, <3>2, YearBoundsAgree
  <2>6. windowBounds(p, w.end).start = w.end
    BY <1>9, <2>1, <2>5
  <2>. QED
    BY <2>2, <2>6 DEF w
<1>. QED
  BY <1>2, <1>8, <1>9 DEF Periods, CalendarPeriods

(***************************************************************************)
(* The Retry-After header: a client that waits that many seconds after the *)
(* clock was read is past the end of the window, by at most a second.      *)
(***************************************************************************)
THEOREM RetryAfterBounds ==
    ASSUME NEW d \in Nat
    PROVE  /\ RetryAfterSeconds(d) \in Nat
           /\ d < Second * RetryAfterSeconds(d)
           /\ Second * RetryAfterSeconds(d) <= d + Second
<1>. DEFINE q == d \div Second
<1>1. Second \in Nat \ {0}
  BY DurationAssumption
<1>2. q \in Nat /\ d % Second \in 0 .. Second - 1 /\ d = Second * q + (d % Second)
  BY <1>1
<1>3. Second * (q + 1) = Second * q + Second
  BY <1>1, <1>2
<1>4. RetryAfterSeconds(d) = q + 1
  BY DEF RetryAfterSeconds
<1>5. Second * q \in Nat
  BY <1>1, <1>2
<1>. QED
  BY <1>1, <1>2, <1>3, <1>4, <1>5
(***************************************************************************)
(* The calendar of windowBounds is the one on the wall: a clock that knows *)
(* the lengths of the months and the Gregorian rule, and counts, is always *)
(* in the month and the year that windowBounds finds, from year 1 on.      *)
(***************************************************************************)
PagesAreDates ==
    /\ now \in Nat /\ year \in Nat \ {0} /\ month \in 1 .. 12
    /\ yearStart = Day * Date(year, 1)
    /\ monthStart = Day * Date(year, month)
    /\ monthStart <= now /\ now < Day * Date(year, month + 1)

\* The day a month, or the next year, begins.
LEMMA DateType ==
    ASSUME NEW y \in Nat \ {0}, NEW m \in 1 .. 13
    PROVE  Date(y, m) \in Nat
<1>1. CASE m \in 1 .. 12
  BY <1>1, DateIsADay
<1>2. CASE m = 13
  <2>1. y + 1 \in Nat \ {0} /\ 1 \in 1 .. 12
    OBVIOUS
  <2>2. Date(y, 13) = DaysBeforeYear(y + 1)
    BY <2>1, DateIsADay
  <2>. QED
    BY <1>2, <2>1, <2>2, DaysBeforeYearType
<1>. QED
  BY <1>1, <1>2

\* The lengths on the wall are the distances of the dates.
LEMMA WallLengths ==
    ASSUME NEW y \in Nat \ {0}, NEW m \in 1 .. 12
    PROVE  /\ Day * Date(y, m) + WallLength(y, m) = Day * Date(y, m + 1)
           /\ Day * Date(y, 1) + Day * (IF y \in LeapYears THEN 366 ELSE 365)
                = Day * Date(y + 1, 1)
           /\ Day * Date(y, 13) = Day * Date(y + 1, 1)
<1>1. y \in LeapYears <=> IsLeap(y)
  BY DEF LeapYears, IsLeap
<1>2. y + 1 \in Nat \ {0} /\ 1 \in 1 .. 12
  OBVIOUS
<1>3. /\ Date(y, 13) = DaysBeforeYear(y + 1)
      /\ Date(y + 1, 1) = DaysBeforeYear(y + 1)
      /\ Date(y, 1) = DaysBeforeYear(y)
  BY <1>2, DateIsADay
<1>4. /\ DaysBeforeYear(y) \in Nat /\ DaysBeforeYear(y + 1) \in Nat
      /\ DaysBeforeYear(y + 1) - DaysBeforeYear(y) = IF IsLeap(y) THEN 366 ELSE 365
  BY <1>2, DaysBeforeYearType
<1>. DEFINE days == IF m = 2 /\ IsLeap(y) THEN 29 ELSE WallMonths[m]
<1>5. Date(y, m + 1) - Date(y, m) = days /\ days \in Nat
  <2>1. \A n \in 1 .. 12 :
           Date(y, n) = DaysBeforeYear(y) + DaysBeforeMonth[n]
                          + (IF n > 2 /\ IsLeap(y) THEN 1 ELSE 0)
    <3>. TAKE n \in 1 .. 12
    <3>1. y + (n - 1) \div 12 = y /\ ((n - 1) % 12) + 1 = n
      OBVIOUS
    <3>. QED
      BY <3>1 DEF Date
  <2>2. CASE m = 12
    BY <1>3, <1>4, <2>1, <2>2 DEF DaysBeforeMonth, WallMonths
  <2>3. CASE m \in 1 .. 11
    <3>1. m + 1 \in 1 .. 12
      BY <2>3
    <3>. QED
      BY <1>4, <2>1, <2>3, <3>1 DEF DaysBeforeMonth, WallMonths
  <2>. QED
    BY <2>2, <2>3
<1>6. /\ Date(y, m) \in Nat /\ Date(y, m + 1) \in Nat
      /\ WallLength(y, m) = Day * days
  BY <1>1, DateType DEF WallLength
<1>. HIDE DEF days
<1>7. Day \in Nat /\ Date(y, m + 1) = Date(y, m) + days
  BY <1>5, <1>6, DurationAssumption
<1>8. Day * Date(y, m) + Day * days = Day * Date(y, m + 1)
  BY <1>5, <1>6, <1>7
<1>9. Day * DaysBeforeYear(y) + Day * (IF IsLeap(y) THEN 366 ELSE 365)
        = Day * DaysBeforeYear(y + 1)
  <2>. DEFINE length == IF IsLeap(y) THEN 366 ELSE 365
  <2>1. length \in Nat /\ DaysBeforeYear(y + 1) = DaysBeforeYear(y) + length
    BY <1>4
  <2>. HIDE DEF length
  <2>2. Day * DaysBeforeYear(y) + Day * length = Day * DaysBeforeYear(y + 1)
    BY <1>4, <1>7, <2>1
  <2>. QED
    BY <2>2 DEF length
<1>. QED
  BY <1>1, <1>3, <1>6, <1>8, <1>9

\* A page is turned to the month that begins now.
LEMMA PageTurns ==
    ASSUME NEW y \in Nat \ {0}, NEW m \in 1 .. 12
    PROVE  /\ Day * Date(y, m) \in Nat /\ Day * Date(y, m + 1) \in Nat
           /\ Day * Date(y, m) < Day * Date(y, m + 1)
<1>1. Date(y, m) \in Nat /\ Date(y, m + 1) \in Nat /\ Date(y, m) < Date(y, m + 1)
  BY DateType, DateIsADay
<1>2. Day \in Nat \ {0}
  BY DurationAssumption
<1>. QED
  BY <1>1, <1>2

LEMMA StepPages ==
    ASSUME PagesAreDates, [Walk]_calendar
    PROVE  PagesAreDates'
<1>1. /\ now \in Nat /\ year \in Nat \ {0} /\ month \in 1 .. 12
      /\ yearStart = Day * Date(year, 1)
      /\ monthStart = Day * Date(year, month)
      /\ monthStart <= now /\ now < Day * Date(year, month + 1)
  BY DEF PagesAreDates
<1>2. /\ monthStart + WallLength(year, month) = Day * Date(year, month + 1)
      /\ yearStart + Day * (IF year \in LeapYears THEN 366 ELSE 365)
           = Day * Date(year + 1, 1)
      /\ Day * Date(year, 13) = Day * Date(year + 1, 1)
  BY <1>1, WallLengths
<1>3. monthStart \in Nat /\ Day * Date(year, month + 1) \in Nat
  BY <1>1, PageTurns
<1>4. ASSUME now' = Day * Date(year + 1, 1), NewYear(now')
      PROVE  PagesAreDates'
  <2>1. year + 1 \in Nat \ {0} /\ 1 \in 1 .. 12
    BY <1>1
  <2>2. /\ Day * Date(year + 1, 1) \in Nat
        /\ Day * Date(year + 1, 1) < Day * Date(year + 1, 1 + 1)
    BY <2>1, PageTurns
  <2>. QED
    BY <1>4, <2>1, <2>2 DEF NewYear, PagesAreDates
<1>5. CASE Count
  <2>1. now' = now + 1
    BY <1>5 DEF Count
  <2>2. CASE now' < monthStart + WallLength(year, month)
    <3>1. UNCHANGED <<year, month, monthStart, yearStart>>
      BY <1>5, <2>2 DEF Count
    <3>. QED
      BY <1>1, <1>2, <1>3, <2>1, <2>2, <3>1 DEF PagesAreDates
  <2>3. CASE ~(now' < monthStart + WallLength(year, month))
    <3>1. now' = Day * Date(year, month + 1)
      BY <1>1, <1>2, <1>3, <2>1, <2>3
    <3>2. CASE month < 12
      <4>1. /\ month' = month + 1 /\ monthStart' = now'
            /\ year' = year /\ yearStart' = yearStart
        BY <1>5, <2>3, <3>2 DEF Count
      <4>2. month + 1 \in 1 .. 12
        BY <1>1, <3>2
      <4>3. Day * Date(year, month + 1) < Day * Date(year, (month + 1) + 1)
        BY <1>1, <4>2, PageTurns
      <4>. QED
        BY <1>1, <1>3, <3>1, <4>1, <4>2, <4>3 DEF PagesAreDates
    <3>3. CASE ~(month < 12)
      <4>1. month + 1 = 13 /\ NewYear(now')
        BY <1>1, <1>5, <2>3, <3>3 DEF Count
      <4>. QED
        BY <1>2, <1>4, <3>1, <4>1
    <3>. QED
      BY <3>2, <3>3
  <2>. QED
    BY <2>2, <2>3
<1>6. CASE SkipYear
  BY <1>2, <1>4, <1>6 DEF SkipYear
<1>7. CASE UNCHANGED calendar
  BY <1>1, <1>7 DEF calendar, PagesAreDates
<1>. QED
  BY <1>5, <1>6, <1>7 DEF Walk

(***************************************************************************)
(* At every instant, and in every year, the windows of a month and of a    *)
(* year are those of the calendar on the wall.                             *)
(***************************************************************************)
THEOREM FollowsTheWallCalendarHolds ==
    DayOne /\ [][Walk]_calendar => []FollowsTheWallCalendar
<1>1. DayOne => PagesAreDates
  <2>. SUFFICES ASSUME DayOne PROVE PagesAreDates
    OBVIOUS
  <2>1. now = 0 /\ year = 1 /\ month = 1 /\ monthStart = 0 /\ yearStart = 0
    BY DEF DayOne
  <2>2. Date(1, 1) = DaysBeforeYear(1) /\ DaysBeforeYear(1) = 0
    <3>1. 1 \in Nat \ {0} /\ 1 \in 1 .. 12
      OBVIOUS
    <3>. QED
      BY <3>1, DateIsADay DEF DaysBeforeYear
  <2>3. Day * Date(1, 1) = 0
    BY <2>2, DurationAssumption
  <2>4. Day * Date(1, 1) < Day * Date(1, 1 + 1)
    BY PageTurns
  <2>. QED
    BY <2>1, <2>3, <2>4 DEF PagesAreDates
<1>2. PagesAreDates /\ [Walk]_calendar => PagesAreDates'
  BY StepPages
<1>3. PagesAreDates => FollowsTheWallCalendar
  <2>. SUFFICES ASSUME PagesAreDates PROVE FollowsTheWallCalendar
    OBVIOUS
  <2>1. /\ now \in Nat /\ year \in Nat \ {0} /\ month \in 1 .. 12
        /\ yearStart = Day * Date(year, 1)
        /\ monthStart = Day * Date(year, month)
        /\ monthStart <= now /\ now < Day * Date(year, month + 1)
    BY DEF PagesAreDates
  <2>2. /\ monthStart + WallLength(year, month) = Day * Date(year, month + 1)
        /\ yearStart + Day * (IF year \in LeapYears THEN 366 ELSE 365)
             = Day * Date(year + 1, 1)
        /\ Day * Date(year, 13) = Day * Date(year + 1, 1)
    BY <2>1, WallLengths
  <2>3. windowBounds("month", now) =
           [start |-> Day * Date(year, month), end |-> Day * Date(year, month + 1)]
    BY <2>1, MonthBoundsAgree
  <2>4. Day * Date(year, 1) <= now /\ now < Day * Date(year + 1, 1)
    <3>1. /\ Date(year, 1) \in Nat /\ Date(year, month) \in Nat
          /\ Date(year, month + 1) \in Nat /\ Date(year, 13) \in Nat
      BY <2>1, DateType
    <3>2. Date(year, 1) <= Date(year, month) /\ Date(year, month + 1) <= Date(year, 13)
      BY <2>1, DateIsADay
    <3>3. /\ Day * Date(year, 1) <= Day * Date(year, month)
          /\ Day * Date(year, month + 1) <= Day * Date(year, 13)
      <4>1. Day \in Nat
        BY DurationAssumption
      <4>. QED
        BY <3>1, <3>2, <4>1
    <3>4. /\ Day * Date(year, 1) \in Nat /\ Day * Date(year, month) \in Nat
          /\ Day * Date(year, month + 1) \in Nat /\ Day * Date(year, 13) \in Nat
      BY <3>1, DurationAssumption
    <3>. QED
      BY <2>1, <2>2, <3>3, <3>4
  <2>5. windowBounds("year", now) =
           [start |-> Day * Date(year, 1), end |-> Day * Date(year + 1, 1)]
    BY <2>1, <2>4, YearBoundsAgree
  <2>. QED
    BY <2>1, <2>2, <2>3, <2>5 DEF FollowsTheWallCalendar
<1>. QED
  BY <1>1, <1>2, <1>3, PTL
-----------------------------------------------------------------------------
(***************************************************************************)
(* Now the requests.                                                       *)
(***************************************************************************)

\* What a request carries from the token's row, by where it is.
Snapshots ==
    \A r \in Requests :
        /\ pc[r] \in {"clock", "incr", "expire", "again", "denied"}
              => held[r].limit \in Nat /\ held[r].period \in Periods
        /\ pc[r] \in {"idle", "clock", "incr"} => ~IsCounted(r)
        /\ pc[r] \in {"expire", "again", "denied"} => IsCounted(r)
        /\ IsCounted(r) => /\ held[r].limit \in Nat
                           /\ held[r].period \in Periods
                           /\ counted[r].count # 0
        /\ read[r] <= clock

\* No two keys share a life, and what INCR answered in a life is never
\* answered twice in it.
LivesAreApart ==
    /\ \A k \in DOMAIN store : store[k].life <= lives
    /\ \A k, l \in DOMAIN store : store[k].life = store[l].life => k = l
    /\ \A r \in Requests : counted[r].life <= lives
    /\ \A r \in Requests, k \in DOMAIN store :
          IsCounted(r) /\ counted[r].life = store[k].life
            => counted[r].count <= store[k].count
    /\ \A r, s \in Requests :
          IsCounted(r) /\ counted[s].life = counted[r].life /\ r # s
            => counted[s].count # counted[r].count

\* An admitted request was counted within its limit.
AdmittedWithinLimit ==
    \A r \in Requests : Admitted(r) => counted[r].count <= held[r].limit

\* The request that is to set a time to live was the first of its key's life.
OpenersAreFirst ==
    \A r \in Requests : Expiring(r) => counted[r].count = 1

IInv ==
    /\ TypeOK
    /\ Snapshots
    /\ LivesAreApart
    /\ AdmittedWithinLimit
    /\ OpenersAreFirst
-----------------------------------------------------------------------------
LEMMA InitIInv == Init => IInv
<1> SUFFICES ASSUME Init PROVE IInv
  OBVIOUS
<1>1. DOMAIN store = {}
  BY DEF Init
<1>2. TypeOK
  BY <1>1, TimeAssumption DEF Init, TypeOK, NotCounted
<1>3. Snapshots
  BY TimeAssumption DEF Init, Snapshots, NotCounted, IsCounted
<1>4. LivesAreApart /\ AdmittedWithinLimit /\ OpenersAreFirst
  BY <1>1 DEF Init, LivesAreApart, AdmittedWithinLimit, OpenersAreFirst, Expiring,
              NotCounted, IsCounted, Admitted
<1>. QED
  BY <1>2, <1>3, <1>4 DEF IInv

\* The key of a request that holds a limit, and what is left of its window.
LEMMA KeyOfRequest ==
    ASSUME TypeOK, Snapshots, NEW r \in Requests, held[r].period \in Periods
    PROVE  /\ Key(r).period \in Periods
           /\ \E t \in 0 .. clock : Key(r) = KeyOf(Key(r).period, t)
           /\ WindowEnd(r) - read[r] \in Nat \ {0}
<1>1. read[r] \in Nat /\ read[r] <= clock /\ clock \in Nat
  BY DEF TypeOK, Snapshots
<1>2. /\ windowBounds(held[r].period, read[r]).end \in Nat
      /\ read[r] < windowBounds(held[r].period, read[r]).end
  BY <1>1, WindowContainsNow
<1>3. Key(r).period = held[r].period
  BY DEF Key, KeyOf
<1>4. Key(r) = KeyOf(held[r].period, read[r]) /\ read[r] \in 0 .. clock
  BY <1>1 DEF Key
<1>. QED
  BY <1>1, <1>2, <1>3, <1>4 DEF WindowEnd

LEMMA TimeToLiveType ==
    ASSUME NEW d \in Nat
    PROVE  TimeToLive(d) \in Nat
<1>1. Second \in Nat \ {0} /\ d \div Second \in Nat
  BY DurationAssumption
<1>. QED
  BY <1>1 DEF TimeToLive

\* INCR by its effect: every other key as it was, this one a count higher in
\* its life, or in a new life at 1.
LEMMA IncrementedStore ==
    ASSUME NEW k
    PROVE  LET after == Incremented(k)
           IN  /\ DOMAIN after = DOMAIN store \cup {k}
               /\ \A j \in DOMAIN store : j # k => after[j] = store[j]
               /\ k \in DOMAIN store =>
                     after[k] = [store[k] EXCEPT !.count = @ + 1]
               /\ k \notin DOMAIN store =>
                     after[k] = [count |-> 1, expires |-> Never,
                                 life |-> lives + 1]
BY DEF Incremented, IsLive

\* INCR sets no time to live, on a new key or an old one.
LEMMA IncrementedExpires ==
    ASSUME TypeOK, NEW k, store' = Incremented(k)
    PROVE  /\ DOMAIN store' = DOMAIN store \cup {k}
           /\ \A j \in DOMAIN store : store'[j].expires = store[j].expires
           /\ k \notin DOMAIN store => store'[k].count = 1
<1>1. /\ DOMAIN store' = DOMAIN store \cup {k}
      /\ \A j \in DOMAIN store : j # k => store'[j] = store[j]
      /\ k \in DOMAIN store => store'[k] = [store[k] EXCEPT !.count = @ + 1]
      /\ k \notin DOMAIN store =>
            store'[k] = [count |-> 1, expires |-> Never, life |-> lives + 1]
  BY IncrementedStore
<1>2. \A j \in DOMAIN store :
         store[j] \in [count : Nat \ {0}, expires : Nat \cup {Never},
                       life : Nat \ {0}]
  BY DEF TypeOK
<1>. QED
  BY <1>1, <1>2

\* What INCR does to the part of the invariant that speaks of the store.
LEMMA IncrementedIsSound ==
    ASSUME IInv, NEW k, k.period \in Periods,
           \E t \in 0 .. clock : k = KeyOf(k.period, t),
           store' = Incremented(k), lives' = LivesAfter(k)
    PROVE  /\ \A j \in DOMAIN store' :
                 /\ j.period \in Periods
                 /\ \E t \in 0 .. clock : j = KeyOf(j.period, t)
                 /\ store'[j] \in [count : Nat \ {0},
                                   expires : Nat \cup {Never},
                                   life : Nat \ {0}]
                 /\ store'[j].life <= lives'
           /\ \A j, l \in DOMAIN store' : store'[j].life = store'[l].life => j = l
           /\ lives' \in Nat /\ lives <= lives'
           /\ \A j \in DOMAIN store' :
                 store'[j].life # lives + 1 =>
                    /\ j \in DOMAIN store
                    /\ store'[j].life = store[j].life
                    /\ store[j].count <= store'[j].count
           /\ \A j \in DOMAIN store :
                 /\ j \in DOMAIN store'
                 /\ store'[j].life = store[j].life
                 /\ store'[j].expires = store[j].expires
           /\ k \in DOMAIN store'
           /\ store'[k].count = 1 => store'[k].expires = Never
                                       /\ store'[k].life = lives + 1
           /\ store'[k].count # 1 => store'[k].count = store[k].count + 1
                                       /\ k \in DOMAIN store
<1>1. /\ lives \in Nat
      /\ clock \in Nat
      /\ \A j \in DOMAIN store :
            /\ j.period \in Periods
            /\ \E t \in 0 .. clock : j = KeyOf(j.period, t)
            /\ store[j] \in [count : Nat \ {0}, expires : Nat \cup {Never},
                             life : Nat \ {0}]
            /\ store[j].life <= lives
      /\ \A j, l \in DOMAIN store : store[j].life = store[l].life => j = l
  BY DEF IInv, TypeOK, LivesAreApart
<1>2. /\ DOMAIN store' = DOMAIN store \cup {k}
      /\ \A j \in DOMAIN store : j # k => store'[j] = store[j]
      /\ k \in DOMAIN store => store'[k] = [store[k] EXCEPT !.count = @ + 1]
      /\ k \notin DOMAIN store =>
            store'[k] = [count |-> 1, expires |-> Never, life |-> lives + 1]
  BY IncrementedStore
<1>3. CASE k \in DOMAIN store
  <2>1. DOMAIN store' = DOMAIN store /\ lives' = lives
    BY <1>2, <1>3 DEF LivesAfter, IsLive
  <2>2. /\ store'[k].count = store[k].count + 1
        /\ store'[k].expires = store[k].expires
        /\ store'[k].life = store[k].life
        /\ store'[k] \in [count : Nat \ {0}, expires : Nat \cup {Never},
                          life : Nat \ {0}]
    BY <1>1, <1>2, <1>3
  <2>. QED
    BY <1>1, <1>2, <1>3, <2>1, <2>2
<1>4. CASE k \notin DOMAIN store
  <2>1. DOMAIN store' = DOMAIN store \cup {k} /\ lives' = lives + 1
    BY <1>2, <1>4 DEF LivesAfter, IsLive
  <2>2. /\ store'[k].count = 1
        /\ store'[k].expires = Never
        /\ store'[k].life = lives + 1
        /\ store'[k] \in [count : Nat \ {0}, expires : Nat \cup {Never},
                          life : Nat \ {0}]
    BY <1>1, <1>2, <1>4
  <2>3. \A j \in DOMAIN store : store'[j] = store[j] /\ store'[j].life # lives + 1
    BY <1>1, <1>2, <1>4
  <2>. QED
    BY <1>1, <1>4, <2>1, <2>2, <2>3
<1>. QED
  BY <1>3, <1>4

LEMMA StepIncr ==
    ASSUME IInv, NEW r \in Requests, Incr(r) PROVE IInv'
<1>. DEFINE k == Key(r)
<1>1. /\ pc[r] = "incr"
      /\ pc' = [pc EXCEPT ![r] = AfterIncr(r, store'[k].count)]
      /\ store' = Incremented(k)
      /\ lives' = LivesAfter(k)
      /\ counted' = [counted EXCEPT ![r] =
             [count |-> store'[k].count, life |-> store'[k].life, at |-> clock]]
      /\ UNCHANGED <<clock, plan, held, read, resent>>
  BY DEF Incr, Goto
<1>2. TypeOK /\ Snapshots /\ LivesAreApart /\ AdmittedWithinLimit
        /\ OpenersAreFirst
  BY DEF IInv
<1>3. /\ held[r].limit \in Nat
      /\ held[r].period \in Periods
      /\ ~IsCounted(r)
  BY <1>1, <1>2 DEF Snapshots
<1>4. k.period \in Periods /\ \E t \in 0 .. clock : k = KeyOf(k.period, t)
  BY <1>2, <1>3, KeyOfRequest
<1>5. \A s \in Requests : Key(s)' = Key(s)
  BY <1>1 DEF Key
<1>. HIDE DEF k
<1>6. /\ \A j \in DOMAIN store' :
           /\ j.period \in Periods
           /\ \E t \in 0 .. clock : j = KeyOf(j.period, t)
           /\ store'[j] \in [count : Nat \ {0}, expires : Nat \cup {Never},
                             life : Nat \ {0}]
           /\ store'[j].life <= lives'
      /\ \A j, l \in DOMAIN store' : store'[j].life = store'[l].life => j = l
      /\ lives' \in Nat /\ lives <= lives'
  BY <1>1, <1>4, IncrementedIsSound
<1>7. /\ \A j \in DOMAIN store' :
           store'[j].life # lives + 1 =>
              /\ j \in DOMAIN store
              /\ store'[j].life = store[j].life
              /\ store[j].count <= store'[j].count
      /\ \A j \in DOMAIN store :
           /\ j \in DOMAIN store'
           /\ store'[j].life = store[j].life
           /\ store'[j].expires = store[j].expires
      /\ k \in DOMAIN store'
      /\ store'[k].count = 1 =>
           store'[k].expires = Never /\ store'[k].life = lives + 1
      /\ store'[k].count # 1 =>
           store'[k].count = store[k].count + 1 /\ k \in DOMAIN store
  BY <1>1, <1>4, IncrementedIsSound
<1>8. /\ counted'[r].count = store'[k].count
      /\ counted'[r].life = store'[k].life
      /\ \A s \in Requests : s # r => counted'[s] = counted[s]
      /\ \A s \in Requests : s # r => pc'[s] = pc[s]
      /\ pc'[r] = AfterIncr(r, store'[k].count)
  BY <1>1, <1>2 DEF TypeOK
<1>9. /\ store'[k].count \in Nat \ {0}
      /\ store'[k].life \in Nat \ {0}
      /\ clock \in Nat
  BY <1>2, <1>6, <1>7 DEF TypeOK
<1>10. pc'[r] \in {"expire", "allowed", "denied"}
  BY <1>8 DEF AfterIncr, Answer
<1>11. TypeOK'
  <2>1. pc' \in [Requests -> {"idle", "clock", "incr", "expire", "again",
                              "allowed", "denied", "failed", "gone"}]
    BY <1>1, <1>2, <1>8, <1>10 DEF TypeOK
  <2>2. counted' \in [Requests -> [count : Nat, life : Nat, at : Nat]]
    BY <1>1, <1>2, <1>9 DEF TypeOK
  <2>3. \A j \in DOMAIN store' :
           /\ j.period \in Periods
           /\ \E t \in 0 .. clock' : j = KeyOf(j.period, t)
           /\ store'[j] \in [count : Nat \ {0}, expires : Nat \cup {Never},
                             life : Nat \ {0}]
    BY <1>1, <1>6
  <2>. QED
    BY <1>1, <1>2, <1>6, <2>1, <2>2, <2>3 DEF TypeOK
<1>12. Snapshots'
  BY <1>1, <1>2, <1>3, <1>8, <1>9, <1>10 DEF Snapshots, IsCounted
<1>13. LivesAreApart'
  <2>1. \A s \in Requests : counted'[s].life <= lives'
    BY <1>1, <1>2, <1>6, <1>7, <1>8 DEF LivesAreApart, TypeOK
  <2>2. \A s \in Requests : s # r => /\ counted[s].life \in Nat
                                     /\ counted[s].life # lives + 1
    BY <1>2 DEF LivesAreApart, TypeOK
  <2>3. ASSUME NEW s \in Requests, NEW j \in DOMAIN store',
               IsCounted(s)', counted'[s].life = store'[j].life
        PROVE  counted'[s].count <= store'[j].count
    <3>1. CASE s = r
      <4>1. j = k
        BY <1>6, <1>7, <1>8, <2>3, <3>1
      <4>. QED
        BY <1>8, <1>9, <3>1, <4>1
    <3>2. CASE s # r
      <4>1. store'[j].life # lives + 1
        BY <1>8, <2>2, <2>3, <3>2
      <4>2. /\ j \in DOMAIN store
            /\ store'[j].life = store[j].life
            /\ store[j].count <= store'[j].count
        BY <1>7, <4>1
      <4>3. IsCounted(s) /\ counted[s].life = store[j].life
        BY <1>8, <2>3, <3>2, <4>2 DEF IsCounted
      <4>4. counted[s].count <= store[j].count
        BY <1>2, <4>2, <4>3 DEF LivesAreApart
      <4>5. /\ counted[s].count \in Nat
            /\ store[j].count \in Nat
            /\ store'[j].count \in Nat
        BY <1>2, <1>6, <4>2 DEF TypeOK
      <4>. QED
        BY <1>8, <3>2, <4>2, <4>4, <4>5
    <3>. QED
      BY <3>1, <3>2
  <2>4. ASSUME NEW s \in Requests, s # r,
               IsCounted(s)', counted'[s].life = counted'[r].life
        PROVE  counted'[s].count # counted'[r].count
    <3>1. store'[k].life # lives + 1
      BY <1>8, <2>2, <2>4
    <3>2. /\ k \in DOMAIN store
          /\ store'[k].count = store[k].count + 1
          /\ store'[k].life = store[k].life
      BY <1>7, <3>1
    <3>3. IsCounted(s) /\ counted[s].life = store[k].life
      BY <1>8, <2>4, <3>2 DEF IsCounted
    <3>4. counted[s].count <= store[k].count
      BY <1>2, <3>2, <3>3 DEF LivesAreApart
    <3>5. counted[s].count \in Nat /\ store[k].count \in Nat
      BY <1>2, <3>2 DEF TypeOK
    <3>. QED
      BY <1>8, <2>4, <3>2, <3>4, <3>5
  <2>5. \A s, t \in Requests :
           IsCounted(s)' /\ counted'[t].life = counted'[s].life /\ s # t
             => counted'[t].count # counted'[s].count
    <3>. SUFFICES ASSUME NEW s \in Requests, NEW t \in Requests,
                         IsCounted(s)', counted'[t].life = counted'[s].life,
                         s # t
                  PROVE  counted'[t].count # counted'[s].count
      OBVIOUS
    <3>1. CASE s = r
      <4>1. IsCounted(t)'
        BY DEF IsCounted
      <4>. QED
        BY <2>4, <3>1, <4>1
    <3>2. CASE t = r
      BY <2>4, <3>2
    <3>3. CASE s # r /\ t # r
      BY <1>2, <1>8, <3>3 DEF LivesAreApart, IsCounted
    <3>. QED
      BY <3>1, <3>2, <3>3
  <2>. QED
    BY <1>6, <2>1, <2>3, <2>5 DEF LivesAreApart
<1>14. AdmittedWithinLimit'
  <2>. SUFFICES ASSUME NEW s \in Requests, Admitted(s)'
                PROVE  counted'[s].count <= held'[s].limit
    BY DEF AdmittedWithinLimit
  <2>1. CASE s = r
    BY <1>1, <1>8, <2>1 DEF Admitted, AfterIncr, Answer
  <2>2. CASE s # r
    BY <1>1, <1>2, <1>8, <2>2 DEF AdmittedWithinLimit, Admitted, IsCounted
  <2>. QED
    BY <2>1, <2>2
<1>15. OpenersAreFirst'
  BY <1>2, <1>8, <1>10 DEF OpenersAreFirst, Expiring, AfterIncr, Answer
<1>. QED
  BY <1>11, <1>12, <1>13, <1>14, <1>15 DEF IInv

\* Steps that leave the store, the counts and the held rows alone.
LEMMA StepQuiet ==
    ASSUME IInv, UNCHANGED <<store, counted, lives>>,
           \/ \E r \in Requests : ReadClock(r) \/ Crash(r)
           \/ EditPlan
           \/ UNCHANGED vars
    PROVE  IInv'
<1>1. TypeOK /\ Snapshots /\ LivesAreApart /\ AdmittedWithinLimit
        /\ OpenersAreFirst
  BY DEF IInv
<1>2. CASE EditPlan \/ UNCHANGED vars
  <2>1. UNCHANGED <<clock, store, pc, held, read, counted, lives, resent>>
    BY <1>2 DEF EditPlan, vars
  <2>2. plan' \in Plans
    BY <1>1, <1>2 DEF EditPlan, vars, TypeOK
  <2>3. \A r \in Requests : Key(r)' = Key(r)
    BY <2>1 DEF Key
  <2>4. TypeOK'
    BY <1>1, <2>1, <2>2 DEF TypeOK
  <2>5. Snapshots' /\ LivesAreApart' /\ AdmittedWithinLimit'
    BY <1>1, <2>1
       DEF Snapshots, LivesAreApart, AdmittedWithinLimit, IsCounted, Admitted
  <2>6. OpenersAreFirst'
    BY <1>1, <2>1 DEF OpenersAreFirst, Expiring
  <2>. QED
    BY <2>4, <2>5, <2>6 DEF IInv
<1>3. ASSUME NEW r \in Requests, ReadClock(r)
      PROVE  IInv'
  <2>1. /\ pc[r] = "clock"
        /\ pc' = [pc EXCEPT ![r] = "incr"]
        /\ read' = [read EXCEPT ![r] = clock]
        /\ UNCHANGED <<clock, plan, store, held, counted, lives, resent>>
    BY <1>3 DEF ReadClock, Goto
  <2>2. TypeOK'
    BY <1>1, <2>1 DEF TypeOK
  <2>3. Snapshots'
    BY <1>1, <2>1 DEF Snapshots, IsCounted, TypeOK
  <2>4. LivesAreApart' /\ AdmittedWithinLimit'
    BY <1>1, <2>1
       DEF LivesAreApart, AdmittedWithinLimit, IsCounted, Admitted, TypeOK
  <2>5. OpenersAreFirst'
    BY <1>1, <2>1 DEF OpenersAreFirst, Expiring, TypeOK
  <2>. QED
    BY <2>2, <2>3, <2>4, <2>5 DEF IInv
<1>4. ASSUME NEW r \in Requests, Crash(r)
      PROVE  IInv'
  <2>1. /\ pc[r] \in {"clock", "incr", "expire", "again"}
        /\ pc' = [pc EXCEPT ![r] = "gone"]
        /\ UNCHANGED <<clock, plan, store, held, read, counted, lives, resent>>
    BY <1>4 DEF Crash
  <2>2. TypeOK'
    BY <1>1, <2>1 DEF TypeOK
  <2>3. Snapshots'
    BY <1>1, <2>1 DEF Snapshots, IsCounted, TypeOK
  <2>4. LivesAreApart' /\ AdmittedWithinLimit'
    BY <1>1, <2>1
       DEF LivesAreApart, AdmittedWithinLimit, IsCounted, Admitted, TypeOK
  <2>5. OpenersAreFirst'
    BY <1>1, <2>1 DEF OpenersAreFirst, Expiring, TypeOK
  <2>. QED
    BY <2>2, <2>3, <2>4, <2>5 DEF IInv
<1>. QED
  BY <1>2, <1>3, <1>4

LEMMA StepArrive ==
    ASSUME IInv, NEW r \in Requests, Arrive(r) PROVE IInv'
<1>1. /\ pc[r] = "idle"
      /\ pc' = [pc EXCEPT ![r] = IF plan.limit = NoLimit THEN "allowed"
                                 ELSE IF plan.period \notin Periods THEN "failed"
                                 ELSE "clock"]
      /\ held' = [held EXCEPT ![r] = plan]
      /\ UNCHANGED <<clock, plan, store, read, counted, lives, resent>>
  BY DEF Arrive, Goto
<1>2. TypeOK /\ Snapshots /\ LivesAreApart /\ AdmittedWithinLimit
        /\ OpenersAreFirst
  BY DEF IInv
<1>3. ~IsCounted(r)
  BY <1>1, <1>2 DEF Snapshots
<1>4. plan.limit = NoLimit \/ plan.limit \in Nat
  BY <1>2, PlanAssumption DEF TypeOK, PlanType
<1>5. TypeOK'
  BY <1>1, <1>2 DEF TypeOK
<1>6. Snapshots'
  BY <1>1, <1>2, <1>3, <1>4 DEF Snapshots, IsCounted, TypeOK
<1>7. LivesAreApart'
  BY <1>1, <1>2 DEF LivesAreApart, IsCounted
<1>8. AdmittedWithinLimit'
  BY <1>1, <1>2, <1>3 DEF AdmittedWithinLimit, IsCounted, Admitted, TypeOK
<1>9. OpenersAreFirst'
  BY <1>1, <1>2 DEF OpenersAreFirst, Expiring, TypeOK
<1>. QED
  BY <1>5, <1>6, <1>7, <1>8, <1>9 DEF IInv

\* An INCR that tells its request nothing: sent again, or given up.
LEMMA StepUntold ==
    ASSUME IInv, NEW r \in Requests, IncrFails(r) \/ IncrResent(r) PROVE IInv'
<1>1. /\ pc[r] = "incr"
      /\ pc' = pc \/ pc' = [pc EXCEPT ![r] = "failed"]
      /\ UNCHANGED <<clock, plan, held, read, counted>>
      /\ \/ resent' = resent
         \/ \E n \in 1 .. MaxRetries : resent' = resent \cup {<<r, n>>}
  BY DEF IncrFails, IncrResent, Goto
<1>2. TypeOK /\ Snapshots /\ LivesAreApart /\ AdmittedWithinLimit
        /\ OpenersAreFirst
  BY DEF IInv
<1>3. Snapshots' /\ AdmittedWithinLimit'
  BY <1>1, <1>2
     DEF Snapshots, AdmittedWithinLimit, IsCounted, Admitted, TypeOK
<1>4. \A s \in Requests : Key(s)' = Key(s)
  BY <1>1 DEF Key
<1>5. CASE UNCHANGED <<store, lives>>
  <2>1. TypeOK'
    BY <1>1, <1>2, <1>5 DEF TypeOK
  <2>2. LivesAreApart'
    BY <1>1, <1>2, <1>5 DEF LivesAreApart, IsCounted
  <2>3. OpenersAreFirst'
    BY <1>1, <1>2, <1>4, <1>5 DEF OpenersAreFirst, Expiring, TypeOK
  <2>. QED
    BY <1>3, <2>1, <2>2, <2>3 DEF IInv
<1>6. CASE store' = Incremented(Key(r)) /\ lives' = LivesAfter(Key(r))
  <2>. DEFINE k == Key(r)
  <2>1. k.period \in Periods /\ \E t \in 0 .. clock : k = KeyOf(k.period, t)
    BY <1>1, <1>2, KeyOfRequest DEF Snapshots
  <2>. HIDE DEF k
  <2>2. /\ \A j \in DOMAIN store' :
             /\ j.period \in Periods
             /\ \E t \in 0 .. clock : j = KeyOf(j.period, t)
             /\ store'[j] \in [count : Nat \ {0}, expires : Nat \cup {Never},
                               life : Nat \ {0}]
             /\ store'[j].life <= lives'
        /\ \A j, l \in DOMAIN store' : store'[j].life = store'[l].life => j = l
        /\ lives' \in Nat /\ lives <= lives'
    BY <1>6, <2>1, IncrementedIsSound DEF k
  <2>3. /\ \A j \in DOMAIN store' :
             store'[j].life # lives + 1 =>
                /\ j \in DOMAIN store
                /\ store'[j].life = store[j].life
                /\ store[j].count <= store'[j].count
        /\ \A j \in DOMAIN store :
             /\ j \in DOMAIN store'
             /\ store'[j].life = store[j].life
             /\ store'[j].expires = store[j].expires
    BY <1>6, <2>1, IncrementedIsSound DEF k
  <2>4. TypeOK'
    BY <1>1, <1>2, <2>2 DEF TypeOK
  <2>5. LivesAreApart'
    <3>1. \A s \in Requests : /\ counted[s].life \in Nat
                              /\ counted[s].life <= lives
                              /\ counted[s].life # lives + 1
                              /\ counted[s].life <= lives'
      BY <1>2, <2>2 DEF LivesAreApart, TypeOK
    <3>2. ASSUME NEW s \in Requests, NEW j \in DOMAIN store',
                 IsCounted(s), counted[s].life = store'[j].life
          PROVE  counted[s].count <= store'[j].count
      <4>1. /\ j \in DOMAIN store
            /\ store'[j].life = store[j].life
            /\ store[j].count <= store'[j].count
        BY <2>3, <3>1, <3>2
      <4>2. counted[s].count <= store[j].count
        BY <1>2, <3>2, <4>1 DEF LivesAreApart
      <4>3. /\ counted[s].count \in Nat
            /\ store[j].count \in Nat
            /\ store'[j].count \in Nat
        BY <1>2, <2>2, <4>1 DEF TypeOK
      <4>. QED
        BY <4>1, <4>2, <4>3
    <3>. QED
      BY <1>1, <1>2, <2>2, <3>1, <3>2 DEF LivesAreApart, IsCounted
  <2>6. OpenersAreFirst'
    BY <1>1, <1>2, <1>4, <2>3 DEF OpenersAreFirst, Expiring, TypeOK
  <2>. QED
    BY <1>3, <2>4, <2>5, <2>6 DEF IInv
<1>. QED
  BY <1>5, <1>6 DEF IncrFails, IncrResent

\* EXPIRE: a death at the most, for the key of the request.
LEMMA StepExpire ==
    ASSUME IInv, NEW r \in Requests,
           Expire(r) \/ ExpireResent(r) \/ ExpireFails(r)
    PROVE  IInv'
<1>. DEFINE k == Key(r)
            d == Remaining(r)
<1>1. /\ Expiring(r)
      /\ \/ pc' = [pc EXCEPT ![r] = Answer(r, counted[r].count)]
         \/ pc' = [pc EXCEPT ![r] = "again"]
         \/ pc' = [pc EXCEPT ![r] = "failed"]
      /\ store' \in {store, Expired(k, d)}
      /\ UNCHANGED <<clock, plan, held, read, counted, lives, resent>>
  BY DEF Expire, ExpireResent, ExpireFails
<1>2. TypeOK /\ Snapshots /\ LivesAreApart /\ AdmittedWithinLimit
        /\ OpenersAreFirst
  BY DEF IInv
<1>3. /\ held[r].limit \in Nat /\ held[r].period \in Periods
      /\ counted[r].count = 1
      /\ IsCounted(r)
  BY <1>1, <1>2 DEF OpenersAreFirst, Snapshots, Expiring
<1>4. TimeToLive(d) \in Nat
  BY <1>2, <1>3, KeyOfRequest, TimeToLiveType DEF Remaining
<1>. HIDE DEF k, d
<1>5. /\ DOMAIN store' = DOMAIN store
      /\ \A j \in DOMAIN store :
            /\ store'[j].count = store[j].count
            /\ store'[j].life = store[j].life
            /\ store'[j] \in [count : Nat \ {0}, expires : Nat \cup {Never},
                              life : Nat \ {0}]
  <2>1. \A j \in DOMAIN store :
           store[j] \in [count : Nat \ {0}, expires : Nat \cup {Never},
                         life : Nat \ {0}]
    BY <1>2 DEF TypeOK
  <2>2. clock + TimeToLive(d) \in Nat
    BY <1>2, <1>4 DEF TypeOK
  <2>3. CASE store' = store
    BY <2>1, <2>3
  <2>4. CASE store' = Expired(k, d)
    <3>1. CASE k \in DOMAIN store
      <4>1. store' = [store EXCEPT ![k] =
                        [store[k] EXCEPT !.expires = clock + TimeToLive(d)]]
        BY <2>4, <3>1 DEF Expired, IsLive
      <4>. QED
        BY <2>1, <2>2, <3>1, <4>1
    <3>2. CASE k \notin DOMAIN store
      BY <2>1, <2>4, <3>2 DEF Expired, IsLive
    <3>. QED
      BY <3>1, <3>2
  <2>. QED
    BY <1>1, <2>3, <2>4
<1>6. pc'[r] \in {"allowed", "denied", "failed", "again"}
  BY <1>1, <1>2 DEF Answer, TypeOK
<1>7. \A s \in Requests : s # r => pc'[s] = pc[s]
  BY <1>1, <1>2 DEF TypeOK
<1>8. TypeOK'
  <2>1. pc' \in [Requests -> {"idle", "clock", "incr", "expire", "again",
                              "allowed", "denied", "failed", "gone"}]
    BY <1>1, <1>2, <1>6 DEF TypeOK
  <2>2. \A j \in DOMAIN store' :
           /\ j.period \in Periods
           /\ \E t \in 0 .. clock' : j = KeyOf(j.period, t)
           /\ store'[j] \in [count : Nat \ {0}, expires : Nat \cup {Never},
                             life : Nat \ {0}]
    BY <1>1, <1>2, <1>5 DEF TypeOK
  <2>. QED
    BY <1>1, <1>2, <2>1, <2>2 DEF TypeOK
<1>9. Snapshots'
  BY <1>1, <1>2, <1>3, <1>6, <1>7 DEF Snapshots, IsCounted
<1>10. LivesAreApart'
  BY <1>1, <1>2, <1>5 DEF LivesAreApart, IsCounted
<1>11. AdmittedWithinLimit'
  <2>. SUFFICES ASSUME NEW s \in Requests, Admitted(s)'
                PROVE  counted'[s].count <= held'[s].limit
    BY DEF AdmittedWithinLimit
  <2>1. CASE s = r
    <3>1. pc'[r] = "allowed"
      BY <2>1 DEF Admitted
    <3>2. counted[r].count <= held[r].limit
      BY <1>1, <1>2, <3>1 DEF Answer, TypeOK
    <3>. QED
      BY <1>1, <2>1, <3>2
  <2>2. CASE s # r
    BY <1>1, <1>2, <1>7, <2>2 DEF AdmittedWithinLimit, Admitted, IsCounted
  <2>. QED
    BY <2>1, <2>2
<1>12. OpenersAreFirst'
  BY <1>1, <1>2, <1>3, <1>7 DEF OpenersAreFirst, Expiring
<1>. QED
  BY <1>8, <1>9, <1>10, <1>11, <1>12 DEF IInv

LEMMA StepTick == ASSUME IInv, Tick PROVE IInv'
<1>1. /\ clock' = clock + 1
      /\ store' = Survivors(clock + 1)
      /\ UNCHANGED <<plan, pc, held, read, counted, lives, resent>>
  BY DEF Tick
<1>2. TypeOK /\ Snapshots /\ LivesAreApart /\ AdmittedWithinLimit
        /\ OpenersAreFirst
  BY DEF IInv
<1>3. /\ \A k \in DOMAIN store' : k \in DOMAIN store /\ store'[k] = store[k]
      /\ \A k \in DOMAIN store : store[k].expires = Never => k \in DOMAIN store'
  BY <1>1 DEF Survivors
<1>4. clock \in Nat /\ clock' \in Nat /\ clock <= clock'
  BY <1>1, <1>2 DEF TypeOK
<1>5. TypeOK'
  <2>1. 0 .. clock \subseteq 0 .. clock'
    BY <1>4
  <2>. QED
    BY <1>1, <1>2, <1>3, <1>4, <2>1 DEF TypeOK
<1>6. Snapshots'
  BY <1>1, <1>2, <1>4 DEF Snapshots, IsCounted, TypeOK
<1>7. LivesAreApart' /\ AdmittedWithinLimit'
  BY <1>1, <1>2, <1>3
     DEF LivesAreApart, AdmittedWithinLimit, IsCounted, Admitted
<1>8. OpenersAreFirst'
  BY <1>1, <1>2 DEF OpenersAreFirst, Expiring
<1>. QED
  BY <1>5, <1>6, <1>7, <1>8 DEF IInv

LEMMA StepIInv == IInv /\ [Next]_vars => IInv'
<1> SUFFICES ASSUME IInv, [Next]_vars PROVE IInv'
  OBVIOUS
<1>1. ASSUME NEW r \in Requests,
             \/ Arrive(r) \/ ReadClock(r) \/ Crash(r)
             \/ Incr(r) \/ IncrResent(r) \/ IncrFails(r)
             \/ Expire(r) \/ ExpireResent(r) \/ ExpireFails(r)
      PROVE  IInv'
  <2>1. CASE Arrive(r)
    BY <2>1, StepArrive
  <2>2. CASE ReadClock(r)
    BY <2>2, StepQuiet DEF ReadClock
  <2>3. CASE Incr(r)
    BY <2>3, StepIncr
  <2>4. CASE IncrFails(r) \/ IncrResent(r)
    BY <2>4, StepUntold
  <2>5. CASE Expire(r) \/ ExpireResent(r) \/ ExpireFails(r)
    BY <2>5, StepExpire
  <2>6. CASE Crash(r)
    BY <2>6, StepQuiet DEF Crash
  <2>. QED
    BY <1>1, <2>1, <2>2, <2>3, <2>4, <2>5, <2>6
<1>2. CASE EditPlan
  BY <1>2, StepQuiet DEF EditPlan
<1>3. CASE Tick
  BY <1>3, StepTick
<1>4. CASE UNCHANGED vars
  BY <1>4, StepQuiet DEF vars
<1>. QED
  BY <1>1, <1>2, <1>3, <1>4 DEF Next

LEMMA Inductive == Spec => []IInv
BY InitIInv, StepIInv, PTL DEF Spec
-----------------------------------------------------------------------------
(***************************************************************************)
(* Type correctness.                                                       *)
(***************************************************************************)
THEOREM TypeCorrect == Spec => []TypeOK
<1>1. IInv => TypeOK
  BY DEF IInv
<1>. QED
  BY <1>1, Inductive, PTL

\* Requests that are told apart by a number of 1 .. n are at most n.
LEMMA NumberedRequests ==
    ASSUME NEW S, NEW n \in Nat, NEW number \in [S -> 1 .. n],
           \A s, t \in S : number[s] = number[t] => s = t
    PROVE  IsFiniteSet(S) /\ Cardinality(S) <= n
<1>1. number \in Injection(S, 1 .. n)
  BY DEF Injection, IsInjective
<1>2. IsFiniteSet(1 .. n) /\ Cardinality(1 .. n) = n
  BY FS_Interval
<1>. QED
  BY <1>1, <1>2, FS_Injection

(***************************************************************************)
(* The limit holds within one life of a key: what INCR answered in it is   *)
(* never answered twice, and an admitted request was answered at most its  *)
(* own limit.                                                              *)
(***************************************************************************)
THEOREM LimitPerLifeHolds == Spec => []LimitPerLife
<1>1. IInv => LimitPerLife
  <2>. SUFFICES ASSUME IInv, NEW r \in Requests, Admitted(r)
                PROVE  Cardinality({s \in Requests :
                          /\ Admitted(s)
                          /\ counted[s].life = counted[r].life
                          /\ held[s].limit <= held[r].limit}) <= held[r].limit
    BY DEF LimitPerLife
  <2>. DEFINE S == {s \in Requests :
                      /\ Admitted(s)
                      /\ counted[s].life = counted[r].life
                      /\ held[s].limit <= held[r].limit}
              number == [s \in S |-> counted[s].count]
  <2>1. held[r].limit \in Nat
    BY DEF IInv, Snapshots, Admitted
  <2>2. number \in [S -> 1 .. held[r].limit]
    <3>. SUFFICES ASSUME NEW s \in S
                  PROVE  counted[s].count \in 1 .. held[r].limit
      OBVIOUS
    <3>1. held[s].limit \in Nat /\ counted[s].count # 0
      BY DEF IInv, Snapshots, Admitted
    <3>2. counted[s].count \in Nat /\ counted[s].count <= held[s].limit
      BY DEF IInv, TypeOK, AdmittedWithinLimit
    <3>. QED
      BY <2>1, <3>1, <3>2
  <2>3. \A s, t \in S : number[s] = number[t] => s = t
    BY DEF IInv, LivesAreApart, Admitted
  <2>. HIDE DEF S, number
  <2>4. Cardinality(S) <= held[r].limit
    BY <2>1, <2>2, <2>3, NumberedRequests
  <2>. QED
    BY <2>4 DEF S
<1>. QED
  BY <1>1, Inductive, PTL

(***************************************************************************)
(* The Retry-After of a 429 takes the client past the end of its window,   *)
(* and no more than a second past it.                                      *)
(***************************************************************************)
THEOREM RetryAfterIsTightHolds == Spec => []RetryAfterIsTight
<1>1. IInv => RetryAfterIsTight
  <2>. SUFFICES ASSUME IInv, NEW r \in Requests, pc[r] = "denied"
                PROVE  LET back == read[r] + Second *
                                     RetryAfterSeconds(WindowEnd(r) - read[r])
                       IN  WindowEnd(r) < back /\ back <= WindowEnd(r) + Second
    BY DEF RetryAfterIsTight
  <2>. DEFINE d == WindowEnd(r) - read[r]
              after == RetryAfterSeconds(d)
  <2>1. held[r].period \in Periods /\ read[r] \in Nat
    BY DEF IInv, Snapshots, TypeOK
  <2>2. WindowEnd(r) \in Nat /\ read[r] < WindowEnd(r)
    BY <2>1, WindowContainsNow DEF WindowEnd
  <2>3. d \in Nat
    BY <2>1, <2>2
  <2>. HIDE DEF d
  <2>4. /\ after \in Nat
        /\ d < Second * after
        /\ Second * after <= d + Second
    BY <2>3, RetryAfterBounds
  <2>5. Second \in Nat /\ Second * after \in Nat
    BY <2>4, DurationAssumption
  <2>. HIDE DEF after
  <2>6. /\ WindowEnd(r) < read[r] + Second * after
        /\ read[r] + Second * after <= WindowEnd(r) + Second
    BY <2>1, <2>2, <2>3, <2>4, <2>5 DEF d
  <2>. QED
    BY <2>6 DEF d, after
<1>. QED
  BY <1>1, Inductive, PTL

(***************************************************************************)
(* A key without a time to live is the doing of a request that is about to *)
(* set it, that failed or died, or whose INCR was sent again.              *)
(***************************************************************************)
Resent(r) == \E n \in 1 .. MaxRetries : <<r, n>> \in resent

AtCounter(r) == pc[r] \notin {"idle", "clock"}

\* A request at the counter stays with the row and the clock it has.
LEMMA CounterIsForGood ==
    ASSUME TypeOK, [Next]_vars, NEW s \in Requests, AtCounter(s)
    PROVE  /\ AtCounter(s)'
           /\ held'[s] = held[s] /\ read'[s] = read[s]
           /\ pc[s] # "incr" => pc'[s] # "incr"
<1>. USE DEF TypeOK, Goto, AtCounter
<1>1. ASSUME NEW r \in Requests, Arrive(r) \/ ReadClock(r) \/ Crash(r)
      PROVE  /\ AtCounter(s)'
             /\ held'[s] = held[s] /\ read'[s] = read[s]
             /\ pc[s] # "incr" => pc'[s] # "incr"
  BY <1>1 DEF Arrive, ReadClock, Crash
<1>2. ASSUME NEW r \in Requests, \/ Incr(r) \/ IncrResent(r) \/ IncrFails(r)
                                 \/ Expire(r) \/ ExpireResent(r) \/ ExpireFails(r)
      PROVE  /\ AtCounter(s)'
             /\ held'[s] = held[s] /\ read'[s] = read[s]
             /\ pc[s] # "incr" => pc'[s] # "incr"
  BY <1>2 DEF Incr, IncrResent, IncrFails, Expire, ExpireResent, ExpireFails,
              AfterIncr, Answer
<1>3. CASE EditPlan \/ Tick \/ UNCHANGED vars
  BY <1>3 DEF EditPlan, Tick, vars
<1>. QED
  BY <1>1, <1>2, <1>3 DEF Next

\* What is sent again stays so, and was sent from the counter.
SentFromTheCounter ==
    \A r \in Requests : Resent(r) =>
        AtCounter(r) /\ held[r].limit \in Nat /\ held[r].period \in Periods

LEMMA ResentGrows ==
    ASSUME [Next]_vars
    PROVE  \/ resent' = resent
           \/ \E r \in Requests, n \in 1 .. MaxRetries :
                 /\ IncrResent(r)
                 /\ <<r, n>> \notin resent
                 /\ resent' = resent \cup {<<r, n>>}
<1>1. ASSUME NEW r \in Requests, IncrResent(r)
      PROVE  \E n \in 1 .. MaxRetries : /\ <<r, n>> \notin resent
                                        /\ resent' = resent \cup {<<r, n>>}
  <2>1. PICK n \in 1 .. MaxRetries :
            /\ \A m \in 1 .. n : <<r, m>> \in resent <=> m < n
            /\ resent' = resent \cup {<<r, n>>}
    BY <1>1 DEF IncrResent
  <2>2. n \in 1 .. n
    BY RetryAssumption
  <2>. QED
    BY <2>1, <2>2
<1>. QED
  BY <1>1 DEF Next, Arrive, ReadClock, Incr, IncrFails, Expire, ExpireResent,
              ExpireFails, Crash, EditPlan, Tick, vars

LEMMA StepSentFromTheCounter ==
    ASSUME IInv, SentFromTheCounter, [Next]_vars
    PROVE  SentFromTheCounter'
<1>1. TypeOK /\ Snapshots
  BY DEF IInv
<1>. SUFFICES ASSUME NEW r \in Requests, Resent(r)'
              PROVE  (AtCounter(r) /\ held[r].limit \in Nat
                        /\ held[r].period \in Periods)'
  BY DEF SentFromTheCounter
<1>2. CASE Resent(r)
  BY <1>1, <1>2, CounterIsForGood DEF SentFromTheCounter
<1>3. CASE ~Resent(r)
  <2>1. PICK q \in Requests, n \in 1 .. MaxRetries :
            IncrResent(q) /\ resent' = resent \cup {<<q, n>>}
    BY <1>3, ResentGrows DEF Resent
  <2>3. PICK m \in 1 .. MaxRetries : <<r, m>> \in resent' /\ <<r, m>> \notin resent
    BY <1>3 DEF Resent
  <2>4. r = q
    BY <2>1, <2>3
  <2>2. pc[r] = "incr" /\ pc' = pc /\ held' = held
    BY <2>1, <2>4 DEF IncrResent
  <2>. QED
    BY <1>1, <2>2 DEF Snapshots, AtCounter
<1>. QED
  BY <1>2, <1>3

LEMMA CountedFromTheCounter == Spec => [](IInv /\ SentFromTheCounter)
<1>1. Init => SentFromTheCounter
  BY DEF Init, SentFromTheCounter, Resent
<1>2. IInv /\ SentFromTheCounter /\ [Next]_vars => SentFromTheCounter'
  BY StepSentFromTheCounter
<1>. QED
  BY <1>1, <1>2, Inductive, PTL DEF Spec

LEMMA StepImmortal ==
    ASSUME IInv, SentFromTheCounter, ImmortalKeysAreFaults, [Next]_vars
    PROVE  ImmortalKeysAreFaults'
<1>. DEFINE Owns(r, k) == /\ pc[r] \in {"expire", "failed", "gone"} \/ Resent(r)
                          /\ held[r].period \in Periods
                          /\ Key(r) = k
<1>. SUFFICES ASSUME NEW k \in DOMAIN store', store'[k].expires = Never
              PROVE  \E r \in Requests : Owns(r, k)'
  BY DEF ImmortalKeysAreFaults, Resent
<1>1. TypeOK /\ Snapshots
  BY DEF IInv
<1>2. ASSUME NEW r \in Requests, Expiring(r), store' = Expired(Key(r), Remaining(r))
      PROVE  k # Key(r) /\ k \in DOMAIN store /\ store'[k] = store[k]
  <2>. DEFINE j == Key(r)
              d == Remaining(r)
  <2>1. TimeToLive(d) \in Nat
    BY <1>1, <1>2, KeyOfRequest, TimeToLiveType DEF Remaining, Snapshots, Expiring
  <2>2. clock + TimeToLive(d) # Never
    BY <1>1, <2>1, NullAssumption DEF TypeOK
  <2>. HIDE DEF j, d
  <2>3. store' = Expired(j, d)
    BY <1>2 DEF j, d
  <2>4. CASE j \in DOMAIN store
    <3>1. store[j] \in [count : Nat \ {0}, expires : Nat \cup {Never},
                        life : Nat \ {0}]
      BY <1>1, <2>4 DEF TypeOK
    <3>2. /\ DOMAIN store' = DOMAIN store
          /\ store'[j].expires = clock + TimeToLive(d)
          /\ \A i \in DOMAIN store : i # j => store'[i] = store[i]
      BY <2>3, <2>4, <3>1 DEF Expired, IsLive
    <3>. QED
      BY <2>2, <3>2 DEF j
  <2>5. CASE j \notin DOMAIN store
    BY <2>3, <2>5 DEF Expired, IsLive, j
  <2>. QED
    BY <2>4, <2>5
<1>3. CASE k \in DOMAIN store /\ store[k].expires = Never
  <2>1. PICK s \in Requests : Owns(s, k)
    BY <1>3 DEF ImmortalKeysAreFaults, Resent
  <2>2. AtCounter(s)
    BY <2>1 DEF SentFromTheCounter, AtCounter
  <2>3. Key(s)' = k /\ held'[s].period \in Periods
    BY <1>1, <2>1, <2>2, CounterIsForGood DEF Key
  <2>4. CASE Resent(s)
    <3>1. resent \subseteq resent'
      BY ResentGrows
    <3>. QED
      BY <2>3, <2>4, <3>1 DEF Resent
  <2>5. CASE pc[s] \in {"expire", "failed", "gone"}
    <3>1. pc'[s] \in {"expire", "failed", "gone"}
      <4>. USE DEF TypeOK, Goto
      <4>1. ASSUME NEW r \in Requests,
                   \/ Arrive(r) \/ ReadClock(r) \/ Incr(r) \/ IncrFails(r)
                   \/ IncrResent(r) \/ ExpireFails(r) \/ Crash(r)
            PROVE  pc'[s] \in {"expire", "failed", "gone"}
        BY <1>1, <2>5, <4>1
           DEF Arrive, ReadClock, Incr, IncrFails, IncrResent, ExpireFails, Crash
      <4>2. ASSUME NEW r \in Requests, Expire(r) \/ ExpireResent(r)
            PROVE  pc'[s] \in {"expire", "failed", "gone"}
        <5>1. Expiring(r) /\ store' = Expired(Key(r), Remaining(r))
          BY <4>2 DEF Expire, ExpireResent
        <5>2. s # r
          BY <1>2, <2>1, <5>1
        <5>. QED
          BY <1>1, <2>5, <4>2, <5>2 DEF Expire, ExpireResent
      <4>3. CASE EditPlan \/ Tick \/ UNCHANGED vars
        BY <2>5, <4>3 DEF EditPlan, Tick, vars
      <4>. QED
        BY <4>1, <4>2, <4>3 DEF Next
    <3>. QED
      BY <2>3, <3>1
  <2>. QED
    BY <2>1, <2>4, <2>5
<1>4. CASE ~(k \in DOMAIN store /\ store[k].expires = Never)
  <2>1. store' # store /\ ~Tick
    BY <1>4 DEF Tick, Survivors
  <2>2. ASSUME NEW r \in Requests,
               Expire(r) \/ ExpireResent(r) \/ ExpireFails(r)
        PROVE  FALSE
    <3>1. Expiring(r) /\ store' = Expired(Key(r), Remaining(r))
      BY <2>1, <2>2 DEF Expire, ExpireResent, ExpireFails
    <3>. QED
      BY <1>2, <1>4, <3>1
  <2>3. PICK r \in Requests : Incr(r) \/ IncrResent(r) \/ IncrFails(r)
    BY <2>1, <2>2 DEF Next, Arrive, ReadClock, Crash, EditPlan, vars
  <2>4. /\ pc[r] = "incr" /\ held' = held /\ read' = read
        /\ held[r].period \in Periods
        /\ store' = Incremented(Key(r))
    BY <1>1, <2>1, <2>3 DEF Incr, IncrResent, IncrFails, Goto, Snapshots
  <2>5. k = Key(r) /\ k \notin DOMAIN store /\ store'[k].count = 1
    BY <1>1, <1>4, <2>4, IncrementedExpires
  <2>6. Key(r)' = k
    BY <2>4, <2>5 DEF Key
  <2>7. CASE Incr(r) \/ IncrFails(r)
    <3>1. pc'[r] \in {"expire", "failed"}
      BY <1>1, <2>5, <2>7, <2>4 DEF Incr, IncrFails, Goto, AfterIncr, TypeOK
    <3>. QED
      BY <2>4, <2>6, <3>1
  <2>8. CASE IncrResent(r)
    <3>1. Resent(r)'
      BY <2>8 DEF IncrResent, Resent
    <3>. QED
      BY <2>4, <2>6, <3>1
  <2>. QED
    BY <2>3, <2>7, <2>8
<1>. QED
  BY <1>3, <1>4

THEOREM ImmortalKeysAreFaultsHolds == Spec => []ImmortalKeysAreFaults
<1>1. Init => ImmortalKeysAreFaults
  BY DEF Init, ImmortalKeysAreFaults
<1>2. IInv /\ SentFromTheCounter /\ ImmortalKeysAreFaults /\ [Next]_vars
        => ImmortalKeysAreFaults'
  BY StepImmortal
<1>. QED
  BY <1>1, <1>2, CountedFromTheCounter, PTL DEF Spec

(***************************************************************************)
(* The end of a request's window can be told from its key.                 *)
(***************************************************************************)
KeyEnd(k) == windowBounds(k.period, k.start).end

LEMMA KeyEndOfRequest ==
    ASSUME TypeOK, NEW r \in Requests, held[r].period \in Periods
    PROVE  /\ WindowEnd(r) = KeyEnd(Key(r))
           /\ WindowEnd(r) \in Nat
           /\ read[r] < WindowEnd(r)
<1>. DEFINE p == held[r].period
            w == windowBounds(p, read[r])
<1>1. read[r] \in Nat
  BY DEF TypeOK
<1>2. w.start \in Nat /\ w.end \in Nat /\ w.start <= read[r] /\ read[r] < w.end
  BY <1>1, WindowContainsNow
<1>3. windowBounds(p, w.start) = w
  <2>1. \A u \in Nat : w.start <= u /\ u < w.end => windowBounds(p, u) = w
    BY <1>1, WindowsTileTime
  <2>. HIDE DEF w
  <2>2. w.start <= w.start /\ w.start < w.end
    BY <1>1, <1>2
  <2>. QED
    BY <1>2, <2>1, <2>2
<1>. QED
  BY <1>2, <1>3 DEF WindowEnd, Key, KeyOf, KeyEnd

-----------------------------------------------------------------------------
(***************************************************************************)
(* A denial is earned.  Every count of a key is the trace of a call: one   *)
(* for each request that is past the counter, whether it was told what it  *)
(* counted or not, and one for each call that was sent again.  Calls are   *)
(* never taken back, so no count is higher than their number.              *)
(***************************************************************************)
Past(r) == AtCounter(r) /\ pc[r] # "incr"

Counters(k) == {r \in Requests : /\ Past(r)
                                 /\ held[r].limit # NoLimit
                                 /\ held[r].period \in Periods
                                 /\ Key(r) = k}

Calls(k) == {<<r, 0>> : r \in Counters(k)} \cup {call \in resent : Key(call[1]) = k}

Begun == {r \in Requests : pc[r] # "idle"}

CountsAreEarned ==
    /\ IsFiniteSet(Begun) /\ IsFiniteSet(resent)
    /\ \A k \in DOMAIN store : store[k].count <= Cardinality(Calls(k))
    /\ \A r \in Requests :
          /\ Expiring(r) \/ pc[r] = "denied" =>
                counted[r].count <= Cardinality(Calls(Key(r)))
          /\ pc[r] = "denied" => counted[r].count > held[r].limit

\* The calls of requests that have begun are finitely many.
LEMMA CallsAreFinite ==
    ASSUME IsFiniteSet(Begun), IsFiniteSet(resent), NEW k
    PROVE  IsFiniteSet(Calls(k)) /\ Cardinality(Calls(k)) \in Nat
<1>1. IsFiniteSet({0})
  BY FS_Singleton
<1>2. IsFiniteSet(Begun \X {0})
  BY <1>1, FS_Product
<1>3. IsFiniteSet((Begun \X {0}) \cup resent)
  BY <1>2, FS_Union
<1>4. Calls(k) \subseteq (Begun \X {0}) \cup resent
  BY DEF Calls, Counters, Past, AtCounter, Begun
<1>. QED
  BY <1>3, <1>4, FS_Subset, FS_CardinalityType

\* No step takes a call back.
LEMMA CallsStay ==
    ASSUME IInv, SentFromTheCounter, [Next]_vars, NEW k
    PROVE  Calls(k) \subseteq Calls(k)'
<1>1. TypeOK
  BY DEF IInv
<1>2. Counters(k) \subseteq Counters(k)'
  BY <1>1, CounterIsForGood DEF Counters, Past, Key
<1>3. ASSUME NEW call \in resent
      PROVE  call \in resent' /\ Key(call[1])' = Key(call[1])
  <2>1. call[1] \in Requests /\ AtCounter(call[1])
    <3>1. PICK r \in Requests, n \in 1 .. MaxRetries : call = <<r, n>>
      BY <1>1 DEF TypeOK
    <3>. QED
      BY <3>1 DEF SentFromTheCounter, Resent
  <2>. QED
    BY <1>1, <2>1, CounterIsForGood, ResentGrows DEF Key
<1>. QED
  BY <1>2, <1>3 DEF Calls

LEMMA BegunStaysFinite ==
    ASSUME TypeOK, [Next]_vars, IsFiniteSet(Begun), IsFiniteSet(resent)
    PROVE  IsFiniteSet(Begun') /\ IsFiniteSet(resent')
<1>1. \E r : \A s \in Requests \ {r} : pc'[s] = pc[s]
  <2>. USE DEF TypeOK, Goto
  <2>1. ASSUME NEW r \in Requests,
               \/ Arrive(r) \/ ReadClock(r) \/ Crash(r)
               \/ Incr(r) \/ IncrResent(r) \/ IncrFails(r)
               \/ Expire(r) \/ ExpireResent(r) \/ ExpireFails(r)
        PROVE  \A s \in Requests \ {r} : pc'[s] = pc[s]
    BY <2>1 DEF Arrive, ReadClock, Crash, Incr, IncrResent, IncrFails, Expire,
                ExpireResent, ExpireFails
  <2>2. CASE EditPlan \/ Tick \/ UNCHANGED vars
    BY <2>2 DEF EditPlan, Tick, vars
  <2>. QED
    BY <2>1, <2>2 DEF Next
<1>2. PICK r : \A s \in Requests \ {r} : pc'[s] = pc[s]
  BY <1>1
<1>3. Begun' \subseteq Begun \cup {r}
  BY <1>2 DEF Begun
<1>4. IsFiniteSet(Begun')
  BY <1>3, FS_Subset, FS_AddElement
<1>5. CASE resent' = resent
  BY <1>4, <1>5
<1>6. ASSUME NEW call, resent' = resent \cup {call}
      PROVE  IsFiniteSet(resent')
  BY <1>6, FS_AddElement
<1>. QED
  BY <1>4, <1>5, <1>6, ResentGrows

LEMMA CallsGrow ==
    ASSUME IInv, SentFromTheCounter, [Next]_vars, NEW k,
           IsFiniteSet(Begun), IsFiniteSet(resent)
    PROVE  /\ Cardinality(Calls(k)) \in Nat /\ Cardinality(Calls(k)') \in Nat
           /\ Cardinality(Calls(k)) <= Cardinality(Calls(k)')
           /\ \A call \in Calls(k)' \ Calls(k) :
                 Cardinality(Calls(k)) + 1 <= Cardinality(Calls(k)')
<1>1. IsFiniteSet(Begun') /\ IsFiniteSet(resent')
  BY BegunStaysFinite DEF IInv
<1>2. /\ IsFiniteSet(Calls(k)) /\ Cardinality(Calls(k)) \in Nat
      /\ IsFiniteSet(Calls(k)') /\ Cardinality(Calls(k)') \in Nat
  <2>1. IsFiniteSet(Calls(k)) /\ Cardinality(Calls(k)) \in Nat
    BY CallsAreFinite
  <2>2. ASSUME NEW B, NEW S, IsFiniteSet(B), IsFiniteSet(S),
               Calls(k)' \subseteq (B \X {0}) \cup S
        PROVE  IsFiniteSet(Calls(k)') /\ Cardinality(Calls(k)') \in Nat
    <3>1. IsFiniteSet(B \X {0})
      BY <2>2, FS_Product, FS_Singleton
    <3>2. IsFiniteSet((B \X {0}) \cup S)
      BY <2>2, <3>1, FS_Union
    <3>. QED
      BY <2>2, <3>2, FS_Subset, FS_CardinalityType
  <2>3. Calls(k)' \subseteq (Begun' \X {0}) \cup resent'
    BY DEF Calls, Counters, Past, AtCounter, Begun
  <2>. QED
    BY <1>1, <2>1, <2>2, <2>3
<1>3. Calls(k) \subseteq Calls(k)'
  BY CallsStay
<1>4. Cardinality(Calls(k)) <= Cardinality(Calls(k)')
  BY <1>2, <1>3, FS_Subset
<1>5. ASSUME NEW call \in Calls(k)' \ Calls(k)
      PROVE  Cardinality(Calls(k)) + 1 <= Cardinality(Calls(k)')
  <2>1. Calls(k) \cup {call} \subseteq Calls(k)'
    BY <1>3
  <2>2. Cardinality(Calls(k) \cup {call}) = Cardinality(Calls(k)) + 1
    BY <1>2, FS_AddElement
  <2>3. Cardinality(Calls(k) \cup {call}) <= Cardinality(Calls(k)')
    BY <1>2, <2>1, FS_Subset
  <2>. QED
    BY <2>2, <2>3
<1>. QED
  BY <1>2, <1>4, <1>5

LEMMA StepCountsAreEarned ==
    ASSUME IInv, SentFromTheCounter, CountsAreEarned, [Next]_vars
    PROVE  CountsAreEarned'
<1>1. TypeOK /\ Snapshots
  BY DEF IInv
<1>2. \A k : /\ Cardinality(Calls(k)) \in Nat /\ Cardinality(Calls(k)') \in Nat
             /\ Cardinality(Calls(k)) <= Cardinality(Calls(k)')
             /\ \A call \in Calls(k)' \ Calls(k) :
                   Cardinality(Calls(k)) + 1 <= Cardinality(Calls(k)')
  BY CallsGrow DEF CountsAreEarned
<1>3. \A k \in DOMAIN store : store[k].count \in Nat
  BY <1>1 DEF TypeOK
<1>4. ASSUME \A k \in DOMAIN store' : k \in DOMAIN store /\ store'[k].count = store[k].count
      PROVE  \A k \in DOMAIN store' : store'[k].count <= Cardinality(Calls(k)')
  BY <1>2, <1>3, <1>4 DEF CountsAreEarned
<1>5. ASSUME NEW k, store' = Incremented(k), NEW call \in Calls(k)' \ Calls(k)
      PROVE  \A j \in DOMAIN store' : store'[j].count <= Cardinality(Calls(j)')
  <2>1. Cardinality(Calls(k)) + 1 <= Cardinality(Calls(k)')
    BY <1>2, <1>5
  <2>2. /\ DOMAIN store' = DOMAIN store \cup {k}
        /\ \A j \in DOMAIN store : j # k => store'[j] = store[j]
        /\ k \in DOMAIN store => store'[k] = [store[k] EXCEPT !.count = @ + 1]
        /\ k \notin DOMAIN store =>
              store'[k] = [count |-> 1, expires |-> Never, life |-> lives + 1]
    BY <1>5, IncrementedStore
  <2>3. store'[k].count <= Cardinality(Calls(k)')
    <3>1. CASE k \in DOMAIN store
      <4>1. store[k] \in [count : Nat \ {0}, expires : Nat \cup {Never}, life : Nat \ {0}]
        BY <1>1, <3>1 DEF TypeOK
      <4>2. store'[k].count = store[k].count + 1
        BY <2>2, <3>1, <4>1
      <4>3. store[k].count <= Cardinality(Calls(k))
        BY <3>1 DEF CountsAreEarned
      <4>. QED
        BY <1>2, <1>3, <2>1, <3>1, <4>2, <4>3
    <3>2. CASE k \notin DOMAIN store
      BY <1>2, <2>1, <2>2, <3>2
    <3>. QED
      BY <3>1, <3>2
  <2>. QED
    BY <1>2, <1>3, <2>2, <2>3 DEF CountsAreEarned
<1>6. \A k \in DOMAIN store' : store'[k].count <= Cardinality(Calls(k)')
  <2>1. ASSUME NEW r \in Requests, Incr(r) \/ IncrFails(r), store' # store
        PROVE  \A k \in DOMAIN store' : store'[k].count <= Cardinality(Calls(k)')
    <3>1. /\ pc[r] = "incr" /\ pc'[r] # "incr" /\ AtCounter(r)'
          /\ UNCHANGED <<held, read, resent>>
          /\ store' = Incremented(Key(r))
      BY <1>1, <2>1 DEF Incr, IncrFails, Goto, AfterIncr, Answer, AtCounter, TypeOK
    <3>. PICK k : k = Key(r)
      OBVIOUS
    <3>2. r \in Counters(k)' /\ r \notin Counters(k)
      BY <1>1, <3>1, NullAssumption DEF Counters, Past, Key, Snapshots
    <3>3. <<r, 0>> \in Calls(k)'
      BY <3>2 DEF Calls
    <3>4. <<r, 0>> \notin Calls(k)
      BY <1>1, <3>2 DEF Calls, TypeOK
    <3>. QED
      BY <1>5, <3>1, <3>3, <3>4
  <2>2. ASSUME NEW r \in Requests, IncrResent(r)
        PROVE  \A k \in DOMAIN store' : store'[k].count <= Cardinality(Calls(k)')
    <3>1. UNCHANGED <<held, read>> /\ store' = Incremented(Key(r))
      BY <2>2 DEF IncrResent
    <3>2. PICK n \in 1 .. MaxRetries :
              /\ \A m \in 1 .. n : <<r, m>> \in resent <=> m < n
              /\ resent' = resent \cup {<<r, n>>}
      BY <2>2 DEF IncrResent
    <3>3. n \in 1 .. n
      BY RetryAssumption
    <3>4. <<r, n>> \in resent' /\ <<r, n>> \notin resent
      BY <3>2, <3>3
    <3>. PICK k : k = Key(r)
      OBVIOUS
    <3>5. Key(r)' = k
      BY <3>1 DEF Key
    <3>6. <<r, n>> \in Calls(k)'
      BY <3>4, <3>5 DEF Calls
    <3>7. <<r, n>> \notin Calls(k)
      BY <3>4, RetryAssumption DEF Calls
    <3>. QED
      BY <1>5, <3>1, <3>6, <3>7
  <2>3. ASSUME NEW r \in Requests, Expire(r) \/ ExpireResent(r) \/ ExpireFails(r)
        PROVE  \A k \in DOMAIN store' : store'[k].count <= Cardinality(Calls(k)')
    <3>1. /\ DOMAIN store' = DOMAIN store
          /\ \A k \in DOMAIN store : store'[k].count = store[k].count
      BY <1>1, <2>3 DEF Expire, ExpireResent, ExpireFails, Expired, TypeOK
    <3>. QED
      BY <1>4, <3>1
  <2>4. CASE Tick
    BY <1>4, <2>4 DEF Tick, Survivors
  <2>5. CASE UNCHANGED store
    BY <1>4, <2>5
  <2>. QED
    BY <2>1, <2>2, <2>3, <2>4, <2>5 DEF Next, Arrive, ReadClock, Crash, EditPlan, vars
<1>7. ASSUME NEW r \in Requests, Expiring(r)' \/ pc'[r] = "denied"
      PROVE  /\ counted'[r].count <= Cardinality(Calls(Key(r))')
             /\ pc'[r] = "denied" => counted'[r].count > held'[r].limit
  <2>1. CASE Incr(r)
    <3>1. /\ Key(r)' = Key(r) /\ held'[r] = held[r]
          /\ Key(r) \in DOMAIN store'
          /\ counted'[r].count = store'[Key(r)].count
          /\ pc'[r] = AfterIncr(r, store'[Key(r)].count)
      <4>1. /\ store' = Incremented(Key(r))
            /\ pc' = [pc EXCEPT ![r] = AfterIncr(r, store'[Key(r)].count)]
            /\ counted' = [counted EXCEPT ![r] =
                   [count |-> store'[Key(r)].count, life |-> store'[Key(r)].life,
                    at |-> clock]]
            /\ UNCHANGED <<held, read>>
        BY <2>1 DEF Incr, Goto
      <4>2. Key(r) \in DOMAIN store'
        BY <4>1, IncrementedStore
      <4>. QED
        BY <1>1, <4>1, <4>2 DEF Key, TypeOK
    <3>2. store'[Key(r)].count <= Cardinality(Calls(Key(r))')
      BY <1>6, <3>1
    <3>3. store'[Key(r)].count \in Nat /\ held[r].limit \in Nat
      <4>1. TypeOK'
        BY StepIInv DEF IInv
      <4>. QED
        BY <1>1, <2>1, <3>1, <4>1 DEF TypeOK, Snapshots, Incr, Goto
    <3>. QED
      BY <3>1, <3>2, <3>3 DEF AfterIncr, Answer
  <2>2. CASE ~Incr(r)
    <3>1. /\ Expiring(r) \/ pc[r] = "denied"
          /\ counted'[r] = counted[r]
          /\ pc'[r] = "denied" =>
                pc[r] = "denied" \/ Answer(r, counted[r].count) = "denied"
      <4>. USE DEF TypeOK, Goto, Expiring
      <4>1. ASSUME NEW q \in Requests, q # r,
                   \/ Arrive(q) \/ ReadClock(q) \/ Crash(q)
                   \/ Incr(q) \/ IncrResent(q) \/ IncrFails(q)
                   \/ Expire(q) \/ ExpireResent(q) \/ ExpireFails(q)
            PROVE  pc'[r] = pc[r] /\ counted'[r] = counted[r]
        BY <1>1, <4>1 DEF Arrive, ReadClock, Crash, Incr, IncrResent, IncrFails, Expire,
                          ExpireResent, ExpireFails
      <4>2. CASE \/ Arrive(r) \/ ReadClock(r) \/ Crash(r) \/ IncrFails(r)
                 \/ IncrResent(r) \/ ExpireFails(r)
        BY <1>1, <1>7, <4>2
           DEF Arrive, ReadClock, Crash, IncrFails, IncrResent, ExpireFails
      <4>3. CASE Expire(r) \/ ExpireResent(r)
        BY <1>1, <1>7, <4>3 DEF Expire, ExpireResent
      <4>4. CASE EditPlan \/ Tick \/ UNCHANGED vars
        BY <1>7, <4>4 DEF EditPlan, Tick, vars
      <4>. QED
        BY <1>7, <2>2, <4>1, <4>2, <4>3, <4>4 DEF Next
    <3>2. Key(r)' = Key(r) /\ held'[r] = held[r]
      BY <1>1, <3>1, CounterIsForGood DEF AtCounter, Expiring, Key
    <3>3. counted[r].count <= Cardinality(Calls(Key(r)))
      BY <3>1 DEF CountsAreEarned
    <3>4. counted[r].count \in Nat /\ held[r].limit \in Nat
      BY <1>1, <3>1 DEF TypeOK, Snapshots, Expiring
    <3>5. /\ Cardinality(Calls(Key(r))) <= Cardinality(Calls(Key(r))')
          /\ Cardinality(Calls(Key(r))) \in Nat
          /\ Cardinality(Calls(Key(r))') \in Nat
      <4>1. \A k : k = Key(r)' => Calls(k)' = Calls(Key(r))'
        BY DEF Calls, Counters
      <4>. QED
        BY <1>2, <3>2, <4>1
    <3>6. pc'[r] = "denied" => counted[r].count > held[r].limit
      BY <3>1, <3>4 DEF CountsAreEarned, Answer
    <3>. QED
      BY <3>1, <3>2, <3>3, <3>4, <3>5, <3>6
  <2>. QED
    BY <2>1, <2>2
<1>8. IsFiniteSet(Begun') /\ IsFiniteSet(resent')
  BY <1>1, BegunStaysFinite DEF CountsAreEarned
<1>. QED
  BY <1>6, <1>7, <1>8 DEF CountsAreEarned

\* Requests of one key are of one window.
LEMMA OneKeyOneWindow ==
    ASSUME TypeOK, NEW r \in Requests, NEW s \in Requests,
           held[r].period \in Periods, held[s].period \in Periods, Key(s) = Key(r)
    PROVE  SameWindow(r, s)
<1>1. ASSUME NEW q \in Requests, held[q].period \in Periods
      PROVE  windowBounds(held[q].period, read[q]) =
             windowBounds(Key(q).period, Key(q).start)
  <2>. DEFINE p == held[q].period
              w == windowBounds(p, read[q])
  <2>1. read[q] \in Nat
    BY DEF TypeOK
  <2>2. w.start \in Nat /\ w.start <= read[q] /\ read[q] < w.end /\ w.end \in Nat
    BY <1>1, <2>1, WindowContainsNow
  <2>3. \A u \in Nat : w.start <= u /\ u < w.end => windowBounds(p, u) = w
    BY <1>1, <2>1, WindowsTileTime
  <2>4. Key(q).period = p /\ Key(q).start = w.start
    BY DEF Key, KeyOf
  <2>. HIDE DEF w, p
  <2>5. w.start <= w.start /\ w.start < w.end
    BY <2>1, <2>2
  <2>6. windowBounds(p, w.start) = w
    BY <2>2, <2>3, <2>5
  <2>. QED
    BY <2>4, <2>6 DEF w, p
<1>2. held[s].period = held[r].period
  BY DEF Key, KeyOf
<1>. QED
  BY <1>1, <1>2 DEF SameWindow

(***************************************************************************)
(* A 429 is accounted for: the limit it was refused at is filled by other  *)
(* calls of INCR for the same period and window, of other requests or sent *)
(* again.                                                                  *)
(***************************************************************************)
THEOREM DenialIsEarnedHolds == Spec => []DenialIsEarned
<1>1. Init => CountsAreEarned
  <2>. SUFFICES ASSUME Init PROVE CountsAreEarned
    OBVIOUS
  <2>1. Begun = {} /\ resent = {}
    BY DEF Init, Begun
  <2>2. IsFiniteSet({})
    BY FS_EmptySet
  <2>. QED
    BY <2>1, <2>2 DEF Init, CountsAreEarned, Expiring
<1>2. IInv /\ SentFromTheCounter /\ CountsAreEarned /\ [Next]_vars => CountsAreEarned'
  BY StepCountsAreEarned
<1>3. IInv /\ SentFromTheCounter /\ CountsAreEarned => DenialIsEarned
  <2>. SUFFICES ASSUME IInv, SentFromTheCounter, CountsAreEarned,
                       NEW r \in Requests, pc[r] = "denied"
                PROVE  Cardinality(OtherCalls(r)) >= held[r].limit
    BY DEF DenialIsEarned
  <2>. DEFINE C == Calls(Key(r))
              S == OtherCalls(r)
  <2>1. /\ held[r].limit \in Nat /\ held[r].period \in Periods
        /\ counted[r].count \in Nat /\ TypeOK
    BY DEF IInv, Snapshots, TypeOK
  <2>2. S \subseteq (Begun \X {0}) \cup resent
    BY DEF OtherCalls, Begun
  <2>3. IsFiniteSet(C) /\ IsFiniteSet(S) /\ IsFiniteSet(C \ {<<r, 0>>})
    <3>1. IsFiniteSet(Begun \X {0})
      BY FS_Product, FS_Singleton DEF CountsAreEarned
    <3>2. IsFiniteSet((Begun \X {0}) \cup resent)
      BY <3>1, FS_Union DEF CountsAreEarned
    <3>3. IsFiniteSet(C)
      BY CallsAreFinite DEF CountsAreEarned
    <3>. QED
      BY <2>2, <3>2, <3>3, FS_Subset
  <2>4. <<r, 0>> \in C
    BY <2>1, NullAssumption DEF Calls, Counters, Past, AtCounter
  <2>5. C \ {<<r, 0>>} \subseteq S
    <3>1. ASSUME NEW s \in Counters(Key(r)), s # r
          PROVE  <<s, 0>> \in S
      BY <2>1, <3>1, OneKeyOneWindow DEF Counters, Past, AtCounter, OtherCalls
    <3>2. ASSUME NEW call \in resent, Key(call[1]) = Key(r)
          PROVE  call \in S
      <4>1. call[1] \in Requests /\ held[call[1]].period \in Periods
        <5>1. PICK q \in Requests, n \in 1 .. MaxRetries : call = <<q, n>>
          BY <2>1 DEF TypeOK
        <5>. QED
          BY <5>1 DEF SentFromTheCounter, Resent
      <4>. QED
        BY <2>1, <3>2, <4>1, OneKeyOneWindow DEF OtherCalls
    <3>. QED
      BY <3>1, <3>2 DEF Calls
  <2>6. counted[r].count <= Cardinality(C) /\ counted[r].count > held[r].limit
    BY DEF CountsAreEarned
  <2>. HIDE DEF C, S
  <2>7. /\ Cardinality(C) \in Nat /\ Cardinality(S) \in Nat
        /\ Cardinality(C \ {<<r, 0>>}) = Cardinality(C) - 1
        /\ Cardinality(C \ {<<r, 0>>}) <= Cardinality(S)
    BY <2>3, <2>4, <2>5, FS_CardinalityType, FS_RemoveElement, FS_Subset
  <2>8. Cardinality(S) >= held[r].limit
    BY <2>1, <2>6, <2>7
  <2>. QED
    BY <2>8 DEF S
<1>. QED
  BY <1>1, <1>2, <1>3, CountedFromTheCounter, PTL DEF Spec
-----------------------------------------------------------------------------
(***************************************************************************)
(* The limit of a window under any clock.  EXPIRE rounds a time to live    *)
(* down by less than a second and never below one, so a life of a key ends *)
(* less than a second before its window, the next life not before the      *)
(* window does, and a window is counted in two lives at most.              *)
(***************************************************************************)
\* The life the request was counted in is over.
Outlived(r) ==
    IsCounted(r) /\ ~(Key(r) \in DOMAIN store /\ store[Key(r)].life = counted[r].life)

CountedInTime(r) == IsCounted(r) /\ counted[r].at < WindowEnd(r)

KeysDieLate ==
    \A k \in DOMAIN store :
        store[k].expires = Never \/ store[k].expires + Second > KeyEnd(k)

OutlivedLate ==
    \A r \in Requests : Outlived(r) =>
        /\ clock + Second > WindowEnd(r)
        /\ Key(r) \in DOMAIN store =>
              store[Key(r)].expires = Never \/ store[Key(r)].expires > WindowEnd(r)

OutlivedTwice ==
    \A r, s \in Requests :
        Outlived(r) /\ Outlived(s) /\ Key(r) = Key(s)
          /\ counted[r].life # counted[s].life
        => clock > WindowEnd(r)

TwoLives ==
    \A q, r, s \in Requests :
        CountedInTime(q) /\ CountedInTime(r) /\ CountedInTime(s)
          /\ Key(q) = Key(r) /\ Key(r) = Key(s)
        => \/ counted[q].life = counted[r].life
           \/ counted[q].life = counted[s].life
           \/ counted[r].life = counted[s].life

SuccessorsOutlive == KeysDieLate /\ OutlivedLate /\ OutlivedTwice /\ TwoLives

\* EXPIRE is sent at least a second, and more than the duration less a second.
LEMMA TimeToLiveBounds ==
    ASSUME NEW d \in Nat
    PROVE  /\ TimeToLive(d) \in Nat
           /\ TimeToLive(d) >= Second
           /\ TimeToLive(d) + Second > d
<1>. DEFINE q == d \div Second
<1>1. Second \in Nat \ {0}
  BY DurationAssumption
<1>2. q \in Nat /\ d % Second \in 0 .. Second - 1 /\ d = Second * q + (d % Second)
  BY <1>1
<1>3. CASE d < Second
  BY <1>1, <1>3 DEF TimeToLive
<1>4. CASE ~(d < Second)
  <2>1. q # 0
    BY <1>1, <1>2, <1>4
  <2>2. TimeToLive(d) = Second * q
    BY <1>4 DEF TimeToLive
  <2>. HIDE DEF q
  <2>3. Second * q = Second * (q - 1) + Second /\ Second * (q - 1) \in Nat
    BY <1>1, <1>2, <2>1
  <2>. QED
    BY <1>1, <1>2, <2>2, <2>3
<1>. QED
  BY <1>3, <1>4

\* Steps after which every request has the life, and every key the death,
\* that it had.
LEMMA QuietOutlives ==
    ASSUME SuccessorsOutlive, UNCHANGED <<clock, store, counted>>,
           \A s \in Requests : IsCounted(s) => /\ Key(s)' = Key(s)
                                               /\ WindowEnd(s)' = WindowEnd(s)
    PROVE  SuccessorsOutlive'
<1>1. \A s \in Requests : /\ IsCounted(s)' <=> IsCounted(s)
                          /\ Outlived(s)' <=> Outlived(s)
                          /\ CountedInTime(s)' <=> CountedInTime(s)
  BY DEF Outlived, IsCounted, CountedInTime
<1>2. KeysDieLate'
  BY DEF SuccessorsOutlive, KeysDieLate, KeyEnd
<1>3. OutlivedLate'
  BY <1>1 DEF SuccessorsOutlive, OutlivedLate, Outlived
<1>4. OutlivedTwice'
  BY <1>1 DEF SuccessorsOutlive, OutlivedTwice, Outlived
<1>5. TwoLives'
  BY <1>1 DEF SuccessorsOutlive, TwoLives, CountedInTime
<1>. QED
  BY <1>2, <1>3, <1>4, <1>5 DEF SuccessorsOutlive

\* A request counts.  When it counts in time, in a life that two others
\* counted in time have not seen, their lives were over, one after the other,
\* before the window was.
LEMMA CountingOutlives ==
    ASSUME IInv, SuccessorsOutlive, NEW r \in Requests, NEW k, k = Key(r),
           pc[r] = "incr", store' = Incremented(k), lives' = LivesAfter(k),
           UNCHANGED <<clock, held, read>>,
           \/ UNCHANGED counted
           \/ counted' = [counted EXCEPT ![r] =
                  [count |-> store'[k].count, life |-> store'[k].life, at |-> clock]]
    PROVE  SuccessorsOutlive'
<1>1. TypeOK /\ Snapshots
  BY DEF IInv
<1>2. held[r].period \in Periods /\ ~IsCounted(r)
  BY <1>1 DEF Snapshots
<1>3. k.period \in Periods /\ \E t \in 0 .. clock : k = KeyOf(k.period, t)
  BY <1>1, <1>2, KeyOfRequest
<1>4. /\ DOMAIN store' = DOMAIN store \cup {k}
      /\ \A j \in DOMAIN store : /\ store'[j].life = store[j].life
                                 /\ store'[j].expires = store[j].expires
      /\ k \notin DOMAIN store => store'[k].expires = Never
  <2>1. DOMAIN store' = DOMAIN store \cup {k}
    BY <1>1, IncrementedExpires
  <2>2. \A j \in DOMAIN store : /\ store'[j].life = store[j].life
                                /\ store'[j].expires = store[j].expires
    BY <1>3, IncrementedIsSound
  <2>3. ASSUME k \notin DOMAIN store PROVE store'[k].expires = Never
    <3>1. store'[k].count = 1
      BY <1>1, <2>3, IncrementedExpires
    <3>. QED
      BY <1>3, <3>1, IncrementedIsSound
  <2>. QED
    BY <2>1, <2>2, <2>3
<1>5. \A s \in Requests : Key(s)' = Key(s) /\ WindowEnd(s)' = WindowEnd(s)
  BY DEF Key, WindowEnd
<1>6. /\ \A s \in Requests : s # r => counted'[s] = counted[s]
      /\ \/ counted'[r] = counted[r]
         \/ counted'[r].life = store'[k].life /\ counted'[r].at = clock
  BY <1>1 DEF TypeOK
<1>7. \A s \in Requests : Outlived(s)' => /\ Outlived(s)
                                          /\ s # r
                                          /\ counted'[s] = counted[s]
  <2>. SUFFICES ASSUME NEW s \in Requests, Outlived(s)'
                PROVE  Outlived(s) /\ s # r /\ counted'[s] = counted[s]
    OBVIOUS
  <2>1. s # r
    BY <1>2, <1>4, <1>5, <1>6 DEF Outlived, IsCounted
  <2>2. counted'[s] = counted[s]
    BY <1>6, <2>1
  <2>. QED
    BY <1>4, <1>5, <2>1, <2>2 DEF Outlived, IsCounted
<1>8. KeysDieLate'
  BY <1>4 DEF SuccessorsOutlive, KeysDieLate, KeyEnd
<1>9. OutlivedLate'
  <2>. SUFFICES ASSUME NEW s \in Requests, Outlived(s)'
                PROVE  /\ clock + Second > WindowEnd(s)
                       /\ Key(s) \in DOMAIN store' =>
                             \/ store'[Key(s)].expires = Never
                             \/ store'[Key(s)].expires > WindowEnd(s)
    BY <1>5 DEF OutlivedLate
  <2>1. Outlived(s)
    BY <1>7
  <2>. QED
    BY <1>4, <2>1 DEF SuccessorsOutlive, OutlivedLate
<1>10. OutlivedTwice'
  BY <1>5, <1>7 DEF SuccessorsOutlive, OutlivedTwice
<1>11. ASSUME NEW p \in Requests, NEW q \in Requests, p # r, q # r,
              CountedInTime(p)', CountedInTime(q)', CountedInTime(r)',
              Key(p) = k, Key(q) = k
       PROVE  \/ counted'[p].life = counted'[q].life
              \/ counted'[p].life = counted'[r].life
              \/ counted'[q].life = counted'[r].life
  <2>1. IsCounted(r)' /\ counted'[r].life = store'[k].life /\ counted'[r].at = clock
    BY <1>2, <1>6, <1>11 DEF CountedInTime, IsCounted
  <2>2. clock < WindowEnd(r)
    BY <1>5, <1>11, <2>1 DEF CountedInTime
  <2>3. /\ IsCounted(p) /\ counted'[p] = counted[p]
        /\ IsCounted(q) /\ counted'[q] = counted[q]
    BY <1>6, <1>11 DEF CountedInTime, IsCounted
  <2>4. WindowEnd(p) = WindowEnd(r) /\ WindowEnd(r) \in Nat /\ clock \in Nat
    <3>1. held[p].period \in Periods
      BY <1>1, <2>3 DEF Snapshots
    <3>. QED
      BY <1>1, <1>2, <1>11, <3>1, KeyEndOfRequest DEF TypeOK
  <2>. SUFFICES ASSUME counted[p].life # counted[q].life,
                       counted[p].life # store'[k].life,
                       counted[q].life # store'[k].life
                PROVE  FALSE
    BY <2>1, <2>3
  <2>5. Outlived(p) /\ Outlived(q)
    BY <1>4, <1>11, <2>3 DEF Outlived
  <2>6. clock > WindowEnd(p)
    BY <1>11, <2>5 DEF SuccessorsOutlive, OutlivedTwice
  <2>. QED
    BY <2>2, <2>4, <2>6
<1>12. TwoLives'
  <2>1. \A s \in Requests : s # r => (CountedInTime(s)' <=> CountedInTime(s))
    BY <1>5, <1>6 DEF CountedInTime, IsCounted
  <2>. SUFFICES ASSUME NEW p \in Requests, NEW q \in Requests, NEW s \in Requests,
                       CountedInTime(p)', CountedInTime(q)', CountedInTime(s)',
                       Key(p) = Key(q), Key(q) = Key(s)
                PROVE  \/ counted'[p].life = counted'[q].life
                       \/ counted'[p].life = counted'[s].life
                       \/ counted'[q].life = counted'[s].life
    BY <1>5 DEF TwoLives
  <2>2. CASE p # r /\ q # r /\ s # r
    BY <1>6, <2>1, <2>2 DEF SuccessorsOutlive, TwoLives
  <2>3. CASE p = q \/ p = s \/ q = s
    BY <2>3
  <2>4. CASE p = r /\ q # r /\ s # r
    BY <1>11, <2>4
  <2>5. CASE q = r /\ p # r /\ s # r
    BY <1>11, <2>5
  <2>6. CASE s = r /\ p # r /\ q # r
    BY <1>11, <2>6
  <2>. QED
    BY <2>2, <2>3, <2>4, <2>5, <2>6
<1>. QED
  BY <1>8, <1>9, <1>10, <1>12 DEF SuccessorsOutlive

\* A death is set: at the clock plus the time left from an earlier reading of
\* it, and a second from now at the least.
LEMMA ExpiringOutlives ==
    ASSUME IInv, SuccessorsOutlive, NEW r \in Requests,
           Expire(r) \/ ExpireResent(r) \/ ExpireFails(r)
    PROVE  SuccessorsOutlive'
<1>. DEFINE k == Key(r)
            d == Remaining(r)
<1>1. TypeOK /\ Snapshots /\ OpenersAreFirst
  BY DEF IInv
<1>2. /\ Expiring(r)
      /\ store' \in {store, Expired(k, d)}
      /\ UNCHANGED <<clock, held, read, counted>>
  BY DEF Expire, ExpireResent, ExpireFails
<1>3. held[r].period \in Periods
  BY <1>1, <1>2 DEF Snapshots, Expiring
<1>4. d \in Nat
  BY <1>1, <1>3, KeyOfRequest DEF Remaining
<1>5. /\ WindowEnd(r) = KeyEnd(k) /\ WindowEnd(r) \in Nat
      /\ read[r] \in Nat /\ read[r] <= clock /\ clock \in Nat
  BY <1>1, <1>3, KeyEndOfRequest DEF Snapshots, TypeOK
<1>6. /\ TimeToLive(d) \in Nat /\ TimeToLive(d) >= Second
      /\ TimeToLive(d) + Second > d
  <2>. HIDE DEF d
  <2>. QED
    BY <1>4, TimeToLiveBounds
<1>7. \A s \in Requests : Key(s)' = Key(s) /\ WindowEnd(s)' = WindowEnd(s)
  BY <1>2 DEF Key, WindowEnd
<1>8. (clock + TimeToLive(d)) + Second > KeyEnd(k)
  BY <1>4, <1>5, <1>6, DurationAssumption DEF Remaining
<1>. HIDE DEF k, d
<1>9. /\ DOMAIN store' = DOMAIN store
      /\ \A j \in DOMAIN store : store'[j].life = store[j].life
      /\ \A j \in DOMAIN store : \/ store'[j].expires = store[j].expires
                                 \/ /\ j = k
                                    /\ store'[j].expires = clock + TimeToLive(d)
  <2>1. CASE k \in DOMAIN store
    <3>1. store[k] \in [count : Nat \ {0}, expires : Nat \cup {Never},
                        life : Nat \ {0}]
      BY <1>1, <2>1 DEF TypeOK
    <3>. QED
      BY <1>2, <2>1, <3>1 DEF Expired
  <2>2. CASE k \notin DOMAIN store
    BY <1>2, <2>2 DEF Expired, IsLive
  <2>. QED
    BY <2>1, <2>2
<1>10. \A s \in Requests : Outlived(s)' <=> Outlived(s)
  BY <1>2, <1>7, <1>9 DEF Outlived, IsCounted
<1>11. KeysDieLate'
  BY <1>8, <1>9 DEF SuccessorsOutlive, KeysDieLate, KeyEnd
<1>12. OutlivedLate'
  <2>. SUFFICES ASSUME NEW s \in Requests, Outlived(s)
                PROVE  /\ clock + Second > WindowEnd(s)
                       /\ Key(s) \in DOMAIN store =>
                             \/ store'[Key(s)].expires = Never
                             \/ store'[Key(s)].expires > WindowEnd(s)
    BY <1>2, <1>7, <1>9, <1>10 DEF OutlivedLate
  <2>1. /\ clock + Second > WindowEnd(s)
        /\ Key(s) \in DOMAIN store =>
              store[Key(s)].expires = Never \/ store[Key(s)].expires > WindowEnd(s)
    BY DEF SuccessorsOutlive, OutlivedLate
  <2>2. WindowEnd(s) \in Nat
    BY <1>1, KeyEndOfRequest DEF Outlived, Snapshots
  <2>3. clock + TimeToLive(d) > WindowEnd(s)
    BY <1>5, <1>6, <2>1, <2>2, DurationAssumption
  <2>. QED
    BY <1>9, <2>1, <2>3
<1>13. OutlivedTwice'
  BY <1>2, <1>7, <1>10 DEF SuccessorsOutlive, OutlivedTwice
<1>14. TwoLives'
  BY <1>2, <1>7 DEF SuccessorsOutlive, TwoLives, CountedInTime, IsCounted
<1>. QED
  BY <1>11, <1>12, <1>13, <1>14 DEF SuccessorsOutlive

\* Time passes, and a life may end: less than a second before its window, and
\* after the window when it was the second one.
LEMMA TickOutlives ==
    ASSUME IInv, SuccessorsOutlive, Tick
    PROVE  SuccessorsOutlive'
<1>1. TypeOK /\ Snapshots
  BY DEF IInv
<1>2. /\ clock' = clock + 1 /\ clock \in Nat
      /\ store' = Survivors(clock + 1)
      /\ UNCHANGED <<held, read, counted>>
  BY <1>1 DEF Tick, TypeOK
<1>3. /\ \A k \in DOMAIN store' : k \in DOMAIN store /\ store'[k] = store[k]
      /\ \A k \in DOMAIN store \ DOMAIN store' :
            store[k].expires # Never /\ ~(store[k].expires > clock')
  BY <1>2 DEF Survivors
<1>4. \A s \in Requests : Key(s)' = Key(s) /\ WindowEnd(s)' = WindowEnd(s)
  BY <1>2 DEF Key, WindowEnd
<1>5. \A k \in DOMAIN store : store[k].expires \in Nat \cup {Never}
  BY <1>1 DEF TypeOK
<1>6. \A s \in Requests : IsCounted(s) => /\ WindowEnd(s) = KeyEnd(Key(s))
                                          /\ WindowEnd(s) \in Nat
  BY <1>1, KeyEndOfRequest DEF Snapshots
<1>7. ASSUME NEW s \in Requests, Outlived(s)', ~Outlived(s)
      PROVE  /\ IsCounted(s)
             /\ Key(s) \in DOMAIN store \ DOMAIN store'
             /\ store[Key(s)].life = counted[s].life
             /\ store[Key(s)].expires \in Nat
             /\ store[Key(s)].expires <= clock'
  <2>1. /\ IsCounted(s)
        /\ Key(s) \in DOMAIN store \ DOMAIN store'
        /\ store[Key(s)].life = counted[s].life
    BY <1>2, <1>3, <1>4, <1>7 DEF Outlived, IsCounted
  <2>2. store[Key(s)].expires \in Nat /\ ~(store[Key(s)].expires > clock')
    BY <1>3, <1>5, <2>1
  <2>. QED
    BY <1>2, <2>1, <2>2
<1>8. KeysDieLate'
  BY <1>3 DEF SuccessorsOutlive, KeysDieLate, KeyEnd
<1>9. OutlivedLate'
  <2>. SUFFICES ASSUME NEW s \in Requests, Outlived(s)'
                PROVE  /\ clock' + Second > WindowEnd(s)
                       /\ Key(s) \in DOMAIN store' =>
                             \/ store'[Key(s)].expires = Never
                             \/ store'[Key(s)].expires > WindowEnd(s)
    BY <1>4 DEF OutlivedLate
  <2>1. CASE Outlived(s)
    <3>1. /\ clock + Second > WindowEnd(s)
          /\ Key(s) \in DOMAIN store =>
                store[Key(s)].expires = Never \/ store[Key(s)].expires > WindowEnd(s)
      BY <2>1 DEF SuccessorsOutlive, OutlivedLate
    <3>2. WindowEnd(s) \in Nat
      BY <1>6, <2>1 DEF Outlived
    <3>. QED
      BY <1>2, <1>3, <3>1, <3>2, DurationAssumption
  <2>2. CASE ~Outlived(s)
    <3>1. store[Key(s)].expires + Second > WindowEnd(s)
      BY <1>6, <1>7, <2>2, NullAssumption DEF SuccessorsOutlive, KeysDieLate
    <3>. QED
      BY <1>2, <1>6, <1>7, <2>2, <3>1, DurationAssumption
  <2>. QED
    BY <2>1, <2>2
<1>10. ASSUME NEW r \in Requests, NEW s \in Requests,
              ~Outlived(r), Outlived(r)', Outlived(s), Key(r) = Key(s)
       PROVE  clock' > WindowEnd(s) /\ WindowEnd(r) = WindowEnd(s)
  <2>1. /\ Key(s) \in DOMAIN store
        /\ store[Key(s)].expires \in Nat /\ store[Key(s)].expires <= clock'
        /\ IsCounted(r) /\ IsCounted(s)
    BY <1>7, <1>10 DEF Outlived
  <2>2. store[Key(s)].expires > WindowEnd(s)
    BY <1>10, <2>1, NullAssumption DEF SuccessorsOutlive, OutlivedLate
  <2>3. WindowEnd(r) = WindowEnd(s) /\ WindowEnd(s) \in Nat
    BY <1>6, <1>10, <2>1
  <2>. QED
    BY <1>2, <2>1, <2>2, <2>3
<1>11. OutlivedTwice'
  <2>. SUFFICES ASSUME NEW r \in Requests, NEW s \in Requests, Outlived(r)', Outlived(s)',
                       Key(r) = Key(s), counted[r].life # counted[s].life
                PROVE  clock' > WindowEnd(r)
    BY <1>2, <1>4 DEF OutlivedTwice
  <2>1. CASE Outlived(r) /\ Outlived(s)
    <3>1. clock > WindowEnd(r)
      BY <2>1 DEF SuccessorsOutlive, OutlivedTwice
    <3>. QED
      BY <1>2, <1>6, <2>1, <3>1 DEF Outlived
  <2>2. CASE ~Outlived(r) /\ Outlived(s)
    BY <1>10, <2>2
  <2>3. CASE Outlived(r) /\ ~Outlived(s)
    BY <1>10, <2>3
  <2>4. CASE ~Outlived(r) /\ ~Outlived(s)
    BY <1>7, <2>4
  <2>. QED
    BY <2>1, <2>2, <2>3, <2>4
<1>12. TwoLives'
  BY <1>2, <1>4 DEF SuccessorsOutlive, TwoLives, CountedInTime, IsCounted
<1>. QED
  BY <1>8, <1>9, <1>11, <1>12 DEF SuccessorsOutlive

LEMMA StepSuccessorsOutlive ==
    ASSUME IInv, SuccessorsOutlive, [Next]_vars
    PROVE  SuccessorsOutlive'
<1>1. TypeOK /\ Snapshots
  BY DEF IInv
<1>2. ASSUME NEW r \in Requests, Arrive(r) \/ ReadClock(r)
      PROVE  SuccessorsOutlive'
  <2>1. /\ UNCHANGED <<clock, store, counted>>
        /\ ~IsCounted(r)
        /\ \A s \in Requests : s # r => held'[s] = held[s] /\ read'[s] = read[s]
    BY <1>1, <1>2 DEF Arrive, ReadClock, Goto, Snapshots, TypeOK
  <2>2. \A s \in Requests : IsCounted(s) => /\ Key(s)' = Key(s)
                                            /\ WindowEnd(s)' = WindowEnd(s)
    BY <2>1 DEF Key, WindowEnd
  <2>. QED
    BY <2>1, <2>2, QuietOutlives
<1>3. ASSUME NEW r \in Requests, Crash(r)
      PROVE  SuccessorsOutlive'
  BY <1>3, QuietOutlives DEF Crash, Key, WindowEnd
<1>4. CASE EditPlan \/ UNCHANGED vars
  BY <1>4, QuietOutlives DEF EditPlan, vars, Key, WindowEnd
<1>5. ASSUME NEW r \in Requests, Incr(r) \/ IncrResent(r) \/ IncrFails(r)
      PROVE  SuccessorsOutlive'
  <2>1. pc[r] = "incr" /\ UNCHANGED <<clock, held, read>>
    BY <1>5 DEF Incr, IncrResent, IncrFails, Goto
  <2>2. CASE Incr(r) \/ IncrResent(r)
    BY <2>1, <2>2, CountingOutlives DEF Incr, IncrResent
  <2>3. CASE IncrFails(r) /\ UNCHANGED <<store, lives>>
    BY <2>1, <2>3, QuietOutlives DEF IncrFails, Key, WindowEnd
  <2>4. CASE IncrFails(r) /\ ~UNCHANGED <<store, lives>>
    BY <2>1, <2>4, CountingOutlives DEF IncrFails
  <2>. QED
    BY <1>5, <2>2, <2>3, <2>4
<1>. QED
  BY <1>2, <1>3, <1>4, <1>5, ExpiringOutlives, TickOutlives DEF Next

(***************************************************************************)
(* Before its last second a window is counted in one life: whoever counts  *)
(* there finds the key that the others were counted in.                    *)
(***************************************************************************)
CountedEarly(r) == IsCounted(r) /\ counted[r].at + Second <= WindowEnd(r)

OneEarlyLife ==
    \A r, s \in Requests :
        CountedEarly(r) /\ CountedEarly(s) /\ Key(r) = Key(s)
          => counted[r].life = counted[s].life

LEMMA StepOneEarlyLife ==
    ASSUME IInv, SentFromTheCounter, SuccessorsOutlive, OneEarlyLife, [Next]_vars
    PROVE  OneEarlyLife'
<1>1. TypeOK /\ Snapshots
  BY DEF IInv
<1>2. \A s \in Requests : IsCounted(s) =>
         /\ counted'[s] = counted[s] /\ Key(s)' = Key(s) /\ WindowEnd(s)' = WindowEnd(s)
  <2>. SUFFICES ASSUME NEW s \in Requests, IsCounted(s)
                PROVE  /\ counted'[s] = counted[s]
                       /\ Key(s)' = Key(s) /\ WindowEnd(s)' = WindowEnd(s)
    OBVIOUS
  <2>1. AtCounter(s) /\ pc[s] # "incr"
    BY <1>1 DEF Snapshots, AtCounter
  <2>2. held'[s] = held[s] /\ read'[s] = read[s]
    BY <1>1, <2>1, CounterIsForGood
  <2>3. counted'[s] = counted[s]
    BY <1>1, <2>1
       DEF Next, Arrive, ReadClock, Incr, IncrResent, IncrFails, Expire, ExpireResent,
           ExpireFails, Crash, EditPlan, Tick, vars, Goto, TypeOK
  <2>. QED
    BY <2>2, <2>3 DEF Key, WindowEnd
<1>3. CASE counted' = counted
  BY <1>2, <1>3 DEF OneEarlyLife, CountedEarly, IsCounted
<1>4. CASE counted' # counted
  <2>1. PICK r \in Requests : Incr(r)
    BY <1>4 DEF Next, Arrive, ReadClock, IncrResent, IncrFails, Expire, ExpireResent,
                ExpireFails, Crash, EditPlan, Tick, vars
  <2>. PICK k : k = Key(r)
    OBVIOUS
  <2>2. /\ store' = Incremented(k) /\ lives' = LivesAfter(k)
        /\ UNCHANGED <<held, read>>
        /\ counted'[r].life = store'[k].life /\ counted'[r].at = clock
        /\ \A s \in Requests : s # r => counted'[s] = counted[s]
    BY <1>1, <2>1 DEF Incr, TypeOK
  <2>3. held[r].period \in Periods
    BY <1>1, <2>1 DEF Incr, Goto, Snapshots
  <2>4. Key(r)' = k /\ WindowEnd(r)' = WindowEnd(r)
    BY <2>2 DEF Key, WindowEnd
  <2>5. ASSUME NEW s \in Requests, s # r, CountedEarly(s)', CountedEarly(r)',
               Key(s)' = Key(r)'
        PROVE  counted'[s].life = counted'[r].life
    <3>1. IsCounted(s)
      BY <2>2, <2>5 DEF CountedEarly, IsCounted
    <3>2. Key(s) = k
      BY <1>2, <2>4, <2>5, <3>1
    <3>3. WindowEnd(s) = WindowEnd(r) /\ WindowEnd(r) \in Nat
      BY <1>1, <2>3, <3>1, <3>2, KeyEndOfRequest DEF Snapshots
    <3>4. ~(clock + Second > WindowEnd(s))
      BY <1>1, <2>2, <2>4, <2>5, <3>3, DurationAssumption DEF CountedEarly, TypeOK
    <3>5. k \in DOMAIN store /\ store[k].life = counted[s].life
      BY <3>1, <3>2, <3>4 DEF SuccessorsOutlive, OutlivedLate, Outlived
    <3>6. store'[k].life = store[k].life
      <4>1. k.period \in Periods /\ \E t \in 0 .. clock : k = KeyOf(k.period, t)
        BY <1>1, <2>3, KeyOfRequest
      <4>. QED
        BY <2>2, <3>5, <4>1, IncrementedIsSound
    <3>. QED
      BY <2>2, <2>5, <3>5, <3>6
  <2>6. ASSUME NEW s \in Requests, NEW t \in Requests, s # r, t # r,
               CountedEarly(s)', CountedEarly(t)', Key(s)' = Key(t)'
        PROVE  counted'[s].life = counted'[t].life
    <3>1. IsCounted(s) /\ IsCounted(t)
      BY <2>2, <2>6 DEF CountedEarly, IsCounted
    <3>. QED
      BY <1>2, <2>6, <3>1 DEF OneEarlyLife, CountedEarly, IsCounted
  <2>. QED
    BY <2>5, <2>6 DEF OneEarlyLife
<1>. QED
  BY <1>3, <1>4

(***************************************************************************)
(* The limit of a window, up to its last second and under any clock.       *)
(***************************************************************************)
THEOREM LimitUntilTheLastSecondHolds == Spec => []LimitUntilTheLastSecond
<1>1. Init => SuccessorsOutlive /\ OneEarlyLife
  BY DEF Init, NotCounted, IsCounted, SuccessorsOutlive, KeysDieLate, OutlivedLate,
         OutlivedTwice, TwoLives, Outlived, CountedInTime, OneEarlyLife, CountedEarly
<1>2. IInv /\ SuccessorsOutlive /\ [Next]_vars => SuccessorsOutlive'
  BY StepSuccessorsOutlive
<1>3. IInv /\ SentFromTheCounter /\ SuccessorsOutlive /\ OneEarlyLife /\ [Next]_vars
        => OneEarlyLife'
  BY StepOneEarlyLife
<1>4. IInv /\ OneEarlyLife => LimitUntilTheLastSecond
  <2>. SUFFICES ASSUME IInv, OneEarlyLife, NEW r \in Requests, Admitted(r)
                PROVE  Cardinality({s \in AdmittedInWindow(r) :
                          counted[s].at + Second <= WindowEnd(s)}) <= held[r].limit
    BY DEF LimitUntilTheLastSecond
  <2>. DEFINE S == {s \in AdmittedInWindow(r) :
                      counted[s].at + Second <= WindowEnd(s)}
              number == [s \in S |-> counted[s].count]
  <2>1. held[r].limit \in Nat
    BY DEF IInv, Snapshots, Admitted
  <2>2. number \in [S -> 1 .. held[r].limit]
    <3>. SUFFICES ASSUME NEW s \in S
                  PROVE  counted[s].count \in 1 .. held[r].limit
      OBVIOUS
    <3>1. s \in Requests /\ Admitted(s) /\ held[s].limit <= held[r].limit
      BY DEF AdmittedInWindow
    <3>2. held[s].limit \in Nat /\ counted[s].count # 0
      BY <3>1 DEF IInv, Snapshots, Admitted
    <3>3. counted[s].count \in Nat /\ counted[s].count <= held[s].limit
      BY <3>1 DEF IInv, TypeOK, AdmittedWithinLimit
    <3>. QED
      BY <2>1, <3>1, <3>2, <3>3
  <2>3. \A s, t \in S : counted[s].life = counted[t].life
    <3>. SUFFICES ASSUME NEW s \in S, NEW t \in S
                  PROVE  counted[s].life = counted[t].life
      OBVIOUS
    <3>1. /\ s \in Requests /\ CountedEarly(s)
          /\ t \in Requests /\ CountedEarly(t)
          /\ SameWindow(r, s) /\ SameWindow(r, t)
      BY DEF AdmittedInWindow, Admitted, CountedEarly
    <3>2. Key(s) = Key(t)
      BY <3>1 DEF SameWindow, Key, KeyOf
    <3>. QED
      BY <3>1, <3>2 DEF OneEarlyLife
  <2>4. \A s, t \in S : number[s] = number[t] => s = t
    BY <2>3 DEF IInv, LivesAreApart, Admitted, AdmittedInWindow
  <2>. HIDE DEF S, number
  <2>5. Cardinality(S) <= held[r].limit
    BY <2>1, <2>2, <2>4, NumberedRequests
  <2>. QED
    BY <2>5 DEF S
<1>. QED
  BY <1>1, <1>2, <1>3, <1>4, CountedFromTheCounter, PTL DEF Spec

(***************************************************************************)
(* Twice the limit is the most a window admits, whatever EXPIRE rounds     *)
(* away: the requests of one life are numbered 1 .. limit by what INCR     *)
(* answered them, those of the other limit + 1 .. 2 * limit.               *)
(***************************************************************************)
THEOREM LimitTwicePerWindowHolds == Spec => []LimitTwicePerWindow
<1>1. Init => SuccessorsOutlive
  BY DEF Init, NotCounted, IsCounted, SuccessorsOutlive, KeysDieLate, OutlivedLate,
         OutlivedTwice, TwoLives, Outlived, CountedInTime
<1>2. IInv /\ SuccessorsOutlive /\ [Next]_vars => SuccessorsOutlive'
  BY StepSuccessorsOutlive
<1>3. IInv /\ SuccessorsOutlive => LimitTwicePerWindow
  <2>. SUFFICES ASSUME IInv, SuccessorsOutlive, NEW r \in Requests, Admitted(r)
                PROVE  Cardinality(AdmittedInWindow(r)) <= 2 * held[r].limit
    BY DEF LimitTwicePerWindow
  <2>1. held[r].limit \in Nat
    BY DEF IInv, Snapshots, Admitted
  <2>. DEFINE S == AdmittedInWindow(r)
              n == held[r].limit
  <2>2. ASSUME NEW s \in S
        PROVE  /\ s \in Requests
               /\ CountedInTime(s)
               /\ Key(s) = Key(r)
               /\ counted[s].count \in 1 .. n
    <3>1. s \in Requests /\ Admitted(s) /\ SameWindow(r, s) /\ held[s].limit <= n
          /\ counted[s].at < WindowEnd(s)
      BY DEF AdmittedInWindow
    <3>2. held[s].limit \in Nat /\ counted[s].count # 0
      BY <3>1 DEF IInv, Snapshots, Admitted
    <3>3. counted[s].count \in Nat /\ counted[s].count <= held[s].limit
      BY <3>1 DEF IInv, TypeOK, AdmittedWithinLimit
    <3>. QED
      BY <2>1, <3>1, <3>2, <3>3
         DEF CountedInTime, Admitted, SameWindow, Key, KeyOf
  <2>3. \A s, t \in S : counted[s].life = counted[t].life
                          /\ counted[s].count = counted[t].count => s = t
    BY <2>2 DEF IInv, LivesAreApart, CountedInTime
  <2>4. \E l : \A s, t \in S : counted[s].life # l /\ counted[t].life # l
                                 => counted[s].life = counted[t].life
    <3>1. CASE S = {}
      BY <3>1
    <3>2. CASE S # {}
      <4>1. PICK q \in S : TRUE
        BY <3>2
      <4>2. \A s, t \in S : counted[s].life # counted[q].life
                              /\ counted[t].life # counted[q].life
                              => counted[s].life = counted[t].life
        BY <2>2 DEF SuccessorsOutlive, TwoLives
      <4>. QED
        BY <4>2
    <3>. QED
      BY <3>1, <3>2
  <2>5. PICK l : \A s, t \in S : counted[s].life # l /\ counted[t].life # l
                                   => counted[s].life = counted[t].life
    BY <2>4
  <2>. DEFINE number == [s \in S |-> IF counted[s].life = l THEN counted[s].count
                                     ELSE n + counted[s].count]
  <2>6. number \in [S -> 1 .. 2 * n]
    <3>. SUFFICES ASSUME NEW s \in S PROVE number[s] \in 1 .. 2 * n
      OBVIOUS
    <3>1. counted[s].count \in 1 .. n
      BY <2>2
    <3>. QED
      BY <2>1, <3>1
  <2>7. \A s, t \in S : number[s] = number[t] => s = t
    <3>. SUFFICES ASSUME NEW s \in S, NEW t \in S, number[s] = number[t]
                  PROVE  s = t
      OBVIOUS
    <3>1. counted[s].count \in 1 .. n /\ counted[t].count \in 1 .. n
      BY <2>2
    <3>2. (counted[s].life = l) <=> (counted[t].life = l)
      BY <2>1, <3>1
    <3>3. counted[s].count = counted[t].count
      BY <2>1, <3>1, <3>2
    <3>4. counted[s].life = counted[t].life
      BY <2>5, <3>2
    <3>. QED
      BY <2>3, <3>3, <3>4
  <2>. HIDE DEF S, number, n
  <2>8. 2 * n \in Nat
    BY <2>1 DEF n
  <2>9. Cardinality(S) <= 2 * n
    BY <2>6, <2>7, <2>8, NumberedRequests
  <2>. QED
    BY <2>9 DEF S, n
<1>. QED
  BY <1>1, <1>2, <1>3, Inductive, PTL DEF Spec
=============================================================================
