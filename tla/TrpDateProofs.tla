---------------------------- MODULE TrpDateProofs ----------------------------
(***************************************************************************)
(* Theorems about the dates of TrpDate, for any years, zones and spans and *)
(* any length of the day: what the constructor accepts are the days there  *)
(* have been, and arithmetic through day numbers agrees with a calendar    *)
(* that counts day by day.                                                 *)
(***************************************************************************)
EXTENDS TrpDate, WellFoundedInduction, TLAPS

-----------------------------------------------------------------------------
(* Numbers *)

\* Division with remainder.
LEMMA Division ==
  ASSUME NEW a \in Int, NEW b \in Nat \ {0}
  PROVE  a \div b \in Int /\ a % b \in 0 .. b - 1 /\ a = b * (a \div b) + (a % b)
OBVIOUS

\* Quotient and remainder are unique.
LEMMA DivisionIs ==
  ASSUME NEW a \in Int, NEW b \in Nat \ {0}, NEW q \in Int, NEW r \in 0 .. b - 1, a = b * q + r
  PROVE  a \div b = q /\ a % b = r
<1>1. a \div b \in Int /\ a % b \in 0 .. b - 1 /\ a = b * (a \div b) + (a % b)
  BY Division
<1> DEFINE p == a \div b
           t == a % b
<1> HIDE DEF p, t
<1>2. p \in Int /\ t \in 0 .. b - 1 /\ b * q + r = b * p + t
  BY <1>1 DEF p, t
<1>3. ~ p < q
  <2> SUFFICES ASSUME p < q PROVE FALSE
    OBVIOUS
  <2>1. b * (q - p) = t - r /\ q - p \in Nat /\ q - p >= 1
    BY <1>2
  <2>2. b * (q - p) >= b
    BY <2>1
  <2> QED BY <1>2, <2>1, <2>2
<1>4. ~ q < p
  <2> SUFFICES ASSUME q < p PROVE FALSE
    OBVIOUS
  <2>1. b * (p - q) = r - t /\ p - q \in Nat /\ p - q >= 1
    BY <1>2
  <2>2. b * (p - q) >= b
    BY <2>1
  <2> QED BY <1>2, <2>1, <2>2
<1>5. p = q /\ t = r
  BY <1>2, <1>3, <1>4
<1> QED BY <1>5 DEF p, t

\* A set of numbers has a least element: < is well-founded on Nat.
LEMMA LeastNumber ==
  ASSUME NEW I \in SUBSET Nat, I # {}
  PROVE  \E k \in I : \A j \in I : ~ j < k
<1> DEFINE Lt == OpToRel(<, Nat)
<1>1. IsWellFoundedOn(Lt, Nat)
  BY NatLessThanWellFounded
<1>2. ASSUME NEW j \in Nat, NEW k \in Nat, j < k
      PROVE  <<j, k>> \in Lt
  <2>1. <<j, k>> \in Nat \X Nat
    OBVIOUS
  <2>2. <<j, k>>[1] < <<j, k>>[2]
    BY <1>2
  <2> QED BY <2>1, <2>2, Zenon DEF OpToRel
<1> HIDE DEF Lt
<1>3. \E k \in I : \A j \in I : ~ (<<j, k>> \in Lt)
  BY <1>1, WFMin
<1> QED BY <1>2, <1>3

-----------------------------------------------------------------------------
(* Years *)

NewYear(a) == Gma2Abs(1, 1, a)

\* The leap years before a, counted by divisions.
LEMMA LeapsBefore ==
  ASSUME NEW a \in Nat
  PROVE  /\ LeapMultBase(a, 0, 4) = (a + 3) \div 4
         /\ a > 1582 => /\ LeapMultBase(a, 1582, 4) = (a - 1581) \div 4
                        /\ LeapMultBase(a, 1582, 100) = (a - 1501) \div 100
                        /\ LeapMultBase(a, 1582, 400) = (a - 1201) \div 400
BY DEF LeapMultBase

\* The first day of a year.
LEMMA NewYearIs ==
  ASSUME NEW a \in Nat
  PROVE  /\ a <= 1582 => NewYear(a) = 365 * a + (a + 3) \div 4
         /\ a > 1582 => NewYear(a) = 578181 + 365 * (a - 1583) + (a - 1581) \div 4
                                       - (a - 1501) \div 100 + (a - 1201) \div 400
BY LeapsBefore DEF NewYear, Gma2Abs, Offset

\* How long a year is.
LEMMA YearGrows ==
  ASSUME NEW a \in Nat
  PROVE  /\ NewYear(a) \in Nat
         /\ NewYear(a + 1) =
              NewYear(a) + (IF a = 1582 THEN 355 ELSE IF Leap(a) THEN 366 ELSE 365)
<1>1. a + 1 \in Nat
  OBVIOUS
<1>2. CASE a < 1582
  <2>1. NewYear(a) = 365 * a + (a + 3) \div 4 /\ NewYear(a + 1) = 365 * (a + 1) + (a + 4) \div 4
    BY <1>1, <1>2, NewYearIs
  <2> QED BY <1>2, <2>1 DEF Leap
<1>3. CASE a = 1582
  BY <1>1, <1>3, NewYearIs
<1>4. CASE a > 1582
  <2>1. /\ NewYear(a) = 578181 + 365 * (a - 1583) + (a - 1581) \div 4
                         - (a - 1501) \div 100 + (a - 1201) \div 400
        /\ NewYear(a + 1) = 578181 + 365 * (a - 1582) + (a - 1580) \div 4
                             - (a - 1500) \div 100 + (a - 1200) \div 400
    BY <1>1, <1>4, NewYearIs
  <2>2. (a - 1580) \div 4 = (a - 1581) \div 4 + (IF a % 4 = 0 THEN 1 ELSE 0)
    BY <1>4
  <2>3. (a - 1500) \div 100 = (a - 1501) \div 100 + (IF a % 100 = 0 THEN 1 ELSE 0)
    BY <1>4
  <2>4. (a - 1200) \div 400 = (a - 1201) \div 400 + (IF a % 400 = 0 THEN 1 ELSE 0)
    BY <1>4
  <2>5. (a % 100 = 0 => a % 4 = 0) /\ (a % 400 = 0 => a % 100 = 0)
    OBVIOUS
  <2>6. Leap(a) <=> a % 4 = 0 /\ (a % 100 = 0 => a % 400 = 0)
    BY <1>4 DEF Leap
  <2>7. /\ (a - 1581) \div 4 \in Int /\ (a - 1501) \div 100 \in Int /\ (a - 1201) \div 400 \in Int
        /\ (a - 1581) \div 4 >= 0 /\ (a - 1201) \div 400 >= 0 /\ (a - 1501) \div 100 <= a - 1501
    BY <1>4
  <2> QED BY <1>4, <2>1, <2>2, <2>3, <2>4, <2>5, <2>6, <2>7
<1> QED BY <1>2, <1>3, <1>4

\* After the reform a year has between 365 and 366 days.
LEMMA YearBounds ==
  ASSUME NEW a \in Nat, a > 1582
  PROVE  365 * (a - 1583) <= NewYear(a) - 578181 /\ NewYear(a) - 578181 <= 366 * (a - 1583)
<1> DEFINE p == (a - 1581) \div 4
           q == (a - 1501) \div 100
           r == (a - 1201) \div 400
<1>1. NewYear(a) = 578181 + 365 * (a - 1583) + p - q + r
  BY NewYearIs
<1>2. p \in Int /\ q \in Int /\ r \in Int
      /\ 4 * p <= a - 1581 /\ a - 1581 < 4 * p + 4
      /\ 100 * q <= a - 1501 /\ a - 1501 < 100 * q + 100
      /\ 400 * r <= a - 1201 /\ a - 1201 < 400 * r + 400
  OBVIOUS
<1> HIDE DEF p, q, r
<1>3. 0 <= p - q + r /\ p - q + r <= a - 1583
  BY <1>2
<1> QED BY <1>1, <1>2, <1>3

\* Years begin one after the other.
LEMMA YearsInOrder ==
  ASSUME NEW a \in Nat, NEW b \in Nat, a <= b
  PROVE  NewYear(a) <= NewYear(b)
<1>1. CASE b <= 1582
  <2>1. NewYear(a) = 365 * a + (a + 3) \div 4 /\ NewYear(b) = 365 * b + (b + 3) \div 4
    BY <1>1, NewYearIs
  <2> QED BY <2>1
<1>2. CASE a <= 1582 /\ b > 1582
  <2>1. NewYear(a) = 365 * a + (a + 3) \div 4
    BY <1>2, NewYearIs
  <2>2. NewYear(a) <= 577826
    BY <1>2, <2>1
  <2> QED BY <1>2, <2>1, <2>2, YearBounds, YearGrows
<1>3. CASE a > 1582
  <2> DEFINE p(x) == (x - 1581) \div 4
             q(x) == (x - 1501) \div 100
             r(x) == (x - 1201) \div 400
  <2>1. /\ NewYear(a) = 578181 + 365 * (a - 1583) + p(a) - q(a) + r(a)
        /\ NewYear(b) = 578181 + 365 * (b - 1583) + p(b) - q(b) + r(b)
    BY <1>3, NewYearIs
  <2>2. p(a) \in Int /\ p(b) \in Int /\ p(a) <= p(b)
    BY <1>3
  <2>3. r(a) \in Int /\ r(b) \in Int /\ r(a) <= r(b)
    BY <1>3
  <2>4. q(a) \in Int /\ q(b) \in Int /\ q(b) - q(a) <= b - a
    BY <1>3
  <2> HIDE DEF p, q, r
  <2> QED BY <2>1, <2>2, <2>3, <2>4
<1> QED BY <1>1, <1>2, <1>3

-----------------------------------------------------------------------------
(* Months *)

MonthLen(m, leap) ==
  IF m = 2 THEN 28 + leap ELSE IF m \in {4, 6, 9, 11} THEN 30 ELSE 31

\* How many days of the year are before the month.
DaysBefore(m, leap) == Offset[m] + (IF m > 2 THEN leap ELSE 0)

LeapDay(a) == IF Leap(a) THEN 1 ELSE 0

LEMMA Offsets ==
  /\ Offset[1] = 0 /\ Offset[2] = 31 /\ Offset[3] = 59 /\ Offset[4] = 90 /\ Offset[5] = 120
  /\ Offset[6] = 151 /\ Offset[7] = 181 /\ Offset[8] = 212 /\ Offset[9] = 243
  /\ Offset[10] = 273 /\ Offset[11] = 304 /\ Offset[12] = 334 /\ Offset[13] = 365
BY DEF Offset

\* The table has the lengths of the months.
LEMMA MonthWidth ==
  ASSUME NEW m \in 1 .. 12, NEW leap \in {0, 1}
  PROVE  /\ Offset[m] \in Nat /\ Offset[m] <= 334 /\ MonthLen(m, leap) \in 28 .. 31
         /\ Offset[m + 1] = Offset[m] + MonthLen(m, 0)
         /\ DaysBefore(m, leap) \in Nat
         /\ m < 12 => DaysBefore(m + 1, leap) = DaysBefore(m, leap) + MonthLen(m, leap)
<1>1. m = 1 \/ m = 2 \/ m = 3 \/ m = 4 \/ m = 5 \/ m = 6 \/ m = 7 \/ m = 8 \/ m = 9 \/ m = 10
      \/ m = 11 \/ m = 12
  OBVIOUS
<1> QED BY <1>1, Offsets DEF MonthLen, DaysBefore

LEMMA OffsetsGrow ==
  ASSUME NEW i \in 1 .. 13, NEW j \in 1 .. 13, i <= j
  PROVE  Offset[i] <= Offset[j] /\ Offset[i] \in Nat
<1>1. i = 1 \/ i = 2 \/ i = 3 \/ i = 4 \/ i = 5 \/ i = 6 \/ i = 7 \/ i = 8 \/ i = 9 \/ i = 10
      \/ i = 11 \/ i = 12 \/ i = 13
  OBVIOUS
<1>2. j = 1 \/ j = 2 \/ j = 3 \/ j = 4 \/ j = 5 \/ j = 6 \/ j = 7 \/ j = 8 \/ j = 9 \/ j = 10
      \/ j = 11 \/ j = 12 \/ j = 13
  OBVIOUS
<1> QED BY <1>1, <1>2, Offsets

\* The search for the month finds the one the day is in.
LEMMA MonthIs ==
  ASSUME NEW from \in 1 .. 12, NEW m \in from .. 12, NEW k \in Int,
         Offset[m] <= k, k < Offset[m + 1]
  PROVE  MonthFrom(k, from) = m
<1> DEFINE In(i) == k < Offset[i + 1] /\ (i = from \/ k >= Offset[i])
<1>1. In(m)
  OBVIOUS
<1>2. ASSUME NEW i \in from .. 12, In(i) PROVE i = m
  <2>1. i \in 1 .. 12 /\ m \in 1 .. 12 /\ i + 1 \in 1 .. 13 /\ m + 1 \in 1 .. 13
        /\ i \in 1 .. 13 /\ m \in 1 .. 13
    OBVIOUS
  <2>2. ~ i < m
    <3> SUFFICES ASSUME i < m PROVE FALSE
      OBVIOUS
    <3>1. Offset[i + 1] <= Offset[m] /\ Offset[i + 1] \in Nat /\ Offset[m] \in Nat
      BY <2>1, OffsetsGrow
    <3> QED BY <1>2, <3>1
  <2>3. ~ m < i
    <3> SUFFICES ASSUME m < i PROVE FALSE
      OBVIOUS
    <3>1. Offset[m + 1] <= Offset[i] /\ Offset[m + 1] \in Nat /\ Offset[i] \in Nat
      BY <2>1, OffsetsGrow
    <3> QED BY <1>2, <2>1, <3>1
  <2> QED BY <2>1, <2>2, <2>3
<1>3. MonthFrom(k, from) = CHOOSE i \in from .. 12 : In(i)
  BY DEF MonthFrom
<1> HIDE DEF In
<1> QED BY <1>1, <1>2, <1>3

\* The day and the month from the number of the day in the year.
LEMMA DayOfIs ==
  ASSUME NEW a \in Nat, NEW leap \in {0, 1}, NEW m \in 1 .. 12, NEW g \in 1 .. MonthLen(m, leap)
  PROVE  DayOf(a, g - 1 + DaysBefore(m, leap), leap) = <<g, m, a>>
<1> DEFINE k == g - 1 + DaysBefore(m, leap)
<1> SUFFICES DayOf(a, k, leap) = <<g, m, a>>
  OBVIOUS
<1>0. g \in Nat /\ k \in Int /\ MonthLen(m, leap) \in 28 .. 31
  BY MonthWidth
<1>1. CASE m = 1
  <2>1. k = g - 1 /\ k < 31
    BY <1>0, <1>1, Offsets DEF DaysBefore, MonthLen
  <2> HIDE DEF k
  <2> QED BY <1>0, <1>1, <2>1 DEF DayOf
<1>2. CASE m = 2
  <2>1. k = g + 30 /\ g <= 28 + leap
    BY <1>0, <1>2, Offsets DEF DaysBefore, MonthLen
  <2> HIDE DEF k
  <2> QED BY <1>0, <1>2, <2>1 DEF DayOf
<1>3. CASE m > 2
  <2>0. Offset[m] \in Nat /\ Offset[3] <= Offset[m]
    <3>1. m \in 1 .. 13 /\ 3 \in 1 .. 13 /\ 3 <= m
      BY <1>3
    <3> QED BY <3>1, OffsetsGrow
  <2>1. k = g - 1 + Offset[m] + leap /\ Offset[m] \in Nat /\ Offset[m] >= 59
    BY <1>3, <2>0, Offsets DEF DaysBefore
  <2>2. Offset[m] <= k - leap /\ k - leap < Offset[m + 1] /\ k - leap \in Int
    <3>1. g <= MonthLen(m, 0) /\ Offset[m + 1] = Offset[m] + MonthLen(m, 0) /\ MonthLen(m, 0) \in Int
      BY <1>0, <1>3, MonthWidth DEF MonthLen
    <3> QED BY <1>0, <2>1, <3>1
  <2>3. MonthFrom(k - leap, 3) = m
    BY <1>3, <2>2, MonthIs
  <2>4. k >= 59 + leap /\ ~ k < 31 /\ ~ k < 59 /\ ~ (k = 59 /\ leap = 1)
    BY <1>0, <2>1
  <2> HIDE DEF k
  <2>5. DayOf(a, k, leap) = <<k - leap - Offset[m] + 1, m, a>>
    BY <2>3, <2>4 DEF DayOf
  <2> QED BY <1>0, <2>1, <2>5
<1> QED BY <1>1, <1>2, <1>3

-----------------------------------------------------------------------------
(* Days *)

\* There is such a day.
IsDate(g, m, a) ==
  /\ a \in Nat /\ m \in 1 .. 12 /\ g \in 1 .. DaysIn(m, a)
  /\ ~ (a = 1582 /\ m = 10 /\ g \in 5 .. 14)

\* The days left out so far in the year of the reform.
Missing(g, m, a) == IF a = 1582 /\ (m > 10 \/ (m = 10 /\ g >= 5)) THEN 10 ELSE 0

LEMMA DaysInIs ==
  ASSUME NEW a \in Nat, NEW m \in 1 .. 12
  PROVE  /\ LeapDay(a) \in {0, 1} /\ DaysIn(m, a) = MonthLen(m, LeapDay(a))
         /\ DaysIn(m, a) \in 28 .. 31
BY DEF LeapDay, DaysIn, MonthLen

\* The number of a day, be there such a day or not.
LEMMA NumberIs ==
  ASSUME NEW a \in Nat, NEW m \in 1 .. 12, NEW g \in 1 .. 31
  PROVE  Gma2Abs(g, m, a) =
           NewYear(a) + (g - 1 + DaysBefore(m, LeapDay(a))) - Missing(g, m, a)
<1>1. Offset[1] = 0 /\ Offset[m] \in Nat
  BY Offsets, MonthWidth
<1>2. CASE a < 1582
  <2>1. NewYear(a) = 365 * a + LeapMultBase(a, 0, 4) /\ LeapMultBase(a, 0, 4) \in Int
    BY <1>1, <1>2, LeapsBefore DEF NewYear, Gma2Abs
  <2>2. Gma2Abs(g, m, a) = g - 1 + Offset[m] + (IF m > 2 /\ a % 4 = 0 THEN 1 ELSE 0)
                             + 365 * a + LeapMultBase(a, 0, 4)
    BY <1>2 DEF Gma2Abs
  <2>3. Missing(g, m, a) = 0 /\ DaysBefore(m, LeapDay(a)) =
          Offset[m] + (IF m > 2 /\ a % 4 = 0 THEN 1 ELSE 0)
    BY <1>1, <1>2 DEF Missing, DaysBefore, LeapDay, Leap
  <2> QED BY <1>1, <2>1, <2>2, <2>3
<1>3. CASE a = 1582
  <2>1. NewYear(a) = 365 * a + LeapMultBase(a, 0, 4) /\ LeapMultBase(a, 0, 4) \in Int
    BY <1>1, <1>3, LeapsBefore DEF NewYear, Gma2Abs
  <2>2. Gma2Abs(g, m, a) = g - 1 + Offset[m] + 365 * a + LeapMultBase(a, 0, 4) - Missing(g, m, a)
    <3>1. CASE m < 10 \/ (m = 10 /\ g < 5)
      <4>1. Gma2Abs(g, m, a) = g - 1 + Offset[m] + 0 + 365 * a + LeapMultBase(a, 0, 4)
        BY <1>1, <1>3, <2>1, <3>1 DEF Gma2Abs
      <4> QED BY <1>1, <1>3, <2>1, <3>1, <4>1 DEF Missing
    <3>2. CASE m > 10 \/ (m = 10 /\ g >= 5)
      <4>1. Gma2Abs(g, m, a) = g - 11 + Offset[m] + 365 * a + LeapMultBase(a, 0, 4)
        BY <1>1, <1>3, <2>1, <3>2 DEF Gma2Abs
      <4> QED BY <1>1, <1>3, <2>1, <3>2, <4>1 DEF Missing
    <3> QED BY <3>1, <3>2
  <2>3. DaysBefore(m, LeapDay(a)) = Offset[m]
    BY <1>1, <1>3 DEF DaysBefore, LeapDay, Leap
  <2> QED BY <1>1, <2>1, <2>2, <2>3 DEF Missing
<1>4. CASE a > 1582
  <2> DEFINE n == 365 * (a - 1583) + LeapMultBase(a, 1582, 4) - LeapMultBase(a, 1582, 100)
                    + LeapMultBase(a, 1582, 400)
  <2>1. n \in Int
    BY <1>4, LeapsBefore
  <2>2. Gma2Abs(g, m, a) = 578180 + g + Offset[m] + (IF m > 2 THEN LeapYear(a) ELSE 0) + n
    BY <1>1, <1>4, LeapsBefore DEF Gma2Abs, LeapYear
  <2>3. NewYear(a) = 578181 + n
    BY <1>1, <1>4, LeapsBefore DEF Gma2Abs, NewYear
  <2>4. LeapYear(a) = LeapDay(a) /\ LeapDay(a) \in Int /\ Missing(g, m, a) = 0
    BY <1>4 DEF LeapYear, LeapDay, Leap, Missing
  <2> HIDE DEF n
  <2> QED BY <1>1, <2>1, <2>2, <2>3, <2>4 DEF DaysBefore
<1> QED BY <1>2, <1>3, <1>4

\* Where the day is in its year.
LEMMA DayInYear ==
  ASSUME NEW g, NEW m, NEW a, IsDate(g, m, a)
  PROVE  LET k == g - 1 + DaysBefore(m, LeapDay(a)) IN
         /\ k \in Nat /\ k <= 364 + LeapDay(a)
         /\ a = 1582 => IF Missing(g, m, a) = 0 THEN k <= 276 ELSE k >= 287 /\ m >= 10
         /\ Gma2Abs(g, m, a) = NewYear(a) + k - Missing(g, m, a)
         /\ NewYear(a) <= Gma2Abs(g, m, a) /\ Gma2Abs(g, m, a) < NewYear(a + 1)
         /\ Gma2Abs(g, m, a) \in Nat
<1> DEFINE k == g - 1 + DaysBefore(m, LeapDay(a))
<1>1. /\ a \in Nat /\ m \in 1 .. 12 /\ g \in 1 .. MonthLen(m, LeapDay(a)) /\ g \in 1 .. 31
      /\ LeapDay(a) \in {0, 1}
  BY DaysInIs DEF IsDate
<1>2. Gma2Abs(g, m, a) = NewYear(a) + k - Missing(g, m, a)
  BY <1>1, NumberIs
<1>3. /\ Offset[m] \in Nat /\ Offset[m + 1] = Offset[m] + MonthLen(m, 0) /\ MonthLen(m, 0) \in Nat
      /\ Offset[m + 1] <= 365
      /\ m >= 10 => Offset[m] >= 273
      /\ m < 10 => Offset[m + 1] <= 273
      /\ m > 10 => Offset[m] >= 304
  <2>1. m + 1 \in 1 .. 13 /\ m \in 1 .. 13
    BY <1>1
  <2>2. Offset[m + 1] <= Offset[13] /\ (m >= 10 => Offset[10] <= Offset[m])
        /\ (m < 10 => Offset[m + 1] <= Offset[10]) /\ (m > 10 => Offset[11] <= Offset[m])
    BY <2>1, OffsetsGrow
  <2> QED BY <1>1, <2>2, Offsets, MonthWidth
<1>4. k = g - 1 + Offset[m] + (IF m > 2 THEN LeapDay(a) ELSE 0)
  BY <1>1, <1>3 DEF DaysBefore
<1>5. MonthLen(m, LeapDay(a)) = MonthLen(m, 0) + (IF m = 2 THEN LeapDay(a) ELSE 0)
  BY <1>1 DEF MonthLen
<1>6. k \in Nat /\ k <= 364 + LeapDay(a)
  BY <1>1, <1>3, <1>4, <1>5
<1>7. ASSUME a = 1582
      PROVE  LeapDay(a) = 0 /\ IF Missing(g, m, a) = 0 THEN k <= 276 ELSE k >= 287 /\ m >= 10
  <2>1. LeapDay(a) = 0
    BY <1>7 DEF LeapDay, Leap
  <2>2. k = g - 1 + Offset[m] /\ g <= MonthLen(m, 0)
    BY <1>1, <1>3, <1>4, <2>1
  <2>3. CASE m < 10
    BY <1>1, <1>3, <2>1, <2>2, <2>3 DEF Missing
  <2>4. CASE m = 10
    BY <1>1, <1>3, <1>7, <2>1, <2>2, <2>4, Offsets DEF Missing, IsDate
  <2>5. CASE m > 10
    BY <1>1, <1>3, <1>7, <2>1, <2>2, <2>5 DEF Missing
  <2> QED BY <1>1, <2>3, <2>4, <2>5
<1>8. /\ NewYear(a) \in Nat
      /\ NewYear(a + 1) = NewYear(a) + (IF a = 1582 THEN 355 ELSE 365 + LeapDay(a))
  BY <1>1, YearGrows DEF LeapDay
<1>9. Missing(g, m, a) \in {0, 10} /\ (a # 1582 => Missing(g, m, a) = 0)
  BY DEF Missing
<1> HIDE DEF k
<1>10. NewYear(a) <= Gma2Abs(g, m, a) /\ Gma2Abs(g, m, a) < NewYear(a + 1)
  <2>1. CASE a = 1582
    BY <1>1, <1>2, <1>6, <1>7, <1>8, <1>9, <2>1
  <2>2. CASE a # 1582
    BY <1>1, <1>2, <1>6, <1>8, <1>9, <2>2
  <2> QED BY <2>1, <2>2
<1>11. Gma2Abs(g, m, a) \in Nat
  BY <1>2, <1>6, <1>8, <1>9, <1>10
<1> QED BY <1>2, <1>6, <1>7, <1>8, <1>10, <1>11 DEF k

\* The year of a day before the reform.
LEMMA JulianYear ==
  ASSUME NEW a \in Nat, NEW d \in Int, NewYear(a) <= d,
         (a < 1582 /\ d < NewYear(a + 1)) \/ (a = 1582 /\ d <= 578102)
  PROVE  (d * 4) \div 1461 = a /\ d <= 578102
<1>1. NewYear(a) = 365 * a + (a + 3) \div 4
  BY NewYearIs
<1>2. CASE a < 1582 /\ d < NewYear(a + 1)
  <2>1. NewYear(a + 1) = 365 * (a + 1) + (a + 4) \div 4
    BY <1>2, NewYearIs
  <2>2. d * 4 = 1461 * a + (4 * d - 1461 * a) /\ 4 * d - 1461 * a \in 0 .. 1460
    BY <1>1, <1>2, <2>1
  <2>3. d <= 578102
    BY <1>2, <2>2
  <2> QED BY <2>2, <2>3, DivisionIs
<1>3. CASE a = 1582 /\ d <= 578102
  <2>1. d * 4 = 1461 * a + (4 * d - 1461 * a) /\ 4 * d - 1461 * a \in 0 .. 1460
    BY <1>1, <1>3
  <2> QED BY <1>3, <2>1, DivisionIs
<1> QED BY <1>2, <1>3

\* The year of a day after the reform.
LEMMA GregorianYear ==
  ASSUME NEW a \in Nat, a > 1582, NEW d \in Int, NewYear(a) <= d, d < NewYear(a + 1)
  PROVE  YearFrom(d) = a
<1> DEFINE low == 1583 + (d - 578181) \div 366
           high == 1583 + (d - 578181) \div 365
           In(b) == d < NewYear(b + 1) /\ (b = low \/ d >= NewYear(b))
<1>1. a \in low .. high
  <2>1. 365 * (a - 1583) <= d - 578181 /\ d - 578181 < 366 * (a - 1582)
    <3>1. 365 * (a - 1583) <= NewYear(a) - 578181
      BY YearBounds
    <3>2. NewYear(a + 1) - 578181 <= 366 * ((a + 1) - 1583)
      BY YearBounds
    <3>3. NewYear(a) \in Nat /\ NewYear(a + 1) \in Nat
      BY YearGrows
    <3> QED BY <3>1, <3>2, <3>3
  <2>2. (d - 578181) \div 366 <= a - 1583 /\ a - 1583 <= (d - 578181) \div 365
        /\ (d - 578181) \div 366 \in Int /\ (d - 578181) \div 365 \in Int
    BY <2>1
  <2> QED BY <2>2
<1>2. low \in Nat /\ high \in Int
  <2>1. d >= 578181
    BY YearBounds, YearGrows
  <2> QED BY <2>1
<1> HIDE DEF low, high
<1>3. In(a)
  OBVIOUS
<1>4. ASSUME NEW b \in low .. high, In(b) PROVE b = a
  <2>0. b \in Nat /\ NewYear(a) \in Nat /\ NewYear(b) \in Nat
        /\ NewYear(a + 1) \in Nat /\ NewYear(b + 1) \in Nat
    BY <1>2, YearGrows
  <2>1. ~ b < a
    <3> SUFFICES ASSUME b < a PROVE FALSE
      OBVIOUS
    <3>1. NewYear(b + 1) <= NewYear(a)
      BY <2>0, YearsInOrder
    <3> QED BY <1>4, <2>0, <3>1
  <2>2. ~ a < b
    <3> SUFFICES ASSUME a < b PROVE FALSE
      OBVIOUS
    <3>1. NewYear(a + 1) <= NewYear(b)
      BY <2>0, YearsInOrder
    <3>2. b # low
      BY <1>1, <1>2, <2>0
    <3> QED BY <1>4, <2>0, <3>1, <3>2
  <2> QED BY <2>0, <2>1, <2>2
<1>5. YearFrom(d) = CHOOSE b \in low .. high : In(b)
  BY DEF YearFrom, low, high, NewYear
<1> HIDE DEF In
<1> QED BY <1>1, <1>3, <1>4, <1>5

\* Every day survives the way to its number and back.
LEMMA ThereAndBack ==
  ASSUME NEW g, NEW m, NEW a, IsDate(g, m, a)
  PROVE  Abs2Gma(Gma2Abs(g, m, a)) = <<g, m, a>>
<1> DEFINE k == g - 1 + DaysBefore(m, LeapDay(a))
           d == Gma2Abs(g, m, a)
<1>1. /\ a \in Nat /\ m \in 1 .. 12 /\ g \in 1 .. MonthLen(m, LeapDay(a)) /\ g \in Nat
      /\ LeapDay(a) \in {0, 1}
  BY DaysInIs DEF IsDate
<1>2. /\ k \in Nat /\ d \in Nat /\ d = NewYear(a) + k - Missing(g, m, a)
      /\ a = 1582 => IF Missing(g, m, a) = 0 THEN k <= 276 ELSE k >= 287 /\ m >= 10
      /\ NewYear(a) <= d /\ d < NewYear(a + 1) /\ k <= 364 + LeapDay(a)
  BY DayInYear
<1>3. DayOf(a, k, LeapDay(a)) = <<g, m, a>>
  BY <1>1, DayOfIs
<1>4. NewYear(1582) = 577826 /\ NewYear(1583) = 578181 /\ NewYear(a) \in Nat
  BY <1>1, NewYearIs, YearGrows
<1>5. Missing(g, m, a) \in {0, 10} /\ (a # 1582 => Missing(g, m, a) = 0)
  BY DEF Missing
<1> HIDE DEF k, d
<1>6. CASE a < 1582 \/ (a = 1582 /\ Missing(g, m, a) = 0)
  <2>1. (a < 1582 /\ d < NewYear(a + 1)) \/ (a = 1582 /\ d <= 578102)
    BY <1>1, <1>2, <1>4, <1>6
  <2>2. (d * 4) \div 1461 = a /\ d <= 578102
    BY <1>1, <1>2, <2>1, JulianYear
  <2>3. d - Gma2Abs(1, 1, a) = k
    BY <1>2, <1>4, <1>5, <1>6 DEF NewYear
  <2>4. (IF a % 4 = 0 THEN 1 ELSE 0) = LeapDay(a)
    BY <1>1, <1>6 DEF LeapDay, Leap
  <2>5. Abs2Gma(d) = DayOf(a, k, LeapDay(a))
    BY <1>2, <2>2, <2>3, <2>4 DEF Abs2Gma
  <2> QED BY <1>3, <2>5 DEF d
<1>7. CASE a = 1582 /\ Missing(g, m, a) = 10
  <2>1. ~ d <= 578102 /\ d <= 578180 /\ d - Gma2Abs(1, 1, 1582) + 10 = k
    BY <1>2, <1>4, <1>7 DEF NewYear
  <2>2. LeapDay(a) = 0
    BY <1>7 DEF LeapDay, Leap
  <2>3. k = g - 1 + Offset[m] /\ Offset[m] \in Nat /\ m \in 10 .. 12
        /\ Offset[m + 1] = Offset[m] + MonthLen(m, 0) /\ g <= MonthLen(m, 0) /\ MonthLen(m, 0) \in Nat
    BY <1>1, <1>2, <1>7, <2>2, MonthWidth DEF k, DaysBefore
  <2>4. MonthFrom(k, 10) = m
    BY <1>1, <1>2, <2>3, MonthIs
  <2>5. Abs2Gma(d) = <<k - Offset[m] + 1, m, 1582>>
    BY <1>2, <2>1, <2>4 DEF Abs2Gma
  <2> QED BY <1>1, <1>7, <2>3, <2>5 DEF d
<1>8. CASE a > 1582
  <2>1. YearFrom(d) = a
    BY <1>1, <1>2, <1>8, GregorianYear
  <2>2. d > 578180
    BY <1>1, <1>2, <1>4, <1>8, YearBounds
  <2>3. d - Gma2Abs(1, 1, a) = k
    BY <1>2, <1>4, <1>5, <1>8 DEF NewYear
  <2>4. LeapYear(a) = LeapDay(a)
    BY <1>1, <1>8 DEF LeapDay, Leap, LeapYear
  <2>5. ~ d <= 578102 /\ ~ d <= 578180
    BY <1>2, <2>2
  <2>6. Abs2Gma(d) = DayOf(a, k, LeapDay(a))
    BY <2>1, <2>2, <2>3, <2>4, <2>5 DEF Abs2Gma
  <2> QED BY <1>3, <2>6 DEF d
<1> QED BY <1>1, <1>5, <1>6, <1>7, <1>8

\* What is no day comes back as another.
LEMMA NoDay ==
  ASSUME NEW a \in Nat, NEW m \in 1 .. 12, NEW g \in 1 .. 31, ~ IsDate(g, m, a)
  PROVE  Abs2Gma(Gma2Abs(g, m, a)) # <<g, m, a>>
<1>1. LeapDay(a) \in {0, 1} /\ DaysIn(m, a) = MonthLen(m, LeapDay(a)) /\ DaysIn(m, a) \in 28 .. 31
  BY DaysInIs
<1>2. Gma2Abs(g, m, a) = NewYear(a) + (g - 1 + DaysBefore(m, LeapDay(a))) - Missing(g, m, a)
  BY NumberIs
<1>3. NewYear(a) \in Nat /\ DaysBefore(m, LeapDay(a)) \in Nat
  BY <1>1, YearGrows, MonthWidth
<1> SUFFICES \E g2 \in 1 .. 31, m2 \in 1 .. 12 :
               /\ IsDate(g2, m2, a) /\ Gma2Abs(g2, m2, a) = Gma2Abs(g, m, a)
               /\ <<g2, m2>> # <<g, m>>
  BY ThereAndBack
<1>4. CASE g > DaysIn(m, a)
  <2>1. m < 12 /\ m # 10
    BY <1>4 DEF DaysIn
  <2> DEFINE g2 == g - DaysIn(m, a)
             m2 == m + 1
  <2>2. g2 \in 1 .. 3 /\ m2 \in 1 .. 12 /\ g2 \in 1 .. 31
    BY <1>1, <1>4, <2>1
  <2>3. IsDate(g2, m2, a)
    BY <2>2, DaysInIs DEF IsDate
  <2>4. Gma2Abs(g2, m2, a) = NewYear(a) + (g2 - 1 + DaysBefore(m2, LeapDay(a))) - Missing(g2, m2, a)
    BY <2>2, NumberIs
  <2>5. DaysBefore(m2, LeapDay(a)) = DaysBefore(m, LeapDay(a)) + DaysIn(m, a)
    BY <1>1, <2>1, MonthWidth
  <2>6. Missing(g2, m2, a) = Missing(g, m, a) /\ Missing(g, m, a) \in Nat
    BY <2>1, <2>2 DEF Missing
  <2>7. Gma2Abs(g2, m2, a) = Gma2Abs(g, m, a)
    BY <1>1, <1>2, <1>3, <2>2, <2>4, <2>5, <2>6
  <2> HIDE DEF g2
  <2> QED BY <2>2, <2>3, <2>7
<1>5. CASE a = 1582 /\ m = 10 /\ g \in 5 .. 14
  <2>1. DaysBefore(9, LeapDay(a)) = 243 /\ DaysBefore(10, LeapDay(a)) = 273
    BY <1>5, Offsets DEF DaysBefore, LeapDay, Leap
  <2>2. Gma2Abs(g, m, a) = NewYear(a) + g + 262
    BY <1>2, <1>3, <1>5, <2>1 DEF Missing
  <2>3. CASE g > 10
    <3> DEFINE g2 == g - 10
    <3>1. g2 \in 1 .. 4 /\ g2 \in 1 .. 31 /\ 10 \in 1 .. 12
      BY <1>5, <2>3
    <3>2. IsDate(g2, 10, a)
      BY <1>5, <3>1 DEF IsDate, DaysIn
    <3>3. Gma2Abs(g2, 10, a) = NewYear(a) + (g2 - 1 + DaysBefore(10, LeapDay(a))) - Missing(g2, 10, a)
      BY <3>1, NumberIs
    <3>4. Gma2Abs(g2, 10, a) = Gma2Abs(g, m, a)
      BY <1>3, <1>5, <2>1, <2>2, <3>1, <3>3 DEF Missing
    <3> QED BY <1>5, <3>1, <3>2, <3>4
  <2>4. CASE g <= 10
    <3> DEFINE g2 == g + 20
    <3>1. g2 \in 25 .. 30 /\ g2 \in 1 .. 31 /\ 9 \in 1 .. 12
      BY <1>5, <2>4
    <3>2. IsDate(g2, 9, a)
      BY <1>5, <3>1 DEF IsDate, DaysIn
    <3>3. Gma2Abs(g2, 9, a) = NewYear(a) + (g2 - 1 + DaysBefore(9, LeapDay(a))) - Missing(g2, 9, a)
      BY <3>1, NumberIs
    <3>4. Gma2Abs(g2, 9, a) = Gma2Abs(g, m, a)
      BY <1>3, <1>5, <2>1, <2>2, <3>1, <3>3 DEF Missing
    <3> QED BY <1>5, <3>1, <3>2, <3>4
  <2> QED BY <1>5, <2>3, <2>4
<1>6. g > DaysIn(m, a) \/ (a = 1582 /\ m = 10 /\ g \in 5 .. 14)
  BY <1>1 DEF IsDate
<1> QED BY <1>4, <1>5, <1>6

-----------------------------------------------------------------------------
(* The calendar *)

\* What a calendar and a clock can show.
Normals ==
  {d \in [anno : Nat, mese : 1 .. 12, giorno : 1 .. 31, ore : 0 .. Hours - 1,
          minuti : 0 .. Minutes - 1, secondi : 0 .. Seconds - 1, tz : Int] :
     IsDate(d.giorno, d.mese, d.anno)}

Number(d) == Gma2Abs(d.giorno, d.mese, d.anno)

LEMMA UnitsPositive == Hours \in Nat \ {0} /\ Minutes \in Nat \ {0} /\ Seconds \in Nat \ {0}
BY DateAssumption

LEMMA YearsEnd == LastYear \in Nat
BY DEF LastYear

LEMMA DateIs ==
  ASSUME NEW anno, NEW mese, NEW giorno, NEW ore, NEW minuti, NEW secondi, NEW tz
  PROVE  LET d == Date(anno, mese, giorno, ore, minuti, secondi, tz) IN
         /\ d.anno = anno /\ d.mese = mese /\ d.giorno = giorno /\ d.ore = ore
         /\ d.minuti = minuti /\ d.secondi = secondi /\ d.tz = tz
BY DEF Date

LEMMA NormalsHave ==
  ASSUME NEW d \in Normals
  PROVE  /\ d.anno \in Nat /\ d.mese \in 1 .. 12 /\ d.giorno \in 1 .. 31
         /\ d.ore \in 0 .. Hours - 1 /\ d.minuti \in 0 .. Minutes - 1
         /\ d.secondi \in 0 .. Seconds - 1 /\ d.tz \in Int
         /\ IsDate(d.giorno, d.mese, d.anno)
         /\ d = Date(d.anno, d.mese, d.giorno, d.ore, d.minuti, d.secondi, d.tz)
<1> DEFINE R == [anno : Nat, mese : 1 .. 12, giorno : 1 .. 31, ore : 0 .. Hours - 1,
                 minuti : 0 .. Minutes - 1, secondi : 0 .. Seconds - 1, tz : Int]
<1>1. d \in R /\ IsDate(d.giorno, d.mese, d.anno)
  BY DEF Normals
<1>2. d = Date(d.anno, d.mese, d.giorno, d.ore, d.minuti, d.secondi, d.tz)
  BY <1>1, Zenon DEF Date
<1> QED BY <1>1, <1>2

LEMMA DateNormal ==
  ASSUME NEW a, NEW m, NEW g, IsDate(g, m, a), NEW o \in 0 .. Hours - 1,
         NEW i \in 0 .. Minutes - 1, NEW s \in 0 .. Seconds - 1, NEW z \in Int
  PROVE  /\ Date(a, m, g, o, i, s, z) \in Normals
         /\ Number(Date(a, m, g, o, i, s, z)) = Gma2Abs(g, m, a)
<1>1. a \in Nat /\ m \in 1 .. 12 /\ g \in 1 .. 31
  BY DaysInIs DEF IsDate
<1>2. Date(a, m, g, o, i, s, z) \in [anno : Nat, mese : 1 .. 12, giorno : 1 .. 31,
         ore : 0 .. Hours - 1, minuti : 0 .. Minutes - 1, secondi : 0 .. Seconds - 1, tz : Int]
  BY <1>1, Zenon DEF Date
<1> QED BY <1>2, DateIs DEF Normals, Number

LEMMA OnDayIs ==
  ASSUME NEW d \in Normals, NEW g, NEW m, NEW a, IsDate(g, m, a)
  PROVE  /\ OnDay(d, g, m, a) \in Normals
         /\ Number(OnDay(d, g, m, a)) = Gma2Abs(g, m, a)
BY NormalsHave, DateNormal DEF OnDay

\* The next day of the calendar is a day, and has the next number.
LEMMA Tomorrow ==
  ASSUME NEW d \in Normals
  PROVE  \E g, m, a : /\ IsDate(g, m, a) /\ NextDay(d) = OnDay(d, g, m, a)
                      /\ Gma2Abs(g, m, a) = Number(d) + 1
<1> DEFINE g == d.giorno
           m == d.mese
           a == d.anno
<1>1. IsDate(g, m, a) /\ a \in Nat /\ m \in 1 .. 12 /\ g \in 1 .. 31 /\ g <= DaysIn(m, a)
  BY NormalsHave, DaysInIs DEF IsDate
<1>2. LeapDay(a) \in {0, 1} /\ DaysIn(m, a) = MonthLen(m, LeapDay(a)) /\ DaysIn(m, a) \in 28 .. 31
  BY <1>1, DaysInIs
<1>3. Number(d) = NewYear(a) + (g - 1 + DaysBefore(m, LeapDay(a))) - Missing(g, m, a)
  BY <1>1, NumberIs DEF Number
<1>4. NewYear(a) \in Nat /\ DaysBefore(m, LeapDay(a)) \in Nat /\ Missing(g, m, a) \in {0, 10}
  <2>1. NewYear(a) \in Nat
    BY <1>1, YearGrows
  <2>2. DaysBefore(m, LeapDay(a)) \in Nat
    BY <1>1, <1>2, MonthWidth
  <2> QED BY <2>1, <2>2 DEF Missing
<1>5. CASE g = 4 /\ m = 10 /\ a = 1582
  <2>1. NextDay(d) = OnDay(d, 15, m, a)
    BY <1>5 DEF NextDay
  <2>2. IsDate(15, m, a)
    BY <1>5 DEF IsDate, DaysIn
  <2>3. Gma2Abs(15, m, a) = NewYear(a) + (15 - 1 + DaysBefore(m, LeapDay(a))) - Missing(15, m, a)
    BY <1>1, NumberIs
  <2>4. Gma2Abs(15, m, a) = Number(d) + 1
    BY <1>3, <1>4, <1>5, <2>3 DEF Missing
  <2> QED BY <2>1, <2>2, <2>4
<1>6. CASE g < DaysIn(m, a) /\ ~ (g = 4 /\ m = 10 /\ a = 1582)
  <2>1. NextDay(d) = OnDay(d, g + 1, m, a)
    BY <1>6 DEF NextDay
  <2>2. IsDate(g + 1, m, a)
    BY <1>1, <1>2, <1>6 DEF IsDate
  <2>3. g + 1 \in 1 .. 31
    BY <1>1, <1>2, <1>6
  <2>4. Gma2Abs(g + 1, m, a) = NewYear(a) + ((g + 1) - 1 + DaysBefore(m, LeapDay(a))) - Missing(g + 1, m, a)
    <3>1. \A h \in 1 .. 31 :
            Gma2Abs(h, m, a) = NewYear(a) + (h - 1 + DaysBefore(m, LeapDay(a))) - Missing(h, m, a)
      BY <1>1, NumberIs
    <3> QED BY <2>3, <3>1
  <2>5. Missing(g + 1, m, a) = Missing(g, m, a)
    BY <1>1, <1>6 DEF Missing
  <2>6. Gma2Abs(g + 1, m, a) = Number(d) + 1
    BY <1>1, <1>3, <1>4, <2>4, <2>5
  <2> QED BY <2>1, <2>2, <2>6
<1>7. CASE g = DaysIn(m, a) /\ m < 12
  <2>1. NextDay(d) = OnDay(d, 1, m + 1, a)
    BY <1>1, <1>2, <1>7 DEF NextDay, DaysIn
  <2>2. m + 1 \in 1 .. 12 /\ 1 \in 1 .. 31
    BY <1>1, <1>7
  <2>3. IsDate(1, m + 1, a)
    BY <1>1, <2>2, DaysInIs DEF IsDate
  <2>4. Gma2Abs(1, m + 1, a) = NewYear(a) + (1 - 1 + DaysBefore(m + 1, LeapDay(a))) - Missing(1, m + 1, a)
    BY <1>1, <2>2, NumberIs
  <2>5. DaysBefore(m + 1, LeapDay(a)) = DaysBefore(m, LeapDay(a)) + g
    BY <1>1, <1>2, <1>7, MonthWidth
  <2>6. Missing(1, m + 1, a) = Missing(g, m, a)
    BY <1>1, <1>2, <1>7 DEF Missing
  <2>7. Gma2Abs(1, m + 1, a) = Number(d) + 1
    BY <1>1, <1>3, <1>4, <2>4, <2>5, <2>6
  <2> QED BY <2>1, <2>3, <2>7
<1>8. CASE g = DaysIn(m, a) /\ m = 12
  <2>1. NextDay(d) = OnDay(d, 1, 1, a + 1)
    BY <1>1, <1>2, <1>8 DEF NextDay
  <2>2. a + 1 \in Nat /\ 1 \in 1 .. 12 /\ 1 \in 1 .. 31
    BY <1>1
  <2>3. IsDate(1, 1, a + 1)
    BY <2>2, DaysInIs DEF IsDate
  <2>4. Gma2Abs(1, 1, a + 1) = NewYear(a + 1)
    BY DEF NewYear
  <2>5. NewYear(a + 1) = NewYear(a) + (IF a = 1582 THEN 355 ELSE IF Leap(a) THEN 366 ELSE 365)
    BY <1>1, YearGrows
  <2>6. g = 31 /\ DaysBefore(m, LeapDay(a)) = 334 + LeapDay(a)
    BY <1>2, <1>8, Offsets DEF DaysBefore, MonthLen
  <2>7. Missing(g, m, a) = IF a = 1582 THEN 10 ELSE 0
    BY <1>8 DEF Missing
  <2>8. LeapDay(a) = (IF Leap(a) THEN 1 ELSE 0) /\ (a = 1582 => ~ Leap(a))
    BY DEF LeapDay, Leap
  <2>9. Gma2Abs(1, 1, a + 1) = Number(d) + 1
    BY <1>3, <1>4, <2>4, <2>5, <2>6, <2>7, <2>8
  <2> QED BY <2>1, <2>3, <2>9
<1> QED BY <1>1, <1>2, <1>5, <1>6, <1>7, <1>8

\* Every number is that of a day.
LEMMA EveryNumber ==
  ASSUME NEW n \in Nat
  PROVE  \E g, m, a : IsDate(g, m, a) /\ Gma2Abs(g, m, a) = n
<1> DEFINE Has(k) == \E g, m, a : IsDate(g, m, a) /\ Gma2Abs(g, m, a) = k
           I == {k \in Nat : ~ Has(k)}
<1>1. Has(0)
  <2>1. IsDate(1, 1, 0)
    BY DaysInIs DEF IsDate
  <2>2. Gma2Abs(1, 1, 0) = 0
    <3>1. NewYear(0) = 365 * 0 + (0 + 3) \div 4
      BY NewYearIs
    <3> QED BY <3>1 DEF NewYear
  <2> QED BY <2>1, <2>2
<1>2. ASSUME NEW k \in Nat, Has(k) PROVE Has(k + 1)
  <2>1. PICK g, m, a : IsDate(g, m, a) /\ Gma2Abs(g, m, a) = k
    BY <1>2
  <2> DEFINE d == Date(a, m, g, 0, 0, 0, 0)
  <2>2. d \in Normals /\ Number(d) = k
    <3>1. 0 \in 0 .. Hours - 1 /\ 0 \in 0 .. Minutes - 1 /\ 0 \in 0 .. Seconds - 1
      BY UnitsPositive
    <3> QED BY <2>1, <3>1, DateNormal
  <2> HIDE DEF d
  <2> QED BY <2>2, Tomorrow
<1>3. I = {}
  <2> SUFFICES ASSUME I # {} PROVE FALSE
    OBVIOUS
  <2>1. PICK k \in I : \A j \in I : ~ j < k
    <3> HIDE DEF Has
    <3>1. I \in SUBSET Nat
      OBVIOUS
    <3> HIDE DEF I
    <3> QED BY <3>1, LeastNumber
  <2> HIDE DEF Has
  <2>2. k # 0 /\ k \in Nat
    BY <1>1
  <2>3. k - 1 \in Nat /\ k - 1 < k /\ (k - 1) + 1 = k
    BY <2>2
  <2>4. Has(k - 1)
    BY <2>1, <2>3
  <2>5. Has(k)
    BY <1>2, <2>3, <2>4
  <2> QED BY <2>5
<1> QED BY <1>3

-----------------------------------------------------------------------------
(* Moments *)

LEMMA Compose ==
  ASSUME NEW A \in Nat \ {0}, NEW B \in Nat \ {0}, NEW x \in 0 .. A - 1, NEW y \in 0 .. B - 1
  PROVE  x * B + y \in 0 .. A * B - 1
<1>1. A - 1 - x \in Nat /\ B \in Nat /\ x \in Nat
  OBVIOUS
<1>2. (A - 1 - x) * B \in Nat /\ x * B \in Nat
  BY <1>1
<1>3. (A - 1 - x) * B = A * B - B - x * B
  OBVIOUS
<1> QED BY <1>2, <1>3

\* What division makes of so many days, hours, minutes and seconds.
LEMMA ClockIs ==
  ASSUME NEW q \in Int, NEW o \in 0 .. Hours - 1, NEW i \in 0 .. Minutes - 1,
         NEW c \in 0 .. Seconds - 1, NEW s \in Int,
         s = ((q * Hours + o) * Minutes + i) * Seconds + c
  PROVE  /\ s \div (Hours * Minutes * Seconds) = q
         /\ (s % (Hours * Minutes * Seconds)) \div (Minutes * Seconds) = o
         /\ (s % (Minutes * Seconds)) \div Seconds = i
         /\ s % Seconds = c
         /\ (s \div (Minutes * Seconds)) % Hours = o
         /\ (s \div Seconds) % Minutes = i
         /\ s = (Hours * Minutes * Seconds) * q + ((o * Minutes + i) * Seconds + c)
<1> DEFINE x == q * Hours + o
           y == x * Minutes + i
           MS == Minutes * Seconds
           D == Hours * Minutes * Seconds
           t == i * Seconds + c
           u == o * MS + t
<1>1. /\ Hours \in Nat \ {0} /\ Minutes \in Nat \ {0} /\ Seconds \in Nat \ {0}
  BY UnitsPositive
<1>2. x \in Int /\ y \in Int /\ s = Seconds * y + c
  BY <1>1
<1>3. MS \in Nat \ {0} /\ D = Hours * MS
  BY <1>1
<1>4. t \in 0 .. MS - 1
  BY <1>1, Compose
<1>5. u \in 0 .. D - 1 /\ D \in Nat \ {0}
  <2> HIDE DEF MS, t, D
  <2>1. u \in 0 .. Hours * MS - 1
    BY <1>1, <1>3, <1>4, Compose
  <2>2. Hours * MS \in Nat \ {0}
    BY <1>1, <1>3
  <2> QED BY <1>3, <2>1, <2>2
<1>6. s = MS * x + t
  BY <1>1
<1>7. s = D * q + u
  BY <1>1
<1>8. u = (o * Minutes + i) * Seconds + c
  BY <1>1
<1>9. x = Hours * q + o /\ y = Minutes * x + i /\ u = MS * o + t /\ t = Seconds * i + c
  BY <1>1, <1>3
<1> HIDE DEF x, y, MS, D, t, u
<1>10. s \div Seconds = y /\ s % Seconds = c
  BY <1>1, <1>2, DivisionIs
<1>11. y % Minutes = i
  BY <1>1, <1>2, <1>9, DivisionIs
<1>12. s \div MS = x /\ s % MS = t
  BY <1>2, <1>3, <1>4, <1>6, DivisionIs
<1>13. x % Hours = o
  BY <1>1, <1>2, <1>9, DivisionIs
<1>14. t \div Seconds = i
  BY <1>1, <1>3, <1>4, <1>9, DivisionIs
<1>15. s \div D = q /\ s % D = u
  BY <1>5, <1>7, DivisionIs
<1>16. u \div MS = o
  BY <1>3, <1>4, <1>5, <1>9, DivisionIs
<1> QED BY <1>7, <1>8, <1>10, <1>11, <1>12, <1>13, <1>14, <1>15, <1>16 DEF MS, D

\* Every number of seconds is so many days, hours, minutes and seconds.
LEMMA Split ==
  ASSUME NEW s \in Nat
  PROVE  \E q \in Nat, o \in 0 .. Hours - 1, i \in 0 .. Minutes - 1, c \in 0 .. Seconds - 1 :
           s = ((q * Hours + o) * Minutes + i) * Seconds + c
<1>1. /\ Hours \in Nat \ {0} /\ Minutes \in Nat \ {0} /\ Seconds \in Nat \ {0}
  BY UnitsPositive
<1>2. ASSUME NEW n \in Nat, NEW b \in Nat \ {0}
      PROVE  \E p \in Nat, r \in 0 .. b - 1 : n = p * b + r
  <2>1. n \div b \in Int /\ n % b \in 0 .. b - 1 /\ n = b * (n \div b) + (n % b)
    BY Division
  <2>2. n \div b \in Nat
    BY <2>1
  <2>3. n = (n \div b) * b + (n % b)
    BY <2>1
  <2> QED BY <2>1, <2>2, <2>3, Zenon
<1>3. PICK y \in Nat, c \in 0 .. Seconds - 1 : s = y * Seconds + c
  BY <1>1, <1>2
<1>4. PICK x \in Nat, i \in 0 .. Minutes - 1 : y = x * Minutes + i
  BY <1>1, <1>2
<1>5. PICK q \in Nat, o \in 0 .. Hours - 1 : x = q * Hours + o
  BY <1>1, <1>2
<1> QED BY <1>3, <1>4, <1>5

\* The number of seconds of what calendar and clock show.
LEMMA AbsoluteIs ==
  ASSUME NEW d \in Normals
  PROVE  /\ Number(d) \in Nat /\ Absolute(d) \in Nat /\ OfDay(d) \in Nat
         /\ Absolute(d) = ((Number(d) * Hours + d.ore) * Minutes + d.minuti) * Seconds + d.secondi
         /\ Absolute(d) = Number(d) * (Hours * Minutes * Seconds) + OfDay(d)
         /\ OfDay(d) < Hours * Minutes * Seconds
<1>1. /\ Hours \in Nat \ {0} /\ Minutes \in Nat \ {0} /\ Seconds \in Nat \ {0}
  BY UnitsPositive
<1>2. /\ d.anno \in Nat /\ d.mese \in 1 .. 12 /\ d.giorno \in 1 .. 31
      /\ d.ore \in 0 .. Hours - 1 /\ d.minuti \in 0 .. Minutes - 1
      /\ d.secondi \in 0 .. Seconds - 1 /\ IsDate(d.giorno, d.mese, d.anno)
  BY NormalsHave
<1>3. Known(d.giorno) = d.giorno /\ Known(d.mese) = d.mese
  BY <1>2 DEF Known
<1>4. d.ore % Hours = d.ore /\ d.minuti % Minutes = d.minuti /\ d.secondi % Seconds = d.secondi
  BY <1>1, <1>2
<1>5. Number(d) \in Nat
  BY <1>2, DayInYear DEF Number
<1>6. Absolute(d) = ((Number(d) * Hours + d.ore) * Minutes + d.minuti) * Seconds + d.secondi
  BY <1>3, <1>4 DEF Absolute, Number
<1> DEFINE n == Number(d)
           o == d.ore
           i == d.minuti
           c == d.secondi
<1>7. n \in Nat /\ o \in 0 .. Hours - 1 /\ i \in 0 .. Minutes - 1 /\ c \in 0 .. Seconds - 1
  BY <1>2, <1>5
<1>8. Absolute(d) = ((n * Hours + o) * Minutes + i) * Seconds + c
      /\ OfDay(d) = (o * Minutes + i) * Seconds + c
  BY <1>6 DEF OfDay
<1> HIDE DEF n, o, i, c
<1>9. o * Minutes + i \in 0 .. Hours * Minutes - 1 /\ Hours * Minutes \in Nat \ {0}
  BY <1>1, <1>7, Compose
<1>10. OfDay(d) \in 0 .. Hours * Minutes * Seconds - 1
  BY <1>1, <1>7, <1>8, <1>9, Compose
<1>11. Absolute(d) = n * (Hours * Minutes * Seconds) + OfDay(d)
  BY <1>1, <1>7, <1>8
<1>12. n * (Hours * Minutes * Seconds) \in Nat
  <2>1. Hours * Minutes * Seconds \in Nat
    BY <1>1, <1>9
  <2> QED BY <1>7, <2>1
<1>13. Absolute(d) \in Nat
  BY <1>10, <1>11, <1>12
<1> QED BY <1>1, <1>5, <1>6, <1>9, <1>10, <1>11, <1>13 DEF n

\* The day from its number.
LEMMA SameDay ==
  ASSUME NEW d \in Normals, NEW e \in Normals, Number(d) = Number(e)
  PROVE  d.giorno = e.giorno /\ d.mese = e.mese /\ d.anno = e.anno
<1>1. /\ Abs2Gma(Number(d)) = <<d.giorno, d.mese, d.anno>>
      /\ Abs2Gma(Number(e)) = <<e.giorno, e.mese, e.anno>>
  BY NormalsHave, ThereAndBack DEF Number
<1> QED BY <1>1

\* A moment is shown in one way.
LEMMA MomentUnique ==
  ASSUME NEW d \in Normals, NEW e \in Normals, Absolute(d) = Absolute(e), d.tz = e.tz
  PROVE  d = e
<1>1. ASSUME NEW f \in Normals
      PROVE  LET s == Absolute(f) IN
             /\ s \div (Hours * Minutes * Seconds) = Number(f)
             /\ (s \div (Minutes * Seconds)) % Hours = f.ore
             /\ (s \div Seconds) % Minutes = f.minuti /\ s % Seconds = f.secondi
  <2>1. f.ore \in 0 .. Hours - 1 /\ f.minuti \in 0 .. Minutes - 1 /\ f.secondi \in 0 .. Seconds - 1
    BY NormalsHave
  <2>2. Number(f) \in Int /\ Absolute(f) \in Int
        /\ Absolute(f) = ((Number(f) * Hours + f.ore) * Minutes + f.minuti) * Seconds + f.secondi
    BY AbsoluteIs
  <2> QED BY <2>1, <2>2, ClockIs
<1>2. Number(d) = Number(e) /\ d.ore = e.ore /\ d.minuti = e.minuti /\ d.secondi = e.secondi
  BY <1>1
<1>3. d.giorno = e.giorno /\ d.mese = e.mese /\ d.anno = e.anno
  BY <1>2, SameDay
<1> QED BY <1>2, <1>3, NormalsHave

\* A later moment is in no earlier year.
LEMMA YearOrder ==
  ASSUME NEW d \in Normals, NEW e \in Normals, Absolute(d) <= Absolute(e)
  PROVE  d.anno <= e.anno
<1> SUFFICES ASSUME e.anno < d.anno PROVE FALSE
  BY NormalsHave
<1>1. d.anno \in Nat /\ e.anno \in Nat /\ e.anno + 1 \in Nat /\ e.anno + 1 <= d.anno
  BY NormalsHave
<1>2. NewYear(e.anno + 1) <= NewYear(d.anno) /\ NewYear(d.anno) \in Nat /\ NewYear(e.anno + 1) \in Nat
  BY <1>1, YearsInOrder, YearGrows
<1>3. Number(e) < NewYear(e.anno + 1) /\ NewYear(d.anno) <= Number(d)
  BY NormalsHave, DayInYear DEF Number
<1>4. /\ Number(d) \in Nat /\ Number(e) \in Nat /\ OfDay(d) \in Nat /\ OfDay(e) \in Nat
      /\ Absolute(d) = Number(d) * (Hours * Minutes * Seconds) + OfDay(d)
      /\ Absolute(e) = Number(e) * (Hours * Minutes * Seconds) + OfDay(e)
      /\ OfDay(e) < Hours * Minutes * Seconds
  BY AbsoluteIs
<1> DEFINE D == Hours * Minutes * Seconds
           k == Number(d) - Number(e) - 1
<1>5. k \in Nat /\ D \in Int
  BY <1>2, <1>3, <1>4, UnitsPositive
<1>6. Absolute(d) - Absolute(e) = k * D + D + OfDay(d) - OfDay(e)
  BY <1>4, <1>5
<1>7. D \in Nat
  BY <1>4, <1>5
<1> HIDE DEF D, k
<1>8. k * D \in Nat
  BY <1>5, <1>7
<1>9. OfDay(e) < D
  BY <1>4 DEF D
<1>10. Absolute(d) \in Nat /\ Absolute(e) \in Nat
  BY AbsoluteIs
<1> QED BY <1>4, <1>6, <1>7, <1>8, <1>9, <1>10

-----------------------------------------------------------------------------
(* The calendar that counts *)

\* Another day at the same time, in the same zone.
SameTime(d, e) == d.ore = e.ore /\ d.minuti = e.minuti /\ d.secondi = e.secondi /\ d.tz = e.tz

Later(d, k, e) == e \in Normals /\ SameTime(d, e) /\ Number(e) = Number(d) + k

LEMMA NextIsLater ==
  ASSUME NEW d \in Normals, NEW k \in Int, NEW e, Later(d, k, e)
  PROVE  Later(d, k + 1, NextDay(e))
<1>1. e \in Normals /\ SameTime(d, e) /\ Number(e) = Number(d) + k
  BY DEF Later
<1>2. PICK g, m, a : /\ IsDate(g, m, a) /\ NextDay(e) = OnDay(e, g, m, a)
                     /\ Gma2Abs(g, m, a) = Number(e) + 1
  BY <1>1, Tomorrow
<1>3. NextDay(e) \in Normals /\ Number(NextDay(e)) = Number(e) + 1
  BY <1>1, <1>2, OnDayIs
<1>4. SameTime(e, NextDay(e))
  BY <1>2, DateIs DEF SameTime, OnDay
<1>5. SameTime(d, NextDay(e))
  BY <1>1, <1>4 DEF SameTime
<1>6. Number(d) \in Nat
  BY AbsoluteIs
<1>7. Number(NextDay(e)) = Number(d) + (k + 1)
  BY <1>1, <1>3, <1>6
<1> QED BY <1>3, <1>5, <1>7 DEF Later

LEMMA LaterUnique ==
  ASSUME NEW d \in Normals, NEW k \in Int, NEW e, NEW f, Later(d, k, e), Later(d, k, f)
  PROVE  e = f
<1>1. e \in Normals /\ f \in Normals /\ Number(e) = Number(f)
  BY DEF Later
<1>2. e.giorno = f.giorno /\ e.mese = f.mese /\ e.anno = f.anno
  BY <1>1, SameDay
<1>3. e.ore = f.ore /\ e.minuti = f.minuti /\ e.secondi = f.secondi /\ e.tz = f.tz
  BY DEF Later, SameTime
<1> QED BY <1>1, <1>2, <1>3, NormalsHave

LEMMA LaterExists ==
  ASSUME NEW d \in Normals, NEW k \in Nat
  PROVE  \E e : Later(d, k, e)
<1>1. Number(d) \in Nat
  BY AbsoluteIs
<1>2. PICK g, m, a : IsDate(g, m, a) /\ Gma2Abs(g, m, a) = Number(d) + k
  BY <1>1, EveryNumber
<1>3. OnDay(d, g, m, a) \in Normals /\ Number(OnDay(d, g, m, a)) = Number(d) + k
  BY <1>2, OnDayIs
<1>4. SameTime(d, OnDay(d, g, m, a))
  BY DateIs DEF SameTime, OnDay
<1> QED BY <1>3, <1>4 DEF Later

\* Counting day by day goes as far as the numbers say.
LEMMA DaysOn ==
  ASSUME NEW d \in Normals, NEW q \in Nat
  PROVE  LET days[k \in Nat] == IF k = 0 THEN d ELSE NextDay(days[k - 1])
         IN  Later(d, q, days[q])
<1> DEFINE G(f) == [k \in Nat |-> IF k = 0 THEN d ELSE NextDay(f[k - 1])]
           h == [k \in Nat |-> CHOOSE e : Later(d, k, e)]
           days == CHOOSE f : f = G(f)
<1>0. Later(d, 0, d)
  <2>1. Number(d) \in Nat
    BY AbsoluteIs
  <2> QED BY <2>1 DEF Later, SameTime
<1>1. ASSUME NEW k \in Nat PROVE Later(d, k, h[k])
  BY LaterExists
<1>2. h[0] = d
  BY <1>0, <1>1, LaterUnique
<1>3. ASSUME NEW k \in Nat \ {0} PROVE h[k] = NextDay(h[k - 1])
  <2> HIDE DEF h
  <2>1. k - 1 \in Nat /\ (k - 1) + 1 = k /\ k \in Int
    OBVIOUS
  <2>2. Later(d, (k - 1) + 1, NextDay(h[k - 1]))
    BY <1>1, <2>1, NextIsLater
  <2>3. Later(d, k, NextDay(h[k - 1]))
    BY <2>1, <2>2
  <2> QED BY <1>1, <2>1, <2>3, LaterUnique
<1>4. h = G(h)
  <2>1. h = [k \in Nat |-> h[k]]
    OBVIOUS
  <2>2. \A k \in Nat : h[k] = IF k = 0 THEN d ELSE NextDay(h[k - 1])
    <3> HIDE DEF h
    <3> QED BY <1>2, <1>3
  <2> HIDE DEF h
  <2> QED BY <2>1, <2>2
<1>5. days = G(days)
  <2> HIDE DEF G, h
  <2> QED BY <1>4
<1>6. days[0] = d /\ \A k \in Nat \ {0} : days[k] = NextDay(days[k - 1])
  <2>1. \A k \in Nat : days[k] = G(days)[k]
    BY <1>5
  <2> HIDE DEF days
  <2> QED BY <2>1
<1>7. \A k \in Nat : Later(d, k, days[k])
  <2> DEFINE I == {k \in Nat : ~ Later(d, k, days[k])}
  <2> HIDE DEF days
  <2> SUFFICES ASSUME I # {} PROVE FALSE
    OBVIOUS
  <2>1. I \in SUBSET Nat
    OBVIOUS
  <2>2. PICK k \in I : \A j \in I : ~ j < k
    <3> HIDE DEF I
    <3> QED BY <2>1, LeastNumber
  <2>3. k # 0 /\ k \in Nat
    BY <1>0, <1>6
  <2>4. k - 1 \in Nat /\ k - 1 < k /\ (k - 1) + 1 = k
    BY <2>3
  <2>5. Later(d, k - 1, days[k - 1])
    BY <2>2, <2>4
  <2>6. Later(d, (k - 1) + 1, NextDay(days[k - 1]))
    BY <2>4, <2>5, NextIsLater
  <2> QED BY <1>6, <2>2, <2>3, <2>4, <2>6
<1>8. Later(d, q, days[q])
  BY <1>7
<1> QED BY <1>8

\* The calendar n seconds on shows the moment n seconds later.
LEMMA AfterIs ==
  ASSUME NEW d \in Normals, NEW n \in Nat
  PROVE  /\ After(d, n) \in Normals /\ After(d, n).tz = d.tz
         /\ Absolute(After(d, n)) = Absolute(d) + n
<1> DEFINE G(f) == [k \in Nat |-> IF k = 0 THEN d ELSE NextDay(f[k - 1])]
           days == CHOOSE f : f = G(f)
           s == OfDay(d) + n
<1>1. /\ OfDay(d) \in Nat /\ s \in Nat /\ Number(d) \in Nat
      /\ Absolute(d) = Number(d) * (Hours * Minutes * Seconds) + OfDay(d)
  BY AbsoluteIs
<1>2. PICK q \in Nat, o \in 0 .. Hours - 1, i \in 0 .. Minutes - 1, c \in 0 .. Seconds - 1 :
        s = ((q * Hours + o) * Minutes + i) * Seconds + c
  BY <1>1, Split
<1>3. /\ s \div (Hours * Minutes * Seconds) = q
      /\ (s % (Hours * Minutes * Seconds)) \div (Minutes * Seconds) = o
      /\ (s % (Minutes * Seconds)) \div Seconds = i
      /\ s % Seconds = c
      /\ s = (Hours * Minutes * Seconds) * q + ((o * Minutes + i) * Seconds + c)
  BY <1>1, <1>2, ClockIs
<1> DEFINE e == days[q]
<1>4. Later(d, q, e)
  BY DaysOn
<1>5. After(d, n) = Date(e.anno, e.mese, e.giorno, o, i, c, d.tz)
  <2>1. After(d, n) =
          Date(days[s \div (Hours * Minutes * Seconds)].anno,
               days[s \div (Hours * Minutes * Seconds)].mese,
               days[s \div (Hours * Minutes * Seconds)].giorno,
               (s % (Hours * Minutes * Seconds)) \div (Minutes * Seconds),
               (s % (Minutes * Seconds)) \div Seconds, s % Seconds, d.tz)
    BY DEF After
  <2> HIDE DEF days, s
  <2> QED BY <1>3, <2>1
<1> HIDE DEF days, s, e
<1>6. e \in Normals /\ IsDate(e.giorno, e.mese, e.anno) /\ Number(e) = Number(d) + q
  BY <1>4, NormalsHave DEF Later
<1>7. d.tz \in Int
  BY NormalsHave
<1>8. After(d, n) \in Normals /\ Number(After(d, n)) = Number(e)
  BY <1>5, <1>6, <1>7, DateNormal DEF Number
<1>9. After(d, n).ore = o /\ After(d, n).minuti = i /\ After(d, n).secondi = c /\ After(d, n).tz = d.tz
  BY <1>5, DateIs
<1>10. Absolute(After(d, n)) =
         Number(After(d, n)) * (Hours * Minutes * Seconds) + ((o * Minutes + i) * Seconds + c)
  BY <1>8, <1>9, AbsoluteIs DEF OfDay
<1>11. Absolute(After(d, n)) = Absolute(d) + n
  <2> DEFINE D == Hours * Minutes * Seconds
             u == (o * Minutes + i) * Seconds + c
  <2>1. D \in Int /\ u \in Int
    BY UnitsPositive
  <2>2. /\ Absolute(After(d, n)) = (Number(d) + q) * D + u /\ s = D * q + u
        /\ Absolute(d) = Number(d) * D + OfDay(d) /\ s = OfDay(d) + n
    BY <1>1, <1>3, <1>6, <1>8, <1>10 DEF s
  <2> HIDE DEF D, u
  <2>3. PICK N \in Nat, O \in Nat : N = Number(d) /\ O = OfDay(d)
    BY <1>1
  <2>4. Absolute(After(d, n)) = (N + q) * D + u /\ Absolute(d) = N * D + O /\ O + n = D * q + u
    BY <2>2, <2>3
  <2>5. (N + q) * D = N * D + D * q
    BY <2>1
  <2> HIDE DEF Absolute
  <2> QED BY <2>1, <2>4, <2>5
<1> QED BY <1>8, <1>9, <1>11

-----------------------------------------------------------------------------
(* The calls *)

\* n seconds after d, unless that is before the year 0, and correct up to LastYear.
LEMMA IncrIs ==
  ASSUME NEW d, Absolute(d) \in Int, d.tz \in Int, NEW n \in Int
  PROVE  /\ Absolute(d) + n < 0 => Incr(d, n) = NoDate
         /\ Absolute(d) + n >= 0 =>
              \E e \in Normals : /\ Absolute(e) = Absolute(d) + n /\ e.tz = d.tz
                                 /\ e.anno <= LastYear => Incr(d, n) = e
<1> DEFINE s == Absolute(d) + n
<1>1. s < 0 => Incr(d, n) = NoDate
  BY DEF Incr
<1>2. ASSUME s >= 0
      PROVE  \E e \in Normals : /\ Absolute(e) = s /\ e.tz = d.tz
                                /\ e.anno <= LastYear => Incr(d, n) = e
  <2>0. s \in Nat
    BY <1>2
  <2>1. PICK q \in Nat, o \in 0 .. Hours - 1, i \in 0 .. Minutes - 1, c \in 0 .. Seconds - 1 :
          s = ((q * Hours + o) * Minutes + i) * Seconds + c
    BY <2>0, Split
  <2>2. /\ s \div (Hours * Minutes * Seconds) = q
        /\ (s \div (Minutes * Seconds)) % Hours = o
        /\ (s \div Seconds) % Minutes = i /\ s % Seconds = c
    BY <2>0, <2>1, ClockIs
  <2>3. PICK g, m, a : IsDate(g, m, a) /\ Gma2Abs(g, m, a) = q
    BY EveryNumber
  <2>4. Abs2Gma(q) = <<g, m, a>> /\ a \in Nat
    BY <2>3, ThereAndBack DEF IsDate
  <2> DEFINE e == Date(a, m, g, o, i, c, d.tz)
  <2>5. e \in Normals /\ Number(e) = q
    BY <2>3, DateNormal
  <2>6. e.anno = a /\ e.ore = o /\ e.minuti = i /\ e.secondi = c /\ e.tz = d.tz
    BY DateIs
  <2>7. Absolute(e) = s
    <3> HIDE DEF e
    <3>1. Absolute(e) = ((Number(e) * Hours + e.ore) * Minutes + e.minuti) * Seconds + e.secondi
      BY <2>5, AbsoluteIs
    <3> QED BY <2>1, <2>5, <2>6, <3>1
  <2>8. ASSUME a <= LastYear PROVE Incr(d, n) = e
    <3>1. a % (LastYear + 1) = a
      BY <2>4, <2>8, YearsEnd
    <3>2. Incr(d, n) = LET gma == Abs2Gma(s \div (Hours * Minutes * Seconds)) IN
                       Date(gma[3] % (LastYear + 1), gma[2], gma[1], (s \div (Minutes * Seconds)) % Hours,
                            (s \div Seconds) % Minutes, s % Seconds, d.tz)
      BY <1>2 DEF Incr
    <3>3. Incr(d, n) = Date(a % (LastYear + 1), m, g, o, i, c, d.tz)
      <4> HIDE DEF s
      <4> QED BY <2>2, <2>4, <3>2
    <3> QED BY <3>1, <3>3
  <2> HIDE DEF e, s
  <2> QED BY <2>5, <2>6, <2>7, <2>8
<1> QED BY <1>1, <1>2

\* What the constructor is given.
Shapes == [anno : 0 .. LastYear, mese : 0 .. 12, giorno : 0 .. 31, ore : 0 .. Hours,
           minuti : 0 .. Minutes, secondi : 0 .. Seconds, tz : Zones]

LEMMA ShapesHave ==
  ASSUME NEW d \in Shapes
  PROVE  /\ d.anno \in Nat /\ d.anno <= LastYear /\ d.ore \in Nat /\ d.minuti \in Nat /\ d.secondi \in Nat
         /\ d.tz \in Zones /\ d.tz \in Int /\ d # NoDate
         /\ Known(d.mese) \in 1 .. 12 /\ Known(d.giorno) \in 1 .. 31
         /\ IsDay(d) <=> IsDate(Known(d.giorno), Known(d.mese), d.anno)
<1>1. /\ d.anno \in 0 .. LastYear /\ d.mese \in 0 .. 12 /\ d.giorno \in 0 .. 31 /\ d.ore \in 0 .. Hours
      /\ d.minuti \in 0 .. Minutes /\ d.secondi \in 0 .. Seconds /\ d.tz \in Zones
  BY DEF Shapes
<1>2. Known(d.mese) \in 1 .. 12 /\ Known(d.giorno) \in 1 .. 31
  BY <1>1 DEF Known
<1>3. IsDay(d) <=> IsDate(Known(d.giorno), Known(d.mese), d.anno)
  <2>1. (d.mese = 10 /\ d.giorno \in 5 .. 14) <=> (Known(d.mese) = 10 /\ Known(d.giorno) \in 5 .. 14)
    BY <1>1 DEF Known
  <2> QED BY <1>1, <1>2, <2>1 DEF IsDay, IsDate
<1>4. d.tz \in Int
  BY <1>1, DateAssumption
<1>5. d # NoDate
  <2>1. d = Date(d.anno, d.mese, d.giorno, d.ore, d.minuti, d.secondi, d.tz)
    BY Zenon DEF Shapes, Date
  <2>2. /\ d.anno \in Int /\ d.mese \in Int /\ d.giorno \in Int /\ d.ore \in Int /\ d.minuti \in Int
        /\ d.secondi \in Int
    BY <1>1, YearsEnd, UnitsPositive
  <2>3. d \in [anno : Int, mese : Int, giorno : Int, ore : Int, minuti : Int, secondi : Int, tz : Int]
    BY <1>4, <2>1, <2>2, Zenon DEF Date
  <2> QED BY <2>3, DateAssumption
<1> QED BY <1>1, <1>2, <1>3, <1>4, <1>5, UnitsPositive

\* What is not known is the first.
LEMMA NormalIs ==
  ASSUME NEW d \in Shapes, IsDay(d)
  PROVE  /\ Normal(d) \in Normals /\ Normal(d).tz = d.tz /\ Normal(d).anno = d.anno
         /\ Absolute(Normal(d)) = Absolute(d) /\ Absolute(d) \in Nat
<1> DEFINE g == Known(d.giorno)
           m == Known(d.mese)
           a == d.anno
           o == d.ore % Hours
           i == d.minuti % Minutes
           c == d.secondi % Seconds
<1>1. IsDate(g, m, a) /\ d.tz \in Int
  BY ShapesHave
<1>2. o \in 0 .. Hours - 1 /\ i \in 0 .. Minutes - 1 /\ c \in 0 .. Seconds - 1
  BY ShapesHave, UnitsPositive
<1>3. Normal(d) = Date(a, m, g, o, i, c, d.tz)
  BY DEF Normal
<1>4. Absolute(d) = ((Gma2Abs(g, m, a) * Hours + o) * Minutes + i) * Seconds + c
  BY DEF Absolute
<1> HIDE DEF g, m, a, o, i, c
<1>5. Normal(d) \in Normals /\ Number(Normal(d)) = Gma2Abs(g, m, a)
  BY <1>1, <1>2, <1>3, DateNormal
<1>6. /\ Normal(d).anno = a /\ Normal(d).ore = o /\ Normal(d).minuti = i
      /\ Normal(d).secondi = c /\ Normal(d).tz = d.tz
  BY <1>3, DateIs
<1>7. Absolute(Normal(d)) = Absolute(d) /\ Absolute(Normal(d)) \in Nat
  BY <1>4, <1>5, <1>6, AbsoluteIs
<1> QED BY <1>5, <1>6, <1>7 DEF a

\* What calendar and clock show is a date if the year can be kept.
LEMMA NormalShape ==
  ASSUME NEW e \in Normals, e.anno <= LastYear, e.tz \in Zones
  PROVE  e \in Shapes /\ IsDay(e)
<1>1. /\ e.anno \in Nat /\ e.mese \in 1 .. 12 /\ e.giorno \in 1 .. 31
      /\ e.ore \in 0 .. Hours - 1 /\ e.minuti \in 0 .. Minutes - 1 /\ e.secondi \in 0 .. Seconds - 1
      /\ IsDate(e.giorno, e.mese, e.anno)
      /\ e = Date(e.anno, e.mese, e.giorno, e.ore, e.minuti, e.secondi, e.tz)
  BY NormalsHave
<1>2. /\ e.anno \in 0 .. LastYear /\ e.mese \in 0 .. 12 /\ e.giorno \in 0 .. 31 /\ e.ore \in 0 .. Hours
      /\ e.minuti \in 0 .. Minutes /\ e.secondi \in 0 .. Seconds
  BY <1>1, UnitsPositive
<1>3. e \in Shapes
  BY <1>1, <1>2, Zenon DEF Date, Shapes
<1>4. Known(e.giorno) = e.giorno /\ Known(e.mese) = e.mese
  BY <1>1 DEF Known
<1> QED BY <1>1, <1>3, <1>4, ShapesHave

\* The same clock, another zone.
LEMMA InZone ==
  ASSUME NEW d \in Normals, NEW z \in Int
  PROVE  /\ [d EXCEPT !.tz = z] \in Normals /\ [d EXCEPT !.tz = z].tz = z
         /\ [d EXCEPT !.tz = z].anno = d.anno
         /\ Absolute([d EXCEPT !.tz = z]) = Absolute(d)
<1> DEFINE e == Date(d.anno, d.mese, d.giorno, d.ore, d.minuti, d.secondi, z)
<1>1. \A a, m, g, o, i, c, w : [Date(a, m, g, o, i, c, w) EXCEPT !.tz = z] = Date(a, m, g, o, i, c, z)
  BY DEF Date
<1>2. [d EXCEPT !.tz = z] = e
  <2>1. d = Date(d.anno, d.mese, d.giorno, d.ore, d.minuti, d.secondi, d.tz)
    BY NormalsHave
  <2> QED BY <1>1, <2>1
<1>3. e \in Normals /\ Number(e) = Number(d)
  BY NormalsHave, DateNormal DEF Number
<1>4. e.anno = d.anno /\ e.ore = d.ore /\ e.minuti = d.minuti /\ e.secondi = d.secondi /\ e.tz = z
  BY DateIs
<1> HIDE DEF e
<1>5. Absolute(e) = Absolute(d)
  BY <1>3, <1>4, AbsoluteIs
<1> QED BY <1>2, <1>3, <1>4, <1>5

LEMMA EastIs == East \in Zones /\ East \in Int /\ \A z \in Zones : z \in Int /\ z - East \in Nat
<1>1. \E z \in Zones : \A y \in Zones : z <= y
  BY DateAssumption
<1>2. East \in Zones /\ \A y \in Zones : East <= y
  BY <1>1 DEF East
<1> QED BY <1>2, DateAssumption

LEMMA InTheEastIs ==
  ASSUME NEW d \in Shapes, IsDay(d)
  PROVE  /\ InTheEast(d) \in Normals /\ InTheEast(d).tz = East
         /\ Absolute(InTheEast(d)) = Absolute(d) + d.tz - East
<1>1. d.tz - East \in Nat /\ East \in Int /\ d.tz \in Int
  BY ShapesHave, EastIs
<1>2. Normal(d) \in Normals /\ Absolute(Normal(d)) = Absolute(d) /\ Absolute(d) \in Nat
  BY NormalIs
<1> DEFINE e == After(Normal(d), d.tz - East)
<1>3. e \in Normals /\ Absolute(e) = Absolute(d) + (d.tz - East)
  BY <1>1, <1>2, AfterIs
<1>4. InTheEast(d) = [e EXCEPT !.tz = East]
  BY DEF InTheEast
<1> HIDE DEF e
<1>5. /\ InTheEast(d) \in Normals /\ InTheEast(d).tz = East
      /\ Absolute(InTheEast(d)) = Absolute(e)
  BY <1>1, <1>3, <1>4, InZone
<1> QED BY <1>1, <1>2, <1>3, <1>5

\* The constructor takes the days there have been, and no others.
LEMMA AcceptedIs ==
  ASSUME NEW d \in Shapes
  PROVE  DateAccepted(d) <=> IsDay(d)
<1>1. /\ d.anno \in Nat /\ Known(d.mese) \in 1 .. 12 /\ Known(d.giorno) \in 1 .. 31
      /\ IsDay(d) <=> IsDate(Known(d.giorno), Known(d.mese), d.anno)
  BY ShapesHave
<1>2. IsDay(d) => DateAccepted(d)
  BY <1>1, ThereAndBack DEF DateAccepted
<1>3. ~ IsDay(d) => ~ DateAccepted(d)
  BY <1>1, NoDay DEF DateAccepted
<1> QED BY <1>2, <1>3

-----------------------------------------------------------------------------
(* The invariant *)

\* The date shows the moment that calendar and clock show.
Showing ==
  shown.anno <= LastYear =>
    /\ date \in Shapes /\ IsDay(date)
    /\ Absolute(date) + date.tz - East = Absolute(shown)

\* Calendar and clock show the first moment and what was added since.
Shown ==
  /\ shown \in Normals /\ shown.tz = East
  /\ Absolute(shown) = Absolute(origin) + origin.tz - East + elapsed

DateInv ==
  /\ origin \in Shapes /\ elapsed \in Nat /\ calls \in Nat
  /\ calls = 0 => (date # NoDate <=> IsDay(origin))
  /\ IsDay(origin) => Shown
  /\ date # NoDate => IsDay(origin) /\ Showing

LEMMA DateInv_Init ==
  ASSUME DateInit
  PROVE  DateInv
<1>1. origin \in Shapes
  <2>1. PICK a \in Years, m \in 0 .. 12, g \in 0 .. 31, tz \in Zones,
             t \in {<<0, 0, 0>>, <<Hours - 1, Minutes - 1, Seconds - 1>>, <<Hours, Minutes, Seconds>>} :
          origin = Date(a, m, g, t[1], t[2], t[3], tz)
    BY DEF DateInit
  <2>2. t[1] \in 0 .. Hours /\ t[2] \in 0 .. Minutes /\ t[3] \in 0 .. Seconds
    BY UnitsPositive
  <2>3. a \in 0 .. LastYear
    BY DateAssumption
  <2> QED BY <2>1, <2>2, <2>3 DEF Date, Shapes
<1>2. date = (IF IsDay(origin) THEN origin ELSE NoDate) /\ elapsed = 0 /\ calls = 0
  BY <1>1, AcceptedIs DEF DateInit
<1>3. origin # NoDate /\ origin.tz \in Int /\ East \in Int
  BY <1>1, ShapesHave, EastIs
<1>4. ASSUME IsDay(origin)
      PROVE  Shown /\ Showing
  <2>1. shown = InTheEast(origin) /\ date = origin
    BY <1>2, <1>4 DEF DateInit
  <2>2. /\ shown \in Normals /\ shown.tz = East
        /\ Absolute(shown) = Absolute(origin) + origin.tz - East /\ Absolute(origin) \in Nat
    BY <1>1, <1>4, <2>1, InTheEastIs, NormalIs
  <2> QED BY <1>1, <1>2, <1>3, <1>4, <2>1, <2>2 DEF Shown, Showing
<1> QED BY <1>1, <1>2, <1>3, <1>4 DEF DateInv

LEMMA DateInv_Cat ==
  ASSUME DateInv, NEW n \in Spans, Cat(n)
  PROVE  DateInv'
<1>1. /\ date # NoDate /\ date' = Incr(date, n) /\ elapsed' = elapsed + n
      /\ shown' = After(shown, n) /\ calls' = calls + 1 /\ origin' = origin
  BY DEF Cat
<1>2. /\ n \in Nat /\ elapsed \in Nat /\ calls \in Nat /\ origin \in Shapes
      /\ IsDay(origin) /\ Shown /\ Showing
  BY <1>1, DateAssumption DEF DateInv
<1>3. /\ shown \in Normals /\ Absolute(shown) \in Nat /\ shown.tz = East /\ East \in Int
      /\ shown' \in Normals /\ Absolute(shown') = Absolute(shown) + n /\ shown'.tz = East
  BY <1>1, <1>2, AfterIs, AbsoluteIs, EastIs DEF Shown
<1>4. Shown'
  <2>1. Absolute(origin) \in Nat /\ origin.tz \in Int
    BY <1>2, NormalIs, ShapesHave
  <2> QED BY <1>1, <1>2, <1>3, <2>1 DEF Shown
<1>5. Showing'
  <2> SUFFICES ASSUME shown'.anno <= LastYear
               PROVE  /\ date' \in Shapes /\ IsDay(date')
                      /\ Absolute(date') + date'.tz - East = Absolute(shown')
    BY DEF Showing
  <2>1. shown.anno <= LastYear
    <3>1. Absolute(shown) <= Absolute(shown')
      BY <1>2, <1>3
    <3>2. shown.anno <= shown'.anno /\ shown.anno \in Nat /\ shown'.anno \in Nat
      BY <1>3, <3>1, YearOrder, NormalsHave
    <3> QED BY <3>2, YearsEnd
  <2>2. /\ date \in Shapes /\ IsDay(date) /\ Absolute(date) + date.tz - East = Absolute(shown)
        /\ Absolute(date) \in Nat /\ date.tz \in Zones /\ date.tz \in Int /\ date.tz - East \in Nat
    BY <1>2, <2>1, NormalIs, ShapesHave, EastIs DEF Showing
  <2>3. PICK e \in Normals : /\ Absolute(e) = Absolute(date) + n /\ e.tz = date.tz
                             /\ e.anno <= LastYear => Incr(date, n) = e
    BY <1>2, <2>2, IncrIs
  <2>4. Absolute(e) + e.tz - East = Absolute(shown')
    BY <1>2, <1>3, <2>2, <2>3
  <2>5. e.anno <= LastYear
    <3>1. Absolute(e) <= Absolute(shown')
      BY <1>2, <1>3, <2>2, <2>3
    <3>2. e.anno <= shown'.anno /\ e.anno \in Nat /\ shown'.anno \in Nat
      BY <1>3, <3>1, YearOrder, NormalsHave
    <3> QED BY <3>2, YearsEnd
  <2>6. date' = e
    BY <1>1, <2>3, <2>5
  <2> QED BY <2>2, <2>3, <2>4, <2>5, <2>6, NormalShape
<1>6. elapsed' \in Nat /\ calls' \in Nat /\ calls' # 0 /\ origin' \in Shapes /\ IsDay(origin')
  BY <1>1, <1>2
<1> QED BY <1>4, <1>5, <1>6 DEF DateInv

LEMMA DateInv_ChangeTimezone ==
  ASSUME DateInv, NEW z \in Zones, ChangeTimezone(z)
  PROVE  DateInv'
<1>1. /\ date # NoDate /\ elapsed' = elapsed /\ shown' = shown /\ calls' = calls + 1
      /\ origin' = origin
  BY DEF ChangeTimezone
<1>2. /\ elapsed \in Nat /\ calls \in Nat /\ origin \in Shapes
      /\ IsDay(origin) /\ Shown /\ Showing
  BY <1>1 DEF DateInv
<1>3. Shown'
  BY <1>1, <1>2 DEF Shown
<1>4. ASSUME date' # NoDate PROVE Showing'
  <2> SUFFICES ASSUME shown.anno <= LastYear
               PROVE  /\ date' \in Shapes /\ IsDay(date')
                      /\ Absolute(date') + date'.tz - East = Absolute(shown)
    BY <1>1 DEF Showing
  <2>1. /\ date \in Shapes /\ IsDay(date) /\ Absolute(date) + date.tz - East = Absolute(shown)
        /\ Absolute(date) \in Nat /\ date.tz \in Zones /\ date.tz \in Int
    BY <1>2, NormalIs, ShapesHave DEF Showing
  <2>2. shown \in Normals /\ Absolute(shown) \in Nat /\ East \in Int /\ z \in Int /\ z - East \in Nat
    BY <1>2, AbsoluteIs, EastIs DEF Shown
  <2>3. CASE date.tz = z
    <3>1. date' = date
      BY <2>3 DEF ChangeTimezone
    <3> QED BY <2>1, <3>1
  <2>4. CASE date.tz # z
    <3>1. date' = (IF Incr(date, date.tz - z) = NoDate THEN NoDate
                   ELSE [Incr(date, date.tz - z) EXCEPT !.tz = z])
      BY <2>4 DEF ChangeTimezone
    <3>2. date.tz - z \in Int
      BY <2>1, <2>2
    <3>3. Absolute(date) + (date.tz - z) >= 0
      <4> SUFFICES ASSUME Absolute(date) + (date.tz - z) < 0 PROVE FALSE
        BY <2>1, <3>2
      <4>1. Incr(date, date.tz - z) = NoDate
        BY <2>1, <3>2, IncrIs
      <4> QED BY <1>4, <3>1, <4>1
    <3>4. PICK e \in Normals : /\ Absolute(e) = Absolute(date) + (date.tz - z) /\ e.tz = date.tz
                               /\ e.anno <= LastYear => Incr(date, date.tz - z) = e
      BY <2>1, <3>2, <3>3, IncrIs
    <3>5. Absolute(e) + z - East = Absolute(shown)
      BY <2>1, <2>2, <3>4
    <3>6. e.anno <= LastYear
      <4>1. Absolute(e) <= Absolute(shown)
        BY <2>1, <2>2, <3>2, <3>4
      <4>2. e.anno <= shown.anno /\ e.anno \in Nat /\ shown.anno \in Nat
        BY <2>2, <4>1, YearOrder, NormalsHave
      <4> QED BY <4>2, YearsEnd
    <3>7. e \in Shapes /\ IsDay(e) /\ e # NoDate
      BY <2>1, <3>4, <3>6, NormalShape, ShapesHave
    <3>8. date' = [e EXCEPT !.tz = z]
      BY <3>1, <3>4, <3>6, <3>7
    <3>9. /\ date' \in Normals /\ date'.tz = z /\ date'.anno = e.anno /\ Absolute(date') = Absolute(e)
      BY <2>2, <3>8, InZone
    <3> QED BY <3>5, <3>6, <3>9, NormalShape
  <2> QED BY <2>3, <2>4
<1>5. elapsed' \in Nat /\ calls' \in Nat /\ calls' # 0 /\ origin' \in Shapes /\ IsDay(origin')
  BY <1>1, <1>2
<1> QED BY <1>3, <1>4, <1>5 DEF DateInv

\* DateInv holds in every state: what the object keeps, the calendar and the clock,
\* and the seconds since the start agree.
THEOREM DateInvariant == DateSpec => []DateInv
<1>1. DateInit => DateInv
  BY DateInv_Init
<1>2. DateInv /\ [DateNext]_dateVars => DateInv'
  <2> SUFFICES ASSUME DateInv, [DateNext]_dateVars PROVE DateInv'
    OBVIOUS
  <2>1. ASSUME NEW n \in Spans, Cat(n) PROVE DateInv'
    BY <2>1, DateInv_Cat
  <2>2. ASSUME NEW tz \in Zones, ChangeTimezone(tz) PROVE DateInv'
    BY <2>2, DateInv_ChangeTimezone
  <2>3. CASE UNCHANGED dateVars
    BY <2>3 DEF dateVars, DateInv, Shown, Showing
  <2> QED BY <2>1, <2>2, <2>3 DEF DateNext
<1> QED BY <1>1, <1>2, PTL DEF DateSpec

LEMMA DateInvGivesExact ==
  ASSUME DateInv
  PROVE  DateExact
<1> SUFFICES ASSUME date # NoDate, shown.anno <= LastYear
             PROVE  /\ InTheEast(date) = shown
                    /\ Diff(date, origin) = elapsed
                    /\ date.tz = origin.tz => Incr(date, -elapsed) = Normal(origin)
  BY DEF DateInv, DateExact
<1>1. /\ origin \in Shapes /\ IsDay(origin) /\ elapsed \in Nat
      /\ date \in Shapes /\ IsDay(date) /\ Absolute(date) + date.tz - East = Absolute(shown)
      /\ shown \in Normals /\ shown.tz = East
      /\ Absolute(shown) = Absolute(origin) + origin.tz - East + elapsed
  BY DEF DateInv, Shown, Showing
<1>2. /\ Absolute(date) \in Nat /\ Absolute(origin) \in Nat /\ Absolute(shown) \in Nat
      /\ date.tz \in Int /\ origin.tz \in Int /\ East \in Int
  BY <1>1, NormalIs, AbsoluteIs, ShapesHave, EastIs
<1>3. InTheEast(date) = shown
  <2>1. /\ InTheEast(date) \in Normals /\ InTheEast(date).tz = East
        /\ Absolute(InTheEast(date)) = Absolute(date) + date.tz - East
    BY <1>1, InTheEastIs
  <2> QED BY <1>1, <2>1, MomentUnique
<1>4. Diff(date, origin) = elapsed
  BY <1>1, <1>2 DEF Diff
<1>5. ASSUME date.tz = origin.tz PROVE Incr(date, -elapsed) = Normal(origin)
  <2>1. -elapsed \in Int /\ Absolute(date) + (-elapsed) = Absolute(origin)
    BY <1>1, <1>2, <1>5
  <2>2. PICK e \in Normals : /\ Absolute(e) = Absolute(origin) /\ e.tz = date.tz
                             /\ e.anno <= LastYear => Incr(date, -elapsed) = e
    BY <1>2, <2>1, IncrIs
  <2>3. /\ Normal(origin) \in Normals /\ Absolute(Normal(origin)) = Absolute(origin)
        /\ Normal(origin).tz = origin.tz /\ Normal(origin).anno <= LastYear
    BY <1>1, NormalIs, ShapesHave
  <2>4. e = Normal(origin)
    BY <1>5, <2>2, <2>3, MomentUnique
  <2> QED BY <2>2, <2>3, <2>4
<1> QED BY <1>3, <1>4, <1>5

\* The constructor takes the days there have been and no others, arithmetic leads to
\* what calendar and clock show, and a subtraction finds how long ago the start was:
\* for all years, zones and spans, for any length of the day and any calls.
THEOREM DatesExact == DateSpec => []DateExact
<1>1. DateInv => DateExact
  BY DateInvGivesExact
<1> QED BY <1>1, DateInvariant, PTL
=============================================================================
