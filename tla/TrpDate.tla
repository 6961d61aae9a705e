------------------------------- MODULE TrpDate -------------------------------
(***************************************************************************)
(* Dates, src/trp/trp_t_date.c: a day of the Julian calendar up to         *)
(* 4 October 1582 and of the Gregorian calendar from 15 October 1582 on, a *)
(* time of day, and a time zone, the seconds the local time is behind      *)
(* Greenwich.  Arithmetic goes through the number of days since 1 January  *)
(* of the year 0 (gma2abs) and back (abs2gma).  A month or day 0, an hour  *)
(* 24 and a minute or second 60 mean that it is not known.                 *)
(*                                                                         *)
(* The day has Hours * Minutes * Seconds seconds here; the fraction of a   *)
(* second is left out.                                                     *)
(***************************************************************************)
EXTENDS Integers

CONSTANTS
  Years,                    \* the years a date is made in
  Hours, Minutes, Seconds,  \* how many of each there are in the next larger unit
  Zones,                    \* time zones
  Spans,                    \* what is added to a date, in seconds
  MaxCalls,                 \* bound: calls after the date is made
  NoDate

\* A year has 16 bits.
LastYear == 65535

\* One of the zones is the easternmost.
ASSUME DateAssumption ==
  /\ Years \subseteq 0 .. LastYear
  /\ Hours \in Nat \ {0} /\ Minutes \in Nat \ {0} /\ Seconds \in Nat \ {0}
  /\ Zones \subseteq Int
  /\ \E z \in Zones : \A y \in Zones : z <= y
  /\ Spans \subseteq Nat
  /\ NoDate \notin [anno : Int, mese : Int, giorno : Int, ore : Int, minuti : Int, secondi : Int, tz : Int]

VARIABLES
  date,     \* a date, or NoDate
  spoilt,   \* whether the field tz of the object UNDEF was written
  origin,   \* the date that was made
  elapsed,  \* seconds added since
  shown,    \* what clock and calendar show in the easternmost zone
  calls

dateVars == <<date, spoilt, origin, elapsed, shown, calls>>

Date(anno, mese, giorno, ore, minuti, secondi, tz) ==
  [anno |-> anno, mese |-> mese, giorno |-> giorno,
   ore |-> ore, minuti |-> minuti, secondi |-> secondi, tz |-> tz]

-----------------------------------------------------------------------------
(* Days. *)

Offset == <<0, 31, 59, 90, 120, 151, 181, 212, 243, 273, 304, 334, 365>>

\* Mutant: every fourth year is a leap year.
LeapYear_Julian(a) == IF a % 4 = 0 THEN 1 ELSE 0
LeapYear(a) == IF a % 4 = 0 /\ (a % 100 # 0 \/ a % 400 = 0) THEN 1 ELSE 0

\* How many multiples of n there are from a2 to a1 - 1.
LeapMultBase(a1, a2, n) ==
  LET up == IF a2 % n = 0 THEN a2 ELSE a2 + (n - (a2 % n))
  IN  IF up >= a1 THEN 0 ELSE 1 + (a1 - 1 - up) \div n

Gma2Abs(g, m, a) ==
  IF a < 1582 \/ (a = 1582 /\ (m < 10 \/ (m = 10 /\ g < 5))) THEN
    g - 1 + Offset[m] + (IF m > 2 /\ a % 4 = 0 THEN 1 ELSE 0) + 365 * a + LeapMultBase(a, 0, 4)
  ELSE IF a = 1582 THEN
    g - 11 + Offset[m] + 365 * a + LeapMultBase(a, 0, 4)
  ELSE
    578180 + g + Offset[m] + (IF m > 2 THEN LeapYear(a) ELSE 0) + 365 * (a - 1583)
      + LeapMultBase(a, 1582, 4) - LeapMultBase(a, 1582, 100) + LeapMultBase(a, 1582, 400)

\* The month and the day from the number of the day in the year, when leap is 1 in
\* a leap year.
MonthFrom(k, from) == CHOOSE m \in from .. 12 : k < Offset[m + 1] /\ (m = from \/ k >= Offset[m])

DayOf(a, k, leap) ==
  LET m == MonthFrom(k - leap, 3)
  IN  IF k < 31 THEN <<k + 1, 1, a>>
      ELSE IF k < 59 THEN <<k - 30, 2, a>>
      ELSE IF k = 59 /\ leap = 1 THEN <<29, 2, a>>
      ELSE <<k - leap - Offset[m] + 1, m, a>>

\* The search for the year goes upwards from an estimate.
YearFrom(d) ==
  LET low == 1583 + (d - 578181) \div 366
      high == 1583 + (d - 578181) \div 365
  IN  CHOOSE a \in low .. high : d < Gma2Abs(1, 1, a + 1) /\ (a = low \/ d >= Gma2Abs(1, 1, a))

Abs2Gma(d) ==
  LET julian == (d * 4) \div 1461
      k == d - Gma2Abs(1, 1, 1582) + 10
      m == MonthFrom(k, 10)
      year == YearFrom(d)
  IN  IF d <= 578102 THEN
        DayOf(julian, d - Gma2Abs(1, 1, julian), IF julian % 4 = 0 THEN 1 ELSE 0)
      ELSE IF d <= 578180 THEN <<k - Offset[m] + 1, m, 1582>>
      ELSE DayOf(year, d - Gma2Abs(1, 1, year), LeapYear(year))

-----------------------------------------------------------------------------
(* Dates. *)

Known(n) == IF n = 0 THEN 1 ELSE n

\* The seconds since 1 January of the year 0, local time; what is not known is the
\* first.
Absolute(d) ==
  ((Gma2Abs(Known(d.giorno), Known(d.mese), d.anno) * Hours + (d.ore % Hours)) * Minutes
     + (d.minuti % Minutes)) * Seconds + (d.secondi % Seconds)

\* d1 - d2.
Diff(d1, d2) == Absolute(d1) - Absolute(d2) + d1.tz - d2.tz

\* n seconds after d; the year is cut to 16 bits.
Incr(d, n) ==
  LET s == Absolute(d) + n
      gma == Abs2Gma(s \div (Hours * Minutes * Seconds))
  IN  IF s < 0 THEN NoDate
      ELSE Date(gma[3] % (LastYear + 1), gma[2], gma[1], (s \div (Minutes * Seconds)) % Hours,
                (s \div Seconds) % Minutes, s % Seconds, d.tz)

\* A day is one if it survives the way to its number and back.
DateAccepted(d) ==
  LET g == Known(d.giorno)
      m == Known(d.mese)
  IN  Abs2Gma(Gma2Abs(g, m, d.anno)) = <<g, m, d.anno>>

-----------------------------------------------------------------------------
(* The calendar, for comparison. *)

Leap(a) == IF a <= 1582 THEN a % 4 = 0 ELSE a % 4 = 0 /\ (a % 100 = 0 => a % 400 = 0)

DaysIn(m, a) ==
  IF m = 2 THEN (IF Leap(a) THEN 29 ELSE 28)
  ELSE IF m \in {4, 6, 9, 11} THEN 30 ELSE 31

IsDay(d) ==
  /\ Known(d.mese) \in 1 .. 12
  /\ Known(d.giorno) \in 1 .. DaysIn(Known(d.mese), d.anno)
  /\ ~(d.anno = 1582 /\ d.mese = 10 /\ d.giorno \in 5 .. 14)

\* d on another day.
OnDay(d, g, m, a) == Date(a, m, g, d.ore, d.minuti, d.secondi, d.tz)

NextDay(d) ==
  IF d.giorno = 4 /\ d.mese = 10 /\ d.anno = 1582 THEN OnDay(d, 15, 10, 1582)
  ELSE IF d.giorno < DaysIn(d.mese, d.anno) THEN OnDay(d, d.giorno + 1, d.mese, d.anno)
  ELSE IF d.mese < 12 THEN OnDay(d, 1, d.mese + 1, d.anno)
  ELSE OnDay(d, 1, 1, d.anno + 1)

\* The calendar n seconds on, where n is no more than a few days.
OfDay(d) == (d.ore * Minutes + d.minuti) * Seconds + d.secondi
After(d, n) ==
  LET day == Hours * Minutes * Seconds
      s == OfDay(d) + n
      days[k \in Nat] == IF k = 0 THEN d ELSE NextDay(days[k - 1])
      e == days[s \div day]
  IN  Date(e.anno, e.mese, e.giorno, (s % day) \div (Minutes * Seconds),
           (s % (Minutes * Seconds)) \div Seconds, s % Seconds, d.tz)

Normal(d) == Date(d.anno, Known(d.mese), Known(d.giorno), d.ore % Hours, d.minuti % Minutes,
                  d.secondi % Seconds, d.tz)

East == CHOOSE z \in Zones : \A y \in Zones : z <= y

\* d on the calendar and the clock of the easternmost zone.
InTheEast(d) == [After(Normal(d), d.tz - East) EXCEPT !.tz = East]

-----------------------------------------------------------------------------
(* The calls. *)

DateInit ==
  /\ \E a \in Years, m \in 0 .. 12, g \in 0 .. 31, tz \in Zones,
        t \in {<<0, 0, 0>>, <<Hours - 1, Minutes - 1, Seconds - 1>>, <<Hours, Minutes, Seconds>>} :
       origin = Date(a, m, g, t[1], t[2], t[3], tz)
  /\ date = IF DateAccepted(origin) THEN origin ELSE NoDate
  /\ spoilt = FALSE
  /\ elapsed = 0
  /\ shown = IF IsDay(origin) THEN InTheEast(origin) ELSE NoDate
  /\ calls = 0

\* (+ date n)
Cat(n) ==
  /\ calls < MaxCalls /\ date # NoDate
  /\ date' = Incr(date, n)
  /\ elapsed' = elapsed + n
  /\ shown' = After(shown, n)
  /\ calls' = calls + 1
  /\ UNCHANGED <<spoilt, origin>>

\* The new zone is written into what the addition returns, be it a date or not.
ChangeTimezone(tz) ==
  /\ calls < MaxCalls /\ date # NoDate
  /\ LET d == Incr(date, date.tz - tz)
     IN  IF date.tz = tz THEN UNCHANGED <<date, spoilt>>
         ELSE IF d = NoDate THEN date' = NoDate /\ spoilt' = TRUE
         ELSE date' = [d EXCEPT !.tz = tz] /\ UNCHANGED spoilt
  /\ calls' = calls + 1
  /\ UNCHANGED <<origin, elapsed, shown>>

DateNext ==
  \/ \E n \in Spans : Cat(n)
  \/ \E tz \in Zones : ChangeTimezone(tz)

DateSpec == DateInit /\ [][DateNext]_dateVars

-----------------------------------------------------------------------------
(* Properties. *)

\* The constructor takes the days there have been and no others, the ten of October
\* 1582 left out; additions and changes of zone lead to the date that calendar and
\* clock show then, in the zone of the date; and a subtraction finds how long ago
\* the first date was, and takes it back there: for as long as the year, which the
\* object keeps in 16 bits, is one of these.
DateExact ==
  /\ calls = 0 => (date # NoDate <=> IsDay(origin))
  /\ date # NoDate /\ shown.anno <= LastYear =>
       /\ InTheEast(date) = shown
       /\ Diff(date, origin) = elapsed
       /\ date.tz = origin.tz => Incr(date, -elapsed) = Normal(origin)
=============================================================================
