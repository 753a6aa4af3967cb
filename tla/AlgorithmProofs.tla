--------------------------- MODULE AlgorithmProofs ---------------------------
(***************************************************************************)
(* Proofs about the computations: the schedules' calendar (Calendar), for  *)
(* every zone, schedule and span of years, and the scans (Discovery), for  *)
(* every width of an address, every block, every set of serial names and   *)
(* every number of threads.                                                *)
(***************************************************************************)
EXTENDS Calendar, Discovery, FiniteSetTheorems, NaturalsInduction, WellFoundedInduction, TLAPS

(* A property of numbers that fails, fails at a least number.              *)
LEMMA LeastNumber ==
  ASSUME NEW T \in SUBSET Nat, T # {}
  PROVE  \E n \in T : \A m \in Nat : m < n => m \notin T
<1>1. PICK n \in T : \A m \in T : <<m, n>> \notin OpToRel(<, Nat)
  BY WFMin, NatLessThanWellFounded
<1> QED BY <1>1 DEF OpToRel

-----------------------------------------------------------------------------
(* The civil calendar.                                                     *)

(* A year has 365 days, a leap year 366.                                   *)
LEMMA YearLength ==
  ASSUME NEW y \in Int
  PROVE  DaysBefore(y + 1) = DaysBefore(y) + (IF Leap(y) THEN 366 ELSE 365)
BY DEF DaysBefore, Leap

(* A year is over before a later one begins.                               *)
LEMMA YearsInOrder ==
  ASSUME NEW x \in Int, NEW y \in Int, x < y
  PROVE  DaysBefore(x + 1) <= DaysBefore(y)
BY DEF DaysBefore

(* The table of the months, entry by entry.                                *)
LEMMA Starting ==
  /\ MonthStarts[1] = 0 /\ MonthStarts[2] = 31 /\ MonthStarts[3] = 59 /\ MonthStarts[4] = 90
  /\ MonthStarts[5] = 120 /\ MonthStarts[6] = 151 /\ MonthStarts[7] = 181
  /\ MonthStarts[8] = 212 /\ MonthStarts[9] = 243 /\ MonthStarts[10] = 273
  /\ MonthStarts[11] = 304 /\ MonthStarts[12] = 334
BY DEF MonthStarts

(* Months 12 to 23 are those of the next year.                             *)
LEMMA DayNumberIs ==
  ASSUME NEW y \in Int, NEW m \in 0..11, NEW k \in Int
  PROVE  /\ DayNumber(y, m, k) = DaysBefore(y) + MonthStarts[m + 1]
                                 + (IF Leap(y) /\ m >= 2 THEN 1 ELSE 0) + k - 1
         /\ DayNumber(y, m + 12, k) = DayNumber(y + 1, m, k)
<1>1. m \div 12 = 0 /\ m % 12 = m /\ (m + 12) \div 12 = 1 /\ (m + 12) % 12 = m /\ y + 0 = y
  OBVIOUS
<1> QED BY <1>1 DEF DayNumber

(* The days of a month follow its first, over its end too.                 *)
LEMMA DayOfMonth ==
  ASSUME NEW y \in Int, NEW m \in 0..23, NEW k \in Int
  PROVE  /\ DayNumber(y, m, 1) \in Int
         /\ DayNumber(y, m, k) = DayNumber(y, m, 1) + k - 1
<1>1. PICK i \in 0..11 : m = i \/ m = i + 12
  <2>1. CASE m <= 11
    BY <2>1
  <2>2. CASE m > 11
    <3>1. m - 12 \in 0..11 /\ m = (m - 12) + 12
      BY <2>2
    <3> QED BY <3>1
  <2> QED BY <2>1, <2>2
<1>2. MonthStarts[i + 1] \in Int
  BY Starting
<1>3. ASSUME NEW z \in Int
      PROVE  DayNumber(z, i, 1) \in Int /\ DayNumber(z, i, k) = DayNumber(z, i, 1) + k - 1
  <2>1. DaysBefore(z) \in Int
    BY DEF DaysBefore
  <2>2. DayNumber(z, i, 1) = DaysBefore(z) + MonthStarts[i + 1]
                             + (IF Leap(z) /\ i >= 2 THEN 1 ELSE 0) + 1 - 1
    <3>1. 1 \in Int
      OBVIOUS
    <3> QED BY <3>1, DayNumberIs
  <2>3. DayNumber(z, i, k) = DaysBefore(z) + MonthStarts[i + 1]
                             + (IF Leap(z) /\ i >= 2 THEN 1 ELSE 0) + k - 1
    BY DayNumberIs
  <2> DEFINE s == IF Leap(z) /\ i >= 2 THEN 1 ELSE 0
  <2>4. s \in Int
    OBVIOUS
  <2> HIDE DEF s
  <2> QED BY <1>2, <2>1, <2>2, <2>3, <2>4 DEF s
<1>4. CASE m = i
  BY <1>3, <1>4
<1>5. CASE m = i + 12
  <2>1. y + 1 \in Int
    OBVIOUS
  <2>2. DayNumber(y, i + 12, k) = DayNumber(y + 1, i, k)
    BY DayNumberIs
  <2>3. DayNumber(y, i + 12, 1) = DayNumber(y + 1, i, 1)
    <3>1. 1 \in Int
      OBVIOUS
    <3> QED BY <3>1, DayNumberIs
  <2>4. DayNumber(y + 1, i, 1) \in Int
        /\ DayNumber(y + 1, i, k) = DayNumber(y + 1, i, 1) + k - 1
    BY <1>3, <2>1
  <2> QED BY <1>5, <2>2, <2>3, <2>4
<1> QED BY <1>1, <1>4, <1>5

(* The first of a month is a day number.                                   *)
LEMMA FirstIsInt ==
  ASSUME NEW y \in Int, NEW m \in 0..23
  PROVE  DayNumber(y, m, 1) \in Int
BY DayOfMonth, 1 \in Int

(* Where the months of a year begin. *)
LEMMA MonthsOfYear ==
  ASSUME NEW y \in Int
  PROVE  LET B == DaysBefore(y)
             s == IF Leap(y) THEN 1 ELSE 0
         IN  /\ DayNumber(y, 0, 1) = B           /\ DayNumber(y, 1, 1) = B + 31
             /\ DayNumber(y, 2, 1) = B + 59 + s  /\ DayNumber(y, 3, 1) = B + 90 + s
             /\ DayNumber(y, 4, 1) = B + 120 + s /\ DayNumber(y, 5, 1) = B + 151 + s
             /\ DayNumber(y, 6, 1) = B + 181 + s /\ DayNumber(y, 7, 1) = B + 212 + s
             /\ DayNumber(y, 8, 1) = B + 243 + s /\ DayNumber(y, 9, 1) = B + 273 + s
             /\ DayNumber(y, 10, 1) = B + 304 + s /\ DayNumber(y, 11, 1) = B + 334 + s
             /\ DayNumber(y, 12, 1) = B + 365 + s
             /\ DaysBefore(y + 1) = B + 365 + s
<1>1. DaysBefore(y) \in Int /\ y + 1 \in Int
  BY DEF DaysBefore
<1>2. \A m \in 0..11 :
        DayNumber(y, m, 1) = DaysBefore(y) + MonthStarts[m + 1]
                             + (IF Leap(y) /\ m >= 2 THEN 1 ELSE 0) + 1 - 1
  <2>1. 1 \in Int
    OBVIOUS
  <2> QED BY <2>1, DayNumberIs
<1>3. DayNumber(y, 0, 1) = DaysBefore(y)
  BY <1>1, <1>2, Starting
<1>4. DayNumber(y, 12, 1) = DaysBefore(y + 1)
  <2>1. DayNumber(y, 0 + 12, 1) = DayNumber(y + 1, 0, 1)
    BY DayNumberIs
  <2>2. DayNumber(y + 1, 0, 1) = DaysBefore(y + 1) + MonthStarts[0 + 1]
                                 + (IF Leap(y + 1) /\ 0 >= 2 THEN 1 ELSE 0) + 1 - 1
    BY <1>1, DayNumberIs
  <2>3. DaysBefore(y + 1) \in Int
    BY DEF DaysBefore
  <2> QED BY <2>1, <2>2, <2>3, Starting
<1>5. DaysBefore(y + 1) = DaysBefore(y) + 365 + (IF Leap(y) THEN 1 ELSE 0)
  BY <1>1, YearLength
<1> QED BY <1>1, <1>2, <1>3, <1>4, <1>5, Starting

(* A month has 28 to 31 days.                                              *)
LEMMA MonthLength ==
  ASSUME NEW y \in Int, NEW m \in 0..11
  PROVE  DayNumber(y, m + 1, 1) - DayNumber(y, m, 1) \in 28..31
<1>1. DaysBefore(y) \in Int
  BY DEF DaysBefore
<1>2. \/ m = 0 \/ m = 1 \/ m = 2 \/ m = 3 \/ m = 4 \/ m = 5
      \/ m = 6 \/ m = 7 \/ m = 8 \/ m = 9 \/ m = 10 \/ m = 11
  OBVIOUS
<1> QED BY <1>1, <1>2, MonthsOfYear

(* A month of a year is over before a later one begins.                    *)
LEMMA MonthsInOrder ==
  ASSUME NEW y \in Int, NEW m \in 0..11, NEW n \in 0..11, m < n
  PROVE  DayNumber(y, m + 1, 1) <= DayNumber(y, n, 1)
<1>1. DaysBefore(y) \in Int
  BY DEF DaysBefore
<1>2. \/ m = 0 \/ m = 1 \/ m = 2 \/ m = 3 \/ m = 4 \/ m = 5
      \/ m = 6 \/ m = 7 \/ m = 8 \/ m = 9 \/ m = 10
  OBVIOUS
<1>3. \/ n = 1 \/ n = 2 \/ n = 3 \/ n = 4 \/ n = 5
      \/ n = 6 \/ n = 7 \/ n = 8 \/ n = 9 \/ n = 10 \/ n = 11
  OBVIOUS
<1> DEFINE s == IF Leap(y) THEN 1 ELSE 0
<1>4. s \in 0..1
  OBVIOUS
<1> HIDE DEF s
<1> QED BY <1>1, <1>2, <1>3, <1>4, MonthsOfYear DEF s

(* Every month begins on a day of its year, and is over with it. *)
LEMMA MonthInYear ==
  ASSUME NEW y \in Int, NEW m \in 0..11
  PROVE  DaysBefore(y) <= DayNumber(y, m, 1) /\ DayNumber(y, m + 1, 1) <= DaysBefore(y + 1)
<1>1. DaysBefore(y) \in Int
  BY DEF DaysBefore
<1>2. \/ m = 0 \/ m = 1 \/ m = 2 \/ m = 3 \/ m = 4 \/ m = 5
      \/ m = 6 \/ m = 7 \/ m = 8 \/ m = 9 \/ m = 10 \/ m = 11
  OBVIOUS
<1> QED BY <1>1, <1>2, MonthsOfYear

(* Every day of a year is in one of its months.                            *)
LEMMA AMonth ==
  ASSUME NEW y \in Int, NEW d \in Int, DaysBefore(y) <= d, d < DaysBefore(y + 1)
  PROVE  \E m \in 0..11 : DayNumber(y, m, 1) <= d /\ d < DayNumber(y, m + 1, 1)
<1> DEFINE S(m) == DayNumber(y, m, 1)
<1>1. \A m \in 0..12 : S(m) \in Int
  <2>1. \A m \in 0..12 : m \in 0..23
    OBVIOUS
  <2> QED BY <2>1, FirstIsInt
<1>2. S(0) <= d /\ d < S(12)
  BY MonthsOfYear
<1> HIDE DEF S
<1> DEFINE Holds(m) == S(m) <= d /\ d < S(m + 1)
<1>3. \/ Holds(0) \/ Holds(1) \/ Holds(2) \/ Holds(3) \/ Holds(4)  \/ Holds(5)
      \/ Holds(6) \/ Holds(7) \/ Holds(8) \/ Holds(9) \/ Holds(10) \/ Holds(11)
  <2>1. /\ 0 + 1 = 1 /\ 1 + 1 = 2 /\ 2 + 1 = 3 /\ 3 + 1 = 4 /\ 4 + 1 = 5 /\ 5 + 1 = 6
        /\ 6 + 1 = 7 /\ 7 + 1 = 8 /\ 8 + 1 = 9 /\ 9 + 1 = 10 /\ 10 + 1 = 11 /\ 11 + 1 = 12
    OBVIOUS
  <2> QED BY <1>1, <1>2, <2>1
<1>4. \E m \in 0..11 : Holds(m)
  <2> HIDE DEF Holds
  <2> QED BY <1>3
<1> QED BY <1>4 DEF S

(* The civil day of a day number. *)
LEMMA CivilIs ==
  ASSUME NEW y \in Years, NEW m \in 0..11, NEW d \in Int,
         DayNumber(y, m, 1) <= d, d < DayNumber(y, m + 1, 1)
  PROVE  /\ d \in DayRange
         /\ Civil[d] = [year |-> y, mon |-> m, mday |-> d - DayNumber(y, m, 1) + 1,
                        wday |-> (d + 1) % 7]
<1>1. Years \subseteq Int
  BY CalendarAssumption
<1>2. \A z \in Years : DaysBefore(z) \in Int /\ DaysBefore(z + 1) \in Int
  BY <1>1 DEF DaysBefore
<1>3. DayNumber(y, m, 1) \in Int /\ DayNumber(y, m + 1, 1) \in Int
  <2>1. y \in Int /\ m \in 0..23 /\ m + 1 \in 0..23
    BY <1>1
  <2> QED BY <2>1, FirstIsInt
<1>4. DaysBefore(y) <= d /\ d < DaysBefore(y + 1)
  BY <1>1, <1>2, <1>3, MonthInYear
<1>5. d \in DayRange
  <2>1. d \in DaysBefore(y)..(DaysBefore(y + 1) - 1)
    BY <1>2, <1>4
  <2> QED BY <2>1 DEF DayRange
<1>6. \A z \in Years : DaysBefore(z) <= d /\ d < DaysBefore(z + 1) => z = y
  <2>1. \A z \in Years : z < y => DaysBefore(z + 1) <= DaysBefore(y)
    BY <1>1, YearsInOrder
  <2>2. \A z \in Years : y < z => DaysBefore(y + 1) <= DaysBefore(z)
    BY <1>1, YearsInOrder
  <2> QED BY <1>1, <1>2, <1>4, <2>1, <2>2
<1>7. \A n \in 0..11 : DayNumber(y, n, 1) <= d /\ d < DayNumber(y, n + 1, 1) => n = m
  <2>1. \A n \in 0..11 : n < m => DayNumber(y, n + 1, 1) <= DayNumber(y, m, 1)
    BY <1>1, MonthsInOrder
  <2>2. \A n \in 0..11 : m < n => DayNumber(y, m + 1, 1) <= DayNumber(y, n, 1)
    BY <1>1, MonthsInOrder
  <2>3. \A n \in 0..11 : DayNumber(y, n, 1) \in Int /\ DayNumber(y, n + 1, 1) \in Int
    <3>1. \A n \in 0..11 : n \in 0..23 /\ n + 1 \in 0..23
      OBVIOUS
    <3>2. y \in Int
      BY <1>1
    <3> QED BY <3>1, <3>2, FirstIsInt
  <2> QED BY <1>3, <2>1, <2>2, <2>3
<1>8. y = CHOOSE z \in Years : DaysBefore(z) <= d /\ d < DaysBefore(z + 1)
  BY <1>4, <1>6
<1>9. m = CHOOSE n \in 0..11 : DayNumber(y, n, 1) <= d /\ d < DayNumber(y, n + 1, 1)
  BY <1>7
<1> QED BY <1>5, <1>8, <1>9 DEF Civil

(* Every day of the calendar is in a month of one of the years.            *)
LEMMA CivilDay ==
  ASSUME NEW d \in DayRange
  PROVE  \E y \in Years, m \in 0..11 :
           DayNumber(y, m, 1) <= d /\ d < DayNumber(y, m + 1, 1)
<1>1. PICK y \in Years : d \in DaysBefore(y)..(DaysBefore(y + 1) - 1)
  BY DEF DayRange
<1>2. y \in Int /\ DaysBefore(y) \in Int /\ DaysBefore(y + 1) \in Int
  BY CalendarAssumption DEF DaysBefore
<1>3. d \in Int /\ DaysBefore(y) <= d /\ d < DaysBefore(y + 1)
  BY <1>1, <1>2
<1> QED BY <1>2, <1>3, AMonth

(* The years have no gaps, so neither have their days. *)
LEMMA DayInRange ==
  ASSUME NEW first \in Years, NEW last \in Years, Years = first..last,
         NEW d \in Int, DaysBefore(first) <= d, d < DaysBefore(last + 1)
  PROVE  d \in DayRange
<1>1. first \in Nat /\ last \in Nat /\ first <= last
  BY CalendarAssumption
<1>2. \A y \in Int : DaysBefore(y) \in Int
  BY DEF DaysBefore
<1> DEFINE T == {y \in first..last : d < DaysBefore(y + 1)}
<1>3. T \in SUBSET Nat /\ last \in T
  BY <1>1
<1>4. PICK y \in T : \A z \in Nat : z < y => z \notin T
  <2> HIDE DEF T
  <2> QED BY <1>3, LeastNumber
<1>5. y \in first..last /\ y \in Int /\ d < DaysBefore(y + 1)
  BY <1>1
<1>6. DaysBefore(y) <= d
  <2>1. CASE y = first
    BY <2>1
  <2>2. CASE y # first
    <3>1. y - 1 \in Nat /\ y - 1 < y /\ y - 1 \in first..last /\ (y - 1) + 1 = y
      BY <1>1, <1>5, <2>2
    <3>2. y - 1 \notin T
      BY <1>4, <3>1
    <3> QED BY <1>2, <1>5, <3>1, <3>2
  <2> QED BY <2>1, <2>2
<1>7. d \in DaysBefore(y)..(DaysBefore(y + 1) - 1)
  <2>1. DaysBefore(y) \in Int /\ DaysBefore(y + 1) \in Int
    BY <1>2, <1>5
  <2> QED BY <1>5, <1>6, <2>1
<1> QED BY <1>5, <1>7 DEF DayRange

-----------------------------------------------------------------------------
(* The local clock.                                                        *)

(* The instants a worker meets, and what its wait is computed from.        *)
ClockInv ==
  /\ zone \in Zones /\ plan \in Schedules
  /\ clock \in Int /\ clock <= Horizon /\ \E start \in Starts : start <= clock

(* A zone is at most 12 hours behind UTC and 14 ahead of it.               *)
LEMMA OffsetIs ==
  ASSUME zone \in Zones
  PROVE  /\ zone.before \in -12..14 /\ zone.after \in -12..14 /\ zone.at \in Nat
         /\ \A t \in Int : Offset(t) \in -12..14
<1>1. zone \in [before : -12..14, after : -12..14, at : Nat]
  BY CalendarAssumption
<1>2. zone.before \in -12..14 /\ zone.after \in -12..14 /\ zone.at \in Nat
  BY <1>1
<1> QED BY <1>2 DEF Offset

(* The local clock is the instant and its offset.                          *)
LEMMA LocalIs ==
  ASSUME zone \in Zones, NEW t \in Int
  PROVE  /\ LocalDay(t) \in Int /\ LocalHour(t) \in 0..23
         /\ t + Offset(t) = 24 * LocalDay(t) + LocalHour(t)
<1> DEFINE x == t + Offset(t)
<1>1. x \in Int
  BY OffsetIs
<1>2. LocalDay(t) = x \div 24 /\ LocalHour(t) = x % 24
  BY DEF LocalDay, LocalHour
<1> HIDE DEF x
<1>3. LocalDay(t) \in Int /\ LocalHour(t) \in 0..23 /\ x = 24 * LocalDay(t) + LocalHour(t)
  BY <1>1, <1>2
<1> QED BY <1>3 DEF x

(* Days and hours count as numbers with a digit of base 24 do. *)
LEMMA SameHour ==
  ASSUME NEW d \in Int, NEW h \in 0..23, NEW e \in Int, NEW i \in 0..23,
         24 * d + h = 24 * e + i
  PROVE  d = e /\ h = i
OBVIOUS

(* The local clock shows an hour of a day at one sum of both.              *)
LEMMA ShowsHour ==
  ASSUME zone \in Zones, NEW t \in Int, NEW d \in Int, NEW h \in 0..23
  PROVE  (LocalDay(t) = d /\ LocalHour(t) = h) <=> t + Offset(t) = 24 * d + h
<1>1. /\ LocalDay(t) \in Int /\ LocalHour(t) \in 0..23
      /\ t + Offset(t) = 24 * LocalDay(t) + LocalHour(t)
  BY LocalIs
<1>2. 24 * LocalDay(t) + LocalHour(t) = 24 * d + h => LocalDay(t) = d /\ LocalHour(t) = h
  BY <1>1, SameHour
<1> QED BY <1>1, <1>2

(* Two months before the clock and after it are days of the calendar. *)
LEMMA NearDays ==
  ASSUME ClockInv, NEW d \in Int, LocalDay(clock) - 75 <= d, d <= LocalDay(clock) + 75
  PROVE  d \in DayRange
<1>1. PICK first \in Years, last \in Years :
        /\ Years = first..last
        /\ Starts \subseteq (24 * (DaysBefore(first) + 80))..Horizon
        /\ Horizon + 24 * 80 <= 24 * DaysBefore(last + 1)
  BY YearsAssumption
<1>2. first \in Int /\ last \in Int /\ Horizon \in Int /\ clock \in Int
  BY CalendarAssumption DEF ClockInv
<1>3. DaysBefore(first) \in Int /\ DaysBefore(last + 1) \in Int
  BY <1>2 DEF DaysBefore
<1>4. clock <= Horizon /\ 24 * (DaysBefore(first) + 80) <= clock
  <2>1. PICK start \in Starts : start <= clock
    BY DEF ClockInv
  <2>2. start \in (24 * (DaysBefore(first) + 80))..Horizon /\ start \in Int
    BY <1>1, <1>2, <1>3
  <2> QED BY <1>2, <1>3, <2>1, <2>2 DEF ClockInv
<1>5. LocalDay(clock) \in Int /\ LocalHour(clock) \in 0..23 /\ Offset(clock) \in -12..14
      /\ clock + Offset(clock) = 24 * LocalDay(clock) + LocalHour(clock)
  <2>1. zone \in Zones
    BY DEF ClockInv
  <2>2. Offset(clock) \in -12..14
    BY <1>2, <2>1, OffsetIs
  <2> QED BY <1>2, <2>1, <2>2, LocalIs
<1>6. DaysBefore(first) <= d /\ d < DaysBefore(last + 1)
  <2> DEFINE F == DaysBefore(first)
             L == DaysBefore(last + 1)
             o == Offset(clock)
  <2>1. F \in Int /\ L \in Int /\ o \in -12..14 /\ 24 * (F + 80) <= clock
        /\ clock + o = 24 * LocalDay(clock) + LocalHour(clock)
        /\ Horizon + 24 * 80 <= 24 * L /\ clock <= Horizon
    BY <1>1, <1>3, <1>4, <1>5
  <2> HIDE DEF F, L, o
  <2>2. F + 79 <= LocalDay(clock)
    BY <1>2, <1>5, <2>1
  <2>3. LocalDay(clock) <= L - 79
    BY <1>2, <1>5, <2>1
  <2>4. F <= d /\ d < L
    BY <1>5, <2>1, <2>2, <2>3
  <2> QED BY <2>4 DEF F, L
<1> QED BY <1>1, <1>6, DayInRange

(* The instants at which a local time may be. *)
Guesses(d, h) == {24 * d + h - zone.before, 24 * d + h - zone.after}

(* tz_mktime yields one of the guesses, and only those can be right.       *)
LEMMA ReadingsAre ==
  ASSUME zone \in Zones, NEW d \in Int, NEW h \in 0..23
  PROVE  /\ Guesses(d, h) \subseteq Int
         /\ Readings(d, h) = {t \in Guesses(d, h) : t + Offset(t) = 24 * d + h}
         /\ TzMktime(d, h) \subseteq Guesses(d, h)
<1>1. \A t \in Guesses(d, h) : t \in Int
  BY OffsetIs DEF Guesses
<1>2. \A t \in Guesses(d, h) : (LocalDay(t) = d /\ LocalHour(t) = h) <=> t + Offset(t) = 24 * d + h
  BY <1>1, ShowsHour
<1>3. Readings(d, h) = {t \in Guesses(d, h) : LocalDay(t) = d /\ LocalHour(t) = h}
  BY DEF Readings, Guesses
<1>4. TzMktime(d, h) \subseteq Guesses(d, h)
  BY <1>3 DEF TzMktime, Guesses
<1> QED BY <1>1, <1>2, <1>3, <1>4

(* A local time that occurs once splits time in two: before its instant    *)
(* the local clock shows less, after it more.                              *)
LEMMA OnceSplits ==
  ASSUME zone \in Zones, NEW d \in Int, NEW h \in 0..23, Cardinality(Readings(d, h)) = 1
  PROVE  \E r \in Int :
           /\ Readings(d, h) = {r} /\ TzMktime(d, h) = {r} /\ r \in Guesses(d, h)
           /\ LocalDay(r) = d /\ LocalHour(r) = h
           /\ \A t \in Int : t < r => t + Offset(t) < 24 * d + h
           /\ \A t \in Int : t > r => t + Offset(t) > 24 * d + h
<1>1. IsFiniteSet(Guesses(d, h))
  <2>1. Guesses(d, h) = {24 * d + h - zone.before} \cup {24 * d + h - zone.after}
    BY DEF Guesses
  <2>2. IsFiniteSet({24 * d + h - zone.before}) /\ IsFiniteSet({24 * d + h - zone.after})
    BY FS_Singleton
  <2>3. IsFiniteSet({24 * d + h - zone.before} \cup {24 * d + h - zone.after})
    BY <2>2, FS_Union
  <2> QED BY <2>1, <2>3
<1>2. Readings(d, h) \subseteq Guesses(d, h)
  BY ReadingsAre
<1>3. PICK r : Readings(d, h) = {r}
  <2>1. IsFiniteSet(Readings(d, h))
    BY <1>1, <1>2, FS_Subset
  <2> QED BY <2>1, FS_Singleton
<1>4. r \in Guesses(d, h) /\ r \in Int /\ r + Offset(r) = 24 * d + h
  <2>1. r \in Readings(d, h)
    BY <1>3
  <2> QED BY <2>1, ReadingsAre
<1>5. \A t \in Guesses(d, h) : t + Offset(t) = 24 * d + h => t = r
  BY <1>3, ReadingsAre
<1>6. TzMktime(d, h) = {r}
  BY <1>3 DEF TzMktime
<1>7. LocalDay(r) = d /\ LocalHour(r) = h
  BY <1>4, ShowsHour
<1> DEFINE x == 24 * d + h
<1>8. zone.before \in Int /\ zone.after \in Int /\ zone.at \in Int /\ x \in Int
  BY OffsetIs
<1>9. (x - zone.before) \in Guesses(d, h) /\ (x - zone.after) \in Guesses(d, h)
  BY <1>8 DEF Guesses
<1>10. x - zone.before < zone.at => x - zone.before = r
  <2>1. SUFFICES ASSUME x - zone.before < zone.at PROVE x - zone.before = r
    OBVIOUS
  <2>2. Offset(x - zone.before) = zone.before
    BY <2>1 DEF Offset
  <2>3. (x - zone.before) + Offset(x - zone.before) = x
    BY <1>8, <2>2
  <2> QED BY <1>5, <1>9, <2>3
<1>11. x - zone.after >= zone.at => x - zone.after = r
  <2>1. SUFFICES ASSUME x - zone.after >= zone.at PROVE x - zone.after = r
    OBVIOUS
  <2>2. Offset(x - zone.after) = zone.after
    BY <1>8, <2>1 DEF Offset
  <2>3. (x - zone.after) + Offset(x - zone.after) = x
    BY <1>8, <2>2
  <2> QED BY <1>5, <1>9, <2>3
<1>12. r + Offset(r) = x
  BY <1>4
<1> HIDE DEF x
<1>13. ASSUME NEW t \in Int
       PROVE  (t < r => t + Offset(t) < x) /\ (t > r => t + Offset(t) > x)
  BY <1>4, <1>8, <1>10, <1>11, <1>12 DEF Offset
<1> QED BY <1>3, <1>4, <1>6, <1>7, <1>13 DEF x

-----------------------------------------------------------------------------
(* The days a schedule tries.                                              *)

(* A civil day is of the month its number falls into.                      *)
LEMMA InMonth ==
  ASSUME NEW y \in Years, NEW m \in 0..11, NEW d \in DayRange
  PROVE  /\ (Civil[d].year = y /\ Civil[d].mon = m)
              <=> (DayNumber(y, m, 1) <= d /\ d < DayNumber(y, m + 1, 1))
         /\ DayNumber(y, m, 1) <= d /\ d < DayNumber(y, m + 1, 1)
              => Civil[d].mday = d - DayNumber(y, m, 1) + 1
         /\ Civil[d].wday = (d + 1) % 7
<1>1. d \in Int
  BY CalendarAssumption DEF DayRange, DaysBefore
<1>2. PICK z \in Years, n \in 0..11 : DayNumber(z, n, 1) <= d /\ d < DayNumber(z, n + 1, 1)
  BY CivilDay
<1>3. Civil[d] = [year |-> z, mon |-> n, mday |-> d - DayNumber(z, n, 1) + 1, wday |-> (d + 1) % 7]
  BY <1>1, <1>2, CivilIs
<1>4. CASE DayNumber(y, m, 1) <= d /\ d < DayNumber(y, m + 1, 1)
  <2>1. Civil[d] = [year |-> y, mon |-> m, mday |-> d - DayNumber(y, m, 1) + 1,
                    wday |-> (d + 1) % 7]
    BY <1>1, <1>4, CivilIs
  <2> QED BY <1>4, <2>1
<1>5. CASE ~(DayNumber(y, m, 1) <= d /\ d < DayNumber(y, m + 1, 1))
  <2>1. ~(Civil[d].year = y /\ Civil[d].mon = m)
    BY <1>2, <1>3, <1>5
  <2> QED BY <1>3, <1>5, <2>1
<1> QED BY <1>4, <1>5

(* A month is followed by a month of its year, or by the first of the next. *)
LEMMA NextMonth ==
  ASSUME NEW y \in Years, NEW m \in 0..11, DayNumber(y, m + 1, 1) \in DayRange
  PROVE  \E z \in Years, n \in 0..11 :
           \A k \in Int : /\ DayNumber(z, n, k) = DayNumber(y, m + 1, k)
                          /\ DayNumber(z, n + 1, k) = DayNumber(y, m + 2, k)
<1>1. y \in Int /\ y + 1 \in Int /\ \A z \in Years : z \in Int
  BY CalendarAssumption
<1>2. CASE m < 11
  <2>1. m + 1 \in 0..11 /\ (m + 1) + 1 = m + 2
    BY <1>2
  <2> QED BY <2>1
<1>3. CASE m = 11
  <2>1. DayNumber(y, 12, 1) = DaysBefore(y + 1)
    BY <1>1, MonthsOfYear
  <2>2. PICK z \in Years : DayNumber(y, m + 1, 1) \in DaysBefore(z)..(DaysBefore(z + 1) - 1)
    BY DEF DayRange
  <2>3. \A x \in Int : DaysBefore(x) \in Int
    BY DEF DaysBefore
  <2>4. DaysBefore(z) <= DaysBefore(y + 1) /\ DaysBefore(y + 1) < DaysBefore(z + 1)
    <3>1. m + 1 = 12 /\ z + 1 \in Int /\ z \in Int
      BY <1>1, <1>3
    <3> QED BY <1>1, <2>1, <2>2, <2>3, <3>1
  <2>5. z = y + 1
    <3>1. ~(z < y + 1)
      <4>1. z < y + 1 => DaysBefore(z + 1) <= DaysBefore(y + 1)
        BY <1>1, YearsInOrder
      <4>2. z + 1 \in Int
        BY <1>1
      <4> QED BY <1>1, <2>3, <2>4, <4>1, <4>2
    <3>2. ~(y + 1 < z)
      <4>1. y + 1 < z => DaysBefore((y + 1) + 1) <= DaysBefore(z)
        BY <1>1, YearsInOrder
      <4>2. DaysBefore((y + 1) + 1) > DaysBefore(y + 1)
        BY <1>1, <2>3, YearLength
      <4>3. (y + 1) + 1 \in Int
        BY <1>1
      <4> QED BY <1>1, <2>3, <2>4, <4>1, <4>2, <4>3
    <3> QED BY <1>1, <3>1, <3>2
  <2>6. \A k \in Int : DayNumber(y, 0 + 12, k) = DayNumber(y + 1, 0, k)
                       /\ DayNumber(y, 1 + 12, k) = DayNumber(y + 1, 1, k)
    <3>1. 0 \in 0..11 /\ 1 \in 0..11
      OBVIOUS
    <3> QED BY <1>1, <3>1, DayNumberIs
  <2>7. 0 \in 0..11 /\ m + 1 = 0 + 12 /\ m + 2 = 1 + 12 /\ 0 + 1 = 1
    BY <1>3
  <2> QED BY <2>5, <2>6, <2>7
<1> QED BY <1>2, <1>3

(* The month of a day and the month after it. *)
LEMMA TwoMonths ==
  ASSUME ClockInv
  PROVE  LET D  == LocalDay(clock)
             tm == LocalTm(clock)
             A  == DayNumber(tm.year, tm.mon, 1)
             B  == DayNumber(tm.year, tm.mon + 1, 1)
             C  == DayNumber(tm.year, tm.mon + 2, 1)
         IN  /\ tm.year \in Years /\ tm.mon \in 0..11
             /\ A \in Int /\ B \in Int /\ C \in Int /\ D \in Int
             /\ A <= D /\ D < B
             /\ B - A \in 28..31 /\ C - B \in 28..31
             /\ tm.mday = D - A + 1 /\ tm.wday = (D + 1) % 7
             /\ \A d \in DayRange : Civil[d].year = tm.year /\ Civil[d].mon = tm.mon
                                      <=> A <= d /\ d < B
             /\ \A d \in DayRange : A <= d /\ d < B => Civil[d].mday = d - A + 1
             /\ \A d \in DayRange : B <= d /\ d < C => Civil[d].mday = d - B + 1
             /\ Civil[C].mday = 1
<1> DEFINE D == LocalDay(clock)
           tm == LocalTm(clock)
           A == DayNumber(tm.year, tm.mon, 1)
           B == DayNumber(tm.year, tm.mon + 1, 1)
           C == DayNumber(tm.year, tm.mon + 2, 1)
<1>1. D \in Int
  BY LocalIs DEF ClockInv
<1>2. D \in DayRange
  BY <1>1, NearDays
<1>3. PICK y \in Years, m \in 0..11 : DayNumber(y, m, 1) <= D /\ D < DayNumber(y, m + 1, 1)
  <2> HIDE DEF D
  <2> QED BY <1>2, CivilDay
<1>4. tm = [year |-> y, mon |-> m, mday |-> D - DayNumber(y, m, 1) + 1, wday |-> (D + 1) % 7]
  <2>1. tm = Civil[D]
    BY DEF LocalTm
  <2> HIDE DEF D, tm
  <2> QED BY <1>1, <1>3, <2>1, CivilIs
<1>5. tm.year = y /\ tm.mon = m /\ tm.mday = D - A + 1 /\ tm.wday = (D + 1) % 7
  <2> HIDE DEF D, tm
  <2> QED BY <1>4
<1> HIDE DEF tm
<1>6. A \in Int /\ B \in Int /\ C \in Int
  <2>1. y \in Int /\ m \in 0..23 /\ m + 1 \in 0..23 /\ m + 2 \in 0..23
    BY CalendarAssumption
  <2> QED BY <1>5, <2>1, FirstIsInt
<1>7. A <= D /\ D < B
  BY <1>3, <1>5
<1>8. B - A \in 28..31
  <2>1. y \in Int
    BY CalendarAssumption
  <2> QED BY <1>5, <2>1, MonthLength
<1>9. B \in DayRange
  <2> HIDE DEF A, B
  <2>1. D - 75 <= B /\ B <= D + 75
    BY <1>1, <1>6, <1>7, <1>8
  <2> QED BY <1>6, <2>1, NearDays
<1>10. PICK z \in Years, n \in 0..11 : DayNumber(z, n, 1) = B /\ DayNumber(z, n + 1, 1) = C
  <2>1. DayNumber(y, m + 1, 1) \in DayRange
    BY <1>5, <1>9
  <2>2. 1 \in Int
    OBVIOUS
  <2> QED BY <1>5, <2>1, <2>2, NextMonth
<1>11. C - B \in 28..31
  <2>1. z \in Int
    BY CalendarAssumption
  <2> QED BY <1>10, <2>1, MonthLength
<1>12. \A d \in DayRange : /\ Civil[d].year = y /\ Civil[d].mon = m <=> A <= d /\ d < B
                           /\ A <= d /\ d < B => Civil[d].mday = d - A + 1
  BY <1>5, InMonth
<1>13. \A d \in DayRange : B <= d /\ d < C => Civil[d].mday = d - B + 1
  BY <1>10, InMonth
<1>14. Civil[C].mday = 1
  <2>1. C \in DayRange
    <3> HIDE DEF A, B, C
    <3>1. D - 75 <= C /\ C <= D + 75
      BY <1>1, <1>6, <1>7, <1>8, <1>11
    <3> QED BY <1>6, <3>1, NearDays
  <2>2. PICK x \in Years, i \in 0..11 :
          DayNumber(x, i, 1) = C /\ DayNumber(x, i + 1, 1) = DayNumber(z, n + 2, 1)
    <3>1. DayNumber(z, n + 1, 1) \in DayRange
      BY <1>10, <2>1
    <3>2. PICK x \in Years, i \in 0..11 :
            \A k \in Int : /\ DayNumber(x, i, k) = DayNumber(z, n + 1, k)
                           /\ DayNumber(x, i + 1, k) = DayNumber(z, n + 2, k)
      BY <3>1, NextMonth
    <3>3. 1 \in Int
      OBVIOUS
    <3> QED BY <1>10, <3>2, <3>3
  <2>3. DayNumber(x, i + 1, 1) - C \in 28..31
    <3>1. x \in Int
      BY CalendarAssumption
    <3> QED BY <2>2, <3>1, MonthLength
  <2>4. DayNumber(x, i + 1, 1) \in Int
    <3>1. x \in Int /\ i + 1 \in 0..23
      BY CalendarAssumption
    <3> QED BY <3>1, FirstIsInt
  <2> HIDE DEF C
  <2>5. DayNumber(x, i, 1) <= C /\ C < DayNumber(x, i + 1, 1)
    BY <1>6, <2>2, <2>3, <2>4
  <2>6. Civil[C].mday = C - DayNumber(x, i, 1) + 1
    BY <2>1, <2>5, InMonth
  <2> QED BY <1>6, <2>2, <2>6
<1> QED BY <1>1, <1>5, <1>6, <1>7, <1>8, <1>11, <1>12, <1>13, <1>14 DEF tm

(* A day that is tried first and one that is tried next, with the days a   *)
(* schedule means: of those from today on, none but the first comes before *)
(* the second.                                                             *)
TwoTries(D, d1, d2) ==
  /\ D - 31 <= d1 /\ d1 < d2 /\ D < d2 /\ d2 <= D + 62
  /\ Meant(d1) /\ Meant(d2)
  /\ \A d \in D..d2 : Meant(d) => d \in {d1, d2}

(* What mktime makes of a day of this month and of the next two.           *)
LEMMA DayOfThisMonth ==
  ASSUME ClockInv, NEW k \in Int
  PROVE  LET tm == LocalTm(clock)
         IN  /\ DayNumber(tm.year, tm.mon, k) = DayNumber(tm.year, tm.mon, 1) + k - 1
             /\ DayNumber(tm.year, tm.mon + 1, k) = DayNumber(tm.year, tm.mon + 1, 1) + k - 1
             /\ DayNumber(tm.year, tm.mon + 2, k) = DayNumber(tm.year, tm.mon + 2, 1) + k - 1
<1> DEFINE tm == LocalTm(clock)
<1>1. tm.year \in Years /\ tm.mon \in 0..11
  BY TwoMonths
<1> HIDE DEF tm
<1>2. tm.year \in Int
  <2>1. Years \subseteq Int
    BY CalendarAssumption
  <2> QED BY <1>1, <2>1
<1>3. tm.mon \in 0..23 /\ tm.mon + 1 \in 0..23 /\ tm.mon + 2 \in 0..23
  BY <1>1
<1>4. \A m \in 0..23 : DayNumber(tm.year, m, k) = DayNumber(tm.year, m, 1) + k - 1
  BY <1>2, DayOfMonth
<1> QED BY <1>3, <1>4 DEF tm

(* Today and tomorrow.                                                     *)
LEMMA NightlyTries ==
  ASSUME ClockInv, plan.kind = "nightly"
  PROVE  \E d1, d2 \in Int : Try(clock) = <<d1, d2>> /\ TwoTries(LocalDay(clock), d1, d2)
<1> DEFINE D  == LocalDay(clock)
           tm == LocalTm(clock)
           A  == DayNumber(tm.year, tm.mon, 1)
<1>1. D \in Int /\ A \in Int /\ tm.mday = D - A + 1
  BY TwoMonths
<1>2. tm.mday \in Int /\ tm.mday + 1 \in Int
  <2> HIDE DEF D, tm, A
  <2> QED BY <1>1
<1>3. /\ DayNumber(tm.year, tm.mon, tm.mday) = A + tm.mday - 1
      /\ DayNumber(tm.year, tm.mon, tm.mday + 1) = A + (tm.mday + 1) - 1
  BY <1>2, DayOfThisMonth
<1>4. Try(clock) = << DayNumber(tm.year, tm.mon, tm.mday), DayNumber(tm.year, tm.mon, tm.mday + 1) >>
  BY DEF Try, TryNightly
<1>5. \A d : Meant(d)
  BY DEF Meant
<1> HIDE DEF D, tm, A
<1>6. Try(clock) = <<D, D + 1>>
  BY <1>1, <1>3, <1>4
<1>7. TwoTries(D, D, D + 1)
  BY <1>1, <1>5 DEF TwoTries
<1>8. D + 1 \in Int
  BY <1>1
<1> QED BY <1>1, <1>6, <1>7, <1>8 DEF D

(* The next such weekday, today included, and the one after it.            *)
LEMMA WeeklyTries ==
  ASSUME ClockInv, plan.kind = "weekly"
  PROVE  \E d1, d2 \in Int : Try(clock) = <<d1, d2>> /\ TwoTries(LocalDay(clock), d1, d2)
<1> DEFINE D     == LocalDay(clock)
           tm    == LocalTm(clock)
           A     == DayNumber(tm.year, tm.mon, 1)
           wday  == IF plan.day < 0 THEN 0 ELSE IF plan.day > 6 THEN 6 ELSE plan.day
           delta == (wday - tm.wday + 7) % 7
<1>1. D \in Int /\ A \in Int /\ tm.mday = D - A + 1 /\ tm.wday = (D + 1) % 7
  BY TwoMonths
<1>2. plan.day \in Int
  BY CalendarAssumption DEF ClockInv
<1>3. wday \in 0..6
  BY <1>2
<1>4. \A d \in DayRange : Meant(d) <=> (d + 1) % 7 = wday
  <2>1. \A d \in DayRange : Civil[d].wday = (d + 1) % 7
    <3>1. tm.year \in Years /\ tm.mon \in 0..11
      BY TwoMonths
    <3> QED BY <3>1, InMonth
  <2>2. \A d \in DayRange : d \in Int /\ d + 1 \in Int
    BY CalendarAssumption DEF DayRange, DaysBefore
  <2>3. \A d \in DayRange : (d + 1) % 7 \in 0..6
    BY <2>2
  <2> QED BY <1>2, <2>1, <2>3 DEF Meant
<1>5. Try(clock) = << DayNumber(tm.year, tm.mon, tm.mday + delta),
                      DayNumber(tm.year, tm.mon, tm.mday + delta + 7) >>
  BY DEF Try, TryWeekly
<1> HIDE DEF D, tm, A, wday
<1>6. delta \in 0..6 /\ (D + delta + 1) % 7 = wday
  BY <1>1, <1>3
<1> HIDE DEF delta
<1>7. tm.mday + delta \in Int /\ tm.mday + delta + 7 \in Int
  BY <1>1, <1>6
<1>8. /\ DayNumber(tm.year, tm.mon, tm.mday + delta) = A + (tm.mday + delta) - 1
      /\ DayNumber(tm.year, tm.mon, tm.mday + delta + 7) = A + (tm.mday + delta + 7) - 1
  BY <1>7, DayOfThisMonth DEF tm, A
<1>9. Try(clock) = <<D + delta, D + delta + 7>>
  BY <1>1, <1>5, <1>6, <1>8
<1>10. \A d \in D..(D + 62) : d \in DayRange
  <2>1. \A d \in Int : D - 75 <= d /\ d <= D + 75 => d \in DayRange
    BY NearDays DEF D
  <2> QED BY <1>1, <2>1
<1>11. (D + delta + 7 + 1) % 7 = wday
  BY <1>1, <1>6
<1>12. \A d \in D..(D + delta + 7) : (d + 1) % 7 = wday => d \in {D + delta, D + delta + 7}
  BY <1>1, <1>3, <1>6
<1>13. TwoTries(D, D + delta, D + delta + 7)
  <2>1. D + delta \in D..(D + 62) /\ D + delta + 7 \in D..(D + 62)
    BY <1>1, <1>6
  <2>2. Meant(D + delta) /\ Meant(D + delta + 7)
    BY <1>4, <1>6, <1>10, <1>11, <2>1
  <2>3. \A d \in D..(D + delta + 7) : d \in D..(D + 62)
    BY <1>1, <1>6
  <2>4. \A d \in D..(D + delta + 7) : Meant(d) => d \in {D + delta, D + delta + 7}
    BY <1>4, <1>10, <1>12, <2>3
  <2> QED BY <1>1, <1>6, <2>2, <2>4 DEF TwoTries
<1>14. D + delta \in Int /\ D + delta + 7 \in Int
  BY <1>1, <1>6
<1> QED BY <1>9, <1>13, <1>14 DEF D

(* The day in this month and in the next, or the ends of both.             *)
LEMMA MonthlyTries ==
  ASSUME ClockInv, plan.kind = "monthly"
  PROVE  \E d1, d2 \in Int : Try(clock) = <<d1, d2>> /\ TwoTries(LocalDay(clock), d1, d2)
<1> DEFINE D  == LocalDay(clock)
           tm == LocalTm(clock)
           A  == DayNumber(tm.year, tm.mon, 1)
           B  == DayNumber(tm.year, tm.mon + 1, 1)
           C  == DayNumber(tm.year, tm.mon + 2, 1)
<1>1. /\ D \in Int /\ A \in Int /\ B \in Int /\ C \in Int
      /\ A <= D /\ D < B /\ B - A \in 28..31 /\ C - B \in 28..31
  BY TwoMonths
<1>2. \A d \in DayRange : /\ A <= d /\ d < B => Civil[d].mday = d - A + 1
                          /\ B <= d /\ d < C => Civil[d].mday = d - B + 1
  BY TwoMonths
<1>3. plan.day \in Int
  BY CalendarAssumption DEF ClockInv
<1>4. \A d \in Int : D - 75 <= d /\ d <= D + 75 => d \in DayRange
  BY NearDays
<1>5. \A d \in A..C : d \in DayRange
  <2> HIDE DEF A, B, C, D
  <2> QED BY <1>1, <1>4
<1>6. Civil[C].mday = 1
  BY TwoMonths
<1>7. CASE plan.day <= 0
  <2>1. Try(clock) = << DayNumber(tm.year, tm.mon + 1, 0), DayNumber(tm.year, tm.mon + 2, 0) >>
    BY <1>7 DEF Try, TryMonthly
  <2>2. DayNumber(tm.year, tm.mon + 1, 0) = B + 0 - 1 /\ DayNumber(tm.year, tm.mon + 2, 0) = C + 0 - 1
    <3>1. 0 \in Int
      OBVIOUS
    <3> QED BY <3>1, DayOfThisMonth
  <2> HIDE DEF D, tm, A, B, C
  <2>3. \A d \in A..(C - 1) : Meant(d) <=> Civil[d + 1].mday = 1
    <3>1. \A d \in A..(C - 1) : d \in A..C /\ Civil[d].mday >= 1
      <4>1. \A d \in A..(C - 1) : d \in A..C /\ d \in Int /\ A <= d /\ d < C
        BY <1>1
      <4>2. \A d \in A..(C - 1) : d < B \/ B <= d
        BY <1>1, <4>1
      <4>3. \A d \in A..(C - 1) : \/ Civil[d].mday = d - A + 1
                                  \/ B <= d /\ Civil[d].mday = d - B + 1
        BY <1>2, <1>5, <4>1, <4>2
      <4> QED BY <1>1, <4>1, <4>3
    <3> QED BY <1>3, <1>7, <3>1 DEF Meant
  <2>4. Try(clock) = <<B - 1, C - 1>>
    BY <1>1, <2>1, <2>2
  <2>5. Civil[B].mday = 1
    <3>1. B \in A..C /\ B < C
      BY <1>1
    <3>2. Civil[B].mday = B - B + 1
      BY <1>1, <1>2, <1>5, <3>1
    <3> QED BY <1>1, <3>2
  <2>6. Meant(B - 1) /\ Meant(C - 1)
    <3>1. (B - 1) + 1 = B /\ (C - 1) + 1 = C /\ B - 1 \in A..(C - 1) /\ C - 1 \in A..(C - 1)
      BY <1>1
    <3> QED BY <1>6, <2>3, <2>5, <3>1
  <2>7. ASSUME NEW d \in D..(C - 1), Meant(d) PROVE d \in {B - 1, C - 1}
    <3>1. d + 1 \in A..C /\ d \in Int /\ A < d + 1 /\ d \in A..(C - 1)
      BY <1>1
    <3>2. Civil[d + 1].mday = 1 /\ d + 1 \in DayRange
      BY <1>5, <2>3, <2>7, <3>1
    <3>3. d + 1 = B \/ d + 1 = C
      BY <1>1, <1>2, <3>1, <3>2
    <3> QED BY <1>1, <3>1, <3>3
  <2>8. TwoTries(D, B - 1, C - 1)
    BY <1>1, <2>6, <2>7 DEF TwoTries
  <2>9. B - 1 \in Int /\ C - 1 \in Int
    BY <1>1
  <2> QED BY <2>4, <2>8, <2>9 DEF D
<1>8. CASE plan.day > 0
  <2> DEFINE k == IF plan.day > 28 THEN 28 ELSE plan.day
  <2>1. Try(clock) = << DayNumber(tm.year, tm.mon, k), DayNumber(tm.year, tm.mon + 1, k) >>
    BY <1>3, <1>8 DEF Try, TryMonthly
  <2>2. k \in 1..28 /\ k \in Int
    BY <1>3, <1>8
  <2>3. \A d : Meant(d) <=> Civil[d].mday = k
    BY <1>3, <1>8 DEF Meant
  <2> HIDE DEF k
  <2>4. DayNumber(tm.year, tm.mon, k) = A + k - 1 /\ DayNumber(tm.year, tm.mon + 1, k) = B + k - 1
    BY <2>2, DayOfThisMonth
  <2> HIDE DEF D, tm, A, B, C
  <2>5. Try(clock) = <<A + k - 1, B + k - 1>>
    BY <2>1, <2>4
  <2>6. A + k - 1 \in A..C /\ A + k - 1 < B /\ B + k - 1 \in A..C /\ B + k - 1 < C
    BY <1>1, <2>2
  <2>7. Meant(A + k - 1) /\ Meant(B + k - 1)
    <3>1. Civil[A + k - 1].mday = (A + k - 1) - A + 1
      BY <1>1, <1>2, <1>5, <2>2, <2>6
    <3>2. Civil[B + k - 1].mday = (B + k - 1) - B + 1
      BY <1>1, <1>2, <1>5, <2>2, <2>6
    <3> QED BY <1>1, <2>2, <2>3, <3>1, <3>2
  <2>8. ASSUME NEW d \in D..(B + k - 1), Meant(d) PROVE d \in {A + k - 1, B + k - 1}
    <3>1. d \in A..C /\ d \in Int /\ d < C
      BY <1>1, <2>2, <2>6
    <3>2. Civil[d].mday = k /\ d \in DayRange
      BY <1>5, <2>3, <2>8, <3>1
    <3>3. d < B => k = d - A + 1
      BY <1>1, <1>2, <3>1, <3>2
    <3>4. B <= d => k = d - B + 1
      BY <1>1, <1>2, <3>1, <3>2
    <3> QED BY <1>1, <2>2, <3>1, <3>3, <3>4
  <2>9. TwoTries(D, A + k - 1, B + k - 1)
    BY <1>1, <2>2, <2>7, <2>8 DEF TwoTries
  <2>10. A + k - 1 \in Int /\ B + k - 1 \in Int
    BY <1>1, <2>2
  <2> QED BY <2>5, <2>9, <2>10 DEF D
<1> QED BY <1>3, <1>7, <1>8

(* Each kind of schedule tries the days it means.                          *)
LEMMA Tries ==
  ASSUME ClockInv
  PROVE  \E d1, d2 \in Int : Try(clock) = <<d1, d2>> /\ TwoTries(LocalDay(clock), d1, d2)
<1>1. plan.kind \in {"nightly", "weekly", "monthly"}
  BY CalendarAssumption DEF ClockInv
<1> QED BY <1>1, NightlyTries, WeeklyTries, MonthlyTries

-----------------------------------------------------------------------------
(* The worker.                                                             *)

(* What a wait was computed from still stands, for as long as it lasts.    *)
WaitInv ==
  phase = "wait" =>
    /\ asked = clock
    /\ \E run \in NextRuns(clock) : due = IF run - clock < 1 THEN clock + 1 ELSE run
    /\ odd = \E i \in 1..2 : Cardinality(Readings(Try(clock)[i], ParseHhmm(plan.time))) # 1

CalendarInv == ClockInv /\ phase \in {"compute", "wait"} /\ WaitInv

(* Whatever the row holds, an hour of the day is scheduled.                *)
LEMMA HourIs == ParseHhmm(plan.time) \in 0..23
BY DEF ParseHhmm

(* What is next is a future first try, or a second one after a past first. *)
LEMMA NextIs ==
  ASSUME ClockInv, NEW run \in NextRuns(clock), NEW d1 \in Int, NEW d2 \in Int,
         Try(clock) = <<d1, d2>>
  PROVE  LET h == ParseHhmm(plan.time)
         IN  \/ run \in TzMktime(d1, h) /\ run > clock
             \/ run \in TzMktime(d2, h) /\ \E c \in TzMktime(d1, h) : c <= clock
<1>1. Try(clock)[1] = d1 /\ Try(clock)[2] = d2
  OBVIOUS
<1> QED BY <1>1 DEF NextRuns, FirstAfter

(* A wait ends after it begins.                                            *)
LEMMA DueAhead ==
  ASSUME ClockInv, WaitInv, phase = "wait"
  PROVE  due \in Int /\ due > clock
<1> DEFINE h == ParseHhmm(plan.time)
<1>1. h \in 0..23 /\ zone \in Zones /\ clock \in Int
  BY HourIs DEF ClockInv
<1>2. PICK run \in NextRuns(clock) : due = IF run - clock < 1 THEN clock + 1 ELSE run
  BY DEF WaitInv
<1>3. PICK d1 \in Int, d2 \in Int : Try(clock) = <<d1, d2>>
  BY Tries
<1>4. run \in TzMktime(d1, h) \/ run \in TzMktime(d2, h)
  BY <1>3, NextIs
<1> HIDE DEF h
<1>5. run \in Int
  BY <1>1, <1>4, ReadingsAre
<1> QED BY <1>1, <1>2, <1>5

(* A step that leaves the zone and the schedule alone leaves the local     *)
(* clock alone.                                                            *)
LEMMA SameClock ==
  ASSUME UNCHANGED <<zone, plan>>
  PROVE  /\ \A t : Offset(t)' = Offset(t) /\ LocalDay(t)' = LocalDay(t)
         /\ \A d, h : Readings(d, h)' = Readings(d, h)
         /\ clock' = clock => Try(clock)' = Try(clock) /\ NextRuns(clock)' = NextRuns(clock)
<1>1. zone' = zone /\ plan' = plan
  OBVIOUS
<1>2. \A t : Offset(t)' = Offset(t)
  BY <1>1 DEF Offset
<1>3. \A t : LocalDay(t)' = LocalDay(t) /\ LocalHour(t)' = LocalHour(t)
  BY <1>2 DEF LocalDay, LocalHour
<1>4. \A d, h : Readings(d, h)' = Readings(d, h)
  BY <1>1, <1>3 DEF Readings
<1>5. \A d, h : TzMktime(d, h)' = TzMktime(d, h)
  BY <1>1, <1>4 DEF TzMktime
<1>6. clock' = clock => Try(clock)' = Try(clock)
  <2>1. SUFFICES ASSUME clock' = clock PROVE Try(clock)' = Try(clock)
    OBVIOUS
  <2>2. LocalDay(clock)' = LocalDay(clock)
    BY <1>3, <2>1
  <2>3. LocalTm(clock)' = LocalTm(clock)
    BY <2>2 DEF LocalTm
  <2> QED BY <1>1, <2>3 DEF Try
<1>7. clock' = clock => NextRuns(clock)' = NextRuns(clock)
  <2>1. SUFFICES ASSUME clock' = clock PROVE NextRuns(clock)' = NextRuns(clock)
    OBVIOUS
  <2>2. Try(clock)' = Try(clock)
    BY <1>6, <2>1
  <2> QED BY <1>1, <1>5, <2>1, <2>2 DEF NextRuns
<1> QED BY <1>2, <1>3, <1>4, <1>6, <1>7

(* Each step keeps the invariant.                                          *)
LEMMA CalendarStep ==
  ASSUME CalendarInv, [CalendarNext]_calendarVars
  PROVE  CalendarInv'
<1> USE DEF CalendarInv
<1>1. CASE ComputeWait
  <2>1. /\ phase = "compute" /\ phase' = "wait" /\ UNCHANGED <<zone, plan>> /\ clock' = clock
        /\ asked' = clock
        /\ \E run \in NextRuns(clock) : due' = IF run - clock < 1 THEN clock + 1 ELSE run
        /\ odd' = \E i \in 1..2 : Cardinality(Readings(Try(clock)[i], ParseHhmm(plan.time))) # 1
    BY <1>1 DEF ComputeWait
  <2>2. ClockInv'
    BY <2>1 DEF ClockInv
  <2>3. NextRuns(clock)' = NextRuns(clock) /\ Try(clock)' = Try(clock)
        /\ \A d, h : Readings(d, h)' = Readings(d, h)
    BY <2>1, SameClock
  <2>4. WaitInv'
    BY <2>1, <2>3 DEF WaitInv
  <2> QED BY <2>1, <2>2, <2>4
<1>2. CASE RunDue
  <2>1. /\ phase = "wait" /\ phase' = "compute" /\ UNCHANGED <<zone, plan>>
        /\ clock' \in {due, due + 1} /\ clock' <= Horizon
    BY <1>2 DEF RunDue
  <2>2. due \in Int /\ due > clock
    BY <2>1, DueAhead
  <2>3. clock \in Int /\ \A t \in Starts : t \in Int
    BY CalendarAssumption DEF ClockInv
  <2>4. PICK start \in Starts : start <= clock
    BY DEF ClockInv
  <2>5. clock' \in Int /\ start <= clock'
    BY <2>1, <2>2, <2>3, <2>4
  <2>6. ClockInv'
    BY <2>1, <2>5 DEF ClockInv
  <2>7. WaitInv'
    BY <2>1 DEF WaitInv
  <2> QED BY <2>1, <2>6, <2>7
<1>3. CASE UNCHANGED calendarVars
  <2>1. UNCHANGED <<zone, plan>> /\ UNCHANGED <<clock, phase, asked, due, odd>>
    BY <1>3 DEF calendarVars
  <2>2. ClockInv'
    BY <2>1 DEF ClockInv
  <2>3. NextRuns(clock)' = NextRuns(clock) /\ Try(clock)' = Try(clock)
        /\ \A d, h : Readings(d, h)' = Readings(d, h)
    BY <2>1, SameClock
  <2>4. WaitInv'
    BY <2>1, <2>3 DEF WaitInv
  <2> QED BY <2>1, <2>2, <2>4
<1> QED BY <1>1, <1>2, <1>3 DEF CalendarNext

(* The invariant of the worker.                                            *)
LEMMA CalendarInvariant == CalendarSpec => []CalendarInv
<1>1. CalendarInit => CalendarInv
  <2>1. \A t \in Starts : t \in Int /\ t <= Horizon
    <3>1. PICK first \in Years : Starts \subseteq (24 * (DaysBefore(first) + 80))..Horizon
      BY YearsAssumption
    <3>2. first \in Int /\ Horizon \in Int
      BY CalendarAssumption
    <3>3. DaysBefore(first) \in Int
      BY <3>2 DEF DaysBefore
    <3>4. 24 * (DaysBefore(first) + 80) \in Int
      BY <3>3
    <3> HIDE DEF DaysBefore
    <3> QED BY <3>1, <3>2, <3>4
  <2> QED BY <2>1 DEF CalendarInit, CalendarInv, ClockInv, WaitInv
<1>2. CalendarInv /\ [CalendarNext]_calendarVars => CalendarInv'
  BY CalendarStep
<1> QED BY <1>1, <1>2, PTL DEF CalendarSpec

-----------------------------------------------------------------------------
(* The bounds of a month.                                                  *)

(* The day before a midnight that occurs once: the instant before it is    *)
(* one or two days back, two where a change of the offset skips a day.     *)
LEMMA BeforeMidnight ==
  ASSUME zone \in Zones, NEW d \in Int, Cardinality(Readings(d, 0)) = 1
  PROVE  \E r \in Int : /\ TzMktime(d, 0) = {r} /\ LocalDay(r) = d
                        /\ LocalDay(r - 1) \in {d - 1, d - 2}
<1>1. 0 \in 0..23
  OBVIOUS
<1>2. PICK r \in Int :
        /\ Readings(d, 0) = {r} /\ TzMktime(d, 0) = {r} /\ r \in Guesses(d, 0)
        /\ LocalDay(r) = d /\ LocalHour(r) = 0
        /\ \A t \in Int : t < r => t + Offset(t) < 24 * d + 0
        /\ \A t \in Int : t > r => t + Offset(t) > 24 * d + 0
  BY <1>1, OnceSplits
<1>3. r - 1 \in Int /\ (r - 1) + Offset(r - 1) < 24 * d + 0
  BY <1>2
<1>4. r + Offset(r) = 24 * d + 0
  BY <1>1, <1>2, ShowsHour
<1>5. Offset(r) \in -12..14 /\ Offset(r - 1) \in -12..14
  BY <1>3, OffsetIs
<1>6. /\ LocalDay(r - 1) \in Int /\ LocalHour(r - 1) \in 0..23
      /\ (r - 1) + Offset(r - 1) = 24 * LocalDay(r - 1) + LocalHour(r - 1)
  BY <1>3, LocalIs
<1>7. LocalDay(r - 1) \in {d - 1, d - 2}
  <2> DEFINE o == Offset(r)
             p == Offset(r - 1)
             e == LocalDay(r - 1)
             i == LocalHour(r - 1)
  <2>1. /\ o \in -12..14 /\ p \in -12..14 /\ e \in Int /\ i \in 0..23
        /\ (r - 1) + p = 24 * e + i /\ (r - 1) + p < 24 * d + 0 /\ r + o = 24 * d + 0
    BY <1>3, <1>4, <1>5, <1>6
  <2> HIDE DEF o, p, e, i
  <2>2. e = d - 1 \/ e = d - 2
    BY <2>1
  <2> QED BY <2>2 DEF e
<1> QED BY <1>2, <1>7

(* A known clock is enough for the bounds to be exact.                     *)
LEMMA MonthBounds ==
  ASSUME ClockInv
  PROVE  MonthBoundsExact
<1> DEFINE D  == LocalDay(clock)
           tm == LocalTm(clock)
           A  == DayNumber(tm.year, tm.mon, 1)
           B  == DayNumber(tm.year, tm.mon + 1, 1)
<1>1. /\ A \in Int /\ B \in Int /\ D \in Int /\ A <= D /\ D < B /\ B - A \in 28..31
      /\ \A d \in DayRange : Civil[d].year = tm.year /\ Civil[d].mon = tm.mon
                               <=> A <= d /\ d < B
  BY TwoMonths
<1>2. \A d \in Int : D - 75 <= d /\ d <= D + 75 => d \in DayRange
  BY NearDays
<1>3. LocalYm(clock) = <<tm.year, tm.mon>>
  BY DEF LocalYm
<1>4. \A t : LocalYm(t) = <<Civil[LocalDay(t)].year, Civil[LocalDay(t)].mon>>
  BY DEF LocalYm, LocalTm
<1>5. SUFFICES ASSUME Cardinality(Readings(A, 0)) = 1, Cardinality(Readings(B, 0)) = 1,
                      NEW s \in MonthBegins(clock), NEW e \in MonthEnds(clock)
               PROVE  /\ LocalYm(s) = LocalYm(clock) /\ LocalYm(s - 1) # LocalYm(clock)
                      /\ LocalYm(e) = LocalYm(clock) /\ LocalYm(e + 1) # LocalYm(clock)
  BY DEF MonthBoundsExact
<1>6. zone \in Zones
  BY DEF ClockInv
<1>7. PICK a \in Int : TzMktime(A, 0) = {a} /\ LocalDay(a) = A /\ LocalDay(a - 1) \in {A - 1, A - 2}
  <2> HIDE DEF A
  <2> QED BY <1>1, <1>5, <1>6, BeforeMidnight
<1>8. PICK b \in Int : TzMktime(B, 0) = {b} /\ LocalDay(b) = B /\ LocalDay(b - 1) \in {B - 1, B - 2}
  <2> HIDE DEF B
  <2> QED BY <1>1, <1>5, <1>6, BeforeMidnight
<1>9. s = a
  BY <1>5, <1>7 DEF MonthBegins
<1>10. e = b - 1
  BY <1>5, <1>8 DEF MonthEnds
<1>11. e + 1 = b
  BY <1>8, <1>10
<1> HIDE DEF D, tm, A, B
<1>12. A \in DayRange /\ A - 1 \in DayRange /\ A - 2 \in DayRange
       /\ B \in DayRange /\ B - 1 \in DayRange /\ B - 2 \in DayRange
  BY <1>1, <1>2
<1>13. \A d \in DayRange : <<Civil[d].year, Civil[d].mon>> = <<tm.year, tm.mon>>
                             <=> A <= d /\ d < B
  BY <1>1
<1>14. LocalYm(s) = LocalYm(clock)
  BY <1>1, <1>3, <1>4, <1>7, <1>9, <1>12, <1>13
<1>15. LocalYm(s - 1) # LocalYm(clock)
  BY <1>1, <1>3, <1>4, <1>7, <1>9, <1>12, <1>13
<1>16. LocalYm(e) = LocalYm(clock)
  BY <1>1, <1>3, <1>4, <1>8, <1>10, <1>12, <1>13
<1>17. LocalYm(e + 1) # LocalYm(clock)
  BY <1>1, <1>3, <1>4, <1>8, <1>11, <1>12, <1>13
<1> QED BY <1>14, <1>15, <1>16, <1>17

(* local_month_bounds_utc (src/export/timeutil.cpp) yields the first and   *)
(* the last instant of the local month, for every zone, in every month.    *)
THEOREM MonthBoundsAlways == CalendarSpec => []MonthBoundsExact
<1>1. CalendarInv => MonthBoundsExact
  BY MonthBounds DEF CalendarInv
<1> QED BY <1>1, CalendarInvariant, PTL

-----------------------------------------------------------------------------
(* The next run.                                                           *)

(* An instant between the two guesses at a local time is on a day near.    *)
LEMMA NearGuesses ==
  ASSUME zone \in Zones, NEW t \in Int, NEW d \in Int, NEW h \in 0..23,
         t \in Between(24 * d + h - zone.before, 24 * d + h - zone.after)
  PROVE  d \in (LocalDay(t) - 2)..(LocalDay(t) + 2)
<1> DEFINE o == Offset(t)
           e == LocalDay(t)
           i == LocalHour(t)
           b == zone.before
           a == zone.after
<1>1. /\ b \in -12..14 /\ a \in -12..14 /\ o \in {a, b} /\ e \in Int /\ i \in 0..23
      /\ t + o = 24 * e + i
  BY OffsetIs, LocalIs DEF Offset
<1>2. \/ 24 * d + h - b <= t /\ t <= 24 * d + h - a
      \/ 24 * d + h - a <= t /\ t <= 24 * d + h - b
  BY OffsetIs DEF Between
<1> HIDE DEF o, e, i, a, b
<1>3. d \in (e - 2)..(e + 2)
  BY <1>1, <1>2
<1> QED BY <1>3 DEF e

(* What the wait was computed from makes the next run right.               *)
LEMMA NextRun ==
  ASSUME ClockInv, WaitInv, phase = "wait"
  PROVE  NextRunRight
<1> DEFINE h == ParseHhmm(plan.time)
           D == LocalDay(clock)
<1>1. h \in 0..23 /\ zone \in Zones /\ clock \in Int /\ D \in Int
  BY HourIs, LocalIs DEF ClockInv
<1>2. asked = clock /\ due \in Int /\ due > clock
  BY DueAhead DEF WaitInv
<1>3. PICK run \in NextRuns(clock) : due = IF run - clock < 1 THEN clock + 1 ELSE run
  BY DEF WaitInv
<1>4. PICK d1 \in Int, d2 \in Int : Try(clock) = <<d1, d2>> /\ TwoTries(D, d1, d2)
  BY Tries
<1>5. \/ run \in TzMktime(d1, h) /\ run > clock
      \/ run \in TzMktime(d2, h) /\ \E c \in TzMktime(d1, h) : c <= clock
  BY <1>3, <1>4, NextIs
<1> HIDE DEF h
<1>6. \A d \in Int : TzMktime(d, h) \subseteq Guesses(d, h) /\ Guesses(d, h) \subseteq Int
  BY <1>1, ReadingsAre
<1>7. run \in Int
  BY <1>5, <1>6
<1>8. clock + Offset(clock) < 24 * d2 + h
  <2>1. D < d2
    BY <1>4 DEF TwoTries
  <2>2. /\ LocalHour(clock) \in 0..23 /\ Offset(clock) \in -12..14
        /\ clock + Offset(clock) = 24 * D + LocalHour(clock)
    BY <1>1, LocalIs, OffsetIs
  <2> HIDE DEF D
  <2> QED BY <1>1, <2>1, <2>2
<1>9. \E d \in (LocalDay(due) - 2)..(LocalDay(due) + 2) :
        Meant(d) /\ due \in Between(24 * d + h - zone.before, 24 * d + h - zone.after)
  <2>1. PICK d \in {d1, d2} : due \in Between(24 * d + h - zone.before, 24 * d + h - zone.after)
    <3>1. CASE run - clock < 1
      <4>1. run \in Guesses(d2, h) /\ run <= clock /\ due = clock + 1
        BY <1>1, <1>3, <1>5, <1>6, <1>7, <3>1
      <4>2. \/ run = 24 * d2 + h - zone.before
            \/ run = 24 * d2 + h - zone.after
        BY <4>1 DEF Guesses
      <4>3. /\ zone.before \in Int /\ zone.after \in Int
            /\ Offset(clock) = zone.before \/ Offset(clock) = zone.after
        BY <1>1, OffsetIs DEF Offset
      <4>4. \/ 24 * d2 + h - zone.before <= due /\ due <= 24 * d2 + h - zone.after
            \/ 24 * d2 + h - zone.after <= due /\ due <= 24 * d2 + h - zone.before
        BY <1>1, <1>7, <1>8, <4>1, <4>2, <4>3
      <4>5. due \in Between(24 * d2 + h - zone.before, 24 * d2 + h - zone.after)
        BY <1>1, <1>2, <4>3, <4>4 DEF Between
      <4> QED BY <4>5
    <3>2. CASE ~(run - clock < 1)
      <4>1. due = run
        BY <1>3, <3>2
      <4>2. PICK d \in {d1, d2} : due \in Guesses(d, h)
        BY <1>5, <1>6, <4>1
      <4>3. zone.before \in Int /\ zone.after \in Int /\ d \in Int
        BY <1>1, OffsetIs
      <4>4. due \in Between(24 * d + h - zone.before, 24 * d + h - zone.after)
        BY <1>1, <1>2, <4>2, <4>3 DEF Guesses, Between
      <4> QED BY <4>4
    <3> QED BY <3>1, <3>2
  <2>2. d \in Int /\ Meant(d)
    BY <1>4 DEF TwoTries
  <2>3. d \in (LocalDay(due) - 2)..(LocalDay(due) + 2)
    BY <1>1, <1>2, <2>1, <2>2, NearGuesses
  <2> QED BY <2>1, <2>2, <2>3
<1>10. ASSUME ~odd
       PROVE  /\ Meant(LocalDay(due)) /\ LocalHour(due) = h
              /\ \A d \in D..LocalDay(due) :
                   Meant(d) => \A t \in Readings(d, h) : t <= clock \/ t >= due
  <2>1. Cardinality(Readings(d1, h)) = 1 /\ Cardinality(Readings(d2, h)) = 1
    <3>1. \A i \in 1..2 : Cardinality(Readings(Try(clock)[i], h)) = 1
      BY <1>10 DEF WaitInv, h
    <3>2. Try(clock)[1] = d1 /\ Try(clock)[2] = d2
      BY <1>4
    <3> QED BY <3>1, <3>2
  <2>2. PICK r1 \in Int : /\ Readings(d1, h) = {r1} /\ TzMktime(d1, h) = {r1}
                          /\ LocalDay(r1) = d1 /\ LocalHour(r1) = h
    BY <1>1, <2>1, OnceSplits
  <2>3. PICK r2 \in Int : /\ Readings(d2, h) = {r2} /\ TzMktime(d2, h) = {r2}
                          /\ LocalDay(r2) = d2 /\ LocalHour(r2) = h
                          /\ \A t \in Int : t > r2 => t + Offset(t) > 24 * d2 + h
    BY <1>1, <2>1, OnceSplits
  <2>4. r2 > clock
    <3>1. r2 + Offset(r2) = 24 * d2 + h
      BY <1>1, <2>3, ShowsHour
    <3>2. ~(clock > r2) /\ clock # r2
      <4>1. Offset(clock) \in Int
        BY <1>1, OffsetIs
      <4> QED BY <1>1, <1>8, <2>3, <3>1, <4>1
    <3> QED BY <1>1, <2>3, <3>2
  <2>5. Meant(d1) /\ Meant(d2) /\ d1 < d2 /\ \A d \in D..d2 : Meant(d) => d \in {d1, d2}
    BY <1>4 DEF TwoTries
  <2> HIDE DEF D
  <2>6. CASE r1 > clock /\ run = r1
    <3>1. due = r1
      BY <1>1, <1>3, <2>2, <2>6
    <3>2. \A d \in D..d1 : Meant(d) => d = d1
      BY <1>1, <2>5
    <3> QED BY <1>1, <2>2, <2>5, <3>1, <3>2
  <2>7. CASE r1 <= clock /\ run = r2
    <3>1. due = r2
      BY <1>1, <1>3, <2>3, <2>4, <2>7
    <3> QED BY <1>1, <2>2, <2>3, <2>5, <2>7, <3>1
  <2> QED BY <1>5, <2>2, <2>3, <2>6, <2>7
<1> QED BY <1>2, <1>9, <1>10 DEF NextRunRight, h

(* next_local_hhmm_utc, next_local_weekly_utc and next_local_monthly_utc   *)
(* (src/export/timeutil.cpp) yield the next instant a schedule means, for  *)
(* every zone and schedule, across month ends, leap days, year ends and    *)
(* the change of the offset.                                               *)
THEOREM NextRunAlways == CalendarSpec => []NextRunRight
<1>1. CalendarInv => NextRunRight
  <2>1. phase # "wait" => NextRunRight
    BY DEF NextRunRight
  <2> QED BY <2>1, NextRun DEF CalendarInv
<1> QED BY <1>1, CalendarInvariant, PTL

-----------------------------------------------------------------------------
(* The scans: a computation in steps.                                      *)

(* f is step applied n times to start. *)
Iterates(f, n, S, start, step) ==
  /\ f \in [0..n -> S] /\ f[0] = start
  /\ \A i \in 1..n : f[i] = step[i][f[i - 1]]

(* A step on S can be applied any number of times. *)
LEMMA IteratesExist ==
  ASSUME NEW S, NEW start \in S, NEW N \in Nat, NEW step \in [1..N -> [S -> S]]
  PROVE  \E f : Iterates(f, N, S, start, step)
<1> DEFINE T == {n \in 0..N : ~\E f : Iterates(f, n, S, start, step)}
<1> SUFFICES ASSUME T # {} PROVE FALSE
  OBVIOUS
<1>1. PICK n \in T : \A m \in Nat : m < n => m \notin T
  <2>1. T \in SUBSET Nat
    OBVIOUS
  <2> HIDE DEF T
  <2> QED BY <2>1, LeastNumber
<1>2. n \in 0..N /\ \A m \in 0..N : m < n => \E f : Iterates(f, m, S, start, step)
  BY <1>1
<1>3. CASE n = 0
  <2> DEFINE g == [i \in 0..0 |-> start]
  <2>1. g \in [0..0 -> S] /\ g[0] = start /\ \A i \in 1..0 : FALSE
    OBVIOUS
  <2> HIDE DEF g
  <2>2. Iterates(g, 0, S, start, step)
    BY <2>1 DEF Iterates
  <2> QED BY <1>1, <1>3, <2>2
<1>4. CASE n # 0
  <2>1. n - 1 \in 0..N /\ n - 1 < n /\ n \in 1..N
    BY <1>2, <1>4
  <2>2. PICK f : Iterates(f, n - 1, S, start, step)
    BY <1>2, <2>1
  <2> DEFINE g == [i \in 0..n |-> IF i = n THEN step[n][f[n - 1]] ELSE f[i]]
  <2>3. \A i \in 0..(n - 1) : f[i] \in S
    BY <2>2 DEF Iterates
  <2>4. n - 1 \in 0..(n - 1) /\ \A i \in 0..n : i # n => i \in 0..(n - 1)
    BY <2>1
  <2>5. step[n] \in [S -> S] /\ f[n - 1] \in S
    BY <2>1, <2>3, <2>4
  <2>6. step[n][f[n - 1]] \in S
    BY <2>5
  <2>7. \A i \in 0..n : g[i] \in S
    BY <2>3, <2>4, <2>6
  <2>8. g \in [0..n -> S]
    BY <2>7
  <2>9. g[0] = start
    <3>1. 0 \in 0..n /\ 0 # n /\ f[0] = start
      BY <1>2, <1>4, <2>1, <2>2 DEF Iterates
    <3> QED BY <3>1
  <2>10. ASSUME NEW i \in 1..n PROVE g[i] = step[i][g[i - 1]]
    <3>1. i \in 0..n /\ i - 1 \in 0..n /\ i - 1 # n
      BY <2>1, <2>10
    <3>2. g[i - 1] = f[i - 1]
      BY <3>1
    <3>3. CASE i = n
      BY <3>1, <3>2, <3>3
    <3>4. CASE i # n
      <4>1. i \in 1..(n - 1)
        BY <2>1, <3>4
      <4>2. g[i] = f[i]
        BY <3>1, <3>4
      <4> QED BY <2>2, <3>2, <4>1, <4>2 DEF Iterates
    <3> QED BY <3>3, <3>4
  <2> HIDE DEF g
  <2>11. Iterates(g, n, S, start, step)
    BY <2>8, <2>9, <2>10 DEF Iterates
  <2> QED BY <1>1, <2>11
<1> QED BY <1>2, <1>3, <1>4

(* And a table that follows step wherever the value before is in S stays   *)
(* in S.                                                                   *)
LEMMA IteratesStay ==
  ASSUME NEW S, NEW N \in Nat, NEW step \in [1..N -> [S -> S]], NEW d, d[0] \in S,
         \A n \in 1..N : d[n - 1] \in S => d[n] = step[n][d[n - 1]]
  PROVE  \A n \in 0..N : d[n] \in S
<1> DEFINE T == {n \in 0..N : d[n] \notin S}
<1> SUFFICES ASSUME T # {} PROVE FALSE
  OBVIOUS
<1>1. PICK n \in T : \A m \in Nat : m < n => m \notin T
  <2>1. T \in SUBSET Nat
    OBVIOUS
  <2> HIDE DEF T
  <2> QED BY <2>1, LeastNumber
<1>2. n \in 0..N /\ d[n] \notin S /\ \A m \in 0..N : m < n => d[m] \in S
  BY <1>1
<1> HIDE DEF T
<1>3. n # 0
  BY <1>2
<1>4. n - 1 \in 0..N /\ n - 1 < n /\ n \in 1..N
  BY <1>2, <1>3
<1>5. step[n] \in [S -> S] /\ d[n - 1] \in S
  BY <1>2, <1>4
<1>6. step[n][d[n - 1]] \in S
  BY <1>5
<1> QED BY <1>2, <1>4, <1>6

-----------------------------------------------------------------------------
(* Powers of two, and remainders by them.                                  *)

(* The powers of two, by their recursion.                                  *)
LEMMA Powers ==
  /\ Pow2 \in [0..Width -> Nat] /\ Pow2[0] = 1
  /\ \A n \in 1..Width : Pow2[n] = 2 * Pow2[n - 1]
<1> DEFINE double == [n \in 1..Width |-> [x \in Nat |-> 2 * x]]
<1> DEFINE Table(f) == f = [n \in 0..Width |-> IF n = 0 THEN 1 ELSE 2 * f[n - 1]]
<1>1. Width \in Nat /\ 1 \in Nat /\ double \in [1..Width -> [Nat -> Nat]]
  BY DiscoveryAssumption
<1>2. \A n \in 1..Width, x \in Nat : double[n][x] = 2 * x
  OBVIOUS
<1> HIDE DEF double
<1>3. PICK f : Iterates(f, Width, Nat, 1, double)
  BY <1>1, IteratesExist
<1>4. Table(f)
  <2>1. f \in [0..Width -> Nat]
    BY <1>3 DEF Iterates
  <2>2. ASSUME NEW n \in 0..Width PROVE f[n] = IF n = 0 THEN 1 ELSE 2 * f[n - 1]
    <3>1. n # 0 => n \in 1..Width /\ n - 1 \in 0..Width
      BY <1>1
    <3>2. n # 0 => f[n] = double[n][f[n - 1]] /\ f[n - 1] \in Nat
      BY <1>3, <2>1, <3>1 DEF Iterates
    <3> QED BY <1>2, <1>3, <3>1, <3>2 DEF Iterates
  <2> QED BY <2>1, <2>2
<1>5. Pow2 = CHOOSE d : Table(d)
  BY DEF Pow2
<1> HIDE DEF Table
<1>6. Table(Pow2)
  BY <1>4, <1>5
<1>7. Pow2 = [n \in 0..Width |-> IF n = 0 THEN 1 ELSE 2 * Pow2[n - 1]]
  BY <1>6 DEF Table
<1>8. \A n \in 0..Width : Pow2[n] = IF n = 0 THEN 1 ELSE 2 * Pow2[n - 1]
  BY <1>7
<1>9. 0 \in 0..Width /\ \A n \in 1..Width : n \in 0..Width /\ n # 0
  BY <1>1
<1>10. Pow2[0] = 1 /\ \A n \in 1..Width : Pow2[n] = 2 * Pow2[n - 1]
  BY <1>8, <1>9
<1>11. \A n \in 1..Width : Pow2[n - 1] \in Nat => Pow2[n] = double[n][Pow2[n - 1]]
  BY <1>2, <1>10
<1>12. \A n \in 0..Width : Pow2[n] \in Nat
  <2>1. Pow2[0] \in Nat
    BY <1>10
  <2> QED BY <1>1, <1>11, <2>1, IteratesStay
<1>13. Pow2 \in [0..Width -> Nat]
  BY <1>7, <1>8, <1>12
<1> QED BY <1>10, <1>13

(* No power of two is 0.                                                   *)
LEMMA PowersPositive == \A n \in 0..Width : Pow2[n] \in Nat \ {0}
<1> DEFINE P == Nat \ {0}
           double == [n \in 1..Width |-> [x \in P |-> 2 * x]]
<1>1. \A x \in P : 2 * x \in P
  OBVIOUS
<1>2. Pow2[0] \in P
  BY Powers
<1> HIDE DEF P
<1>3. Width \in Nat /\ double \in [1..Width -> [P -> P]]
  BY <1>1, DiscoveryAssumption
<1>4. \A n \in 1..Width, x \in P : double[n][x] = 2 * x
  OBVIOUS
<1> HIDE DEF double
<1>5. \A n \in 1..Width : Pow2[n - 1] \in P => Pow2[n] = double[n][Pow2[n - 1]]
  <2>1. \A n \in 1..Width : Pow2[n] = 2 * Pow2[n - 1]
    BY Powers
  <2> QED BY <1>4, <2>1
<1>6. \A n \in 0..Width : Pow2[n] \in P
  BY <1>2, <1>3, <1>5, IteratesStay
<1> QED BY <1>6 DEF P

(* The number of addresses is a multiple of the size of every block.       *)
LEMMA SizeMultiple == \A e \in 0..Width : \E k \in Nat : Size = k * Pow2[e]
<1> SUFFICES ASSUME NEW e \in 0..Width PROVE \E k \in Nat : Size = k * Pow2[e]
  OBVIOUS
<1> DEFINE T == {j \in e..Width : ~\E k \in Nat : Pow2[j] = k * Pow2[e]}
<1>1. Width \in Nat /\ e \in Nat /\ Pow2[e] \in Nat
  BY DiscoveryAssumption, PowersPositive
<1>2. T = {}
  <2> SUFFICES ASSUME T # {} PROVE FALSE
    OBVIOUS
  <2>1. PICK j \in T : \A m \in Nat : m < j => m \notin T
    <3>1. T \in SUBSET Nat
      BY <1>1
    <3> HIDE DEF T
    <3> QED BY <3>1, LeastNumber
  <2>2. j \in e..Width /\ ~\E k \in Nat : Pow2[j] = k * Pow2[e]
    BY <2>1
  <2>3. j # e
    <3>1. Pow2[e] = 1 * Pow2[e]
      BY <1>1
    <3> QED BY <2>2, <3>1
  <2>4. j - 1 \in e..Width /\ j - 1 \in Nat /\ j - 1 < j /\ j \in 1..Width
    BY <1>1, <2>2, <2>3
  <2>5. PICK k \in Nat : Pow2[j - 1] = k * Pow2[e]
    BY <2>1, <2>4
  <2>6. Pow2[j] = 2 * (k * Pow2[e])
    BY <2>4, <2>5, Powers
  <2>7. 2 * (k * Pow2[e]) = (2 * k) * Pow2[e] /\ 2 * k \in Nat
    BY <1>1
  <2> QED BY <2>2, <2>6, <2>7
<1>3. Width \in e..Width
  BY <1>1
<1> QED BY <1>2, <1>3 DEF Size

(* A block of at least four addresses leaves out its ends.                 *)
LEMMA BlockSizes ==
  ASSUME NEW prefix \in 0..Width
  PROVE  /\ Inner(prefix) => Pow2[Width - prefix] >= 4
         /\ ~Inner(prefix) => Pow2[Width - prefix] \in {1, 2}
<1> DEFINE e == Width - prefix
<1>1. Width \in Nat /\ Width >= 2 /\ e \in 0..Width
  BY DiscoveryAssumption
<1>2. CASE Inner(prefix)
  <2>1. e \in 1..Width /\ e - 1 \in 1..Width /\ (e - 1) - 1 \in 0..Width
    BY <1>1, <1>2 DEF Inner
  <2> HIDE DEF e
  <2>2. Pow2[e] = 2 * Pow2[e - 1] /\ Pow2[e - 1] = 2 * Pow2[(e - 1) - 1]
    BY <2>1, Powers
  <2>3. Pow2[(e - 1) - 1] \in Nat \ {0}
    BY <2>1, PowersPositive
  <2>4. Pow2[e] >= 4
    BY <2>2, <2>3
  <2> QED BY <1>2, <2>4 DEF e
<1>3. CASE ~Inner(prefix)
  <2>1. e \in {0, 1}
    BY <1>1, <1>3 DEF Inner
  <2> HIDE DEF e
  <2>2. 1 \in 1..Width /\ 1 - 1 = 0
    BY <1>1
  <2>3. Pow2[1] = 2 * Pow2[1 - 1] /\ Pow2[0] = 1
    BY <2>2, Powers
  <2>4. Pow2[e] \in {1, 2}
    BY <2>1, <2>2, <2>3
  <2> QED BY <1>3, <2>4 DEF e
<1> QED BY <1>2, <1>3

(* Dividing by b: a number lies between the multiples of b around it.      *)
LEMMA Division ==
  ASSUME NEW a \in Nat, NEW b \in Nat \ {0}
  PROVE  /\ a \div b \in Nat /\ a % b \in 0..(b - 1)
         /\ a = b * (a \div b) + (a % b)
OBVIOUS

(* A quotient is q between q times the divisor and the next multiple.      *)
LEMMA SameQuotient ==
  ASSUME NEW a \in Nat, NEW b \in Nat \ {0}, NEW q \in Nat
  PROVE  a \div b = q <=> b * q <= a /\ a < b * q + b
<1> DEFINE d == a \div b
           r == a % b
<1>1. d \in Nat /\ r \in 0..(b - 1) /\ a = b * d + r
  BY Division
<1> HIDE DEF d, r
<1>2. d = q => b * q <= a /\ a < b * q + b
  BY <1>1
<1>3. ASSUME d < q PROVE b * d + b <= b * q
  <2>1. PICK m \in Nat : q = d + 1 + m
    <3>1. q - d - 1 \in Nat /\ q = d + 1 + (q - d - 1)
      BY <1>1, <1>3
    <3> QED BY <3>1
  <2>2. b * q = b * d + b + b * m
    BY <1>1, <2>1
  <2>3. b * m \in Nat /\ b * d \in Nat
    BY <1>1
  <2> QED BY <2>2, <2>3
<1>4. ASSUME q < d PROVE b * q + b <= b * d
  <2>1. PICK m \in Nat : d = q + 1 + m
    <3>1. d - q - 1 \in Nat /\ d = q + 1 + (d - q - 1)
      BY <1>1, <1>4
    <3> QED BY <3>1
  <2>2. b * d = b * q + b + b * m
    BY <1>1, <2>1
  <2>3. b * m \in Nat /\ b * q \in Nat
    BY <1>1
  <2> QED BY <2>2, <2>3
<1>5. b * d \in Nat /\ b * q \in Nat
  BY <1>1
<1>6. b * q <= a /\ a < b * q + b => d = q
  BY <1>1, <1>3, <1>4, <1>5
<1> QED BY <1>2, <1>6 DEF d

-----------------------------------------------------------------------------
(* cidr_hosts yields the block, in order.                                  *)

(* There are addresses.                                                    *)
LEMMA SizePositive == Size \in Nat \ {0} /\ Width \in Nat
BY PowersPositive, DiscoveryAssumption DEF Size

(* A block does not cross the end of the addresses.                        *)
LEMMA BlockFits ==
  ASSUME NEW ip \in 0..(Size - 1), NEW prefix \in 0..Width
  PROVE  /\ Pow2[Width - prefix] \in Nat \ {0}
         /\ Network(ip, prefix) \in Nat
         /\ Network(ip, prefix) + Pow2[Width - prefix] <= Size
         /\ \A a \in Nat : a \div Pow2[Width - prefix] = ip \div Pow2[Width - prefix]
              <=> Network(ip, prefix) <= a /\ a < Network(ip, prefix) + Pow2[Width - prefix]
<1> DEFINE b == Pow2[Width - prefix]
           q == ip \div b
           r == ip % b
           n == Network(ip, prefix)
<1>1. Width - prefix \in 0..Width
  BY SizePositive
<1>2. ip \in Nat /\ b \in Nat \ {0}
  BY <1>1, PowersPositive, SizePositive
<1>3. PICK k \in Nat : Size = k * b
  BY <1>1, SizeMultiple
<1>4. n = ip - r
  BY Zenon DEF Network
<1> HIDE DEF b
<1>5. q \in Nat /\ r \in 0..(b - 1) /\ ip = b * q + r
  BY <1>2, Division
<1> HIDE DEF q, r, n
<1>6. b * q \in Nat /\ n = b * q
  BY <1>2, <1>4, <1>5
<1>7. n <= ip /\ ip < Size
  BY <1>2, <1>5, <1>6, SizePositive
<1>8. q < k
  <2> SUFFICES ASSUME q >= k PROVE FALSE
    BY <1>5
  <2>1. PICK m \in Nat : q = k + m
    <3>1. q - k \in Nat /\ q = k + (q - k)
      BY <1>5
    <3> QED BY <3>1
  <2>2. b * q = k * b + b * m /\ b * m \in Nat
    BY <1>2, <2>1
  <2> QED BY <1>2, <1>3, <1>6, <1>7, <2>2, SizePositive
<1>9. n + b <= Size
  <2>1. PICK m \in Nat : k = q + 1 + m
    <3>1. k - q - 1 \in Nat /\ k = q + 1 + (k - q - 1)
      BY <1>5, <1>8
    <3> QED BY <3>1
  <2>2. k * b = b * q + b + b * m /\ b * m \in Nat
    BY <1>2, <1>5, <2>1
  <2> QED BY <1>2, <1>3, <1>6, <2>2
<1>10. \A a \in Nat : a \div b = q <=> n <= a /\ a < n + b
  BY <1>2, <1>5, <1>6, SameQuotient
<1> QED BY <1>2, <1>6, <1>9, <1>10 DEF b, q, n

(* A number below the divisor is its own remainder.                        *)
LEMMA Wraps ==
  ASSUME NEW a \in Nat, NEW b \in Nat \ {0}, a < b
  PROVE  a % b = a /\ (a + b) % b = a
OBVIOUS

(* The first and last host of a block, within the addresses.               *)
LEMMA FirstAndLast ==
  ASSUME NEW ip \in 0..(Size - 1), NEW prefix \in 0..Width
  PROVE  LET inner == IF Inner(prefix) THEN 1 ELSE 0 IN
         /\ First(ip, prefix) = Network(ip, prefix) + inner
         /\ Last(ip, prefix) = Network(ip, prefix) + Pow2[Width - prefix] - 1 - inner
         /\ First(ip, prefix) \in Nat /\ Last(ip, prefix) \in Nat
         /\ First(ip, prefix) <= Last(ip, prefix) /\ Last(ip, prefix) < Size
<1> DEFINE b == Pow2[Width - prefix]
           n == Network(ip, prefix)
           f == First(ip, prefix)
           l == Last(ip, prefix)
           inner == IF Inner(prefix) THEN 1 ELSE 0
<1>1. b \in Nat \ {0} /\ n \in Nat /\ n + b <= Size /\ Size \in Nat \ {0}
  BY BlockFits, SizePositive
<1>2. (Inner(prefix) => b >= 4) /\ (~Inner(prefix) => b \in {1, 2})
  BY BlockSizes
<1>3. f = (n + inner) % Size /\ l = (Broadcast(ip, prefix) + Size - inner) % Size
      /\ Broadcast(ip, prefix) = n + b - 1
  BY Zenon DEF First, Last, Broadcast
<1>4. inner \in {0, 1} /\ b - 1 - inner >= inner
  BY <1>1, <1>2
<1> HIDE DEF b, n, f, l, inner
<1>5. n + inner \in Nat /\ n + inner < Size
  BY <1>1, <1>4
<1>6. f = n + inner
  BY <1>1, <1>3, <1>5, Wraps
<1> DEFINE e == n + b - 1 - inner
<1>7. e \in Nat /\ e < Size /\ n + b - 1 + Size - inner = e + Size
  BY <1>1, <1>4
<1>8. l = (e + Size) % Size
  BY <1>3, <1>7
<1> HIDE DEF e
<1>9. l = e
  BY <1>1, <1>7, <1>8, Wraps
<1>10. f \in Nat /\ l \in Nat /\ f <= l /\ l < Size
  BY <1>1, <1>4, <1>6, <1>7, <1>9 DEF e
<1> QED BY <1>6, <1>9, <1>10 DEF b, n, f, l, e, inner

(* The hosts are the interval from the first to the last, which is the     *)
(* block.                                                                  *)
LEMMA HostsInOrder ==
  ASSUME NEW ip \in 0..(Size - 1), NEW prefix \in 0..Width
  PROVE  LET f == First(ip, prefix)
             l == Last(ip, prefix)
         IN  CidrHosts(ip, prefix) = [i \in 1..(l - f + 1) |-> f + i - 1]
<1> DEFINE f == First(ip, prefix)
           l == Last(ip, prefix)
<1>1. f \in Nat /\ l \in Nat /\ f <= l /\ l < Size /\ Size \in Nat \ {0}
  BY FirstAndLast, SizePositive
<1>2. CidrHosts(ip, prefix) = [i \in 1..(1 + ((l + Size - f) % Size)) |-> (f + i - 1) % Size]
  BY DEF CidrHosts
<1> HIDE DEF f, l
<1>3. (l + Size - f) % Size = l - f
  <2>1. l - f \in Nat /\ l - f < Size /\ l + Size - f = (l - f) + Size
    BY <1>1
  <2> QED BY <1>1, <2>1, Wraps
<1>4. 1 + (l - f) = l - f + 1
  BY <1>1
<1>5. \A i \in 1..(l - f + 1) : (f + i - 1) % Size = f + i - 1
  <2> SUFFICES ASSUME NEW i \in 1..(l - f + 1) PROVE (f + i - 1) % Size = f + i - 1
    OBVIOUS
  <2>1. f + i - 1 \in Nat /\ f + i - 1 < Size
    BY <1>1
  <2> QED BY <1>1, <2>1, Wraps
<1>6. CidrHosts(ip, prefix) = [i \in 1..(l - f + 1) |-> (f + i - 1) % Size]
  BY <1>2, <1>3, <1>4
<1> QED BY <1>5, <1>6 DEF f, l

(* The hosts of a block are consecutive.                                   *)
LEMMA BlockIs ==
  ASSUME NEW ip \in 0..(Size - 1), NEW prefix \in 0..Width
  PROVE  Block(ip, prefix) = First(ip, prefix)..Last(ip, prefix)
<1> DEFINE b == Pow2[Width - prefix]
           n == Network(ip, prefix)
           same == {a \in 0..(Size - 1) : a \div b = ip \div b}
           inner == IF Inner(prefix) THEN 1 ELSE 0
<1>1. b \in Nat \ {0} /\ n \in Nat /\ n + b <= Size /\ Size \in Nat \ {0}
  BY BlockFits, SizePositive
<1>2. (Inner(prefix) => b >= 4) /\ (~Inner(prefix) => b \in {1, 2})
  BY BlockSizes
<1>3. First(ip, prefix) = n + inner /\ Last(ip, prefix) = n + b - 1 - inner
  BY FirstAndLast
<1>4. \A a \in Nat : a \div b = ip \div b <=> n <= a /\ a < n + b
  BY BlockFits
<1>5. Block(ip, prefix) = IF Cardinality(same) <= 2 THEN same
                          ELSE {a \in same : (\E c \in same : c < a) /\ (\E c \in same : c > a)}
  BY DEF Block
<1> HIDE DEF b, n
<1>6. same = n..(n + b - 1)
  <2> DEFINE In(a) == a \div b = ip \div b
  <2>1. \A a \in Nat : In(a) <=> n <= a /\ a < n + b
    BY <1>4, Zenon
  <2>2. same = {a \in 0..(Size - 1) : In(a)}
    OBVIOUS
  <2> HIDE DEF In, same
  <2> QED BY <1>1, <2>1, <2>2
<1> HIDE DEF same
<1>7. Cardinality(same) = b
  <2>1. n \in Int /\ n + b - 1 \in Int /\ ~(n > n + b - 1) /\ (n + b - 1) - n + 1 = b
    BY <1>1
  <2> QED BY <1>6, <2>1, FS_Interval
<1>8. CASE Inner(prefix)
  <2>1. Block(ip, prefix) = {a \in same : (\E c \in same : c < a) /\ (\E c \in same : c > a)}
    BY <1>1, <1>2, <1>5, <1>7, <1>8
  <2>2. n \in same /\ n + b - 1 \in same
    BY <1>1, <1>6
  <2>3. \A a \in same : (\E c \in same : c < a) /\ (\E c \in same : c > a) <=> a # n /\ a # n + b - 1
    BY <1>1, <1>6, <2>2
  <2>4. \A a : a \in (n + 1)..(n + b - 2) <=> a \in same /\ a # n /\ a # n + b - 1
    BY <1>1, <1>6
  <2>5. Block(ip, prefix) = (n + 1)..(n + b - 2)
    BY <2>1, <2>3, <2>4
  <2>6. First(ip, prefix) = n + 1 /\ Last(ip, prefix) = n + b - 2
    BY <1>1, <1>3, <1>8
  <2> QED BY <2>5, <2>6
<1>9. CASE ~Inner(prefix)
  <2>1. Block(ip, prefix) = same
    BY <1>1, <1>2, <1>5, <1>7, <1>9
  <2>2. First(ip, prefix) = n /\ Last(ip, prefix) = n + b - 1
    BY <1>1, <1>3, <1>9
  <2> QED BY <1>6, <2>1, <2>2
<1> QED BY <1>8, <1>9

-----------------------------------------------------------------------------
(* add() over the names.                                                   *)

(* Any name is a port or a link. *)
Names(link) == DOMAIN link \cup Ports

(* What a name resolves to is a name or a port, and a port itself.         *)
LEMMA Resolution ==
  ASSUME NEW link \in Links
  PROVE  /\ \A p \in Ports : Resolve(link, p) = p
         /\ \A n \in DOMAIN link : link[n] \in Ports => Resolve(link, n) = link[n]
         /\ \A n \in Names(link) : Resolve(link, n) \in Names(link)
BY DiscoveryAssumption DEF Resolve, Names

(* q is the queue after each of the names. *)
Queues(q, link, names) ==
  /\ q \in [0..Len(names) -> Seq(Names(link))]
  /\ q[0] = << >>
  /\ \A n \in 1..Len(names) : q[n] = Add(link, q[n - 1], names[n])

(* The queue is what the additions, one after the other, lead to.          *)
LEMMA QueueFacts ==
  ASSUME NEW link \in Links, NEW names \in Seq(Names(link))
  PROVE  \E q : Queues(q, link, names) /\ Queue(link, names) = q[Len(names)]
<1> DEFINE N == Len(names)
           S == Seq(Names(link))
           add == [n \in 1..N |-> [s \in S |-> Add(link, s, names[n])]]
           Table(f) == f = [n \in 0..N |-> IF n = 0 THEN << >> ELSE Add(link, f[n - 1], names[n])]
           q == CHOOSE f : Table(f)
<1>1. N \in Nat /\ << >> \in S
  OBVIOUS
<1>2. \A n \in 1..N : names[n] \in Names(link)
  OBVIOUS
<1>3. \A n \in 1..N, s \in S : Add(link, s, names[n]) \in S
  BY <1>2 DEF Add
<1>4. add \in [1..N -> [S -> S]] /\ \A n \in 1..N : \A s \in S : add[n][s] = Add(link, s, names[n])
  BY <1>3
<1>5. Queue(link, names) = q[N]
  BY DEF Queue
<1> HIDE DEF N, S, add
<1>6. PICK f : Iterates(f, N, S, << >>, add)
  BY <1>1, <1>4, IteratesExist
<1>7. Table(f)
  <2>1. f \in [0..N -> S]
    BY <1>6 DEF Iterates
  <2>2. ASSUME NEW n \in 0..N
        PROVE  f[n] = IF n = 0 THEN << >> ELSE Add(link, f[n - 1], names[n])
    <3>1. n # 0 => n \in 1..N /\ n - 1 \in 0..N
      BY <1>1
    <3>2. n # 0 => f[n] = add[n][f[n - 1]] /\ f[n - 1] \in S
      BY <1>6, <2>1, <3>1 DEF Iterates
    <3>3. f[0] = << >>
      BY <1>6 DEF Iterates
    <3> QED BY <1>4, <3>1, <3>2, <3>3
  <2> QED BY <2>1, <2>2
<1> HIDE DEF Table
<1>8. Table(q)
  BY <1>7
<1> HIDE DEF q
<1>9. q = [n \in 0..N |-> IF n = 0 THEN << >> ELSE Add(link, q[n - 1], names[n])]
  BY <1>8 DEF Table
<1>10. \A n \in 0..N : q[n] = IF n = 0 THEN << >> ELSE Add(link, q[n - 1], names[n])
  BY <1>9
<1>11. 0 \in 0..N /\ \A n \in 1..N : n \in 0..N /\ n # 0
  BY <1>1
<1>12. q[0] = << >> /\ \A n \in 1..N : q[n] = Add(link, q[n - 1], names[n])
  BY <1>10, <1>11
<1>13. \A n \in 1..N : q[n - 1] \in S => q[n] = add[n][q[n - 1]]
  BY <1>4, <1>12
<1>14. \A n \in 0..N : q[n] \in S
  BY <1>1, <1>4, <1>12, <1>13, IteratesStay
<1>15. q \in [0..N -> S]
  BY <1>9, <1>10, <1>14
<1> QED BY <1>5, <1>12, <1>15 DEF Queues, N, S

(* What the queue is after the first n names, of which the first k are     *)
(* links: of each port or dangling link one name, a link if there is one.  *)
Queued(s, link, names, n, k) ==
  /\ \A i, j \in DOMAIN s : i # j => Resolve(link, s[i]) # Resolve(link, s[j])
  /\ \A m \in 1..n : Seen(link, s, names[m])
  /\ \A i \in DOMAIN s : s[i] \in Ports => \A m \in 1..k : Resolve(link, names[m]) # s[i]

(* An addition keeps the queue right.                                      *)
LEMMA QueueGrows ==
  ASSUME NEW link \in Links, NEW names \in Seq(Names(link)), NEW k \in Nat,
         \A m \in 1..Len(names) : names[m] \in Ports => m > k,
         NEW n \in 1..Len(names), NEW s \in Seq(Names(link)),
         Queued(s, link, names, n - 1, k)
  PROVE  Queued(Add(link, s, names[n]), link, names, n, k)
<1>1. n \in Nat /\ 1 <= n /\ names[n] \in Names(link)
  OBVIOUS
<1>2. CASE Seen(link, s, names[n])
  <2>1. \A m \in 1..n : m = n \/ m \in 1..(n - 1)
    BY <1>1
  <2> QED BY <1>2, <2>1 DEF Queued, Add
<1>3. CASE ~Seen(link, s, names[n])
  <2> DEFINE e == Append(s, names[n])
  <2>1. Add(link, s, names[n]) = e
    BY <1>3 DEF Add
  <2>2. /\ DOMAIN e = 1..(Len(s) + 1) /\ e[Len(s) + 1] = names[n]
        /\ DOMAIN s = 1..Len(s) /\ \A i \in DOMAIN s : e[i] = s[i]
        /\ Len(s) \in Nat
    BY <1>1
  <2> HIDE DEF e
  <2>3. \A i \in DOMAIN e : i \in DOMAIN s \/ i = Len(s) + 1
    BY <2>2
  <2>4. \A i \in DOMAIN s : Resolve(link, s[i]) # Resolve(link, names[n])
    BY <1>3 DEF Seen
  <2>5. \A i, j \in DOMAIN e : i # j => Resolve(link, e[i]) # Resolve(link, e[j])
    BY <2>2, <2>3, <2>4 DEF Queued
  <2>6. \A m \in 1..n : Seen(link, e, names[m])
    <3>1. \A m \in 1..n : m = n \/ m \in 1..(n - 1)
      BY <1>1
    <3>2. Seen(link, e, names[n])
      BY <2>2 DEF Seen
    <3>3. \A m \in 1..(n - 1) : Seen(link, e, names[m])
      BY <2>2 DEF Queued, Seen
    <3> QED BY <3>1, <3>2, <3>3
  <2>7. ASSUME NEW i \in DOMAIN e, e[i] \in Ports, NEW m \in 1..k
        PROVE  Resolve(link, names[m]) # e[i]
    <3>1. CASE i \in DOMAIN s
      BY <2>2, <2>7, <3>1 DEF Queued
    <3>2. CASE i = Len(s) + 1
      <4>1. e[i] = names[n] /\ n > k
        BY <2>2, <2>7, <3>2
      <4>2. m \in 1..(n - 1)
        BY <1>1, <4>1
      <4>3. PICK j \in DOMAIN s : Resolve(link, s[j]) = Resolve(link, names[m])
        BY <4>2 DEF Queued, Seen
      <4>4. Resolve(link, names[n]) = names[n]
        BY <2>7, <4>1, Resolution
      <4> QED BY <2>4, <4>1, <4>3, <4>4
    <3> QED BY <2>3, <3>1, <3>2
  <2> QED BY <2>1, <2>5, <2>6, <2>7 DEF Queued
<1> QED BY <1>2, <1>3

(* The queue is right in the end.                                          *)
LEMMA QueueDone ==
  ASSUME NEW link \in Links, NEW names \in Seq(Names(link)), NEW k \in Nat,
         \A m \in 1..Len(names) : names[m] \in Ports => m > k
  PROVE  /\ Queue(link, names) \in Seq(Names(link))
         /\ Queued(Queue(link, names), link, names, Len(names), k)
<1>1. PICK q : Queues(q, link, names) /\ Queue(link, names) = q[Len(names)]
  BY QueueFacts
<1> DEFINE T == {n \in 0..Len(names) : ~Queued(q[n], link, names, n, k)}
<1>2. Len(names) \in Nat
  OBVIOUS
<1>3. T = {}
  <2> SUFFICES ASSUME T # {} PROVE FALSE
    OBVIOUS
  <2>1. PICK n \in T : \A m \in Nat : m < n => m \notin T
    <3>1. T \in SUBSET Nat
      BY <1>2
    <3> HIDE DEF T
    <3> QED BY <3>1, LeastNumber
  <2>2. n \in 0..Len(names) /\ ~Queued(q[n], link, names, n, k)
    BY <2>1
  <2>3. n # 0
    <3>1. q[0] = << >> /\ 1..0 = {}
      BY <1>1 DEF Queues
    <3>2. Queued(q[0], link, names, 0, k)
      BY <3>1 DEF Queued
    <3> QED BY <2>2, <3>2
  <2>4. n \in 1..Len(names) /\ n - 1 \in 0..Len(names) /\ n - 1 \in Nat /\ n - 1 < n
    BY <1>2, <2>2, <2>3
  <2>5. Queued(q[n - 1], link, names, n - 1, k)
    BY <2>1, <2>4
  <2>6. q[n - 1] \in Seq(Names(link)) /\ q[n] = Add(link, q[n - 1], names[n])
    BY <1>1, <2>4 DEF Queues
  <2>7. Queued(q[n], link, names, n, k)
    BY <2>4, <2>5, <2>6, QueueGrows
  <2> QED BY <2>2, <2>7
<1>4. Len(names) \in 0..Len(names)
  BY <1>2
<1>5. Queued(q[Len(names)], link, names, Len(names), k)
  BY <1>3, <1>4
<1>6. q[Len(names)] \in Seq(Names(link))
  BY <1>1, <1>4 DEF Queues
<1> QED BY <1>1, <1>5, <1>6

(* An order of a finite set is a sequence of all its elements. *)
LEMMA OrdersAre ==
  ASSUME NEW S, IsFiniteSet(S), NEW s \in Orders(S)
  PROVE  s \in Seq(S) /\ {s[i] : i \in DOMAIN s} = S
<1>1. Cardinality(S) \in Nat
  BY FS_CardinalityType
<1>2. s \in [1..Cardinality(S) -> S] /\ \A x \in S : \E i \in DOMAIN s : s[i] = x
  BY Zenon DEF Orders
<1>3. s \in Seq(S)
  BY <1>1, <1>2
<1> QED BY <1>2, <1>3

(* The devices to probe: of each port one name, a stable one if it has     *)
(* any.                                                                    *)
LEMMA DevicesRight ==
  ASSUME NEW link \in Links, NEW list \in SerialDevices(link)
  PROVE  /\ list \in Seq(Names(link))
         /\ \A i, j \in DOMAIN list : i # j => Resolve(link, list[i]) # Resolve(link, list[j])
         /\ \A p \in Ports : \E i \in DOMAIN list : Resolve(link, list[i]) = p
         /\ \A i \in DOMAIN list :
              list[i] \in Ports => \A n \in DOMAIN link : link[n] # list[i]
<1>1. PICK ids \in Orders(DOMAIN link), ttys \in Orders(Ports) : list = Queue(link, ids \o ttys)
  BY DEF SerialDevices
<1>2. ids \in Seq(DOMAIN link) /\ {ids[i] : i \in DOMAIN ids} = DOMAIN link
      /\ ttys \in Seq(Ports) /\ {ttys[i] : i \in DOMAIN ttys} = Ports
  <2>1. IsFiniteSet(DOMAIN link) /\ IsFiniteSet(Ports)
    BY DiscoveryAssumption
  <2> QED BY <2>1, OrdersAre
<1> DEFINE names == ids \o ttys
           k == Len(ids)
<1>3. ids \in Seq(Names(link)) /\ ttys \in Seq(Names(link))
  BY <1>2 DEF Names
<1>4. names \in Seq(Names(link)) /\ k \in Nat /\ Len(names) = k + Len(ttys) /\ Len(ttys) \in Nat
  BY <1>3
<1>5. /\ \A m \in 1..k : m \in 1..Len(names) /\ names[m] = ids[m]
      /\ \A m \in 1..Len(ttys) : k + m \in 1..Len(names) /\ names[k + m] = ttys[m]
  BY <1>3
<1>6. DOMAIN ids = 1..k /\ DOMAIN ttys = 1..Len(ttys)
  BY <1>3
<1>7. list = Queue(link, names)
  BY <1>1
<1> HIDE DEF names, k
<1>8. \A m \in 1..Len(names) : names[m] \in Ports => m > k
  <2> SUFFICES ASSUME NEW m \in 1..Len(names), names[m] \in Ports, m <= k PROVE FALSE
    BY <1>4
  <2>1. m \in 1..k
    BY <1>4
  <2>2. names[m] \in DOMAIN link
    BY <1>2, <1>5, <1>6, <2>1
  <2> QED BY <2>2, DiscoveryAssumption
<1>9. list \in Seq(Names(link)) /\ Queued(list, link, names, Len(names), k)
  BY <1>4, <1>7, <1>8, QueueDone
<1>10. ASSUME NEW p \in Ports PROVE \E i \in DOMAIN list : Resolve(link, list[i]) = p
  <2>1. PICK m \in 1..Len(ttys) : ttys[m] = p
    BY <1>2, <1>6
  <2>2. k + m \in 1..Len(names) /\ names[k + m] = p
    BY <1>5, <2>1
  <2>3. Seen(link, list, p)
    BY <1>9, <2>2 DEF Queued
  <2>4. Resolve(link, p) = p
    BY Resolution
  <2> QED BY <2>3, <2>4 DEF Seen
<1>11. ASSUME NEW i \in DOMAIN list, list[i] \in Ports, NEW n \in DOMAIN link
       PROVE  link[n] # list[i]
  <2>1. PICK m \in 1..k : ids[m] = n
    BY <1>2, <1>6
  <2>2. names[m] = n
    BY <1>5, <2>1
  <2>3. Resolve(link, n) # list[i]
    BY <1>9, <1>11, <2>2 DEF Queued
  <2>4. link[n] \in Ports => Resolve(link, n) = link[n]
    BY Resolution
  <2> QED BY <1>11, <2>3, <2>4
<1> QED BY <1>9, <1>10, <1>11 DEF Queued

-----------------------------------------------------------------------------
(* Sorting.                                                                *)

InOrder(s) == \A i, j \in DOMAIN s : i < j => s[i] < s[j]

(* The empty sequence is in order.                                         *)
LEMMA EmptyOrder == << >> \in Orders({}) /\ InOrder(<< >>)
<1>1. Cardinality({}) = 0
  BY FS_EmptySet
<1>2. << >> \in [1..0 -> {}] /\ DOMAIN << >> = {}
  OBVIOUS
<1>3. << >> \in [1..Cardinality({}) -> {}]
  BY <1>1, <1>2
<1> QED BY <1>2, <1>3 DEF Orders, InOrder

(* A larger number goes last in the order.                                 *)
LEMMA LargerLast ==
  ASSUME NEW S \in SUBSET Nat, IsFiniteSet(S), NEW k \in Nat, \A x \in S : x < k,
         NEW s \in Orders(S), InOrder(s)
  PROVE  Append(s, k) \in Orders(S \cup {k}) /\ InOrder(Append(s, k))
<1> DEFINE e == Append(s, k)
           c == Cardinality(S)
<1>1. c \in Nat
  BY FS_CardinalityType
<1>2. k \notin S
  OBVIOUS
<1>3. Cardinality(S \cup {k}) = c + 1
  BY <1>2, FS_AddElement
<1>4. s \in [1..c -> S] /\ \A x \in S : \E i \in DOMAIN s : s[i] = x
  BY Zenon DEF Orders
<1> HIDE DEF c
<1>5. s \in Seq(S) /\ Len(s) = c
  BY <1>1, <1>4
<1>6. /\ e \in [1..(c + 1) -> S \cup {k}]
      /\ e[c + 1] = k /\ \A i \in 1..c : e[i] = s[i]
  <2>1. s \in Seq(S \cup {k})
    BY <1>5
  <2>2. e \in Seq(S \cup {k}) /\ Len(e) = c + 1
    BY <1>5, <2>1
  <2>3. e[c + 1] = k
    BY <1>5
  <2>4. \A i \in 1..c : e[i] = s[i]
    BY <1>1, <1>5
  <2> HIDE DEF e
  <2>5. e \in [1..(c + 1) -> S \cup {k}]
    BY <1>1, <2>2
  <2> QED BY <2>3, <2>4, <2>5
<1> HIDE DEF e
<1>7. \A x \in S \cup {k} : \E i \in DOMAIN e : e[i] = x
  <2>1. c + 1 \in 1..(c + 1) /\ \A i \in 1..c : i \in 1..(c + 1)
    BY <1>1
  <2>2. DOMAIN e = 1..(c + 1) /\ DOMAIN s = 1..c
    BY <1>4, <1>6
  <2>3. \A x \in S : \E i \in DOMAIN e : e[i] = x
    BY <1>4, <1>6, <2>1, <2>2
  <2>4. \E i \in DOMAIN e : e[i] = k
    BY <1>6, <2>1, <2>2
  <2> QED BY <2>3, <2>4
<1>8. InOrder(e)
  <2> SUFFICES ASSUME NEW i \in 1..(c + 1), NEW j \in 1..(c + 1), i < j PROVE e[i] < e[j]
    BY <1>6 DEF InOrder
  <2>1. i \in 1..c /\ e[i] = s[i] /\ s[i] \in S
    BY <1>1, <1>4, <1>6
  <2>2. CASE j = c + 1
    BY <1>6, <2>1, <2>2
  <2>3. CASE j # c + 1
    <3>1. j \in 1..c /\ e[j] = s[j]
      BY <1>1, <1>6, <2>3
    <3> QED BY <1>4, <2>1, <3>1 DEF InOrder
  <2> QED BY <2>2, <2>3
<1>9. e \in Orders(S \cup {k})
  BY <1>3, <1>6, <1>7 DEF Orders
<1> QED BY <1>8, <1>9 DEF e

(* Every bounded set of numbers can be sorted. *)
LEMMA Sortable ==
  \A k \in Nat : \A S \in SUBSET (0..(k - 1)) : \E s \in Orders(S) : InOrder(s)
<1> DEFINE T == {k \in Nat : ~\A S \in SUBSET (0..(k - 1)) : \E s \in Orders(S) : InOrder(s)}
<1> SUFFICES ASSUME T # {} PROVE FALSE
  OBVIOUS
<1>1. PICK k \in T : \A m \in Nat : m < k => m \notin T
  <2>1. T \in SUBSET Nat
    OBVIOUS
  <2> HIDE DEF T
  <2> QED BY <2>1, LeastNumber
<1>2. k \in Nat
  OBVIOUS
<1>3. PICK S \in SUBSET (0..(k - 1)) : ~\E s \in Orders(S) : InOrder(s)
  OBVIOUS
<1>4. k # 0
  <2> SUFFICES ASSUME k = 0 PROVE FALSE
    OBVIOUS
  <2>1. S = {}
    BY <1>3
  <2> QED BY <1>3, <2>1, EmptyOrder
<1>5. k - 1 \in Nat /\ k - 1 < k
  BY <1>2, <1>4
<1>6. \A R \in SUBSET (0..((k - 1) - 1)) : \E s \in Orders(R) : InOrder(s)
  BY <1>1, <1>5
<1> HIDE DEF T
<1>7. CASE k - 1 \notin S
  <2>1. S \in SUBSET (0..((k - 1) - 1))
    BY <1>2, <1>3, <1>5, <1>7
  <2> QED BY <1>3, <1>6, <2>1
<1>8. CASE k - 1 \in S
  <2> DEFINE R == S \ {k - 1}
  <2>1. R \in SUBSET (0..((k - 1) - 1)) /\ R \in SUBSET Nat /\ \A x \in R : x < k - 1
    BY <1>2, <1>3, <1>5
  <2>2. IsFiniteSet(R)
    <3>1. IsFiniteSet(0..((k - 1) - 1))
      BY <1>2, FS_Interval
    <3> QED BY <2>1, <3>1, FS_Subset
  <2>3. S = R \cup {k - 1}
    BY <1>8
  <2> HIDE DEF R
  <2>4. PICK s \in Orders(R) : InOrder(s)
    BY <1>6, <2>1
  <2>5. Append(s, k - 1) \in Orders(S) /\ InOrder(Append(s, k - 1))
    BY <1>5, <2>1, <2>2, <2>3, <2>4, LargerLast
  <2> QED BY <1>3, <2>5
<1> QED BY <1>7, <1>8

-----------------------------------------------------------------------------
(* The invariant of a scan.                                                *)

(* Whatever may be probed. *)
Things == 0..(Size - 1) \cup Ports \cup UNION {DOMAIN link : link \in Links}

Asked ==
  \/ \E ip \in Bases, prefix \in 0..Width :
       /\ scan = [kind |-> "net", ip |-> ip, prefix |-> prefix]
       /\ items = CidrHosts(ip, prefix)
       /\ answers \subseteq 0..(Size - 1)
  \/ \E link \in Links :
       /\ scan = [kind |-> "serial", link |-> link]
       /\ items \in SerialDevices(link)
       /\ answers \subseteq Ports

PoolType ==
  /\ items \in Seq(Things) /\ next \in 1..(Len(items) + 1)
  /\ holds \in [Threads -> Things \cup {NoItem}] /\ ends \subseteq Threads
  /\ scanned \in {"running", "done", "error"}

Taken == 1..(next - 1)

(* A thread that holds nothing, returned; and none returns early. *)
Leaving ==
  /\ \A t \in ends : holds[t] = NoItem
  /\ scanned # "running" => \A t \in Threads : holds[t] = NoItem
  /\ scanned = "running" /\ ends = Threads => next > Len(items)

(* Every index is with one thread, is in the results or did not answer.    *)
Found ==
  /\ results \in Seq(Things)
  /\ \A k \in DOMAIN results :
       Target(results[k]) \in answers /\ \E i \in Taken : results[k] = items[i]
  /\ \A t \in Threads : holds[t] # NoItem => \E i \in Taken : holds[t] = items[i]
  /\ \A i \in Taken : Target(items[i]) \in answers =>
       \/ \E t \in Threads : holds[t] = items[i]
       \/ \E k \in DOMAIN results : results[k] = items[i]

Once ==
  /\ \A t, u \in Threads : holds[t] # NoItem /\ holds[t] = holds[u] => t = u
  /\ \A t \in Threads : \A k \in DOMAIN results : results[k] # holds[t]
  /\ \A j, k \in DOMAIN results : j # k => results[j] # results[k]

ScanInv ==
  /\ PoolType /\ Leaving
  /\ scanned # "error" => Asked
  /\ scanned = "running" => Found /\ Once
  /\ ScanComplete

(* The empty hand of a thread holds nothing that is scanned.               *)
LEMMA NoThing == NoItem \notin Things
BY DiscoveryAssumption DEF Things

(* The items of either kind of scan. *)
LEMMA NetItems ==
  ASSUME NEW ip \in Bases, NEW prefix \in 0..Width
  PROVE  LET hosts == CidrHosts(ip, prefix) IN
         /\ hosts \in Seq(0..(Size - 1)) /\ hosts # << >>
         /\ \A i, j \in DOMAIN hosts : i # j => hosts[i] # hosts[j]
         /\ {hosts[i] : i \in DOMAIN hosts} = Block(ip, prefix)
<1> DEFINE f == First(ip, prefix)
           l == Last(ip, prefix)
           hosts == CidrHosts(ip, prefix)
<1>1. ip \in 0..(Size - 1)
  BY DiscoveryAssumption
<1>2. f \in Nat /\ l \in Nat /\ f <= l /\ l < Size /\ Size \in Nat
  BY <1>1, FirstAndLast, SizePositive
<1>3. hosts = [i \in 1..(l - f + 1) |-> f + i - 1]
  BY <1>1, HostsInOrder
<1>4. Block(ip, prefix) = f..l
  BY <1>1, BlockIs
<1> HIDE DEF f, l, hosts
<1>5. \A i \in 1..(l - f + 1) : f + i - 1 \in 0..(Size - 1)
  BY <1>2
<1>6. l - f + 1 \in Nat /\ 1 \in 1..(l - f + 1)
  BY <1>2
<1>7. hosts \in [1..(l - f + 1) -> 0..(Size - 1)]
  BY <1>3, <1>5
<1>8. hosts \in Seq(0..(Size - 1)) /\ DOMAIN hosts = 1..(l - f + 1)
  <2> DEFINE n == l - f + 1
             S == 0..(Size - 1)
  <2>1. n \in Nat /\ hosts \in [1..n -> S]
    BY <1>6, <1>7
  <2> HIDE DEF n, S
  <2>2. hosts \in Seq(S) /\ DOMAIN hosts = 1..n
    BY <2>1
  <2> QED BY <2>2 DEF n, S
<1>9. hosts # << >>
  BY <1>6, <1>8
<1>10. \A i, j \in DOMAIN hosts : i # j => hosts[i] # hosts[j]
  BY <1>2, <1>3
<1>11. {hosts[i] : i \in DOMAIN hosts} = f..l
  <2>1. \A i \in DOMAIN hosts : hosts[i] \in f..l
    BY <1>2, <1>3
  <2>2. ASSUME NEW a \in f..l PROVE \E i \in DOMAIN hosts : hosts[i] = a
    <3>1. a - f + 1 \in 1..(l - f + 1) /\ f + (a - f + 1) - 1 = a
      BY <1>2
    <3> QED BY <1>3, <3>1
  <2> QED BY <2>1, <2>2
<1> QED BY <1>4, <1>8, <1>9, <1>10, <1>11 DEF hosts

(* No two items ask the same unit.                                         *)
LEMMA Distinct ==
  ASSUME Asked
  PROVE  /\ items \in Seq(Things)
         /\ \A i, j \in DOMAIN items : i # j => Target(items[i]) # Target(items[j])
<1>1. CASE \E ip \in Bases, prefix \in 0..Width :
             /\ scan = [kind |-> "net", ip |-> ip, prefix |-> prefix]
             /\ items = CidrHosts(ip, prefix)
  <2>1. PICK ip \in Bases, prefix \in 0..Width :
          /\ scan = [kind |-> "net", ip |-> ip, prefix |-> prefix]
          /\ items = CidrHosts(ip, prefix)
    BY <1>1
  <2>2. items \in Seq(0..(Size - 1)) /\ \A i, j \in DOMAIN items : i # j => items[i] # items[j]
    BY <2>1, NetItems
  <2>3. items \in Seq(Things)
    <3> DEFINE S == 0..(Size - 1)
    <3>1. S \subseteq Things /\ items \in Seq(S)
      BY <2>2 DEF Things
    <3> HIDE DEF S
    <3> QED BY <3>1
  <2>4. \A i \in DOMAIN items : Target(items[i]) = items[i]
    BY <2>1 DEF Target
  <2> QED BY <2>2, <2>3, <2>4
<1>2. CASE \E link \in Links : /\ scan = [kind |-> "serial", link |-> link]
                               /\ items \in SerialDevices(link)
  <2>1. PICK link \in Links : /\ scan = [kind |-> "serial", link |-> link]
                              /\ items \in SerialDevices(link)
    BY <1>2
  <2>2. /\ items \in Seq(Names(link))
        /\ \A i, j \in DOMAIN items : i # j => Resolve(link, items[i]) # Resolve(link, items[j])
    BY <2>1, DevicesRight
  <2>3. Names(link) \subseteq Things
    BY DEF Names, Things
  <2>4. items \in Seq(Things)
    BY <2>2, <2>3
  <2>5. \A i \in DOMAIN items : Target(items[i]) = Resolve(link, items[i])
    BY <2>1 DEF Target
  <2> QED BY <2>2, <2>4, <2>5
<1> QED BY <1>1, <1>2 DEF Asked

(* No index is taken twice, and no two items are one port. *)
LEMMA NeverBusy ==
  ASSUME PoolType, Asked, Found, Once, NEW t \in Threads, holds[t] # NoItem
  PROVE  ~Busy(t)
<1> SUFFICES ASSUME NEW u \in Threads \ {t}, holds[u] # NoItem,
                    Target(holds[u]) = Target(holds[t])
             PROVE  FALSE
  BY DEF Busy
<1>1. PICK i \in Taken : holds[t] = items[i]
  BY DEF Found
<1>2. PICK j \in Taken : holds[u] = items[j]
  BY DEF Found
<1>3. DOMAIN items = 1..Len(items) /\ i \in DOMAIN items /\ j \in DOMAIN items
  BY DEF PoolType, Taken
<1>4. i = j
  BY <1>1, <1>2, <1>3, Distinct
<1> QED BY <1>1, <1>2, <1>4 DEF Once

(* A scan begins with the invariant.                                       *)
LEMMA InitScan == ScanInit => ScanInv
<1> SUFFICES ASSUME ScanInit PROVE ScanInv
  OBVIOUS
<1>1. PICK what, list, who, state : ScanState(what, list, who, state)
        /\ \/ \E ip \in Bases, prefix \in 0..Width :
                /\ what = [kind |-> "net", ip |-> ip, prefix |-> prefix]
                /\ list = CidrHosts(ip, prefix) /\ who = 0..(Size - 1)
                /\ state = "running"
           \/ list = << >> /\ state = "error"
           \/ \E link \in Links :
                /\ what = [kind |-> "serial", link |-> link] /\ who = Ports
                /\ list \in SerialDevices(link)
                /\ state = IF list = << >> THEN "done" ELSE "running"
  <2>1. CASE NetInit
    <3>1. PICK ip \in Bases, prefix \in 0..(Width + 1) :
            LET what == [kind |-> "net", ip |-> ip, prefix |-> prefix] IN
            IF Refused(ip, prefix)
            THEN ScanState(what, << >>, {}, "error")
            ELSE ScanState(what, CidrHosts(ip, prefix), 0..(Size - 1), "running")
      BY <2>1 DEF NetInit
    <3>2. ~Refused(ip, prefix) => prefix \in 0..Width
      BY DEF Refused
    <3> QED BY <3>1, <3>2
  <2>2. CASE SerialInit
    <3>1. PICK link \in Links : \E list \in SerialDevices(link) :
            ScanState([kind |-> "serial", link |-> link], list, Ports,
                      IF list = << >> THEN "done" ELSE "running")
      BY <2>2 DEF SerialInit
    <3> QED BY <3>1
  <2> QED BY <2>1, <2>2 DEF ScanInit
<1>2. /\ scan = what /\ items = list /\ next = 1 /\ results = << >> /\ scanned = state
      /\ holds = [t \in Threads |-> NoItem]
  BY <1>1 DEF ScanState
<1>3. answers \subseteq who
  <2>1. answers \in Some(who)
    BY <1>1 DEF ScanState
  <2>2. MaxUnits \in Nat
    BY DiscoveryAssumption
  <2> QED BY <2>1, <2>2 DEF Some
<1>4. ends \subseteq Threads /\ ends # Threads
  <2>1. PICK pool \in SUBSET Threads : /\ Cardinality(pool) = PoolSize(Len(list))
                                       /\ ends = Threads \ pool
    BY <1>1 DEF ScanState
  <2>2. list \in Seq(Things)
    <3>1. CASE state = "error"
      BY <1>1, <3>1
    <3>2. CASE state # "error"
      <4>1. Asked
        BY <1>1, <1>2, <1>3, <3>2 DEF Asked
      <4> QED BY <1>2, <4>1, Distinct
    <3> QED BY <3>1, <3>2
  <2>3. Len(list) \in Nat
    BY <2>2
  <2>4. Cardinality(Threads) \in Nat /\ Cardinality(Threads) # 0
    BY DiscoveryAssumption, FS_CardinalityType, FS_EmptySet
  <2>5. PoolSize(Len(list)) # 0
    BY <2>3, <2>4 DEF PoolSize
  <2>6. pool # {}
    BY <2>1, <2>5, FS_EmptySet
  <2> QED BY <2>1, <2>6
<1>5. scanned # "error" => Asked
  BY <1>1, <1>2, <1>3 DEF Asked
<1>6. items \in Seq(Things)
  <2>1. CASE state = "error"
    BY <1>1, <1>2, <2>1
  <2>2. CASE state # "error"
    BY <1>2, <1>5, <2>2, Distinct
  <2> QED BY <2>1, <2>2
<1>7. PoolType
  <2>1. Len(items) \in Nat
    BY <1>6
  <2>2. scanned \in {"running", "done", "error"}
    BY <1>1, <1>2
  <2> QED BY <1>2, <1>4, <1>6, <2>1, <2>2 DEF PoolType
<1>8. Leaving
  BY <1>2, <1>4 DEF Leaving
<1>9. Found /\ Once
  <2>1. Taken = {} /\ DOMAIN results = {} /\ results \in Seq(Things)
    BY <1>2 DEF Taken
  <2> QED BY <1>2, <2>1 DEF Found, Once
<1>10. ScanComplete
  <2> SUFFICES ASSUME scanned = "done" PROVE ScanComplete
    BY DEF ScanComplete
  <2>1. PICK link \in Links : /\ what = [kind |-> "serial", link |-> link] /\ who = Ports
                              /\ list \in SerialDevices(link) /\ list = << >>
    BY <1>1, <1>2
  <2>2. Ports = {}
    BY <2>1, DevicesRight
  <2>3. answers = {} /\ DOMAIN results = {} /\ scan.kind = "serial"
    BY <1>2, <1>3, <2>1, <2>2
  <2> QED BY <2>3 DEF ScanComplete
<1> QED BY <1>5, <1>7, <1>8, <1>9, <1>10 DEF ScanInv

(* A thread takes the next item, which nobody had.                         *)
LEMMA ClaimKeeps ==
  ASSUME ScanInv, NEW t \in Threads, Claim(t)
  PROVE  ScanInv'
<1> USE DEF ScanInv
<1>1. /\ scanned = "running" /\ t \notin ends /\ holds[t] = NoItem /\ next <= Len(items)
      /\ holds' = [holds EXCEPT ![t] = items[next]] /\ next' = next + 1
      /\ UNCHANGED <<scan, items, answers, ends, results, scanned>>
  BY DEF Claim, Idle
<1>2. next \in DOMAIN items /\ items[next] \in Things /\ DOMAIN items = 1..Len(items)
      /\ Len(items) \in Nat /\ next \in Nat
  BY <1>1 DEF PoolType
<1>3. items[next] # NoItem /\ \A i \in Taken : items[i] # items[next]
  <2>1. \A i \in Taken : i \in DOMAIN items /\ i # next
    BY <1>2 DEF Taken, PoolType
  <2>2. \A i \in Taken : Target(items[i]) # Target(items[next])
    BY <1>1, <1>2, <2>1, Distinct
  <2> QED BY <1>2, <2>2, NoThing
<1>4. Taken' = Taken \cup {next} /\ next \in Taken'
  BY <1>1, <1>2 DEF Taken
<1>5. /\ holds'[t] = items[next] /\ \A u \in Threads : u # t => holds'[u] = holds[u]
      /\ holds' \in [Threads -> Things \cup {NoItem}]
  BY <1>1, <1>2 DEF PoolType
<1>6. PoolType'
  BY <1>1, <1>2, <1>5 DEF PoolType
<1>7. Leaving'
  BY <1>1, <1>5 DEF Leaving
<1>8. Found'
  <2>1. \A x : Target(x)' = Target(x)
    BY <1>1 DEF Target
  <2>2. \A k \in DOMAIN results : Target(results[k]) \in answers /\ \E i \in Taken' : results[k] = items[i]
    BY <1>1, <1>4 DEF Found
  <2>3. \A u \in Threads : holds'[u] # NoItem => \E i \in Taken' : holds'[u] = items[i]
    BY <1>1, <1>4, <1>5 DEF Found
  <2>4. \A i \in Taken' : Target(items[i]) \in answers =>
          \/ \E u \in Threads : holds'[u] = items[i]
          \/ \E k \in DOMAIN results : results[k] = items[i]
    <3> SUFFICES ASSUME NEW i \in Taken', Target(items[i]) \in answers,
                        ~\E k \in DOMAIN results : results[k] = items[i]
                 PROVE  \E u \in Threads : holds'[u] = items[i]
      OBVIOUS
    <3>1. CASE i = next
      BY <1>5, <3>1
    <3>2. CASE i # next
      <4>1. i \in Taken
        BY <1>4, <3>2
      <4>2. PICK u \in Threads : holds[u] = items[i]
        BY <1>1, <4>1 DEF Found
      <4>3. i \in DOMAIN items /\ items[i] # NoItem
        BY <1>2, <4>1, NoThing DEF Taken, PoolType
      <4>4. u # t
        BY <1>1, <4>2, <4>3
      <4> QED BY <1>5, <4>2, <4>4
    <3> QED BY <3>1, <3>2
  <2> QED BY <1>1, <2>1, <2>2, <2>3, <2>4 DEF Found
<1>9. Once'
  <2>1. \A u \in Threads : holds[u] # items[next]
    BY <1>1, <1>3 DEF Found
  <2>2. \A k \in DOMAIN results : results[k] # items[next]
    BY <1>1, <1>3 DEF Found
  <2> QED BY <1>1, <1>5, <2>1, <2>2 DEF Once
<1>10. Asked'
  BY <1>1 DEF Asked
<1>11. ScanComplete'
  BY <1>1 DEF ScanComplete
<1> QED BY <1>6, <1>7, <1>8, <1>9, <1>10, <1>11

(* A thread that finds no item ends.                                       *)
LEMMA RetireKeeps ==
  ASSUME ScanInv, NEW t \in Threads, Retire(t)
  PROVE  ScanInv'
<1> USE DEF ScanInv
<1>1. /\ scanned = "running" /\ holds[t] = NoItem /\ next > Len(items)
      /\ ends' = ends \cup {t}
      /\ UNCHANGED <<scan, items, answers, next, holds, results, scanned>>
  BY DEF Retire, Idle
<1>2. PoolType' /\ Leaving'
  BY <1>1 DEF PoolType, Leaving
<1>3. Found' /\ Once' /\ Asked'
  BY <1>1 DEF Found, Once, Asked, Target, Taken
<1>4. ScanComplete'
  BY <1>1 DEF ScanComplete
<1> QED BY <1>2, <1>3, <1>4

(* A probe that is over, whatever became of it. *)
LEMMA ProbeEnds ==
  ASSUME ScanInv, NEW t \in Threads, ProbeAnswers(t) \/ ProbeFails(t)
  PROVE  /\ scanned = "running" /\ ~Busy(t) /\ holds[t] # NoItem /\ holds[t] \in Things
         /\ holds'[t] = NoItem /\ \A u \in Threads : u # t => holds'[u] = holds[u]
         /\ PoolType' /\ Leaving' /\ Asked' /\ ScanComplete'
<1> USE DEF ScanInv
<1>1. /\ holds[t] # NoItem /\ holds' = [holds EXCEPT ![t] = NoItem]
      /\ UNCHANGED <<scan, items, answers, next, ends, scanned>>
  BY DEF ProbeAnswers, ProbeFails
<1>2. scanned = "running" /\ Asked /\ Found /\ Once
  BY <1>1 DEF Leaving, PoolType
<1>3. ~Busy(t)
  BY <1>1, <1>2, NeverBusy
<1>4. holds'[t] = NoItem /\ \A u \in Threads : u # t => holds'[u] = holds[u]
  BY <1>1 DEF PoolType
<1>5. holds[t] \in Things
  BY <1>1 DEF PoolType
<1>6. PoolType'
  BY <1>1 DEF PoolType
<1>7. Leaving'
  BY <1>1, <1>2, <1>4 DEF Leaving
<1>8. Asked' /\ ScanComplete'
  BY <1>1, <1>2 DEF Asked, ScanComplete
<1> QED BY <1>1, <1>2, <1>3, <1>4, <1>5, <1>6, <1>7, <1>8

(* An answer moves an item from its thread to the results.                 *)
LEMMA AnswerKeeps ==
  ASSUME ScanInv, NEW t \in Threads, ProbeAnswers(t)
  PROVE  ScanInv'
<1>1. /\ scanned = "running" /\ holds[t] # NoItem /\ holds[t] \in Things
      /\ holds'[t] = NoItem /\ \A u \in Threads : u # t => holds'[u] = holds[u]
      /\ PoolType' /\ Leaving' /\ Asked' /\ ScanComplete'
  BY ProbeEnds
<1>2. /\ Target(holds[t]) \in answers /\ results' = Append(results, holds[t])
      /\ UNCHANGED <<scan, items, answers, next, ends, scanned>>
  BY DEF ProbeAnswers
<1>3. Found /\ Once
  BY <1>1 DEF ScanInv
<1> DEFINE n == Len(results) + 1
<1>4. /\ results' \in Seq(Things) /\ DOMAIN results = 1..Len(results) /\ Len(results) \in Nat
      /\ DOMAIN results' = 1..n /\ results'[n] = holds[t]
      /\ \A k \in DOMAIN results : results'[k] = results[k]
  BY <1>1, <1>2, <1>3 DEF Found
<1>5. \A k \in DOMAIN results' : k \in DOMAIN results \/ k = n
  BY <1>4
<1>6. \A k \in DOMAIN results : k \in DOMAIN results'
  BY <1>4
<1>7. n \in DOMAIN results' /\ n \notin DOMAIN results
  BY <1>4
<1> HIDE DEF n
<1>8. Taken' = Taken /\ \A x : Target(x)' = Target(x)
  BY <1>2 DEF Taken, Target
<1>9. Found'
  <2>1. \A k \in DOMAIN results' : Target(results'[k]) \in answers /\ \E i \in Taken : results'[k] = items[i]
    BY <1>1, <1>2, <1>3, <1>4, <1>5 DEF Found
  <2>2. \A u \in Threads : holds'[u] # NoItem => \E i \in Taken : holds'[u] = items[i]
    BY <1>1, <1>3 DEF Found
  <2>3. \A i \in Taken : Target(items[i]) \in answers =>
          \/ \E u \in Threads : holds'[u] = items[i]
          \/ \E k \in DOMAIN results' : results'[k] = items[i]
    BY <1>1, <1>3, <1>4, <1>6, <1>7 DEF Found
  <2> QED BY <1>2, <1>4, <1>8, <2>1, <2>2, <2>3 DEF Found
<1>10. Once'
  <2>1. \A u, v \in Threads : holds'[u] # NoItem /\ holds'[u] = holds'[v] => u = v
    BY <1>1, <1>3 DEF Once
  <2>2. \A k \in DOMAIN results' : results'[k] \in Things
    <3>1. \A k \in DOMAIN results : results[k] \in Things
      BY <1>3 DEF Found
    <3> QED BY <1>1, <1>4, <1>5, <3>1
  <2>3. \A u \in Threads : \A k \in DOMAIN results' : results'[k] # holds'[u]
    <3> SUFFICES ASSUME NEW u \in Threads, NEW k \in DOMAIN results', results'[k] = holds'[u]
                 PROVE  FALSE
      OBVIOUS
    <3>1. u # t /\ holds'[u] = holds[u]
      BY <1>1, <2>2, NoThing
    <3>2. CASE k = n
      BY <1>1, <1>3, <1>4, <3>1, <3>2 DEF Once
    <3>3. CASE k # n
      BY <1>3, <1>4, <1>5, <3>1, <3>3 DEF Once
    <3> QED BY <3>2, <3>3
  <2>4. \A j, k \in DOMAIN results' : j # k => results'[j] # results'[k]
    BY <1>3, <1>4, <1>5 DEF Once
  <2> QED BY <2>1, <2>3, <2>4 DEF Once
<1> QED BY <1>1, <1>9, <1>10 DEF ScanInv

(* An item without an answer leaves its thread.                            *)
LEMMA FailureKeeps ==
  ASSUME ScanInv, NEW t \in Threads, ProbeFails(t)
  PROVE  ScanInv'
<1>1. /\ scanned = "running" /\ ~Busy(t) /\ holds[t] # NoItem /\ holds[t] \in Things
      /\ holds'[t] = NoItem /\ \A u \in Threads : u # t => holds'[u] = holds[u]
      /\ PoolType' /\ Leaving' /\ Asked' /\ ScanComplete'
  BY ProbeEnds
<1>2. /\ Target(holds[t]) \notin answers
      /\ UNCHANGED <<scan, items, answers, next, ends, results, scanned>>
  BY <1>1 DEF ProbeFails
<1>3. Found /\ Once
  BY <1>1 DEF ScanInv
<1>4. Taken' = Taken /\ \A x : Target(x)' = Target(x)
  BY <1>2 DEF Taken, Target
<1>5. Found'
  <2>1. \A u \in Threads : holds'[u] # NoItem => \E i \in Taken : holds'[u] = items[i]
    BY <1>1, <1>3 DEF Found
  <2>2. \A i \in Taken : Target(items[i]) \in answers =>
          \/ \E u \in Threads : holds'[u] = items[i]
          \/ \E k \in DOMAIN results : results[k] = items[i]
    BY <1>1, <1>2, <1>3 DEF Found
  <2> QED BY <1>2, <1>3, <1>4, <2>1, <2>2 DEF Found
<1>6. Once'
  <2>1. \A u, v \in Threads : holds'[u] # NoItem /\ holds'[u] = holds'[v] => u = v
    BY <1>1, <1>3 DEF Once
  <2>2. \A u \in Threads : \A k \in DOMAIN results : results[k] # holds'[u]
    <3>1. \A k \in DOMAIN results : results[k] # NoItem
      BY <1>3, NoThing DEF Found
    <3> QED BY <1>1, <1>3, <3>1 DEF Once
  <2> QED BY <1>2, <1>3, <2>1, <2>2 DEF Once
<1> QED BY <1>1, <1>5, <1>6 DEF ScanInv

(* When all threads have returned, what answered was found. *)
LEMMA AllFound ==
  ASSUME ScanInv, scanned = "running", ends = Threads
  PROVE  /\ \A i \in DOMAIN items :
              Target(items[i]) \in answers => \E k \in DOMAIN results : results[k] = items[i]
         /\ \A k \in DOMAIN results : \E i \in DOMAIN items : results[k] = items[i]
         /\ \A j, k \in DOMAIN results : j # k => Target(results[j]) # Target(results[k])
<1> USE DEF ScanInv
<1>1. Taken = DOMAIN items
  BY DEF Taken, Leaving, PoolType
<1>2. \A t \in Threads : holds[t] = NoItem
  BY DEF Leaving
<1>3. \A i \in DOMAIN items : items[i] # NoItem
  BY NoThing DEF PoolType
<1>4. \A i \in DOMAIN items :
        Target(items[i]) \in answers => \E k \in DOMAIN results : results[k] = items[i]
  BY <1>1, <1>2, <1>3 DEF Found
<1>5. \A k \in DOMAIN results : \E i \in DOMAIN items : results[k] = items[i]
  BY <1>1 DEF Found
<1>6. ASSUME NEW j \in DOMAIN results, NEW k \in DOMAIN results, j # k
      PROVE  Target(results[j]) # Target(results[k])
  <2>1. PICK x \in DOMAIN items : results[j] = items[x]
    BY <1>5
  <2>2. PICK y \in DOMAIN items : results[k] = items[y]
    BY <1>5
  <2>3. x # y
    BY <1>6, <2>1, <2>2 DEF Once
  <2> QED BY <2>1, <2>2, <2>3, Distinct
<1> QED BY <1>4, <1>5, <1>6

(* The scan returns when every thread has ended.                           *)
LEMMA ReturnKeeps ==
  ASSUME ScanInv, Return
  PROVE  ScanInv'
<1> DEFINE R == {results[i] : i \in DOMAIN results}
<1>1. /\ scanned = "running" /\ ends = Threads /\ scanned' = "done"
      /\ results' = IF scan.kind = "net"
                    THEN CHOOSE s \in Orders(R) : \A i, j \in DOMAIN s : i < j => s[i] < s[j]
                    ELSE results
      /\ UNCHANGED <<scan, items, answers, next, holds, ends>>
  BY DEF Return
<1>2. PoolType /\ Leaving /\ Asked /\ Found /\ Once
  BY <1>1 DEF ScanInv
<1>3. PoolType' /\ Leaving' /\ Asked'
  BY <1>1, <1>2 DEF PoolType, Leaving, Asked
<1>4. /\ \A i \in DOMAIN items :
           Target(items[i]) \in answers => \E k \in DOMAIN results : results[k] = items[i]
      /\ \A k \in DOMAIN results : \E i \in DOMAIN items : results[k] = items[i]
      /\ \A j, k \in DOMAIN results : j # k => Target(results[j]) # Target(results[k])
  BY <1>1, AllFound
<1>5. \A k \in DOMAIN results : Target(results[k]) \in answers
  BY <1>2 DEF Found
<1>6. CASE \E ip \in Bases, prefix \in 0..Width :
             /\ scan = [kind |-> "net", ip |-> ip, prefix |-> prefix]
             /\ items = CidrHosts(ip, prefix)
             /\ answers \subseteq 0..(Size - 1)
  <2>1. PICK ip \in Bases, prefix \in 0..Width :
             /\ scan = [kind |-> "net", ip |-> ip, prefix |-> prefix]
             /\ items = CidrHosts(ip, prefix)
             /\ answers \subseteq 0..(Size - 1)
    BY <1>6
  <2>2. \A x : Target(x) = x
    BY <2>1 DEF Target
  <2>3. /\ \A i \in DOMAIN items : items[i] \in 0..(Size - 1)
        /\ {items[i] : i \in DOMAIN items} = Block(ip, prefix)
    <3> DEFINE S == 0..(Size - 1)
    <3>1. items \in Seq(S) /\ {items[i] : i \in DOMAIN items} = Block(ip, prefix)
      BY <2>1, NetItems
    <3> HIDE DEF S
    <3>2. \A i \in DOMAIN items : items[i] \in S
      BY <3>1
    <3> QED BY <3>1, <3>2 DEF S
  <2>4. R = Block(ip, prefix) \cap answers
    BY <1>4, <1>5, <2>2, <2>3
  <2>5. R \in SUBSET (0..(Size - 1))
    BY <1>4, <2>3
  <2>6. IsFiniteSet(R)
    <3>1. IsFiniteSet(0..(Size - 1))
      BY SizePositive, FS_Interval
    <3> QED BY <2>5, <3>1, FS_Subset
  <2> HIDE DEF R
  <2>7. \E s \in Orders(R) : \A i, j \in DOMAIN s : i < j => s[i] < s[j]
    BY <2>5, SizePositive, Sortable DEF InOrder
  <2>8. results' \in Orders(R) /\ \A i, j \in DOMAIN results' : i < j => results'[i] < results'[j]
    BY <1>1, <2>1, <2>7
  <2>9. results' \in Seq(R) /\ {results'[i] : i \in DOMAIN results'} = R
    BY <2>6, <2>8, OrdersAre
  <2>10. \A i, j \in DOMAIN results' : i # j => results'[i] # results'[j]
    <3>1. DOMAIN results' \subseteq Nat /\ \A i \in DOMAIN results' : results'[i] \in R
      BY <2>9
    <3>2. R \subseteq Nat
      BY <2>5, SizePositive
    <3> SUFFICES ASSUME NEW i \in DOMAIN results', NEW j \in DOMAIN results', i # j
                 PROVE  results'[i] # results'[j]
      OBVIOUS
    <3>3. i \in Nat /\ j \in Nat /\ results'[i] \in Nat /\ results'[j] \in Nat
      BY <3>1, <3>2
    <3>4. i < j \/ j < i
      BY <3>3
    <3>5. (i < j => results'[i] < results'[j]) /\ (j < i => results'[j] < results'[i])
      BY <2>8
    <3> QED BY <3>3, <3>4, <3>5
  <2>11. scan' = scan /\ answers' = answers /\ \A x : Target(x)' = x
    BY <1>1, <2>2 DEF Target
  <2>12. ScanComplete'
    BY <2>1, <2>4, <2>8, <2>9, <2>10, <2>11 DEF ScanComplete
  <2> QED BY <1>1, <1>3, <2>12 DEF ScanInv
<1>7. CASE \E link \in Links :
             /\ scan = [kind |-> "serial", link |-> link]
             /\ items \in SerialDevices(link)
             /\ answers \subseteq Ports
  <2>1. PICK link \in Links :
             /\ scan = [kind |-> "serial", link |-> link]
             /\ items \in SerialDevices(link)
             /\ answers \subseteq Ports
    BY <1>7
  <2>2. \A x : Target(x) = Resolve(link, x)
    BY <2>1 DEF Target
  <2>3. /\ \A p \in Ports : \E i \in DOMAIN items : Resolve(link, items[i]) = p
        /\ \A i \in DOMAIN items :
             items[i] \in Ports => \A n \in DOMAIN link : link[n] # items[i]
    BY <2>1, DevicesRight
  <2>4. results' = results /\ scan' = scan /\ answers' = answers
        /\ \A x : Target(x)' = Target(x)
    BY <1>1, <2>1 DEF Target
  <2>5. {Target(results[i]) : i \in DOMAIN results} = answers
    <3>1. ASSUME NEW p \in answers PROVE \E k \in DOMAIN results : Target(results[k]) = p
      <4>1. PICK i \in DOMAIN items : Resolve(link, items[i]) = p
        BY <2>1, <2>3
      <4> QED BY <1>4, <2>2, <4>1
    <3> QED BY <1>5, <3>1
  <2>6. \A i \in DOMAIN results :
          results[i] \in Ports => \A n \in DOMAIN scan.link : scan.link[n] # results[i]
    BY <1>4, <2>1, <2>3
  <2>7. ScanComplete'
    BY <1>4, <2>1, <2>4, <2>5, <2>6 DEF ScanComplete
  <2> QED BY <1>1, <1>3, <2>7 DEF ScanInv
<1> QED BY <1>2, <1>6, <1>7 DEF Asked

(* Each step keeps the invariant.                                          *)
LEMMA ScanStep == ScanInv /\ [ScanNext]_scanVars => ScanInv'
<1> SUFFICES ASSUME ScanInv, [ScanNext]_scanVars PROVE ScanInv'
  OBVIOUS
<1>1. CASE Return
  BY <1>1, ReturnKeeps
<1>2. CASE \E t \in Threads : Claim(t)
  BY <1>2, ClaimKeeps
<1>3. CASE \E t \in Threads : Retire(t)
  BY <1>3, RetireKeeps
<1>4. CASE \E t \in Threads : ProbeAnswers(t)
  BY <1>4, AnswerKeeps
<1>5. CASE \E t \in Threads : ProbeFails(t)
  BY <1>5, FailureKeeps
<1>6. CASE UNCHANGED scanVars
  BY <1>6 DEF scanVars, ScanInv, PoolType, Leaving, Asked, Found, Once, Taken, Target, ScanComplete
<1> QED BY <1>1, <1>2, <1>3, <1>4, <1>5, <1>6 DEF ScanNext

(* A scan that returns has found every unit that answers, once and in      *)
(* order: for every width of an address, every block and prefix the code   *)
(* accepts, every set of ports and stable names, and any number of         *)
(* threads.                                                                *)
THEOREM ScanCompleteAlways == ScanSpec => []ScanComplete
<1>1. ScanInv => ScanComplete
  BY DEF ScanInv
<1> QED BY <1>1, InitScan, ScanStep, PTL DEF ScanSpec
=============================================================================
