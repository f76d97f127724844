------------------------- MODULE Recurring_proofs -------------------------
(***************************************************************************)
(* Proofs about recurring requests, for every set of timings and every     *)
(* stretch of years: the calendar computes the dates of a schedule, one in *)
(* each period; every date goes out when its day comes; and no period's    *)
(* goes out twice.  Most of it is the calendar: years and months, days off *)
(* (never two of them three or four days apart, so that a week has a       *)
(* working day among its first six), and the dates of each kind of         *)
(* schedule.                                                               *)
(***************************************************************************)
EXTENDS Recurring, WellFoundedInduction, TLAPS

-----------------------------------------------------------------------------
(* Numbers *)

LEMMA Least ==
    ASSUME NEW T \in SUBSET Nat, T # {}
    PROVE  \E x \in T : \A y \in T : x <= y
<1> DEFINE LessThan == OpToRel(<, Nat)
<1>1. IsWellFoundedOn(LessThan, Nat)
  BY NatLessThanWellFounded
<1>2. \A x, y \in Nat : x < y => <<x, y>> \in LessThan
  BY DEF OpToRel
<1> HIDE DEF LessThan
<1>3. PICK x \in T : \A y \in T : ~(<<y, x>> \in LessThan)
  BY <1>1, WFMin, Zenon
<1>4. ASSUME NEW y \in T PROVE x <= y
  <2>1. x \in Nat /\ y \in Nat /\ ~(y < x)
    BY <1>2, <1>3
  <2> QED BY <2>1
<1> QED BY <1>4

-----------------------------------------------------------------------------
(* Years and months *)

LEMMA YearLength ==
    ASSUME NEW y \in Nat \ {0}
    PROVE  /\ BeforeYear(y) \in Nat
           /\ BeforeYear(y + 1) = BeforeYear(y) + 365 + (IF Leap(y) THEN 1 ELSE 0)
<1> DEFINE a == y - 1
<1>1. a \in Nat /\ y = a + 1
  OBVIOUS
<1>2. /\ BeforeYear(y) = 365 * a + a \div 4 - a \div 100 + a \div 400
      /\ BeforeYear(y + 1) = 365 * y + y \div 4 - y \div 100 + y \div 400
  BY <1>1 DEF BeforeYear
<1>3. /\ y \div 4 = a \div 4 + (IF y % 4 = 0 THEN 1 ELSE 0)
      /\ y \div 100 = a \div 100 + (IF y % 100 = 0 THEN 1 ELSE 0)
      /\ y \div 400 = a \div 400 + (IF y % 400 = 0 THEN 1 ELSE 0)
      /\ a \div 4 \in Nat /\ a \div 100 \in Nat /\ a \div 400 \in Nat
      /\ a \div 100 <= a
  BY <1>1
<1>4. /\ y % 400 = 0 => y % 100 = 0
      /\ y % 100 = 0 => y % 4 = 0
  OBVIOUS
<1> HIDE DEF a
<1>5. BeforeYear(y) \in Nat
  BY <1>1, <1>2, <1>3
<1>6. BeforeYear(y + 1) = BeforeYear(y) + 365 + (IF Leap(y) THEN 1 ELSE 0)
  <2>1. CASE y % 4 # 0
    BY <1>1, <1>2, <1>3, <1>4, <2>1 DEF Leap
  <2>2. CASE y % 4 = 0 /\ y % 100 # 0
    BY <1>1, <1>2, <1>3, <1>4, <2>2 DEF Leap
  <2>3. CASE y % 4 = 0 /\ y % 100 = 0 /\ y % 400 # 0
    BY <1>1, <1>2, <1>3, <1>4, <2>3 DEF Leap
  <2>4. CASE y % 400 = 0
    BY <1>1, <1>2, <1>3, <1>4, <2>4 DEF Leap
  <2> QED BY <1>4, <2>1, <2>2, <2>3, <2>4
<1> QED BY <1>5, <1>6

LEMMA YearsFollow ==
    ASSUME NEW y \in Nat \ {0}, NEW z \in Nat \ {0}, y < z
    PROVE  BeforeYear(y + 1) <= BeforeYear(z)
<1> DEFINE a == z - 1
<1>1. a \in Nat /\ y <= a
  OBVIOUS
<1>2. /\ BeforeYear(y + 1) = 365 * y + y \div 4 - y \div 100 + y \div 400
      /\ BeforeYear(z) = 365 * a + a \div 4 - a \div 100 + a \div 400
  BY <1>1 DEF BeforeYear
<1>3. /\ y \div 4 <= a \div 4 /\ y \div 400 <= a \div 400
      /\ a \div 100 - y \div 100 <= a - y
      /\ y \div 4 \in Nat /\ a \div 4 \in Nat /\ y \div 100 \in Nat /\ a \div 100 \in Nat
      /\ y \div 400 \in Nat /\ a \div 400 \in Nat
  BY <1>1
<1> HIDE DEF a
<1> QED BY <1>1, <1>2, <1>3

\* A day of one of the years.
Covered(day) ==
    day \in Nat /\ \E y \in Years : BeforeYear(y) < day /\ day <= BeforeYear(y + 1)

LEMMA YearOfDay ==
    ASSUME YearsAssumption, NEW day \in Nat, NEW y \in Years,
           BeforeYear(y) < day, day <= BeforeYear(y + 1)
    PROVE  YearOf(day) = y
<1>1. ASSUME NEW z \in Years, BeforeYear(z) < day, day <= BeforeYear(z + 1), z # y PROVE FALSE
  <2>1. y \in Nat \ {0} /\ z \in Nat \ {0}
    BY DEF YearsAssumption
  <2>2. /\ BeforeYear(y) \in Nat /\ BeforeYear(z) \in Nat
        /\ BeforeYear(y + 1) \in Nat /\ BeforeYear(z + 1) \in Nat
    BY <2>1, YearLength
  <2>3. CASE y < z
    BY <1>1, <2>1, <2>2, <2>3, YearsFollow
  <2>4. CASE z < y
    BY <1>1, <2>1, <2>2, <2>4, YearsFollow
  <2> QED BY <1>1, <2>1, <2>3, <2>4
<1> QED BY <1>1 DEF YearOf

Shift(y) == IF Leap(y) THEN 1 ELSE 0

LEMMA MonthTable ==
    ASSUME NEW y \in Nat \ {0}
    PROVE  /\ Date(y, 1, 1) = BeforeYear(y) + 1
           /\ Date(y, 2, 1) = BeforeYear(y) + 32
           /\ Date(y, 3, 1) = BeforeYear(y) + 60 + Shift(y)
           /\ Date(y, 4, 1) = BeforeYear(y) + 91 + Shift(y)
           /\ Date(y, 5, 1) = BeforeYear(y) + 121 + Shift(y)
           /\ Date(y, 6, 1) = BeforeYear(y) + 152 + Shift(y)
           /\ Date(y, 7, 1) = BeforeYear(y) + 182 + Shift(y)
           /\ Date(y, 8, 1) = BeforeYear(y) + 213 + Shift(y)
           /\ Date(y, 9, 1) = BeforeYear(y) + 244 + Shift(y)
           /\ Date(y, 10, 1) = BeforeYear(y) + 274 + Shift(y)
           /\ Date(y, 11, 1) = BeforeYear(y) + 305 + Shift(y)
           /\ Date(y, 12, 1) = BeforeYear(y) + 335 + Shift(y)
<1>1. BeforeYear(y) \in Nat
  BY YearLength
<1> QED BY <1>1 DEF Date, BeforeMonth, Shift

LEMMA MonthLengths ==
    ASSUME NEW y \in Nat \ {0}
    PROVE  /\ MonthLength(y, 1) = 31 /\ MonthLength(y, 2) = 28 + Shift(y)
           /\ MonthLength(y, 3) = 31 /\ MonthLength(y, 4) = 30 /\ MonthLength(y, 5) = 31
           /\ MonthLength(y, 6) = 30 /\ MonthLength(y, 7) = 31 /\ MonthLength(y, 8) = 31
           /\ MonthLength(y, 9) = 30 /\ MonthLength(y, 10) = 31
           /\ MonthLength(y, 11) = 30 /\ MonthLength(y, 12) = 31
BY DEF MonthLength, Shift

\* The months of a year follow one another.
LEMMA MonthsFollow ==
    ASSUME NEW y \in Nat \ {0}, NEW m \in 1..12
    PROVE  /\ Date(y, m, 1) \in Nat /\ MonthLength(y, m) \in 28..31
           /\ BeforeYear(y) < Date(y, m, 1)
           /\ m < 12 => Date(y, m, 1) + MonthLength(y, m) = Date(y, m + 1, 1)
           /\ m = 12 => Date(y, m, 1) + MonthLength(y, m) = BeforeYear(y + 1) + 1
           /\ \A n \in 1..12 : m < n => Date(y, m, 1) + MonthLength(y, m) <= Date(y, n, 1)
<1>1. /\ BeforeYear(y) \in Nat /\ Shift(y) \in 0..1
      /\ BeforeYear(y + 1) = BeforeYear(y) + 365 + Shift(y)
  BY YearLength DEF Shift
<1>2. \/ m = 1 \/ m = 2 \/ m = 3 \/ m = 4 \/ m = 5 \/ m = 6
      \/ m = 7 \/ m = 8 \/ m = 9 \/ m = 10 \/ m = 11 \/ m = 12
  OBVIOUS
<1>3. /\ Date(y, m, 1) \in Nat /\ MonthLength(y, m) \in 28..31
      /\ BeforeYear(y) < Date(y, m, 1)
      /\ m < 12 => Date(y, m, 1) + MonthLength(y, m) = Date(y, m + 1, 1)
      /\ m = 12 => Date(y, m, 1) + MonthLength(y, m) = BeforeYear(y + 1) + 1
  BY <1>1, <1>2, MonthTable, MonthLengths
<1>4. ASSUME NEW n \in 1..12, m < n
      PROVE  Date(y, m, 1) + MonthLength(y, m) <= Date(y, n, 1)
  <2>1. Date(y, m, 1) + MonthLength(y, m) = Date(y, m + 1, 1)
    BY <1>3, <1>4
  <2>2. \/ n = 2 \/ n = 3 \/ n = 4 \/ n = 5 \/ n = 6
        \/ n = 7 \/ n = 8 \/ n = 9 \/ n = 10 \/ n = 11 \/ n = 12
    BY <1>4
  <2>3. Date(y, m + 1, 1) <= Date(y, n, 1)
    BY <1>1, <1>2, <1>4, <2>2, MonthTable
  <2> QED BY <2>1, <2>3
<1> QED BY <1>3, <1>4

LEMMA MonthInYear ==
    ASSUME NEW y \in Nat \ {0}, NEW m \in 1..12
    PROVE  /\ Date(y, m, 1) \in Nat /\ MonthLength(y, m) \in 28..31
           /\ BeforeYear(y) \in Nat /\ BeforeYear(y + 1) \in Nat
           /\ BeforeYear(y) < Date(y, m, 1)
           /\ Date(y, m, 1) + MonthLength(y, m) <= BeforeYear(y + 1) + 1
<1>1. /\ BeforeYear(y) \in Nat /\ BeforeYear(y + 1) \in Nat
  BY YearLength
<1>2. /\ Date(y, m, 1) \in Nat /\ MonthLength(y, m) \in 28..31
      /\ BeforeYear(y) < Date(y, m, 1)
      /\ m = 12 => Date(y, m, 1) + MonthLength(y, m) = BeforeYear(y + 1) + 1
  BY MonthsFollow
<1>3. m < 12 => Date(y, m, 1) + MonthLength(y, m) <= Date(y, 12, 1)
  BY MonthsFollow
<1>4. /\ Date(y, 12, 1) \in Nat /\ MonthLength(y, 12) \in 28..31
      /\ Date(y, 12, 1) + MonthLength(y, 12) = BeforeYear(y + 1) + 1
  <2>1. 12 \in 1..12
    OBVIOUS
  <2> QED BY <2>1, MonthsFollow
<1>5. m < 12 \/ m = 12
  OBVIOUS
<1> QED BY <1>1, <1>2, <1>3, <1>4, <1>5

MonthStart(day) == Date(YearOf(day), MonthOf(day), 1)

LEMMA MonthOfDay ==
    ASSUME NEW day \in Nat, NEW y \in Nat \ {0}, YearOf(day) = y, NEW m \in 1..12,
           Date(y, m, 1) <= day, day < Date(y, m, 1) + MonthLength(y, m)
    PROVE  MonthOf(day) = m
<1>1. ASSUME NEW n \in 1..12, Date(y, n, 1) <= day, day < Date(y, n, 1) + MonthLength(y, n), n # m
      PROVE  FALSE
  <2>1. /\ Date(y, m, 1) \in Nat /\ MonthLength(y, m) \in 28..31
        /\ Date(y, n, 1) \in Nat /\ MonthLength(y, n) \in 28..31
    BY MonthInYear
  <2>2. CASE m < n
    BY <1>1, <2>1, <2>2, MonthsFollow
  <2>3. CASE n < m
    BY <1>1, <2>1, <2>3, MonthsFollow
  <2> QED BY <1>1, <2>2, <2>3
<1> QED BY <1>1 DEF MonthOf

\* A day is in its month, and the other days of that month are of it, too.
LEMMA InMonth ==
    ASSUME YearsAssumption, NEW day, Covered(day)
    PROVE  /\ YearOf(day) \in Years /\ YearOf(day) \in Nat \ {0} /\ MonthOf(day) \in 1..12
           /\ BeforeYear(YearOf(day)) < day /\ day <= BeforeYear(YearOf(day) + 1)
           /\ MonthStart(day) \in Nat /\ NextMonthStart(day) \in Nat
           /\ MonthStart(day) <= day /\ day < NextMonthStart(day)
           /\ NextMonthStart(day) = MonthStart(day) + MonthLength(YearOf(day), MonthOf(day))
           /\ MonthLength(YearOf(day), MonthOf(day)) \in 28..31
<1>1. PICK y \in Years : BeforeYear(y) < day /\ day <= BeforeYear(y + 1)
  BY DEF Covered
<1>2. day \in Nat /\ y \in Nat \ {0} /\ YearOf(day) = y
  BY <1>1, YearOfDay DEF Covered, YearsAssumption
<1>3. /\ BeforeYear(y) \in Nat /\ Shift(y) \in 0..1
      /\ BeforeYear(y + 1) = BeforeYear(y) + 365 + Shift(y)
  BY <1>2, YearLength DEF Shift
<1>4. PICK m \in 1..12 : Date(y, m, 1) <= day /\ day < Date(y, m, 1) + MonthLength(y, m)
  <2> DEFINE In(m) == Date(y, m, 1) <= day /\ day < Date(y, m, 1) + MonthLength(y, m)
  <2>1. \/ In(1) \/ In(2) \/ In(3) \/ In(4) \/ In(5) \/ In(6)
        \/ In(7) \/ In(8) \/ In(9) \/ In(10) \/ In(11) \/ In(12)
    BY <1>1, <1>2, <1>3, MonthTable, MonthLengths
  <2> QED BY <2>1
<1>5. MonthOf(day) = m
  BY <1>2, <1>4, MonthOfDay
<1>6. Date(y, m, 1) \in Nat /\ MonthLength(y, m) \in 28..31
  BY <1>2, MonthsFollow
<1> QED BY <1>1, <1>2, <1>4, <1>5, <1>6 DEF MonthStart, NextMonthStart

LEMMA SameMonth ==
    ASSUME YearsAssumption, NEW d, Covered(d), NEW e, Covered(e),
           MonthStart(d) <= e, e < NextMonthStart(d)
    PROVE  YearOf(e) = YearOf(d) /\ MonthOf(e) = MonthOf(d)
<1> DEFINE y == YearOf(d)
           m == MonthOf(d)
<1>1. /\ y \in Years /\ y \in Nat \ {0} /\ m \in 1..12 /\ e \in Nat
      /\ Date(y, m, 1) <= e /\ e < Date(y, m, 1) + MonthLength(y, m)
  BY InMonth DEF MonthStart, Covered
<1> HIDE DEF y, m
<1>2. /\ BeforeYear(y) < Date(y, m, 1) /\ BeforeYear(y) \in Nat
      /\ Date(y, m, 1) \in Nat /\ MonthLength(y, m) \in 28..31
      /\ Date(y, m, 1) + MonthLength(y, m) <= BeforeYear(y + 1) + 1
      /\ BeforeYear(y + 1) \in Nat
  BY <1>1, MonthInYear
<1>3. BeforeYear(y) < e /\ e <= BeforeYear(y + 1)
  BY <1>1, <1>2
<1>4. YearOf(e) = y
  BY <1>1, <1>3, YearOfDay
<1>5. MonthOf(e) = m
  BY <1>1, <1>4, MonthOfDay
<1> QED BY <1>4, <1>5 DEF y, m

\* The next month's first day is the first of its month.
LEMMA NextMonth ==
    ASSUME YearsAssumption, NEW d, Covered(d), Covered(NextMonthStart(d))
    PROVE  MonthStart(NextMonthStart(d)) = NextMonthStart(d)
<1> DEFINE y == YearOf(d)
           m == MonthOf(d)
           n == NextMonthStart(d)
<1>1. /\ y \in Years /\ y \in Nat \ {0} /\ m \in 1..12 /\ n \in Nat
      /\ n = Date(y, m, 1) + MonthLength(y, m)
  BY InMonth DEF MonthStart
<1>2. Covered(n)
  OBVIOUS
<1> HIDE DEF y, m, n
<1>3. /\ BeforeYear(y) \in Nat /\ BeforeYear(y + 1) \in Nat
      /\ Date(y, m, 1) \in Nat /\ BeforeYear(y) < Date(y, m, 1) /\ MonthLength(y, m) \in 28..31
  BY <1>1, MonthInYear
<1>4. CASE m < 12
  <2>1. m + 1 \in 1..12 /\ n = Date(y, m + 1, 1)
    BY <1>1, <1>4, MonthsFollow
  <2>2. /\ Date(y, m + 1, 1) + MonthLength(y, m + 1) <= BeforeYear(y + 1) + 1
        /\ MonthLength(y, m + 1) \in 28..31
    BY <1>1, <2>1, MonthInYear
  <2>3. BeforeYear(y) < n /\ n <= BeforeYear(y + 1)
    BY <1>1, <1>3, <2>1, <2>2
  <2>4. YearOf(n) = y
    BY <1>1, <2>3, YearOfDay
  <2>5. MonthOf(n) = m + 1
    <3>1. Date(y, m + 1, 1) <= n /\ n < Date(y, m + 1, 1) + MonthLength(y, m + 1)
      BY <1>1, <2>1, <2>2
    <3> QED BY <1>1, <2>1, <2>4, <3>1, MonthOfDay
  <2> QED BY <2>1, <2>4, <2>5 DEF MonthStart, n
<1>5. CASE m = 12
  <2>1. n = BeforeYear(y + 1) + 1
    BY <1>1, <1>5, MonthsFollow
  <2>2. PICK z \in Years : BeforeYear(z) < n /\ n <= BeforeYear(z + 1)
    BY <1>2 DEF Covered
  <2>3. z \in Nat \ {0} /\ BeforeYear(z) \in Nat /\ BeforeYear(z + 1) \in Nat
    BY YearLength DEF YearsAssumption
  <2>4. z = y + 1
    <3>1. CASE z <= y
      <4>1. z = y \/ z < y
        BY <1>1, <2>3, <3>1
      <4>2. z < y => BeforeYear(z + 1) <= BeforeYear(y)
        BY <1>1, <2>3, YearsFollow
      <4>3. BeforeYear(y) <= BeforeYear(y + 1)
        BY <1>1, <1>3, YearLength
      <4> QED BY <1>3, <2>1, <2>2, <2>3, <4>1, <4>2, <4>3
    <3>2. CASE y + 1 < z
      <4>1. BeforeYear((y + 1) + 1) <= BeforeYear(z)
        BY <1>1, <2>3, <3>2, YearsFollow
      <4>2. BeforeYear((y + 1) + 1) >= BeforeYear(y + 1) + 365 /\ BeforeYear((y + 1) + 1) \in Nat
        BY <1>1, <1>3, YearLength
      <4> QED BY <1>3, <2>1, <2>2, <2>3, <4>1, <4>2
    <3> QED BY <1>1, <2>3, <3>1, <3>2
  <2>5. YearOf(n) = z
    BY <1>1, <2>2, YearOfDay
  <2>6. Date(z, 1, 1) = n /\ MonthLength(z, 1) = 31
    BY <1>3, <2>1, <2>3, <2>4, MonthTable, MonthLengths
  <2>7. MonthOf(n) = 1
    <3>1. Date(z, 1, 1) <= n /\ n < Date(z, 1, 1) + MonthLength(z, 1)
      BY <1>1, <2>6
    <3> QED BY <1>1, <2>3, <2>5, <3>1, MonthOfDay
  <2> QED BY <2>5, <2>6, <2>7 DEF MonthStart, n
<1> QED BY <1>1, <1>4, <1>5

-----------------------------------------------------------------------------
(* Working days *)

\* Easter is from 22 March to 25 April.
LEMMA EasterInSpring ==
    ASSUME NEW y \in Nat \ {0}
    PROVE  /\ Easter(y) \in Nat
           /\ BeforeYear(y) + 81 + Shift(y) <= Easter(y)
           /\ Easter(y) <= BeforeYear(y) + 115 + Shift(y)
<1> DEFINE a == y % 19
           b == y \div 100
           c == y % 100
           d == b \div 4
           e == b % 4
           g == (8 * b + 13) \div 25
           h == ((19 * a) + b - d - g + 15) % 30
           i == c \div 4
           k == c % 4
           m == (32 + 2 * e + 2 * i - h - k) % 7
           n == (a + 11 * h + 22 * m) \div 451
           s == h + m - 7 * n + 114
<1>1. Easter(y) = Date(y, s \div 31, (s % 31) + 1)
  BY DEF Easter
<1>2. /\ a \in 0..18 /\ b \in Nat /\ c \in Nat
  OBVIOUS
<1> HIDE DEF a, b, c
<1>3. d \in Nat /\ e \in Nat /\ g \in Nat /\ i \in Nat /\ k \in Nat
  BY <1>2
<1> HIDE DEF d, e, g, i, k
<1>4. h \in 0..29
  BY <1>2, <1>3
<1> HIDE DEF h
<1>5. m \in 0..6
  BY <1>3, <1>4
<1> HIDE DEF m
<1>6. \/ n = 0 /\ a + 11 * h + 22 * m < 451
      \/ n = 1 /\ a + 11 * h + 22 * m >= 451
  BY <1>2, <1>4, <1>5
<1> HIDE DEF n
<1>7. s \in 114..148
  BY <1>2, <1>4, <1>5, <1>6
<1> HIDE DEF s
<1>8. \/ s \div 31 = 3 /\ s % 31 = s - 93 /\ s < 124
      \/ s \div 31 = 4 /\ s % 31 = s - 124 /\ s >= 124
  BY <1>7
<1>9. /\ BeforeYear(y) \in Nat /\ Shift(y) \in 0..1
      /\ Date(y, 3, 1) = BeforeYear(y) + 60 + Shift(y)
      /\ Date(y, 4, 1) = BeforeYear(y) + 91 + Shift(y)
  BY YearLength, MonthTable DEF Shift
<1>10. \A mm, dd \in Int : Date(y, mm, dd) = BeforeYear(y) + BeforeMonth(y, mm) + dd
  BY DEF Date
<1>11. BeforeMonth(y, 3) = 59 + Shift(y) /\ BeforeMonth(y, 4) = 90 + Shift(y)
  BY DEF BeforeMonth, Shift
<1>12. \/ Easter(y) = BeforeYear(y) + 59 + Shift(y) + (s - 93 + 1) /\ s < 124
       \/ Easter(y) = BeforeYear(y) + 90 + Shift(y) + (s - 124 + 1) /\ s >= 124
  BY <1>1, <1>7, <1>8, <1>9, <1>10, <1>11
<1> QED BY <1>7, <1>9, <1>12

\* The days off, counted from the start of the year; e is Easter.
OffAt(p, e, shift) ==
    \/ p \in {1, 6} \cup {n + shift : n \in {121, 123, 227, 305, 315, 358, 359, 360}}
    \/ p \in {e, e + 1, e + 49, e + 60}

LEMMA HolidaysOfYear ==
    ASSUME NEW y \in Nat \ {0}, NEW x \in Holidays(y)
    PROVE  /\ x \in Nat
           /\ OffAt(x - BeforeYear(y), Easter(y) - BeforeYear(y), Shift(y))
<1>1. /\ BeforeYear(y) \in Nat /\ Shift(y) \in 0..1 /\ Easter(y) \in Nat
  BY YearLength, EasterInSpring DEF Shift
<1>2. /\ Date(y, 1, 1) = BeforeYear(y) + 1 /\ Date(y, 1, 6) = BeforeYear(y) + 6
      /\ Date(y, 5, 1) = BeforeYear(y) + 121 + Shift(y)
      /\ Date(y, 5, 3) = BeforeYear(y) + 123 + Shift(y)
      /\ Date(y, 8, 15) = BeforeYear(y) + 227 + Shift(y)
      /\ Date(y, 11, 1) = BeforeYear(y) + 305 + Shift(y)
      /\ Date(y, 11, 11) = BeforeYear(y) + 315 + Shift(y)
      /\ Date(y, 12, 24) = BeforeYear(y) + 358 + Shift(y)
      /\ Date(y, 12, 25) = BeforeYear(y) + 359 + Shift(y)
      /\ Date(y, 12, 26) = BeforeYear(y) + 360 + Shift(y)
  BY <1>1 DEF Date, BeforeMonth, Shift
<1> DEFINE E == Easter(y)
           B == BeforeYear(y)
           S == Shift(y)
<1>3. \/ x = B + 1 \/ x = B + 6 \/ x = B + 121 + S \/ x = B + 123 + S
      \/ x = B + 227 + S \/ x = B + 305 + S \/ x = B + 315 + S
      \/ x = B + 358 + S \/ x = B + 359 + S \/ x = B + 360 + S
      \/ x = E \/ x = E + 1 \/ x = E + 49 \/ x = E + 60
  BY <1>2 DEF Holidays
<1>4. E \in Nat /\ B \in Nat /\ S \in Nat
  BY <1>1
<1> HIDE DEF E, B, S
<1>5. x \in Nat
  BY <1>3, <1>4
<1>6. OffAt(x - B, E - B, S)
  BY <1>3, <1>4 DEF OffAt
<1> QED BY <1>5, <1>6 DEF E, B, S

OffIn(y, x) ==
    \E p \in 1..361, e \in Int, shift \in {0, 1} :
        /\ x = BeforeYear(y) + p /\ OffAt(p, e, shift)
        /\ e = Easter(y) - BeforeYear(y) /\ shift = Shift(y)
        /\ 81 + shift <= e /\ e <= 115 + shift

LEMMA DayOff ==
    ASSUME NEW y \in Nat \ {0}, NEW x \in Holidays(y)
    PROVE  OffIn(y, x)
<1> DEFINE p == x - BeforeYear(y)
           e == Easter(y) - BeforeYear(y)
           shift == Shift(y)
<1>1. BeforeYear(y) \in Nat /\ shift \in {0, 1}
  BY YearLength DEF Shift
<1>2. e \in Int /\ 81 + shift <= e /\ e <= 115 + shift
  <2> HIDE DEF shift
  <2>1. Shift(y) = shift
    BY DEF shift
  <2> QED BY <1>1, <2>1, EasterInSpring
<1>3. x \in Nat /\ OffAt(p, e, shift)
  BY HolidaysOfYear
<1>4. p \in Int /\ x = BeforeYear(y) + p
  BY <1>1, <1>3
<1>5. e = Easter(y) - BeforeYear(y) /\ shift = Shift(y)
  OBVIOUS
<1> HIDE DEF p, e, shift
<1>6. p \in 1..361
  BY <1>1, <1>2, <1>3, <1>4 DEF OffAt
<1> QED BY <1>1, <1>2, <1>3, <1>4, <1>5, <1>6 DEF OffIn

\* Of two days three or four apart, one is not off.
LEMMA NotFarOff ==
    ASSUME NEW p \in Int, NEW n \in {3, 4}, NEW shift \in {0, 1}, NEW e \in Int,
           81 + shift <= e, e <= 115 + shift, OffAt(p, e, shift)
    PROVE  ~OffAt(p + n, e, shift)
BY DEF OffAt

LEMMA DaysOffApart ==
    ASSUME YearsAssumption, NEW x \in DaysOff, NEW n \in {3, 4}
    PROVE  x \in Nat /\ x + n \notin DaysOff
<1>1. PICK y \in Years : x \in Holidays(y)
  BY DEF DaysOff
<1>2. y \in Nat \ {0}
  BY DEF YearsAssumption
<1>3. PICK p \in 1..361, e \in Int, shift \in {0, 1} :
         /\ x = BeforeYear(y) + p /\ OffAt(p, e, shift)
         /\ e = Easter(y) - BeforeYear(y) /\ shift = Shift(y)
         /\ 81 + shift <= e /\ e <= 115 + shift
  <2>1. OffIn(y, x)
    BY <1>1, <1>2, DayOff
  <2> QED BY <2>1 DEF OffIn
<1>4. BeforeYear(y) \in Nat /\ BeforeYear(y + 1) = BeforeYear(y) + 365 + shift
  BY <1>2, <1>3, YearLength DEF Shift
<1>5. ASSUME x + n \in DaysOff PROVE FALSE
  <2>1. PICK z \in Years : x + n \in Holidays(z)
    BY <1>5 DEF DaysOff
  <2>2. z \in Nat \ {0}
    BY DEF YearsAssumption
  <2>3. PICK p2 \in 1..361, e2 \in Int, shift2 \in {0, 1} :
           /\ x + n = BeforeYear(z) + p2 /\ OffAt(p2, e2, shift2)
           /\ e2 = Easter(z) - BeforeYear(z) /\ shift2 = Shift(z)
    <3>1. OffIn(z, x + n)
      BY <2>1, <2>2, DayOff
    <3> QED BY <3>1 DEF OffIn
  <2>4. BeforeYear(z) \in Nat /\ BeforeYear(z + 1) = BeforeYear(z) + 365 + shift2
    BY <2>2, <2>3, YearLength DEF Shift
  <2>5. CASE z = y
    <3>1. p2 = p + n /\ OffAt(p + n, e, shift)
      BY <1>3, <1>4, <2>3, <2>5
    <3> QED BY <1>3, <3>1, NotFarOff
  <2>6. CASE z < y
    <3>1. BeforeYear(z + 1) <= BeforeYear(y)
      BY <1>2, <2>2, <2>6, YearsFollow
    <3> QED BY <1>3, <1>4, <2>3, <2>4, <3>1
  <2>7. CASE y < z
    <3>1. BeforeYear(y + 1) <= BeforeYear(z)
      BY <1>2, <2>2, <2>7, YearsFollow
    <3> QED BY <1>3, <1>4, <2>3, <2>4, <3>1
  <2> QED BY <1>2, <2>2, <2>5, <2>6, <2>7
<1>6. x \in Nat
  BY <1>3, <1>4
<1> QED BY <1>5, <1>6

\* In any week there is a working day before its last.
LEMMA WorkingWeek ==
    ASSUME YearsAssumption, NEW day \in Nat \ {0}
    PROVE  \E k \in 0..5 : IsWorkingDay(day + k)
<1> DEFINE w == Weekday(day)
<1>1. w \in 0..6 /\ \A k \in 0..6 : Weekday(day + k) = (w + k) % 7
  BY DEF Weekday
<1> HIDE DEF w
<1>2. \E i \in 0..5, j \in 0..5 :
         /\ j = i + 3 \/ j = i + 4
         /\ Weekday(day + i) < 5 /\ Weekday(day + j) < 5
  <2>1. CASE w \in {0, 1}
    <3>1. Weekday(day + 0) < 5 /\ Weekday(day + 3) < 5
      BY <1>1, <2>1
    <3> QED BY <3>1
  <2>2. CASE w \in {2, 6}
    <3>1. Weekday(day + 1) < 5 /\ Weekday(day + (IF w = 2 THEN 5 ELSE 4)) < 5
      BY <1>1, <2>2
    <3> QED BY <2>2, <3>1
  <2>3. CASE w \in {3, 4}
    <3>1. Weekday(day + 0) < 5 /\ Weekday(day + 4) < 5
      BY <1>1, <2>3
    <3> QED BY <3>1
  <2>4. CASE w = 5
    <3>1. Weekday(day + 2) < 5 /\ Weekday(day + 5) < 5
      BY <1>1, <2>4
    <3> QED BY <3>1
  <2> QED BY <1>1, <2>1, <2>2, <2>3, <2>4
<1>3. PICK i \in 0..5, j \in 0..5 :
         /\ j = i + 3 \/ j = i + 4
         /\ Weekday(day + i) < 5 /\ Weekday(day + j) < 5
  BY <1>2
<1>4. day + i \notin DaysOff \/ day + j \notin DaysOff
  <2> SUFFICES ASSUME day + i \in DaysOff PROVE day + j \notin DaysOff
    OBVIOUS
  <2>1. PICK n \in {3, 4} : j = i + n
    BY <1>3
  <2>2. (day + i) + n = day + j
    BY <2>1
  <2> QED BY <2>2, DaysOffApart
<1> QED BY <1>3, <1>4 DEF IsWorkingDay

(* next_working_day, for which ten days are looked at: the first working day *)
(* from a day on is at most five days away, whatever the year's Easter - no  *)
(* two days off are three or four days apart.                                *)
THEOREM NextWorking ==
    ASSUME YearsAssumption, NEW day \in Nat \ {0}
    PROVE  /\ NextWorkingDay(day) \in Nat
           /\ day <= NextWorkingDay(day) /\ NextWorkingDay(day) <= day + 5
           /\ IsWorkingDay(NextWorkingDay(day))
           /\ \A d \in Nat : day <= d /\ d < NextWorkingDay(day) => ~IsWorkingDay(d)
<1> DEFINE working == {d \in day..(day + 10) : IsWorkingDay(d)}
<1>1. PICK k \in 0..5 : IsWorkingDay(day + k)
  BY WorkingWeek
<1>2. day + k \in working /\ working \in SUBSET Nat
  BY <1>1
<1>3. \A d \in working : d \in Nat /\ day <= d /\ d <= day + 10 /\ IsWorkingDay(d)
  OBVIOUS
<1>4. \A d \in Nat : day <= d /\ d <= day + 10 /\ IsWorkingDay(d) => d \in working
  OBVIOUS
<1>5. NextWorkingDay(day) = CHOOSE d \in working : \A e \in working : d <= e
  BY DEF NextWorkingDay
<1> HIDE DEF working
<1>6. \E d \in working : \A e \in working : d <= e
  BY <1>2, Least
<1>7. NextWorkingDay(day) \in working /\ \A e \in working : NextWorkingDay(day) <= e
  BY <1>5, <1>6
<1>8. NextWorkingDay(day) <= day + 5
  <2>1. NextWorkingDay(day) <= day + k /\ NextWorkingDay(day) \in Nat
    BY <1>2, <1>7
  <2> QED BY <2>1
<1>9. \A d \in Nat : day <= d /\ d < NextWorkingDay(day) => ~IsWorkingDay(d)
  BY <1>3, <1>4, <1>7, <1>8
<1> QED BY <1>3, <1>7, <1>8, <1>9

-----------------------------------------------------------------------------
(* The dates of a schedule *)

ScheduleOk(s) ==
    /\ s.interval \in {"daily", "weekly", "biweekly", "monthly"}
    /\ s.month_day \in 1..31 /\ s.weekday \in 0..6 /\ s.workdays \in BOOLEAN
    /\ s.anchor \in Nat

\* Dates that can be computed with from a day on.
Reach(day) == day \in Nat \ {0} /\ \A d \in day..(day + 62) : Covered(d)

LEMMA MonthDays ==
    ASSUME YearsAssumption, NEW day, Covered(day), NEW wanted \in 1..31
    PROVE  LET due == MonthDay(YearOf(day), MonthOf(day), wanted)
               length == MonthLength(YearOf(day), MonthOf(day))
           IN  /\ due \in Nat /\ MonthStart(day) <= due /\ due < NextMonthStart(day)
               /\ due = MonthStart(day) + (IF wanted < length THEN wanted ELSE length) - 1
<1> DEFINE length == MonthLength(YearOf(day), MonthOf(day))
           least == IF wanted < length THEN wanted ELSE length
<1>1. /\ YearOf(day) \in Nat \ {0} /\ MonthOf(day) \in 1..12
      /\ MonthStart(day) \in Nat /\ length \in 28..31
      /\ NextMonthStart(day) = MonthStart(day) + length
  BY InMonth
<1>2. MonthDay(YearOf(day), MonthOf(day), wanted)
        = BeforeYear(YearOf(day)) + BeforeMonth(YearOf(day), MonthOf(day)) + least
  BY DEF MonthDay, Date
<1>3. MonthStart(day) = BeforeYear(YearOf(day)) + BeforeMonth(YearOf(day), MonthOf(day)) + 1
  BY DEF MonthStart, Date
<1>4. BeforeYear(YearOf(day)) \in Nat /\ BeforeMonth(YearOf(day), MonthOf(day)) \in Int
  <2>1. \A y, m : BeforeMonth(y, m) = <<0, 31, 59, 90, 120, 151, 181, 212, 243, 273, 304, 334>>[m]
                     + (IF m > 2 /\ Leap(y) THEN 1 ELSE 0)
    BY DEF BeforeMonth
  <2>2. <<0, 31, 59, 90, 120, 151, 181, 212, 243, 273, 304, 334>>[MonthOf(day)] \in Int
    BY <1>1
  <2> QED BY <1>1, <2>1, <2>2, YearLength
<1> HIDE DEF length
<1>5. least \in 1..31 /\ least <= length
  BY <1>1
<1> HIDE DEF least
<1>6. MonthDay(YearOf(day), MonthOf(day), wanted) = MonthStart(day) + least - 1
  BY <1>2, <1>3, <1>4, <1>5
<1> QED BY <1>1, <1>5, <1>6 DEF length, least

\* A month has one date of a monthly schedule.
LEMMA MonthlyFalls ==
    ASSUME YearsAssumption, NEW day, Covered(day), Covered(day + 1), NEW s, ScheduleOk(s),
           s.interval = "monthly"
    PROVE  Falls(s, day) <=> day = MonthDay(YearOf(day), MonthOf(day), s.month_day)
<1> DEFINE start == MonthStart(day)
           next == NextMonthStart(day)
           length == MonthLength(YearOf(day), MonthOf(day))
           w == s.month_day
<1>1. /\ start \in Nat /\ next \in Nat /\ length \in 28..31 /\ next = start + length
      /\ start <= day /\ day < next /\ day \in Nat
  BY InMonth DEF Covered
<1>2. w \in 1..31
  BY DEF ScheduleOk
<1>3. MonthDay(YearOf(day), MonthOf(day), w)
         = start + (IF w < length THEN w ELSE length) - 1
  BY <1>2, MonthDays
<1>4. DayOfMonth(day) = day - start + 1
  BY DEF DayOfMonth, MonthStart
<1>5. DayOfMonth(day + 1) = 1 <=> day + 1 = next
  <2>1. DayOfMonth(day + 1) = (day + 1) - MonthStart(day + 1) + 1
    BY DEF DayOfMonth, MonthStart
  <2>2. CASE day + 1 < next
    <3>1. MonthStart(day + 1) = start
      <4>1. start <= day + 1
        BY <1>1
      <4> QED BY <2>2, <4>1, SameMonth DEF MonthStart
    <3> QED BY <1>1, <2>1, <2>2, <3>1
  <2>3. CASE day + 1 = next
    <3>1. MonthStart(day + 1) = day + 1
      BY <2>3, NextMonth
    <3> QED BY <1>1, <2>1, <2>3, <3>1
  <2> QED BY <1>1, <2>2, <2>3
<1>6. Falls(s, day) <=> \/ DayOfMonth(day) = w
                        \/ DayOfMonth(day) < w /\ DayOfMonth(day + 1) = 1
  BY DEF Falls
<1> HIDE DEF start, next, length, w
<1>7. Falls(s, day) <=> \/ day - start + 1 = w
                        \/ day - start + 1 < w /\ day + 1 = next
  BY <1>4, <1>5, <1>6
<1>8. Falls(s, day) <=> day = start + (IF w < length THEN w ELSE length) - 1
  BY <1>1, <1>2, <1>7
<1> QED BY <1>3, <1>8 DEF w

LEMMA MonthAhead ==
    ASSUME YearsAssumption, NEW day, Reach(day)
    PROVE  /\ Covered(day) /\ day \in Nat \ {0}
           /\ NextMonthStart(day) \in Nat /\ day < NextMonthStart(day)
           /\ NextMonthStart(day) <= day + 31
           /\ Covered(NextMonthStart(day))
           /\ MonthStart(NextMonthStart(day)) = NextMonthStart(day)
           /\ NextMonthStart(NextMonthStart(day)) \in Nat
           /\ NextMonthStart(NextMonthStart(day)) <= day + 62
<1> DEFINE n == NextMonthStart(day)
<1>1. day \in Nat \ {0} /\ Covered(day)
  BY DEF Reach
<1>2. n \in Nat /\ day < n /\ n <= day + 31
  <2>1. /\ MonthStart(day) \in Nat /\ n \in Nat
        /\ MonthStart(day) <= day /\ day < n
        /\ n = MonthStart(day) + MonthLength(YearOf(day), MonthOf(day))
        /\ MonthLength(YearOf(day), MonthOf(day)) \in 28..31
    BY <1>1, InMonth
  <2> HIDE DEF n
  <2> QED BY <1>1, <2>1
<1>3. Covered(n)
  <2> HIDE DEF n
  <2> QED BY <1>1, <1>2 DEF Reach
<1>4. MonthStart(n) = n
  BY <1>1, <1>3, NextMonth
<1>5. NextMonthStart(n) \in Nat /\ NextMonthStart(n) <= n + 31
  <2> HIDE DEF n
  <2>1. /\ NextMonthStart(n) = MonthStart(n) + MonthLength(YearOf(n), MonthOf(n))
        /\ MonthLength(YearOf(n), MonthOf(n)) \in 28..31
        /\ NextMonthStart(n) \in Nat
    BY <1>3, InMonth
  <2> QED BY <1>2, <1>4, <2>1
<1> QED BY <1>1, <1>2, <1>3, <1>4, <1>5

\* next_period_start is after the day, and does not go back.
LEMMA PeriodEnds ==
    ASSUME YearsAssumption, NEW s, ScheduleOk(s), NEW day \in Nat, Covered(day)
    PROVE  NextPeriodStart(s, day) \in Nat /\ day < NextPeriodStart(s, day)
<1>1. CASE s.interval = "daily"
  BY <1>1 DEF NextPeriodStart
<1>2. CASE s.interval = "weekly"
  <2>1. Weekday(day) \in 0..6
    BY DEF Weekday
  <2>2. NextPeriodStart(s, day) = day + 7 - Weekday(day)
    BY <1>2 DEF NextPeriodStart
  <2> QED BY <2>1, <2>2
<1>3. CASE s.interval = "biweekly"
  <2>1. NextPeriodStart(s, day) = IF day < s.anchor THEN s.anchor
            ELSE s.anchor + 14 * ((day - s.anchor) \div 14 + 1)
    BY <1>3 DEF NextPeriodStart
  <2> QED BY <2>1 DEF ScheduleOk
<1>4. CASE s.interval = "monthly"
  BY <1>4, InMonth DEF NextPeriodStart
<1> QED BY <1>1, <1>2, <1>3, <1>4 DEF ScheduleOk

LEMMA PeriodsFollow ==
    ASSUME YearsAssumption, NEW s, ScheduleOk(s), NEW d \in Nat, Covered(d),
           NEW e \in Nat, Covered(e), d <= e
    PROVE  NextPeriodStart(s, d) <= NextPeriodStart(s, e)
<1>1. CASE s.interval = "daily"
  BY <1>1 DEF NextPeriodStart
<1>2. CASE s.interval = "weekly"
  <2>1. NextPeriodStart(s, d) = d + 7 - Weekday(d) /\ NextPeriodStart(s, e) = e + 7 - Weekday(e)
    BY <1>2 DEF NextPeriodStart
  <2>2. Weekday(d) = (d - 1) % 7 /\ Weekday(e) = (e - 1) % 7
    BY DEF Weekday
  <2>3. d + 7 - ((d - 1) % 7) <= e + 7 - ((e - 1) % 7)
    OBVIOUS
  <2> QED BY <2>1, <2>2, <2>3
<1>3. CASE s.interval = "biweekly"
  <2>1. /\ NextPeriodStart(s, d) = IF d < s.anchor THEN s.anchor
              ELSE s.anchor + 14 * ((d - s.anchor) \div 14 + 1)
        /\ NextPeriodStart(s, e) = IF e < s.anchor THEN s.anchor
              ELSE s.anchor + 14 * ((e - s.anchor) \div 14 + 1)
    BY <1>3 DEF NextPeriodStart
  <2> QED BY <2>1 DEF ScheduleOk
<1>4. CASE s.interval = "monthly"
  <2>1. NextPeriodStart(s, d) = NextMonthStart(d) /\ NextPeriodStart(s, e) = NextMonthStart(e)
    BY <1>4 DEF NextPeriodStart
  <2>2. CASE e < NextMonthStart(d)
    <3>1. MonthStart(d) <= e
      BY InMonth
    <3>2. YearOf(e) = YearOf(d) /\ MonthOf(e) = MonthOf(d)
      BY <2>2, <3>1, SameMonth
    <3>3. NextMonthStart(e) = NextMonthStart(d) /\ NextMonthStart(d) \in Nat
      BY <3>2, InMonth DEF NextMonthStart
    <3> QED BY <2>1, <3>3
  <2>3. CASE NextMonthStart(d) <= e
    <3>1. e < NextMonthStart(e) /\ NextMonthStart(e) \in Nat /\ NextMonthStart(d) \in Nat
      BY InMonth
    <3> QED BY <2>1, <2>3, <3>1
  <2>4. NextMonthStart(d) \in Nat
    BY InMonth
  <2> QED BY <2>2, <2>3, <2>4
<1> QED BY <1>1, <1>2, <1>3, <1>4 DEF ScheduleOk

-----------------------------------------------------------------------------
(* due_on_or_after and next_period_start *)

\* Where a date can be looked for.
Near(s, day) == day \in Nat \ {0} /\ (s.interval = "monthly" => Reach(day))

\* due_on_or_after: the first date of the schedule, from the day on.
FirstDate(s, day, due) ==
    /\ due \in Nat \ {0} /\ day <= due /\ Falls(s, due)
    /\ \A d \in Nat : day <= d /\ d < due => ~Falls(s, d)

LEMMA FallsFirstDaily ==
    ASSUME YearsAssumption, NEW s, ScheduleOk(s), s.interval = "daily", NEW day \in Nat \ {0}
    PROVE  FirstDate(s, day, DueOnOrAfter(s, day))
<1>1. DueOnOrAfter(s, day) = IF s.workdays THEN NextWorkingDay(day) ELSE day
  BY DEF DueOnOrAfter
<1>2. \A d : Falls(s, d) <=> (s.workdays => IsWorkingDay(d))
  BY DEF Falls
<1>3. CASE s.workdays
  <2>1. DueOnOrAfter(s, day) = NextWorkingDay(day)
    BY <1>1, <1>3
  <2>2. /\ NextWorkingDay(day) \in Nat \ {0}
        /\ day <= NextWorkingDay(day) /\ IsWorkingDay(NextWorkingDay(day))
        /\ \A d \in Nat : day <= d /\ d < NextWorkingDay(day) => ~IsWorkingDay(d)
    BY NextWorking
  <2>3. Falls(s, NextWorkingDay(day))
    BY <1>2, <2>2
  <2>4. \A d \in Nat : day <= d /\ d < NextWorkingDay(day) => ~Falls(s, d)
    BY <1>2, <1>3, <2>2
  <2> QED BY <2>1, <2>2, <2>3, <2>4 DEF FirstDate
<1>4. CASE ~s.workdays
  <2>1. DueOnOrAfter(s, day) = day /\ Falls(s, day)
    BY <1>1, <1>2, <1>4
  <2> QED BY <2>1 DEF FirstDate
<1> QED BY <1>3, <1>4

LEMMA FallsFirstWeekly ==
    ASSUME NEW s, ScheduleOk(s), s.interval = "weekly", NEW day \in Nat \ {0}
    PROVE  FirstDate(s, day, DueOnOrAfter(s, day))
<1> DEFINE w == s.weekday
           due == day + ((w - ((day - 1) % 7)) % 7)
<1>1. w \in 0..6
  BY DEF ScheduleOk
<1>2. DueOnOrAfter(s, day) = due
  <2>1. DueOnOrAfter(s, day) = WeekdayOnOrAfter(day, w)
    BY DEF DueOnOrAfter
  <2>2. WeekdayOnOrAfter(day, w) = day + ((w - Weekday(day)) % 7)
    BY DEF WeekdayOnOrAfter
  <2>3. Weekday(day) = (day - 1) % 7
    BY DEF Weekday
  <2> QED BY <2>1, <2>2, <2>3
<1>3. \A d : Falls(s, d) <=> (d - 1) % 7 = w
  BY DEF Falls, Weekday
<1>4. due \in Nat \ {0} /\ day <= due /\ due < day + 7 /\ (due - 1) % 7 = w
  <2> HIDE DEF w
  <2> QED BY <1>1
<1> HIDE DEF due, w
<1>5. ASSUME NEW d \in Nat, day <= d, d < due PROVE (d - 1) % 7 # w
  BY <1>1, <1>4, <1>5
<1> QED BY <1>2, <1>3, <1>4, <1>5 DEF FirstDate

LEMMA FallsFirstBiweekly ==
    ASSUME NEW s, ScheduleOk(s), s.interval = "biweekly", s.anchor > 0, NEW day \in Nat \ {0}
    PROVE  FirstDate(s, day, DueOnOrAfter(s, day))
<1> DEFINE a == s.anchor
           due == IF day <= a THEN a ELSE a + 14 * ((day - a + 13) \div 14)
<1>1. a \in Nat \ {0}
  BY DEF ScheduleOk
<1>2. DueOnOrAfter(s, day) = due
  BY DEF DueOnOrAfter
<1>3. \A d : Falls(s, d) <=> d >= a /\ (d - a) % 14 = 0
  BY DEF Falls
<1> HIDE DEF a
<1>4. due \in Nat \ {0} /\ day <= due /\ due >= a /\ (due - a) % 14 = 0
      /\ (due = a \/ due < day + 14)
  BY <1>1
<1> HIDE DEF due
<1>5. ASSUME NEW d \in Nat, day <= d, d < due PROVE ~(d >= a /\ (d - a) % 14 = 0)
  BY <1>1, <1>4, <1>5
<1> QED BY <1>2, <1>3, <1>4, <1>5 DEF FirstDate

LEMMA FallsFirstMonthly ==
    ASSUME YearsAssumption, NEW s, ScheduleOk(s), s.interval = "monthly", NEW day, Reach(day)
    PROVE  FirstDate(s, day, DueOnOrAfter(s, day))
<1> DEFINE w == s.month_day
           n == NextMonthStart(day)
           here == MonthDay(YearOf(day), MonthOf(day), w)
           there == MonthDay(YearOf(n), MonthOf(n), w)
<1>1. DueOnOrAfter(s, day) = IF here >= day THEN here ELSE there
  BY DEF DueOnOrAfter, MonthlyOnOrAfter
<1>2. w \in 1..31
  BY DEF ScheduleOk
<1>3. /\ Covered(day) /\ day \in Nat \ {0} /\ Covered(n) /\ n \in Nat /\ day < n /\ n <= day + 31
      /\ MonthStart(n) = n /\ NextMonthStart(n) \in Nat /\ NextMonthStart(n) <= day + 62
  BY MonthAhead
<1>4. \A d \in Nat : day <= d /\ d <= day + 62 => Covered(d)
  BY <1>3 DEF Reach
<1>5. /\ here \in Nat /\ MonthStart(day) <= here /\ here < n
      /\ MonthStart(day) \in Nat /\ MonthStart(day) <= day
  BY <1>2, <1>3, MonthDays, InMonth
<1>6. there \in Nat /\ n <= there /\ there < NextMonthStart(n)
  BY <1>2, <1>3, MonthDays
\* In the month of the day the schedule falls on here, in the next on there.
<1>7. ASSUME NEW d \in Nat, day <= d, d < n PROVE Falls(s, d) <=> d = here
  <2>1. Covered(d) /\ Covered(d + 1)
    BY <1>3, <1>4, <1>7
  <2>2. MonthStart(day) <= d
    BY <1>5, <1>7, <1>3
  <2>3. YearOf(d) = YearOf(day) /\ MonthOf(d) = MonthOf(day)
    BY <1>3, <1>7, <2>1, <2>2, SameMonth
  <2> QED BY <2>1, <2>3, MonthlyFalls
<1>8. ASSUME NEW d \in Nat, n <= d, d < NextMonthStart(n) PROVE Falls(s, d) <=> d = there
  <2>1. Covered(d) /\ Covered(d + 1)
    BY <1>3, <1>4, <1>8
  <2>2. YearOf(d) = YearOf(n) /\ MonthOf(d) = MonthOf(n)
    BY <1>3, <1>8, <2>1, SameMonth
  <2> QED BY <2>1, <2>2, MonthlyFalls
<1> HIDE DEF here, there, n
<1>9. CASE here >= day
  <2>1. DueOnOrAfter(s, day) = here
    BY <1>1, <1>9
  <2>2. Falls(s, here)
    BY <1>5, <1>7, <1>9
  <2>3. ASSUME NEW d \in Nat, day <= d, d < here PROVE ~Falls(s, d)
    BY <1>3, <1>5, <1>7, <2>3
  <2>4. here \in Nat \ {0}
    BY <1>3, <1>5, <1>9
  <2> QED BY <1>9, <2>1, <2>2, <2>3, <2>4 DEF FirstDate
<1>10. CASE ~(here >= day)
  <2>1. DueOnOrAfter(s, day) = there
    BY <1>1, <1>10
  <2>2. Falls(s, there)
    BY <1>6, <1>8
  <2>3. ASSUME NEW d \in Nat, day <= d, d < there PROVE ~Falls(s, d)
    <3>1. d < n \/ n <= d
      BY <1>3
    <3> QED BY <1>3, <1>5, <1>6, <1>7, <1>8, <1>10, <2>3, <3>1
  <2>4. there \in Nat \ {0} /\ day <= there
    BY <1>3, <1>6
  <2> QED BY <2>1, <2>2, <2>3, <2>4 DEF FirstDate
<1> QED BY <1>9, <1>10

(* due_on_or_after is the first date of the schedule from the day on: no date *)
(* is passed over, for the 29th to the 31st in shorter months either.        *)
THEOREM FallsFirst ==
    ASSUME YearsAssumption, NEW s, ScheduleOk(s), s.interval = "biweekly" => s.anchor > 0,
           NEW day, Near(s, day)
    PROVE  FirstDate(s, day, DueOnOrAfter(s, day))
BY FallsFirstDaily, FallsFirstWeekly, FallsFirstBiweekly, FallsFirstMonthly DEF Near, ScheduleOk

\* Between a date and the start of the next period there is no other.
LEMMA NoneInPeriod ==
    ASSUME YearsAssumption, NEW s, ScheduleOk(s), NEW due \in Nat, Near(s, due), Falls(s, due),
           NEW d \in Nat, due < d, d < NextPeriodStart(s, due)
    PROVE  ~Falls(s, d)
<1>1. CASE s.interval = "daily"
  BY <1>1 DEF NextPeriodStart
<1>2. CASE s.interval = "weekly"
  <2>1. NextPeriodStart(s, due) = due + 7 - ((due - 1) % 7)
    <3>1. NextPeriodStart(s, due) = due + 7 - Weekday(due)
      BY <1>2 DEF NextPeriodStart
    <3>2. Weekday(due) = (due - 1) % 7
      BY DEF Weekday
    <3> QED BY <3>1, <3>2
  <2>2. (due - 1) % 7 = s.weekday /\ (Falls(s, d) <=> (d - 1) % 7 = s.weekday)
    BY <1>2 DEF Falls, Weekday
  <2>3. d < due + 7 - ((due - 1) % 7)
    BY <2>1
  <2>4. (d - 1) % 7 # (due - 1) % 7
    BY <2>3
  <2> QED BY <2>2, <2>4
<1>3. CASE s.interval = "biweekly"
  <2>1. s.anchor \in Nat
    BY DEF ScheduleOk
  <2>2. due >= s.anchor /\ (due - s.anchor) % 14 = 0
    BY <1>3 DEF Falls
  <2>3. NextPeriodStart(s, due) = s.anchor + 14 * ((due - s.anchor) \div 14 + 1)
    BY <1>3, <2>1, <2>2 DEF NextPeriodStart
  <2>4. d < due + 14
    BY <2>1, <2>2, <2>3
  <2>5. ~((d - s.anchor) % 14 = 0)
    BY <2>1, <2>2, <2>4
  <2> QED BY <1>3, <2>5 DEF Falls
<1>4. CASE s.interval = "monthly"
  <2>1. Reach(due)
    BY <1>4 DEF Near
  <2>2. /\ Covered(due) /\ NextMonthStart(due) \in Nat /\ NextMonthStart(due) <= due + 31
    BY <2>1, MonthAhead
  <2>3. d < NextMonthStart(due)
    BY <1>4 DEF NextPeriodStart
  <2>4. Covered(d) /\ Covered(d + 1) /\ Covered(due + 1)
    <3>1. d \in due..(due + 62) /\ d + 1 \in due..(due + 62) /\ due + 1 \in due..(due + 62)
      BY <2>2, <2>3
    <3> QED BY <2>1, <3>1 DEF Reach
  <2>5. MonthStart(due) <= d
    BY <2>2, InMonth
  <2>6. YearOf(d) = YearOf(due) /\ MonthOf(d) = MonthOf(due)
    BY <2>2, <2>3, <2>4, <2>5, SameMonth
  <2>7. due = MonthDay(YearOf(due), MonthOf(due), s.month_day)
    BY <1>4, <2>2, <2>4, MonthlyFalls
  <2>8. Falls(s, d) => d = MonthDay(YearOf(d), MonthOf(d), s.month_day)
    BY <1>4, <2>4, MonthlyFalls
  <2> QED BY <2>6, <2>7, <2>8
<1> QED BY <1>1, <1>2, <1>3, <1>4 DEF ScheduleOk

-----------------------------------------------------------------------------
(* sending_day and _advance *)

LEMMA SendingDays ==
    ASSUME YearsAssumption, NEW s, NEW d \in Nat \ {0}
    PROVE  /\ SendingDay(s, d) \in Nat /\ d <= SendingDay(s, d) /\ SendingDay(s, d) <= d + 5
           /\ s.interval = "daily" => SendingDay(s, d) = d
BY NextWorking DEF SendingDay

LEMMA SentInOrder ==
    ASSUME YearsAssumption, NEW s, NEW d \in Nat \ {0}, NEW e \in Nat \ {0}, d <= e
    PROVE  SendingDay(s, d) <= SendingDay(s, e)
<1>1. NextWorkingDay(d) <= NextWorkingDay(e)
  <2>1. /\ NextWorkingDay(d) \in Nat /\ d <= NextWorkingDay(d)
        /\ \A x \in Nat : d <= x /\ x < NextWorkingDay(d) => ~IsWorkingDay(x)
    BY NextWorking
  <2>2. NextWorkingDay(e) \in Nat /\ e <= NextWorkingDay(e) /\ IsWorkingDay(NextWorkingDay(e))
    BY NextWorking
  <2> QED BY <2>1, <2>2
<1> QED BY <1>1 DEF SendingDay

\* The days schedules are asked about.
LEMMA InSight ==
    ASSUME YearsAssumption, RecurringAssumption, NEW day \in FirstDay..LastDay
    PROVE  Reach(day) /\ Covered(day) /\ day \in Nat \ {0}
<1>1. /\ FirstDay \in Nat \ {0} /\ LastDay \in Nat
      /\ \A d \in FirstDay..(LastDay + 100) :
            \E y \in Years : BeforeYear(y) < d /\ d <= BeforeYear(y + 1)
  BY DEF RecurringAssumption
<1>2. day \in Nat \ {0}
  BY <1>1
<1>3. ASSUME NEW d \in day..(day + 62) PROVE Covered(d)
  <2>1. d \in FirstDay..(LastDay + 100) /\ d \in Nat
    BY <1>1
  <2> QED BY <1>1, <2>1 DEF Covered
<1>4. day \in day..(day + 62)
  BY <1>2
<1> QED BY <1>2, <1>3, <1>4 DEF Reach

\* The next period and its date.
LEMMA NextDate ==
    ASSUME YearsAssumption, RecurringAssumption, NEW day \in FirstDay..LastDay,
           NEW s, ScheduleOk(s), s.interval = "biweekly" => s.anchor > 0
    PROVE  LET next == NextPeriodStart(s, day) IN
           /\ next \in Nat /\ day < next
           /\ FirstDate(s, next, DueOnOrAfter(s, next))
           /\ DueOnOrAfter(s, next) \in Nat \ {0} /\ next <= DueOnOrAfter(s, next)
<1> DEFINE next == NextPeriodStart(s, day)
<1>1. Reach(day) /\ Covered(day) /\ day \in Nat \ {0}
  BY InSight
<1>2. next \in Nat /\ day < next
  BY <1>1, PeriodEnds
<1>3. s.interval = "monthly" => Reach(next)
  <2> SUFFICES ASSUME s.interval = "monthly" PROVE Reach(next)
    OBVIOUS
  <2>1. next = NextMonthStart(day)
    BY DEF NextPeriodStart
  <2>2. next <= day + 31
    BY <1>1, <2>1, MonthAhead
  <2>3. /\ FirstDay \in Nat \ {0} /\ LastDay \in Nat
        /\ \A d \in FirstDay..(LastDay + 100) :
              \E y \in Years : BeforeYear(y) < d /\ d <= BeforeYear(y + 1)
    BY DEF RecurringAssumption
  <2> HIDE DEF next
  <2>4. ASSUME NEW d \in next..(next + 62) PROVE Covered(d)
    <3>1. d \in FirstDay..(LastDay + 100) /\ d \in Nat
      BY <1>1, <1>2, <2>2, <2>3
    <3> QED BY <2>3, <3>1 DEF Covered
  <2> QED BY <1>1, <1>2, <2>4 DEF Reach
<1>4. Near(s, next)
  BY <1>1, <1>2, <1>3 DEF Near
<1> HIDE DEF next
<1>5. FirstDate(s, next, DueOnOrAfter(s, next))
  BY <1>4, FallsFirst
<1> QED BY <1>2, <1>5 DEF next, FirstDate

\* A round of the loop of _advance; ahead is what the rest of it finds.
AheadAt(s, day, ahead, d) ==
    IF SendingDay(s, d) > day THEN d ELSE ahead[DueOnOrAfter(s, NextPeriodStart(s, d))]

From(due) == {e \in Nat : e >= due}

\* The recursive function of AheadFrom exists: its dates, taken from the ones
\* after today back.
LEMMA AheadExists ==
    ASSUME YearsAssumption, RecurringAssumption, NEW day \in FirstDay..LastDay,
           NEW due \in Nat, FirstDay <= due,
           NEW s, ScheduleOk(s), s.interval = "biweekly" => s.anchor > 0
    PROVE  \E f : f = [d \in From(due) |-> AheadAt(s, day, f, d)]
<1> DEFINE D == From(due)
           Agrees(f, n) == \A d \in D : d + n > day => f[d] = AheadAt(s, day, f, d)
           Step(f) == [d \in D |-> AheadAt(s, day, f, d)]
           bad == {n \in Nat : ~\E f : Agrees(f, n)}
<1>1. /\ FirstDay \in Nat \ {0} /\ LastDay \in Nat /\ day \in Nat
      /\ \A d \in D : d \in Nat \ {0} /\ d >= due /\ d >= FirstDay
  BY DEF RecurringAssumption, From
\* Where the loop goes on, it goes ahead.
<1>2. ASSUME NEW d \in D, ~(SendingDay(s, d) > day)
      PROVE  LET e == DueOnOrAfter(s, NextPeriodStart(s, d)) IN e \in D /\ d < e
  <2>1. SendingDay(s, d) \in Nat /\ d <= SendingDay(s, d)
    BY <1>1, SendingDays
  <2>2. d \in FirstDay..LastDay
    BY <1>1, <1>2, <2>1
  <2>3. /\ NextPeriodStart(s, d) \in Nat /\ d < NextPeriodStart(s, d)
        /\ DueOnOrAfter(s, NextPeriodStart(s, d)) \in Nat
        /\ NextPeriodStart(s, d) <= DueOnOrAfter(s, NextPeriodStart(s, d))
    BY <2>2, NextDate
  <2> QED BY <1>1, <2>3 DEF From
<1>3. Agrees([d \in D |-> d], 0)
  <2> SUFFICES ASSUME NEW d \in D, d + 0 > day
               PROVE  AheadAt(s, day, [e \in D |-> e], d) = d
    OBVIOUS
  <2>1. SendingDay(s, d) > day
    BY <1>1, SendingDays
  <2> QED BY <2>1 DEF AheadAt
<1>4. ASSUME NEW n \in Nat, NEW f, Agrees(f, n) PROVE Agrees(Step(f), n + 1)
  <2> SUFFICES ASSUME NEW d \in D, d + (n + 1) > day
               PROVE  Step(f)[d] = AheadAt(s, day, Step(f), d)
    OBVIOUS
  <2>1. Step(f)[d] = AheadAt(s, day, f, d)
    OBVIOUS
  <2>2. CASE SendingDay(s, d) > day
    BY <2>1, <2>2 DEF AheadAt
  <2>3. CASE ~(SendingDay(s, d) > day)
    <3> DEFINE e == DueOnOrAfter(s, NextPeriodStart(s, d))
    <3>1. e \in D /\ d < e
      BY <1>2, <2>3
    <3>2. AheadAt(s, day, f, d) = f[e] /\ AheadAt(s, day, Step(f), d) = Step(f)[e]
      BY <2>3 DEF AheadAt
    <3> HIDE DEF e
    <3>3. e + n > day
      BY <1>1, <3>1
    <3>4. f[e] = AheadAt(s, day, f, e)
      BY <1>4, <3>1, <3>3
    <3>5. Step(f)[e] = AheadAt(s, day, f, e)
      BY <3>1
    <3> QED BY <2>1, <3>2, <3>4, <3>5
  <2> QED BY <2>2, <2>3
<1>5. \A n \in Nat : (\E f : Agrees(f, n)) => \E f : Agrees(f, n + 1)
  <2> HIDE DEF Agrees, Step
  <2> QED BY <1>4
<1>6. bad = {}
  <2> SUFFICES ASSUME bad # {} PROVE FALSE
    OBVIOUS
  <2> HIDE DEF Agrees
  <2>1. PICK n \in bad : \A m \in bad : n <= m
    <3>1. bad \in SUBSET Nat
      OBVIOUS
    <3> HIDE DEF bad
    <3> QED BY <3>1, Least
  <2>2. n # 0
    BY <1>3, <2>1
  <2>3. n - 1 \in Nat /\ (n - 1) + 1 = n /\ n - 1 \notin bad
    BY <2>1, <2>2
  <2>4. \E f : Agrees(f, n)
    <3>1. \E f : Agrees(f, n - 1)
      BY <2>3
    <3>2. \E f : Agrees(f, (n - 1) + 1)
      BY <1>5, <2>3, <3>1
    <3> QED BY <2>3, <3>2
  <2> QED BY <2>1, <2>4
<1>7. PICK f : Agrees(f, day + 1)
  <2> HIDE DEF Agrees
  <2>1. day + 1 \notin bad
    <3> HIDE DEF bad
    <3> QED BY <1>6
  <2> QED BY <1>1, <2>1
<1>8. \A d \in D : f[d] = AheadAt(s, day, f, d)
  BY <1>1, <1>7
<1> DEFINE g == [d \in D |-> f[d]]
<1>9. ASSUME NEW d \in D PROVE AheadAt(s, day, f, d) = AheadAt(s, day, g, d)
  <2>1. CASE SendingDay(s, d) > day
    BY <2>1 DEF AheadAt
  <2>2. CASE ~(SendingDay(s, d) > day)
    BY <1>2, <2>2 DEF AheadAt
  <2> QED BY <2>1, <2>2
<1>10. g = [d \in D |-> AheadAt(s, day, g, d)]
  <2> HIDE DEF D
  <2> QED BY <1>8, <1>9
<1> QED BY <1>10

\* _advance: from a date on, a date whose sending day is still to come; the
\* date itself, if its is.
LEMMA Ahead ==
    ASSUME YearsAssumption, RecurringAssumption, NEW day \in FirstDay..LastDay,
           NEW due \in Nat, FirstDay <= due,
           NEW s, ScheduleOk(s), s.interval = "biweekly" => s.anchor > 0
    PROVE  /\ AheadFrom(s, due, day) \in Nat /\ due <= AheadFrom(s, due, day)
           /\ SendingDay(s, AheadFrom(s, due, day)) > day
           /\ SendingDay(s, due) > day => AheadFrom(s, due, day) = due
<1> DEFINE ahead == CHOOSE f : f = [d \in From(due) |-> AheadAt(s, day, f, d)]
           Good(d) == ahead[d] \in Nat /\ d <= ahead[d] /\ SendingDay(s, ahead[d]) > day
           bad == {n \in Nat : \E d \in From(due) : d + n > day /\ ~Good(d)}
<1>1. ahead = [d \in From(due) |-> AheadAt(s, day, ahead, d)]
  BY AheadExists
<1>2. AheadFrom(s, due, day) = ahead[due]
  BY DEF AheadFrom, AheadAt, From
<1> HIDE DEF ahead
<1>3. ASSUME NEW d \in From(due)
      PROVE  ahead[d] = AheadAt(s, day, ahead, d)
  BY <1>1
<1>4. /\ FirstDay \in Nat \ {0} /\ LastDay \in Nat /\ day \in Nat /\ due \in From(due)
      /\ \A d \in From(due) : d \in Nat \ {0} /\ d >= due /\ d >= FirstDay
  BY DEF RecurringAssumption, From
<1>5. ASSUME NEW d \in From(due), SendingDay(s, d) > day PROVE Good(d) /\ ahead[d] = d
  <2>1. ahead[d] = d
    BY <1>3, <1>5 DEF AheadAt
  <2> QED BY <1>4, <1>5, <2>1
<1>6. ASSUME NEW d \in From(due), ~(SendingDay(s, d) > day)
      PROVE  \E e \in From(due) : d < e /\ (Good(e) => Good(d))
  <2> DEFINE e == DueOnOrAfter(s, NextPeriodStart(s, d))
  <2>1. SendingDay(s, d) \in Nat /\ d <= SendingDay(s, d)
    BY <1>4, SendingDays
  <2>2. d \in FirstDay..LastDay
    BY <1>4, <1>6, <2>1
  <2>3. /\ NextPeriodStart(s, d) \in Nat /\ d < NextPeriodStart(s, d)
        /\ e \in Nat /\ NextPeriodStart(s, d) <= e
    BY <2>2, NextDate
  <2>4. ahead[d] = ahead[e]
    BY <1>3, <1>6 DEF AheadAt
  <2> HIDE DEF e
  <2>5. e \in From(due) /\ d < e
    BY <1>4, <2>3 DEF From
  <2>6. Good(e) => Good(d)
    BY <1>4, <2>3, <2>4, <2>5
  <2> QED BY <2>5, <2>6
<1>7. bad = {}
  <2> SUFFICES ASSUME bad # {} PROVE FALSE
    OBVIOUS
  <2> HIDE DEF Good
  <2>1. PICK n \in bad : \A m \in bad : n <= m
    <3>1. bad \in SUBSET Nat
      OBVIOUS
    <3> HIDE DEF bad
    <3> QED BY <3>1, Least
  <2>2. PICK d \in From(due) : d + n > day /\ ~Good(d)
    BY <2>1
  <2>3. ~(SendingDay(s, d) > day)
    BY <1>5, <2>2
  <2>4. PICK e \in From(due) : d < e /\ (Good(e) => Good(d))
    BY <1>6, <2>3
  <2>5. n \in Nat /\ n # 0
    <3>1. SendingDay(s, d) \in Nat /\ d <= SendingDay(s, d)
      BY <1>4, SendingDays
    <3> QED BY <1>4, <2>1, <2>2, <2>3, <3>1
  <2>6. n - 1 \in bad
    <3>1. n - 1 \in Nat /\ e + (n - 1) > day /\ ~Good(e)
      BY <1>4, <2>2, <2>4, <2>5
    <3> QED BY <3>1
  <2>7. n <= n - 1
    <3> HIDE DEF bad
    <3> QED BY <2>1, <2>6
  <2> QED BY <2>5, <2>7
<1>8. Good(due)
  <2> HIDE DEF Good
  <2>1. day + 1 \notin bad
    <3> HIDE DEF bad
    <3> QED BY <1>7
  <2>2. day + 1 \in Nat /\ due + (day + 1) > day
    BY <1>4
  <2> QED BY <1>4, <2>1, <2>2
<1>9. SendingDay(s, due) > day => ahead[due] = due
  BY <1>4, <1>5
<1> QED BY <1>2, <1>8, <1>9

-----------------------------------------------------------------------------
(* The row of a schedule *)

Row == [interval : {"daily", "weekly", "biweekly", "monthly"},
        month_day : 1..31, weekday : 0..6, workdays : BOOLEAN, anchor : Nat,
        due : Nat, run : Nat, last : Nat, active : BOOLEAN]

\* What SetNext leaves of a row, and what the calendar reads of it.
SameTiming(s, t) ==
    /\ s.interval = t.interval /\ s.month_day = t.month_day /\ s.weekday = t.weekday
    /\ s.workdays = t.workdays /\ s.anchor = t.anchor

LEMMA Calendar ==
    ASSUME NEW s, NEW t, SameTiming(s, t), NEW d
    PROVE  /\ DueOnOrAfter(s, d) = DueOnOrAfter(t, d)
           /\ NextPeriodStart(s, d) = NextPeriodStart(t, d)
           /\ SendingDay(s, d) = SendingDay(t, d)
           /\ Falls(s, d) = Falls(t, d)
<1>1. DueOnOrAfter(s, d) = DueOnOrAfter(t, d)
  BY DEF SameTiming, DueOnOrAfter
<1>2. NextPeriodStart(s, d) = NextPeriodStart(t, d)
  BY DEF SameTiming, NextPeriodStart
<1>3. SendingDay(s, d) = SendingDay(t, d)
  BY DEF SameTiming, SendingDay
<1>4. Falls(s, d) = Falls(t, d)
  BY DEF SameTiming, Falls
<1> QED BY <1>1, <1>2, <1>3, <1>4

LEMMA NextSet ==
    ASSUME YearsAssumption, NEW s \in Row, NEW due \in Nat \ {0}
    PROVE  LET t == SetNext(s, due) IN
           /\ t \in Row /\ SameTiming(t, s)
           /\ t.due = due /\ t.run = SendingDay(t, due)
           /\ t.last = s.last /\ t.active = s.active
<1> DEFINE t == SetNext(s, due)
<1>1. SendingDay(s, due) \in Nat
  BY SendingDays
<1>2. t = [s EXCEPT !.due = due, !.run = SendingDay(s, due)]
  BY DEF SetNext
<1>3. t \in Row /\ t.due = due /\ t.run = SendingDay(s, due)
      /\ t.last = s.last /\ t.active = s.active
  BY <1>1, <1>2 DEF Row
<1>4. SameTiming(t, s)
  BY <1>2 DEF SameTiming, Row
<1>5. SendingDay(t, due) = SendingDay(s, due)
  BY <1>4, Calendar
<1> QED BY <1>3, <1>4, <1>5

\* A row on some day.
RowOk(s, day) ==
    /\ s \in Row
    /\ s.interval = "biweekly" => s.anchor > 0
    /\ FirstDay <= s.due /\ s.run = SendingDay(s, s.due)
    /\ s.last \in {0} \cup FirstDay..day

LEMMA Rows ==
    ASSUME RecurringAssumption, NEW s, NEW day \in FirstDay..LastDay, RowOk(s, day)
    PROVE  /\ s \in Row /\ ScheduleOk(s) /\ (s.interval = "biweekly" => s.anchor > 0)
           /\ s.due \in Nat \ {0} /\ FirstDay <= s.due /\ s.run = SendingDay(s, s.due)
           /\ s.last \in {0} \cup FirstDay..day /\ FirstDay \in Nat \ {0}
BY DEF RowOk, Row, ScheduleOk, RecurringAssumption

LEMMA RowSet ==
    ASSUME YearsAssumption, RecurringAssumption, NEW day \in FirstDay..LastDay,
           NEW s \in Row, s.interval = "biweekly" => s.anchor > 0,
           s.last \in {0} \cup FirstDay..day, NEW due \in Nat, FirstDay <= due
    PROVE  LET t == SetNext(s, due) IN
           /\ RowOk(t, day) /\ SameTiming(t, s)
           /\ t.due = due /\ t.run = SendingDay(s, due)
           /\ t.last = s.last /\ t.active = s.active
<1> DEFINE t == SetNext(s, due)
<1>1. due \in Nat \ {0}
  BY DEF RecurringAssumption
<1>2. /\ t \in Row /\ SameTiming(t, s) /\ t.due = due /\ t.run = SendingDay(t, due)
      /\ t.last = s.last /\ t.active = s.active
  BY <1>1, NextSet
<1> HIDE DEF t
<1>3. SendingDay(t, due) = SendingDay(s, due)
  BY <1>2, Calendar
<1>4. RowOk(t, day)
  BY <1>2 DEF RowOk, SameTiming
<1> QED BY <1>2, <1>3, <1>4 DEF t

\* _advance.
LEMMA Advanced ==
    ASSUME YearsAssumption, RecurringAssumption, NEW day \in FirstDay..LastDay,
           NEW s, RowOk(s, day), s.due <= day
    PROVE  LET t == Advance(s, s.due, day)
               next == NextPeriodStart(s, s.due)
           IN  /\ RowOk(t, day) /\ SameTiming(t, s)
               /\ next \in Nat /\ s.due < next /\ next <= t.due
               /\ FirstDate(s, next, DueOnOrAfter(s, next))
               /\ SendingDay(s, DueOnOrAfter(s, next)) > day => t.due = DueOnOrAfter(s, next)
               /\ t.run > day /\ t.last = s.last /\ t.active = s.active
<1> DEFINE next == NextPeriodStart(s, s.due)
           due == DueOnOrAfter(s, next)
           ahead == AheadFrom(s, due, day)
           t == SetNext(s, ahead)
<1>1. /\ s \in Row /\ ScheduleOk(s) /\ (s.interval = "biweekly" => s.anchor > 0)
      /\ s.due \in Nat \ {0} /\ FirstDay <= s.due
      /\ s.last \in {0} \cup FirstDay..day /\ FirstDay \in Nat \ {0}
  BY Rows
<1>2. s.due \in FirstDay..LastDay
  BY <1>1 DEF RecurringAssumption
<1>3. /\ next \in Nat /\ s.due < next
      /\ FirstDate(s, next, due) /\ due \in Nat \ {0} /\ next <= due
  BY <1>1, <1>2, NextDate
<1>4. Advance(s, s.due, day) = t
  BY DEF Advance
<1> HIDE DEF next
<1>5. due \in Nat /\ FirstDay <= due
  BY <1>1, <1>3
<1> HIDE DEF due
<1>6. /\ ahead \in Nat /\ due <= ahead /\ SendingDay(s, ahead) > day
      /\ SendingDay(s, due) > day => ahead = due
  BY <1>1, <1>5, Ahead
<1> HIDE DEF ahead
<1>7. ahead \in Nat /\ FirstDay <= ahead /\ next <= ahead
  BY <1>1, <1>3, <1>5, <1>6
<1>8. /\ RowOk(t, day) /\ SameTiming(t, s)
      /\ t.due = ahead /\ t.run = SendingDay(s, ahead)
      /\ t.last = s.last /\ t.active = s.active
  BY <1>1, <1>7, RowSet
<1> HIDE DEF t
<1> QED BY <1>3, <1>4, <1>6, <1>7, <1>8 DEF next, due

\* start: the first date from the day on, or from the next period on.
LEMMA Started ==
    ASSUME YearsAssumption, RecurringAssumption, NEW day \in FirstDay..LastDay,
           NEW s \in Row, s.last \in {0} \cup FirstDay..day, NEW later \in BOOLEAN
    PROVE  LET t == Start(s, day, later) IN
           /\ RowOk(t, day) /\ day <= t.due
           /\ NextPeriodStart(t, day) \in Nat /\ day < NextPeriodStart(t, day)
           /\ FirstDate(t, IF later THEN NextPeriodStart(t, day) ELSE day, t.due)
           /\ t.interval = s.interval /\ t.last = s.last /\ t.active = s.active
           /\ IF s.interval = "biweekly" THEN t.anchor = t.due ELSE SameTiming(t, s)
<1>1. /\ day \in Nat \ {0} /\ FirstDay \in Nat \ {0} /\ FirstDay <= day
      /\ ScheduleOk(s)
  BY DEF RecurringAssumption, Row, ScheduleOk
<1>2. CASE s.interval = "biweekly"
  <2> DEFINE from == IF later THEN day + 7 ELSE day
             anchor == WeekdayOnOrAfter(from, s.weekday)
             s1 == [s EXCEPT !.anchor = anchor]
             t == SetNext(s1, anchor)
  <2>1. Start(s, day, later) = t
    BY <1>2 DEF Start
  <2>2. from \in Nat \ {0} /\ day <= from /\ (later => day < from)
    BY <1>1
  <2>3. anchor \in Nat \ {0} /\ from <= anchor
    <3>1. s.weekday \in 0..6
      BY DEF Row
    <3>2. anchor = from + ((s.weekday - Weekday(from)) % 7) /\ Weekday(from) \in 0..6
      <4> HIDE DEF from
      <4> QED BY <2>2 DEF WeekdayOnOrAfter, Weekday
    <3> HIDE DEF anchor, from
    <3>3. (s.weekday - Weekday(from)) % 7 \in 0..6
      BY <3>1, <3>2
    <3> QED BY <2>2, <3>2, <3>3
  <2> HIDE DEF anchor, from
  <2>4. /\ s1 \in Row /\ s1.anchor = anchor /\ s1.interval = "biweekly"
        /\ s1.last = s.last /\ s1.active = s.active
    BY <1>2, <2>3 DEF Row
  <2> HIDE DEF s1
  <2>5. anchor \in Nat /\ FirstDay <= anchor
    BY <1>1, <2>2, <2>3
  <2>6. /\ RowOk(t, day) /\ SameTiming(t, s1)
        /\ t.due = anchor /\ t.last = s1.last /\ t.active = s1.active
    BY <2>3, <2>4, <2>5, RowSet
  <2> HIDE DEF t
  <2>7. t.interval = "biweekly" /\ t.anchor = anchor
    BY <2>4, <2>6 DEF SameTiming
  <2>8. NextPeriodStart(t, day) \in Nat /\ day < NextPeriodStart(t, day)
        /\ (later => NextPeriodStart(t, day) = anchor)
    <3>1. NextPeriodStart(t, day) = IF day < anchor THEN anchor
                                    ELSE anchor + 14 * ((day - anchor) \div 14 + 1)
      BY <2>7 DEF NextPeriodStart
    <3> QED BY <1>1, <2>2, <2>3, <3>1
  <2>9. \A d : Falls(t, d) <=> d >= anchor /\ (d - anchor) % 14 = 0
    BY <2>7 DEF Falls
  <2>10. Falls(t, anchor) /\ \A d \in Nat : d < anchor => ~Falls(t, d)
    BY <2>3, <2>9
  <2>11. FirstDate(t, IF later THEN NextPeriodStart(t, day) ELSE day, t.due)
    BY <1>1, <2>2, <2>3, <2>6, <2>8, <2>10 DEF FirstDate
  <2>12. day <= t.due
    BY <1>1, <2>2, <2>3, <2>6
  <2> QED BY <1>2, <2>1, <2>4, <2>6, <2>7, <2>8, <2>11, <2>12
<1>3. CASE s.interval # "biweekly"
  <2> DEFINE from == IF later THEN NextPeriodStart(s, day) ELSE day
             due == DueOnOrAfter(s, from)
             t == SetNext(s, due)
  <2>1. Start(s, day, later) = t
    BY <1>3 DEF Start
  <2>2. /\ NextPeriodStart(s, day) \in Nat /\ day < NextPeriodStart(s, day)
        /\ FirstDate(s, NextPeriodStart(s, day), DueOnOrAfter(s, NextPeriodStart(s, day)))
    BY <1>1, <1>3, NextDate
  <2>3. FirstDate(s, day, DueOnOrAfter(s, day))
    BY <1>1, <1>3, FallsFirst, InSight DEF Near
  <2>4. FirstDate(s, from, due) /\ day <= from /\ from \in Nat
    BY <1>1, <2>2, <2>3
  <2> HIDE DEF due
  <2>5. due \in Nat /\ FirstDay <= due /\ day <= due
    <3> HIDE DEF from
    <3> QED BY <1>1, <2>4 DEF FirstDate
  <2>6. /\ RowOk(t, day) /\ SameTiming(t, s)
        /\ t.due = due /\ t.last = s.last /\ t.active = s.active
    BY <1>3, <2>5, RowSet
  <2> HIDE DEF t
  <2>7. NextPeriodStart(t, day) = NextPeriodStart(s, day) /\ \A d : Falls(t, d) = Falls(s, d)
    BY <2>6, Calendar
  <2>8. FirstDate(t, IF later THEN NextPeriodStart(t, day) ELSE day, t.due)
    <3>1. from = IF later THEN NextPeriodStart(t, day) ELSE day
      BY <2>7
    <3> HIDE DEF from
    <3>2. FirstDate(t, from, t.due)
      BY <2>4, <2>6, <2>7 DEF FirstDate
    <3> QED BY <3>1, <3>2
  <2>9. t.interval = s.interval
    BY <2>6 DEF SameTiming
  <2> QED BY <1>3, <2>1, <2>2, <2>5, <2>6, <2>7, <2>8, <2>9
<1> QED BY <1>2, <1>3

\* reschedule: not in the period of a date that was sent already.
LEMMA Rescheduled ==
    ASSUME YearsAssumption, RecurringAssumption, NEW day \in FirstDay..LastDay,
           NEW s \in Row, s.last \in {0} \cup FirstDay..day
    PROVE  LET t == Reschedule(s, day) IN
           /\ RowOk(t, day) /\ t.last = s.last /\ t.active = s.active
           /\ \A d \in FirstDay..day : d <= s.last => NextPeriodStart(t, d) <= t.due
<1> DEFINE later == /\ s.last > 0
                    /\ IF s.interval = "biweekly" THEN day - s.last < 14
                       ELSE NextPeriodStart(s, s.last) > day
           t == Start(s, day, later)
<1>1. later \in BOOLEAN /\ Reschedule(s, day) = t
  BY DEF Reschedule
<1>2. later <=> /\ s.last > 0
                /\ IF s.interval = "biweekly" THEN day - s.last < 14
                   ELSE NextPeriodStart(s, s.last) > day
  OBVIOUS
<1> HIDE DEF later
<1>3. /\ RowOk(t, day) /\ day <= t.due
      /\ NextPeriodStart(t, day) \in Nat /\ day < NextPeriodStart(t, day)
      /\ FirstDate(t, IF later THEN NextPeriodStart(t, day) ELSE day, t.due)
      /\ t.interval = s.interval /\ t.last = s.last /\ t.active = s.active
      /\ IF s.interval = "biweekly" THEN t.anchor = t.due ELSE SameTiming(t, s)
  BY <1>1, Started
<1> HIDE DEF t
<1>4. /\ t \in Row /\ ScheduleOk(t) /\ t.due \in Nat \ {0} /\ FirstDay \in Nat \ {0}
      /\ (t.interval = "biweekly" => t.anchor > 0)
  BY <1>3, Rows
<1>5. ASSUME NEW d \in FirstDay..day, d <= s.last PROVE NextPeriodStart(t, d) <= t.due
  <2>1. /\ d \in Nat \ {0} /\ d \in FirstDay..LastDay /\ Covered(d) /\ Covered(day)
        /\ day \in Nat \ {0} /\ LastDay \in Nat
    <3>1. d \in Nat \ {0} /\ d \in FirstDay..LastDay /\ LastDay \in Nat
      BY <1>4 DEF RecurringAssumption
    <3> QED BY <3>1, InSight
  <2>2. s.last > 0 /\ s.last \in FirstDay..day /\ s.last \in Nat \ {0}
    BY <1>4, <1>5, <2>1
  <2>3. CASE s.interval = "biweekly"
    <3>1. t.interval = "biweekly" /\ t.anchor = t.due
      BY <1>3, <2>3
    <3>2. d < t.due
      <4>1. CASE later
        <5>1. NextPeriodStart(t, day) <= t.due
          BY <1>3, <4>1 DEF FirstDate
        <5> QED BY <1>3, <1>4, <2>1, <5>1
      <4>2. CASE ~later
        <5>1. d < day
          BY <1>2, <1>5, <2>1, <2>2, <2>3, <4>2
        <5> QED BY <1>3, <1>4, <2>1, <5>1
      <4> QED BY <4>1, <4>2
    <3>3. NextPeriodStart(t, d) = t.anchor
      BY <3>1, <3>2 DEF NextPeriodStart
    <3> QED BY <1>4, <3>1, <3>3
  <2>4. CASE s.interval # "biweekly"
    <3>1. SameTiming(t, s)
      BY <1>3, <2>4
    <3>2. \A x : NextPeriodStart(t, x) = NextPeriodStart(s, x)
      BY <3>1, Calendar
    <3>3. NextPeriodStart(t, d) \in Nat
      BY <1>4, <2>1, PeriodEnds
    <3>4. CASE later
      <4>1. NextPeriodStart(t, day) <= t.due
        BY <1>3, <3>4 DEF FirstDate
      <4>2. NextPeriodStart(t, d) <= NextPeriodStart(t, day)
        BY <1>4, <2>1, PeriodsFollow
      <4> QED BY <1>3, <1>4, <3>3, <4>1, <4>2
    <3>5. CASE ~later
      <4>1. ~(NextPeriodStart(t, s.last) > day)
        BY <1>2, <2>2, <2>4, <3>2, <3>5
      <4>2. s.last \in FirstDay..LastDay
        BY <2>1, <2>2, <1>4
      <4>3. NextPeriodStart(t, d) <= NextPeriodStart(t, s.last)
            /\ NextPeriodStart(t, s.last) \in Nat
        BY <1>4, <1>5, <2>1, <2>2, <4>2, InSight, PeriodsFollow, PeriodEnds
      <4> QED BY <1>3, <1>4, <2>1, <3>3, <4>1, <4>3
    <3> QED BY <3>4, <3>5
  <2> QED BY <2>3, <2>4
<1> QED BY <1>1, <1>3, <1>5

-----------------------------------------------------------------------------
(* The recurring request *)

\* The row, the one a page has read, and the history.
RowsInv ==
    /\ today \in FirstDay..LastDay /\ RowOk(sched, today)
    /\ page # NoPage => RowOk(page.copy, today)
    /\ gone \in BOOLEAN /\ disturbed \in BOOLEAN /\ stale \in BOOLEAN
    /\ edits \in 0..MaxEdits
    /\ lastSent \in {0} \cup FirstDay..today
    /\ sent \subseteq FirstDay..today

\* What went out last is no later than the last run, and the next date is of
\* a later period.
PeriodInv ==
    ~stale /\ lastSent > 0 =>
        lastSent <= sched.last /\ NextPeriodStart(sched, lastSent) <= sched.due

\* Undisturbed, the next date is the first that has not gone out.
KeptInv ==
    ~disturbed =>
        /\ ~gone /\ sched.active /\ today <= sched.run
        /\ Falls(sched, sched.due)
        /\ counted \in Nat \ {0} /\ counted <= sched.due
        /\ sent = {d \in counted..(sched.due - 1) : Falls(sched, d)}
        /\ \A d \in sent : SendingDay(sched, d) <= today

Inv == RowsInv /\ PeriodInv /\ KeptInv

LEMMA BlankRow ==
    ASSUME RecurringAssumption, NEW t \in Timings
    PROVE  /\ Blank(t) \in Row /\ Blank(t).last = 0 /\ Blank(t).active
BY DEF RecurringAssumption, Timing, Blank, Row

\* create: run finds the schedule in the next period, and leaves it there.
LEMMA CreatedRow ==
    ASSUME YearsAssumption, RecurringAssumption, NEW t \in Timings, NEW later \in BOOLEAN
    PROVE  LET s == Created(t, later)
               from == IF later THEN NextPeriodStart(s, FirstDay) ELSE FirstDay
           IN  /\ RowOk(s, FirstDay) /\ s.active /\ FirstDay <= s.due
               /\ s.last = (IF later THEN FirstDay ELSE 0)
               /\ from \in Nat \ {0} /\ FirstDate(s, from, s.due)
<1> DEFINE s1 == Start(Blank(t), FirstDay, later)
           s == IF later THEN [s1 EXCEPT !.last = FirstDay] ELSE s1
<1>1. FirstDay \in FirstDay..LastDay /\ FirstDay \in Nat \ {0}
  BY DEF RecurringAssumption
<1>2. Blank(t) \in Row /\ Blank(t).last = 0 /\ Blank(t).active
  BY BlankRow
<1>3. /\ RowOk(s1, FirstDay) /\ FirstDay <= s1.due
      /\ NextPeriodStart(s1, FirstDay) \in Nat /\ FirstDay < NextPeriodStart(s1, FirstDay)
      /\ FirstDate(s1, IF later THEN NextPeriodStart(s1, FirstDay) ELSE FirstDay, s1.due)
      /\ s1.last = 0 /\ s1.active
  <2>1. Blank(t).last \in {0} \cup FirstDay..FirstDay
    BY <1>2
  <2> QED BY <1>1, <1>2, <2>1, Started
<1>4. Created(t, later) = s
  <2>1. CASE later
    <3>1. NextPeriodStart(s1, FirstDay) <= s1.due
      BY <1>3, <2>1 DEF FirstDate
    <3>2. s1.due \in Nat
      BY <1>1, <1>3, Rows
    <3>3. ~(NextPeriodStart(s1, FirstDay) > s1.due)
      <4> HIDE DEF s1
      <4> QED BY <1>3, <3>1, <3>2
    <3> QED BY <2>1, <3>3 DEF Created
  <2>2. CASE ~later
    BY <2>2 DEF Created
  <2> QED BY <2>1, <2>2
<1> HIDE DEF s1
<1>5. /\ s \in Row /\ SameTiming(s, s1) /\ s.due = s1.due /\ s.run = s1.run
      /\ s.active /\ s.last = (IF later THEN FirstDay ELSE 0)
  BY <1>1, <1>3 DEF RowOk, Row, SameTiming
<1> HIDE DEF s
<1>6. \A d : /\ NextPeriodStart(s, d) = NextPeriodStart(s1, d)
             /\ SendingDay(s, d) = SendingDay(s1, d) /\ Falls(s, d) = Falls(s1, d)
  BY <1>5, Calendar
<1>7. RowOk(s, FirstDay)
  BY <1>1, <1>3, <1>5, <1>6 DEF RowOk, SameTiming
<1>8. FirstDate(s, IF later THEN NextPeriodStart(s, FirstDay) ELSE FirstDay, s.due)
  <2> DEFINE from == IF later THEN NextPeriodStart(s1, FirstDay) ELSE FirstDay
  <2>1. FirstDate(s1, from, s1.due)
    BY <1>3
  <2>2. from = IF later THEN NextPeriodStart(s, FirstDay) ELSE FirstDay
    BY <1>6
  <2> HIDE DEF from
  <2>3. FirstDate(s, from, s.due)
    BY <1>5, <1>6, <2>1 DEF FirstDate
  <2> QED BY <2>2, <2>3
<1> QED BY <1>1, <1>3, <1>4, <1>5, <1>6, <1>7, <1>8

LEMMA InitInv ==
    ASSUME YearsAssumption, RecurringAssumption, Init
    PROVE  Inv
<1>1. FirstDay \in Nat \ {0} /\ LastDay \in Nat /\ FirstDay <= LastDay /\ MaxEdits \in Nat
  BY DEF RecurringAssumption
<1>2. PICK t \in Timings, later \in BOOLEAN :
         /\ sched = Created(t, later)
         /\ lastSent = IF later THEN FirstDay ELSE 0
         /\ counted = IF later THEN NextPeriodStart(sched, FirstDay) ELSE FirstDay
  BY DEF Init
<1>3. /\ today = FirstDay /\ sent = {} /\ page = NoPage /\ gone = FALSE /\ edits = 0
      /\ disturbed = FALSE /\ stale = FALSE
  BY DEF Init
<1>4. /\ RowOk(sched, FirstDay) /\ sched.active /\ FirstDay <= sched.due
      /\ sched.last = (IF later THEN FirstDay ELSE 0)
      /\ counted \in Nat \ {0} /\ FirstDate(sched, counted, sched.due)
  BY <1>2, CreatedRow
<1>5. /\ sched.due \in Nat \ {0} /\ sched.run = SendingDay(sched, sched.due)
      /\ sched.run \in Nat /\ sched.due <= sched.run
  BY <1>1, <1>4, Rows, SendingDays
<1>6. RowsInv
  <2>1. today \in FirstDay..LastDay /\ RowOk(sched, today) /\ ~(page # NoPage)
    BY <1>1, <1>3, <1>4
  <2>2. lastSent \in {0} \cup FirstDay..today
    BY <1>1, <1>2, <1>3
  <2>3. edits \in 0..MaxEdits /\ sent \subseteq FirstDay..today
    BY <1>1, <1>3
  <2> QED BY <1>3, <2>1, <2>2, <2>3 DEF RowsInv
<1>7. PeriodInv
  <2> SUFFICES ASSUME lastSent > 0 PROVE lastSent <= sched.last
                                         /\ NextPeriodStart(sched, lastSent) <= sched.due
    BY DEF PeriodInv
  <2>1. later
    BY <1>1, <1>2
  <2>2. counted <= sched.due
    BY <1>4 DEF FirstDate
  <2>3. /\ lastSent = FirstDay /\ sched.last = FirstDay
        /\ counted = NextPeriodStart(sched, lastSent)
    BY <1>2, <1>4, <2>1
  <2> QED BY <1>1, <2>2, <2>3
<1>8. KeptInv
  <2>1. Falls(sched, sched.due) /\ counted <= sched.due
    BY <1>4 DEF FirstDate
  <2>2. {d \in counted..(sched.due - 1) : Falls(sched, d)} = {}
    <3>1. ASSUME NEW d \in counted..(sched.due - 1) PROVE ~Falls(sched, d)
      <4>1. d \in Nat /\ counted <= d /\ d < sched.due
        BY <1>4, <1>5
      <4> QED BY <1>4, <4>1 DEF FirstDate
    <3> QED BY <3>1
  <2>3. today <= sched.run
    BY <1>1, <1>3, <1>4, <1>5
  <2> QED BY <1>3, <1>4, <2>1, <2>2, <2>3 DEF KeptInv
<1> QED BY <1>6, <1>7, <1>8 DEF Inv

LEMMA RowLater ==
    ASSUME RecurringAssumption, NEW day \in FirstDay..LastDay, NEW s, RowOk(s, day)
    PROVE  RowOk(s, day + 1)
BY DEF RowOk, RecurringAssumption

\* _move_on.
LEMMA Moved ==
    ASSUME YearsAssumption, RecurringAssumption, RowsInv, Due
    PROVE  LET next == NextPeriodStart(sched, sched.due) IN
           /\ sched.due \in FirstDay..today
           /\ RowOk(MovedOn, today) /\ SameTiming(MovedOn, sched)
           /\ next \in Nat /\ sched.due < next /\ next <= MovedOn.due
           /\ FirstDate(sched, next, DueOnOrAfter(sched, next))
           /\ SendingDay(sched, DueOnOrAfter(sched, next)) > today
                 => MovedOn.due = DueOnOrAfter(sched, next)
           /\ MovedOn.run > today /\ MovedOn.last = today /\ MovedOn.active = sched.active
<1> DEFINE t == Advance(sched, sched.due, today)
           next == NextPeriodStart(sched, sched.due)
<1>1. today \in FirstDay..LastDay /\ RowOk(sched, today)
  BY DEF RowsInv
<1>2. /\ sched.due \in Nat \ {0} /\ FirstDay <= sched.due /\ FirstDay \in Nat \ {0}
      /\ sched.run = SendingDay(sched, sched.due) /\ today \in Nat \ {0}
  BY <1>1, Rows
<1>3. sched.run \in Nat /\ sched.due <= sched.run
  BY <1>2, SendingDays
<1>4. sched.due <= today /\ sched.due \in FirstDay..today
  BY <1>2, <1>3 DEF Due
<1>5. /\ RowOk(t, today) /\ SameTiming(t, sched)
      /\ next \in Nat /\ sched.due < next /\ next <= t.due
      /\ FirstDate(sched, next, DueOnOrAfter(sched, next))
      /\ SendingDay(sched, DueOnOrAfter(sched, next)) > today
            => t.due = DueOnOrAfter(sched, next)
      /\ t.run > today /\ t.last = sched.last /\ t.active = sched.active
  BY <1>1, <1>4, Advanced
<1>6. MovedOn = [t EXCEPT !.last = today]
  BY DEF MovedOn
<1> HIDE DEF t, next
<1>7. /\ MovedOn \in Row /\ SameTiming(MovedOn, t)
      /\ MovedOn.due = t.due /\ MovedOn.run = t.run /\ MovedOn.last = today
      /\ MovedOn.active = t.active
  BY <1>2, <1>5, <1>6 DEF RowOk, Row, SameTiming
<1>8. SendingDay(MovedOn, t.due) = SendingDay(t, t.due)
  BY <1>7, Calendar
<1>9. RowOk(MovedOn, today) /\ SameTiming(MovedOn, sched)
  BY <1>1, <1>2, <1>5, <1>7, <1>8 DEF RowOk, SameTiming
<1> QED BY <1>4, <1>5, <1>7, <1>9 DEF next

\* The row a page saves: of the one it read, or of a schedule started anew.
LEMMA PageRow ==
    ASSUME YearsAssumption, RecurringAssumption, RowsInv, NEW c, RowOk(c, today)
    PROVE  /\ LET s == [c EXCEPT !.active = ~@] IN
              /\ RowOk(s, today) /\ SameTiming(s, c) /\ s.due = c.due /\ s.last = c.last
           /\ \A t \in Timings : Timed(c, t) \in Row /\ Timed(c, t).last = c.last
<1> DEFINE s == [c EXCEPT !.active = ~@]
<1>1. today \in FirstDay..LastDay /\ c \in Row
  BY DEF RowsInv, RowOk
<1>2. /\ s \in Row /\ SameTiming(s, c) /\ s.due = c.due /\ s.last = c.last /\ s.run = c.run
  BY <1>1 DEF Row, SameTiming
<1>3. SendingDay(s, s.due) = SendingDay(c, s.due)
  BY <1>2, Calendar
<1>4. RowOk(s, today)
  <2> HIDE DEF s
  <2> QED BY <1>1, <1>2, <1>3 DEF RowOk, SameTiming
<1>5. ASSUME NEW t \in Timings PROVE Timed(c, t) \in Row /\ Timed(c, t).last = c.last
  BY <1>1 DEF RecurringAssumption, Timing, Timed, Row
<1> QED BY <1>2, <1>4, <1>5

\* What a page may save in the place of the row c: the same dates, or dates
\* started today and of no period of a date that was sent.
Saved(s, c) ==
    /\ RowOk(s, today) /\ s.last = c.last
    /\ \/ SameTiming(s, c) /\ s.due = c.due
       \/ \A d \in FirstDay..today : d <= c.last => NextPeriodStart(s, d) <= s.due

LEMMA Pages ==
    ASSUME YearsAssumption, RecurringAssumption, RowsInv,
           Toggle \/ \E t \in Timings : Edit(t)
    PROVE  /\ page # NoPage
           /\ \E s : PageSave(s) /\ Saved(s, page.copy)
<1> DEFINE c == page.copy
<1>1. page # NoPage
  BY DEF Toggle, Edit
<1>2. today \in FirstDay..LastDay /\ RowOk(c, today)
  BY <1>1 DEF RowsInv
<1> HIDE DEF c
<1>3. c = page.copy
  BY DEF c
<1>4. ASSUME NEW s \in Row, s.last = c.last
      PROVE  Saved(Reschedule(s, today), c)
  <2>1. s.last \in {0} \cup FirstDay..today
    BY <1>2, <1>4 DEF RowOk
  <2>2. /\ RowOk(Reschedule(s, today), today) /\ Reschedule(s, today).last = s.last
        /\ \A d \in FirstDay..today :
              d <= s.last => NextPeriodStart(Reschedule(s, today), d) <= Reschedule(s, today).due
    BY <1>2, <2>1, Rescheduled
  <2> QED BY <1>4, <2>2 DEF Saved
<1>5. CASE Toggle
  <2> DEFINE s == [c EXCEPT !.active = ~@]
             s1 == IF s.active /\ s.run < today THEN Reschedule(s, today) ELSE s
  <2>1. PageSave(s1)
    BY <1>3, <1>5 DEF Toggle
  <2>2. /\ RowOk(s, today) /\ SameTiming(s, c) /\ s.due = c.due /\ s.last = c.last
    BY <1>2, PageRow
  <2> HIDE DEF s
  <2>3. s \in Row
    BY <2>2 DEF RowOk
  <2>4. Saved(s1, c)
    <3>1. CASE s1 = s
      BY <2>2, <3>1 DEF Saved
    <3>2. CASE s1 = Reschedule(s, today)
      BY <1>4, <2>2, <2>3, <3>2
    <3> QED BY <3>1, <3>2
  <2> HIDE DEF s1
  <2> QED BY <1>1, <1>3, <2>1, <2>4
<1>6. ASSUME NEW t \in Timings, Edit(t) PROVE \E s : PageSave(s) /\ Saved(s, page.copy)
  <2> DEFINE s == Timed(c, t)
             s1 == IF s = c THEN s ELSE Reschedule(s, today)
  <2>1. PageSave(s1)
    BY <1>3, <1>6 DEF Edit
  <2>2. s \in Row /\ s.last = c.last
    BY <1>2, PageRow
  <2> HIDE DEF s
  <2>3. Saved(s1, c)
    <3>1. CASE s = c
      <4>1. s1 = c
        BY <3>1
      <4>2. SameTiming(c, c)
        BY DEF SameTiming
      <4> QED BY <1>2, <4>1, <4>2 DEF Saved
    <3>2. CASE s # c
      BY <1>4, <2>2, <3>2
    <3> QED BY <3>1, <3>2
  <2> HIDE DEF s1
  <2> QED BY <1>3, <2>1, <2>3
<1> QED BY <1>1, <1>5, <1>6

-----------------------------------------------------------------------------
(* The steps *)

LEMMA RowsStep ==
    ASSUME YearsAssumption, RecurringAssumption, RowsInv, [Next]_vars
    PROVE  RowsInv'
<1>1. /\ FirstDay \in Nat \ {0} /\ LastDay \in Nat /\ MaxEdits \in Nat
      /\ today \in FirstDay..LastDay /\ RowOk(sched, today)
      /\ (page # NoPage => RowOk(page.copy, today))
      /\ gone \in BOOLEAN /\ disturbed \in BOOLEAN /\ stale \in BOOLEAN
      /\ edits \in 0..MaxEdits
      /\ lastSent \in {0} \cup FirstDay..today /\ sent \subseteq FirstDay..today
  BY DEF RowsInv, RecurringAssumption
<1>2. CASE Tick
  <2>1. /\ page = NoPage /\ page' = page /\ today' = today + 1 /\ today < LastDay
        /\ sched' = sched /\ gone' = gone /\ lastSent' = lastSent /\ stale' = stale
        /\ sent' = sent \/ sent' = {}
        /\ disturbed' \in BOOLEAN
        /\ edits' = edits \/ (edits < MaxEdits /\ edits' = edits + 1)
    BY <1>1, <1>2 DEF Tick, Disturbed
  <2>2. today' \in FirstDay..LastDay /\ RowOk(sched', today')
    BY <1>1, <2>1, RowLater
  <2>3. edits' \in 0..MaxEdits
    BY <1>1, <2>1
  <2>4. lastSent' \in {0} \cup FirstDay..today' /\ sent' \subseteq FirstDay..today'
    <3>1. \A d \in FirstDay..today : d \in FirstDay..today'
      BY <1>1, <2>1
    <3> QED BY <1>1, <2>1, <3>1
  <2> QED BY <1>1, <2>1, <2>2, <2>3, <2>4 DEF RowsInv
<1>3. CASE RunDue \/ Refused
  <2>1. /\ Due /\ sched' = MovedOn /\ today' = today /\ page' = page /\ gone' = gone
        /\ stale' = stale
        /\ disturbed' \in BOOLEAN
        /\ sent' = {} \/ sent' = sent \cup {sched.due}
        /\ lastSent' = sched.due \/ lastSent' = lastSent
        /\ edits' = edits \/ (edits < MaxEdits /\ edits' = edits + 1)
    BY <1>1, <1>3 DEF RunDue, Refused, Disturbed
  <2>2. sched.due \in FirstDay..today /\ RowOk(MovedOn, today)
    BY <2>1, Moved
  <2>3. edits' \in 0..MaxEdits
    BY <1>1, <2>1
  <2>4. lastSent' \in {0} \cup FirstDay..today' /\ sent' \subseteq FirstDay..today'
    BY <1>1, <2>1, <2>2
  <2>5. RowOk(sched', today')
    BY <2>1, <2>2
  <2>6. page' # NoPage => RowOk(page'.copy, today')
    BY <1>1, <2>1
  <2> QED BY <1>1, <2>1, <2>3, <2>4, <2>5, <2>6 DEF RowsInv
<1>4. CASE PageRead
  <2>1. /\ page'.copy = sched /\ edits < MaxEdits /\ edits' = edits + 1
        /\ UNCHANGED <<today, sched, gone, sent, lastSent, disturbed, stale>>
    BY <1>4 DEF PageRead
  <2>2. edits' \in 0..MaxEdits
    BY <1>1, <2>1
  <2>3. RowOk(sched', today') /\ RowOk(page'.copy, today')
    BY <1>1, <2>1
  <2> QED BY <1>1, <2>1, <2>2, <2>3 DEF RowsInv
<1>5. CASE Toggle \/ \E t \in Timings : Edit(t)
  <2>1. PICK s : PageSave(s) /\ Saved(s, page.copy)
    BY <1>5, Pages
  <2>2. /\ sched' = s /\ page' = NoPage /\ gone' = FALSE /\ disturbed' = TRUE /\ sent' = {}
        /\ stale' \in BOOLEAN /\ UNCHANGED <<today, lastSent, edits>>
    BY <1>1, <2>1 DEF PageSave, Disturbed
  <2>3. RowOk(sched', today')
    BY <2>1, <2>2 DEF Saved
  <2> QED BY <1>1, <2>2, <2>3 DEF RowsInv
<1>6. CASE Delete
  <2>1. /\ gone' = TRUE /\ disturbed' = TRUE /\ sent' = {}
        /\ UNCHANGED <<today, sched, page, lastSent, edits, stale>>
    BY <1>6 DEF Delete, Disturbed
  <2>2. RowOk(sched', today') /\ (page' # NoPage => RowOk(page'.copy, today'))
    BY <1>1, <2>1
  <2> QED BY <1>1, <2>1, <2>2 DEF RowsInv
<1>7. CASE UNCHANGED vars
  <2>1. UNCHANGED <<today, sched, page, gone, sent, lastSent, edits, disturbed, stale>>
    BY <1>7 DEF vars
  <2>2. RowOk(sched', today') /\ (page' # NoPage => RowOk(page'.copy, today'))
    BY <1>1, <2>1
  <2> QED BY <1>1, <2>1, <2>2 DEF RowsInv
<1> QED BY <1>2, <1>3, <1>4, <1>5, <1>6, <1>7 DEF Next

LEMMA PeriodStep ==
    ASSUME YearsAssumption, RecurringAssumption, RowsInv, PeriodInv, [Next]_vars
    PROVE  PeriodInv'
<1>1. /\ today \in FirstDay..LastDay /\ RowOk(sched, today)
      /\ lastSent \in {0} \cup FirstDay..today
      /\ ScheduleOk(sched) /\ sched.due \in Nat \ {0} /\ today \in Nat
      /\ FirstDay \in Nat \ {0} /\ LastDay \in Nat
      /\ stale \in BOOLEAN
  BY Rows DEF RowsInv, RecurringAssumption
<1>2. ASSUME lastSent > 0
      PROVE  /\ lastSent \in FirstDay..today /\ lastSent \in Nat
             /\ NextPeriodStart(sched, lastSent) \in Nat
  <2>1. lastSent \in FirstDay..today /\ lastSent \in FirstDay..LastDay /\ lastSent \in Nat
    BY <1>1, <1>2
  <2> QED BY <1>1, <2>1, InSight, PeriodEnds
<1>3. CASE RunDue
  <2>1. Due /\ sched' = MovedOn /\ lastSent' = sched.due /\ stale' = stale
    BY <1>3 DEF RunDue
  <2>2. /\ sched.due \in FirstDay..today /\ SameTiming(MovedOn, sched) /\ MovedOn.last = today
        /\ NextPeriodStart(sched, sched.due) <= MovedOn.due
    BY <2>1, Moved
  <2>3. NextPeriodStart(MovedOn, sched.due) = NextPeriodStart(sched, sched.due)
    BY <2>2, Calendar
  <2>4. sched.due <= today
    BY <1>1, <2>2
  <2> QED BY <2>1, <2>2, <2>3, <2>4 DEF PeriodInv
<1>4. CASE Refused
  <2>1. Due /\ sched' = MovedOn /\ lastSent' = lastSent /\ stale' = stale
    BY <1>4 DEF Refused
  <2> SUFFICES ASSUME ~stale, lastSent > 0
               PROVE  lastSent <= MovedOn.last
                      /\ NextPeriodStart(MovedOn, lastSent) <= MovedOn.due
    BY <2>1 DEF PeriodInv
  <2>2. /\ RowOk(MovedOn, today) /\ SameTiming(MovedOn, sched) /\ MovedOn.last = today
        /\ NextPeriodStart(sched, sched.due) \in Nat
        /\ sched.due < NextPeriodStart(sched, sched.due)
        /\ NextPeriodStart(sched, sched.due) <= MovedOn.due
    BY <2>1, Moved
  <2>3. MovedOn.due \in Nat
    BY <1>1, <2>2, Rows
  <2>4. NextPeriodStart(MovedOn, lastSent) = NextPeriodStart(sched, lastSent)
    BY <2>2, Calendar
  <2>5. NextPeriodStart(sched, lastSent) <= sched.due
    BY DEF PeriodInv
  <2> QED BY <1>1, <1>2, <2>2, <2>3, <2>4, <2>5
<1>5. CASE Toggle \/ \E t \in Timings : Edit(t)
  <2>1. PICK s : page # NoPage /\ PageSave(s) /\ Saved(s, page.copy)
    BY <1>5, Pages
  <2>2. sched' = s /\ lastSent' = lastSent /\ stale' = (stale \/ page.copy # sched)
    BY <2>1 DEF PageSave
  <2> SUFFICES ASSUME ~stale, page.copy = sched, lastSent > 0
               PROVE  lastSent <= s.last /\ NextPeriodStart(s, lastSent) <= s.due
    BY <1>1, <2>2 DEF PeriodInv
  <2>3. lastSent <= sched.last /\ NextPeriodStart(sched, lastSent) <= sched.due
    BY DEF PeriodInv
  <2>4. s.last = sched.last
    BY <2>1 DEF Saved
  <2>5. CASE SameTiming(s, sched) /\ s.due = sched.due
    <3>1. NextPeriodStart(s, lastSent) = NextPeriodStart(sched, lastSent)
      BY <2>5, Calendar
    <3> QED BY <2>3, <2>4, <2>5, <3>1
  <2>6. CASE \A d \in FirstDay..today : d <= sched.last => NextPeriodStart(s, d) <= s.due
    BY <1>2, <2>3, <2>4, <2>6
  <2> QED BY <2>1, <2>5, <2>6 DEF Saved
<1>6. CASE Tick \/ PageRead \/ Delete \/ UNCHANGED vars
  <2>1. sched' = sched /\ lastSent' = lastSent /\ stale' = stale
    BY <1>6 DEF Tick, PageRead, Delete, vars
  <2> QED BY <2>1 DEF PeriodInv
<1> QED BY <1>3, <1>4, <1>5, <1>6 DEF Next

\* The date after one that goes out today is one whose sending day is to come.
LEMMA DateAfter ==
    ASSUME YearsAssumption, RecurringAssumption, NEW due \in FirstDay..LastDay,
           NEW s, ScheduleOk(s), s.interval = "biweekly" => s.anchor > 0, Falls(s, due)
    PROVE  SendingDay(s, DueOnOrAfter(s, NextPeriodStart(s, due))) > SendingDay(s, due)
<1> DEFINE next == NextPeriodStart(s, due)
           d == DueOnOrAfter(s, next)
<1>1. /\ Reach(due) /\ due \in Nat \ {0} /\ Covered(due)
      /\ next \in Nat /\ due < next /\ d \in Nat \ {0} /\ next <= d /\ FirstDate(s, next, d)
  BY InSight, NextDate
<1>2. /\ SendingDay(s, due) \in Nat /\ SendingDay(s, due) <= due + 5
      /\ (s.interval = "daily" => SendingDay(s, due) = due)
      /\ SendingDay(s, d) \in Nat /\ d <= SendingDay(s, d)
  <2> HIDE DEF d
  <2> QED BY <1>1, SendingDays
<1>3. s.interval # "daily" => due + 7 <= d
  <2>1. CASE s.interval = "weekly"
    <3>1. (due - 1) % 7 = s.weekday /\ (d - 1) % 7 = s.weekday
      <4>1. Falls(s, d)
        BY <1>1 DEF FirstDate
      <4> HIDE DEF d
      <4> QED BY <2>1, <4>1 DEF Falls, Weekday
    <3> HIDE DEF d, next
    <3> QED BY <1>1, <3>1
  <2>2. CASE s.interval = "biweekly"
    <3>1. s.anchor \in Nat /\ due >= s.anchor /\ (due - s.anchor) % 14 = 0
      BY <2>2 DEF ScheduleOk, Falls
    <3>2. next = s.anchor + 14 * ((due - s.anchor) \div 14 + 1)
      BY <1>1, <2>2, <3>1 DEF NextPeriodStart
    <3>3. next >= due + 14
      BY <1>1, <3>1, <3>2
    <3> HIDE DEF d, next
    <3> QED BY <1>1, <3>3
  <2>3. CASE s.interval = "monthly"
    <3> DEFINE w == s.month_day
               length == MonthLength(YearOf(due), MonthOf(due))
               nextLength == MonthLength(YearOf(next), MonthOf(next))
    <3>1. next = NextMonthStart(due)
      BY <2>3 DEF NextPeriodStart
    <3>2. /\ Covered(next) /\ MonthStart(next) = next
          /\ MonthStart(due) \in Nat /\ length \in 28..31 /\ nextLength \in 28..31
          /\ next = MonthStart(due) + length
      BY <1>1, <3>1, MonthAhead, InMonth
    <3>3. w \in 1..31
      BY DEF ScheduleOk
    <3>4. /\ due = MonthDay(YearOf(due), MonthOf(due), w)
          /\ due = MonthStart(due) + (IF w < length THEN w ELSE length) - 1
      <4>1. Covered(due + 1)
        <5>1. due + 1 \in due..(due + 62)
          BY <1>1
        <5> QED BY <1>1, <5>1 DEF Reach
      <4>2. due = MonthDay(YearOf(due), MonthOf(due), w)
        BY <1>1, <2>3, <4>1, MonthlyFalls
      <4> QED BY <1>1, <3>3, <4>2, MonthDays
    <3>5. /\ MonthDay(YearOf(next), MonthOf(next), w)
                = next + (IF w < nextLength THEN w ELSE nextLength) - 1
      BY <3>2, <3>3, MonthDays
    <3>6. d = MonthDay(YearOf(next), MonthOf(next), w)
      <4>1. d = IF MonthDay(YearOf(next), MonthOf(next), w) >= next
                THEN MonthDay(YearOf(next), MonthOf(next), w)
                ELSE MonthDay(YearOf(NextMonthStart(next)), MonthOf(NextMonthStart(next)), w)
        BY <2>3 DEF DueOnOrAfter, MonthlyOnOrAfter
      <4>2. MonthDay(YearOf(next), MonthOf(next), w) >= next
        <5> HIDE DEF next
        <5> QED BY <1>1, <3>2, <3>3, <3>5
      <4> QED BY <4>1, <4>2
    <3> HIDE DEF d, next, w, length, nextLength
    <3> QED BY <1>1, <3>2, <3>3, <3>4, <3>5, <3>6
  <2> QED BY <2>1, <2>2, <2>3 DEF ScheduleOk
<1> HIDE DEF d, next
<1>4. SendingDay(s, d) > SendingDay(s, due)
  BY <1>1, <1>2, <1>3
<1> QED BY <1>4 DEF d, next

LEMMA KeptStep ==
    ASSUME YearsAssumption, RecurringAssumption, RowsInv, KeptInv, [Next]_vars
    PROVE  KeptInv'
<1>1. /\ today \in FirstDay..LastDay /\ today \in Nat /\ RowOk(sched, today)
      /\ ScheduleOk(sched) /\ (sched.interval = "biweekly" => sched.anchor > 0)
      /\ sched.due \in Nat \ {0} /\ FirstDay <= sched.due
      /\ sched.run = SendingDay(sched, sched.due)
      /\ FirstDay \in Nat \ {0} /\ LastDay \in Nat
      /\ sent \subseteq FirstDay..today /\ disturbed \in BOOLEAN
  BY Rows DEF RowsInv, RecurringAssumption
<1>2. sched.run \in Nat /\ sched.due <= sched.run
  BY <1>1, SendingDays
<1>3. ASSUME ~disturbed
      PROVE  /\ ~gone /\ sched.active /\ today <= sched.run
             /\ Falls(sched, sched.due)
             /\ counted \in Nat \ {0} /\ counted <= sched.due
             /\ sent = {d \in counted..(sched.due - 1) : Falls(sched, d)}
             /\ \A d \in sent : SendingDay(sched, d) <= today
  BY <1>3 DEF KeptInv
<1>4. CASE Tick
  <2> SUFFICES ASSUME ~disturbed' PROVE KeptInv'
    BY DEF KeptInv
  <2>1. /\ ~Due /\ today' = today + 1 /\ sent' = sent /\ disturbed' = disturbed
        /\ sched' = sched /\ gone' = gone /\ counted' = counted
    BY <1>4 DEF Tick, Disturbed
  <2>2. today' <= sched.run
    BY <1>1, <1>2, <1>3, <2>1 DEF Due
  <2>3. \A d \in sent : SendingDay(sched, d) <= today'
    <3>1. ASSUME NEW d \in sent PROVE SendingDay(sched, d) <= today'
      <4>1. d \in Nat \ {0}
        BY <1>1, <3>1
      <4>2. SendingDay(sched, d) \in Nat
        BY <4>1, SendingDays
      <4> QED BY <1>1, <1>3, <2>1, <3>1, <4>2
    <3> QED BY <3>1
  <2> QED BY <1>3, <2>1, <2>2, <2>3 DEF KeptInv
<1>5. CASE RunDue
  <2> DEFINE next == NextPeriodStart(sched, sched.due)
             due == DueOnOrAfter(sched, next)
  <2> SUFFICES ASSUME ~disturbed' PROVE KeptInv'
    BY DEF KeptInv
  <2>1. /\ ~disturbed /\ Due /\ sched' = MovedOn /\ sent' = sent \cup {sched.due}
        /\ today' = today /\ disturbed' = disturbed /\ gone' = gone /\ counted' = counted
    BY <1>5 DEF RunDue
  <2>2. /\ sched.due \in FirstDay..today
        /\ RowOk(MovedOn, today) /\ SameTiming(MovedOn, sched)
        /\ next \in Nat /\ sched.due < next /\ next <= MovedOn.due
        /\ FirstDate(sched, next, due)
        /\ SendingDay(sched, due) > today => MovedOn.due = due
        /\ MovedOn.run > today /\ MovedOn.active = sched.active
    BY <2>1, Moved
\* The run is on the sending day, so that the date after it comes next.
  <2>3. sched.run = today
    BY <1>1, <1>2, <1>3, <2>1 DEF Due
  <2>4. sched.due \in FirstDay..LastDay
    BY <1>1, <2>2
  <2>5. MovedOn.due = due
    <3>1. SendingDay(sched, due) > SendingDay(sched, sched.due)
      BY <1>1, <1>3, <2>1, <2>4, DateAfter
    <3> QED BY <1>1, <2>2, <2>3, <3>1
  <2>6. Near(sched, sched.due)
    BY <1>1, <2>4, InSight DEF Near
  <2>7. MovedOn.due \in Nat \ {0}
    BY <1>1, <2>2, Rows
  <2> HIDE DEF next, due
  <2>8. /\ Falls(sched, MovedOn.due)
        /\ \A d \in Nat : next <= d /\ d < MovedOn.due => ~Falls(sched, d)
    BY <2>2, <2>5 DEF FirstDate
  <2>9. \A d \in Nat : sched.due < d /\ d < next => ~Falls(sched, d)
    BY <1>1, <1>3, <2>1, <2>6, NoneInPeriod DEF next
  <2>10. \A d : /\ Falls(MovedOn, d) = Falls(sched, d)
                /\ SendingDay(MovedOn, d) = SendingDay(sched, d)
    BY <2>2, Calendar
  <2>11. sent' = {d \in counted..(MovedOn.due - 1) : Falls(sched, d)}
    <3>1. ASSUME NEW d \in Nat, counted <= d, d < MovedOn.due, Falls(sched, d)
          PROVE  d = sched.due \/ d < sched.due
      BY <1>1, <2>2, <2>7, <2>8, <2>9, <3>1
    <3>2. ASSUME NEW d, d \in sent' PROVE d \in counted..(MovedOn.due - 1) /\ Falls(sched, d)
      <4>1. CASE d = sched.due
        BY <1>1, <1>3, <2>1, <2>2, <2>7, <4>1
      <4>2. CASE d \in sent
        BY <1>1, <1>3, <2>1, <2>2, <2>7, <4>2
      <4> QED BY <2>1, <3>2, <4>1, <4>2
    <3>3. ASSUME NEW d \in counted..(MovedOn.due - 1), Falls(sched, d) PROVE d \in sent'
      <4>1. d \in Nat /\ counted <= d /\ d < MovedOn.due
        BY <1>3, <2>1, <2>7, <3>3
      <4>2. d = sched.due \/ d < sched.due
        BY <3>1, <3>3, <4>1
      <4>3. d < sched.due => d \in sent
        BY <1>1, <1>3, <2>1, <3>3, <4>1
      <4> QED BY <2>1, <4>2, <4>3
    <3> QED BY <3>2, <3>3
  <2>12. sent' = {d \in counted..(MovedOn.due - 1) : Falls(MovedOn, d)}
    BY <2>10, <2>11
  <2>13. \A d \in sent' : SendingDay(MovedOn, d) <= today
    BY <1>1, <1>3, <2>1, <2>3, <2>10
  <2>14. counted <= MovedOn.due /\ today <= MovedOn.run
    <3>1. MovedOn.run \in Nat
      BY <2>2 DEF RowOk, Row
    <3> QED BY <1>1, <1>3, <2>1, <2>2, <2>7, <3>1
  <2> QED BY <1>3, <2>1, <2>2, <2>8, <2>10, <2>12, <2>13, <2>14 DEF KeptInv
<1>6. CASE Refused \/ Delete
  BY <1>6 DEF Refused, Delete, Disturbed, KeptInv
<1>7. CASE Toggle \/ \E t \in Timings : Edit(t)
  BY <1>7 DEF Toggle, Edit, PageSave, Disturbed, KeptInv
<1>8. CASE PageRead \/ UNCHANGED vars
  <2>1. UNCHANGED <<today, sched, gone, sent, counted, disturbed>>
    BY <1>8 DEF PageRead, vars
  <2> QED BY <2>1 DEF KeptInv
<1> QED BY <1>4, <1>5, <1>6, <1>7, <1>8 DEF Next

LEMMA Invariant ==
    ASSUME YearsAssumption, RecurringAssumption
    PROVE  Spec => []Inv
<1>1. Init => Inv
  BY InitInv
<1>2. Inv /\ [Next]_vars => Inv'
  BY RowsStep, PeriodStep, KeptStep DEF Inv
<1> QED BY <1>1, <1>2, PTL DEF Spec

-----------------------------------------------------------------------------
(* Rows and history keep their types; a request goes out on the day of its  *)
(* date or after it (models.RecurringRequest, recurring._set_next).         *)
THEOREM TypeCorrect ==
    ASSUME YearsAssumption, RecurringAssumption
    PROVE  Spec => []TypeOK
<1>1. Inv => TypeOK
  <2> SUFFICES ASSUME Inv PROVE TypeOK
    OBVIOUS
  <2>1. RowsInv /\ today \in FirstDay..LastDay /\ RowOk(sched, today)
    BY DEF Inv, RowsInv
  <2>2. sched \in Row /\ sched.due \in Nat \ {0} /\ sched.run = SendingDay(sched, sched.due)
    BY <2>1, Rows
  <2>3. sched.run >= sched.due
    BY <2>2, SendingDays
  <2> QED BY <2>1, <2>2, <2>3 DEF RowsInv, TypeOK, Row
<1> QED BY <1>1, Invariant, PTL

(* A schedule nobody touches, its task run every day, sends the request of  *)
(* every date of its calendar, once the sending day has come, and of no     *)
(* other: for every timing, through every holiday and the ends of months    *)
(* and years (recurring.run_due, _advance, due_on_or_after, sending_day).   *)
THEOREM CalendarKept ==
    ASSUME YearsAssumption, RecurringAssumption
    PROVE  Spec => []CalendarIsKept
<1>1. Inv => CalendarIsKept
  <2> SUFFICES ASSUME Inv, ~disturbed, ~Due
               PROVE  sent = {d \in counted..today :
                                 Falls(sched, d) /\ SendingDay(sched, d) <= today}
    BY DEF CalendarIsKept
  <2>1. /\ today \in FirstDay..LastDay /\ RowOk(sched, today)
        /\ sent \subseteq FirstDay..today
    BY DEF Inv, RowsInv
  <2>2. /\ sched.due \in Nat \ {0} /\ sched.run = SendingDay(sched, sched.due)
        /\ FirstDay \in Nat \ {0} /\ today \in Nat
    BY <2>1, Rows DEF RecurringAssumption
  <2>3. sched.run \in Nat
    BY <2>2, SendingDays
  <2>4. /\ ~gone /\ sched.active /\ counted \in Nat \ {0}
        /\ sent = {d \in counted..(sched.due - 1) : Falls(sched, d)}
        /\ \A d \in sent : SendingDay(sched, d) <= today
    BY DEF Inv, KeptInv
  <2>5. today < SendingDay(sched, sched.due)
    BY <2>2, <2>3, <2>4 DEF Due
  <2>6. ASSUME NEW d \in counted..today, Falls(sched, d), SendingDay(sched, d) <= today
        PROVE  d \in sent
    <3>1. d \in Nat \ {0}
      BY <2>2, <2>4
    <3>2. ~(sched.due <= d)
      <4>1. sched.due <= d => SendingDay(sched, sched.due) <= SendingDay(sched, d)
        BY <2>2, <3>1, SentInOrder
      <4>2. SendingDay(sched, d) \in Nat
        BY <3>1, SendingDays
      <4> QED BY <2>2, <2>3, <2>5, <2>6, <4>1, <4>2
    <3>3. d \in counted..(sched.due - 1)
      BY <2>2, <2>4, <3>1, <3>2
    <3> QED BY <2>4, <2>6, <3>3
  <2>7. ASSUME NEW d \in sent
        PROVE  d \in counted..today /\ Falls(sched, d) /\ SendingDay(sched, d) <= today
    <3>1. Falls(sched, d) /\ d \in counted..(sched.due - 1)
      BY <2>4, <2>7
    <3>2. d \in FirstDay..today
      BY <2>1, <2>7
    <3>3. d \in counted..today
      BY <2>2, <2>4, <3>1, <3>2
    <3> QED BY <2>4, <2>7, <3>1, <3>3
  <2> QED BY <2>6, <2>7
<1> QED BY <1>1, Invariant, PTL

(* A run is of a later period - day, week, two weeks, month - than the run  *)
(* before it, through edits of the timing, pauses, refused runs and days    *)
(* without the task (recurring.run_due, reschedule, _advance).              *)
THEOREM OnceEachPeriod ==
    ASSUME YearsAssumption, RecurringAssumption
    PROVE  Spec => OncePerPeriod
<1>1. Inv /\ [Next]_vars =>
        [RunDue /\ lastSent > 0 /\ ~stale =>
            lastSent' >= NextPeriodStart(sched, lastSent)]_vars
  <2> SUFFICES ASSUME Inv, RunDue, lastSent > 0, ~stale
               PROVE  lastSent' >= NextPeriodStart(sched, lastSent)
    OBVIOUS
  <2>1. lastSent' = sched.due
    BY DEF RunDue
  <2>2. NextPeriodStart(sched, lastSent) <= sched.due
    BY DEF Inv, PeriodInv
  <2>3. sched.due \in Nat /\ NextPeriodStart(sched, lastSent) \in Nat
    <3>1. /\ today \in FirstDay..LastDay /\ RowOk(sched, today)
          /\ lastSent \in {0} \cup FirstDay..today
          /\ FirstDay \in Nat \ {0} /\ LastDay \in Nat
      BY DEF Inv, RowsInv, RecurringAssumption
    <3>2. sched.due \in Nat /\ ScheduleOk(sched)
      BY <3>1, Rows
    <3>3. lastSent \in FirstDay..LastDay /\ lastSent \in Nat
      BY <3>1
    <3> QED BY <3>2, <3>3, InSight, PeriodEnds
  <2> QED BY <2>1, <2>2, <2>3
<1> QED BY <1>1, Invariant, PTL DEF Spec, OncePerPeriod

=============================================================================
