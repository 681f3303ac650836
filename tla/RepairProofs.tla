----------------------------- MODULE RepairProofs -----------------------------
(***************************************************************************)
(* Coarse documents and the commands that repair them, for any hours,       *)
(* answers, histories and configurations, within the years of the calendar. *)
(***************************************************************************)
EXTENDS Repair, DataProofs

-----------------------------------------------------------------------------
(* The calendar. *)

\* A month starts before the next one does.
LEMMA MonthsFollow ==
  ASSUME NEW k \in Nat
  PROVE  /\ MonthStart(k) \in Nat /\ MonthStart(k) < MonthStart(k + 1)
         /\ MonthStart(0) = 0
<1> DEFINE y == k \div 12
           m == k % 12
<1>1. y \in Nat /\ m \in 0..11 /\ k = 12 * y + m
  OBVIOUS
<1>2. CASE m < 11
  <2>1. (k + 1) \div 12 = y /\ (k + 1) % 12 = m + 1
    BY <1>1, <1>2
  <2> HIDE DEF y, m
  <2> DEFINE leap == (y + 2) \div 4
             l1 == IF y % 4 = 1 /\ m + 1 > 2 THEN 1 ELSE 0
             l2 == IF y % 4 = 1 /\ m + 2 > 2 THEN 1 ELSE 0
  <2>2. leap \in Nat /\ l1 \in Nat /\ l2 \in Nat /\ l1 <= l2
    BY <1>1
  <2>3. DaysBefore[m + 1] \in Nat /\ DaysBefore[m + 2] \in Nat
        /\ DaysBefore[m + 1] < DaysBefore[m + 2]
    <3>1. m \in 0..10
      BY <1>1, <1>2
    <3> QED BY <3>1 DEF DaysBefore
  <2>4. MonthStart(k) = 24 * (365 * y + (leap + l1) + DaysBefore[m + 1])
    BY DEF MonthStart, y, m
  <2>5. MonthStart(k + 1) = 24 * (365 * y + (leap + l2) + DaysBefore[m + 2])
    BY <2>1, <1>1 DEF MonthStart
  <2>6. MonthStart(0) = 0
    BY DEF MonthStart, DaysBefore
  <2> HIDE DEF leap, l1, l2
  <2> QED BY <1>1, <2>2, <2>3, <2>4, <2>5, <2>6
<1>3. CASE m = 11
  <2>1. (k + 1) \div 12 = y + 1 /\ (k + 1) % 12 = 0
    BY <1>1, <1>3
  <2> HIDE DEF y, m
  <2> DEFINE leap == (y + 2) \div 4
             next == (y + 3) \div 4
             l1 == IF y % 4 = 1 THEN 1 ELSE 0
  <2>2. leap \in Nat /\ next \in Nat /\ l1 \in {0, 1} /\ leap <= next
    BY <1>1
  <2>3. DaysBefore[12] = 334 /\ DaysBefore[1] = 0
    BY DEF DaysBefore
  <2>4. MonthStart(k) = 24 * (365 * y + (leap + l1) + 334)
    BY <1>3, <2>3 DEF MonthStart, y, m
  <2>5. MonthStart(k + 1) = 24 * (365 * (y + 1) + next)
    BY <2>1, <2>3, <1>1 DEF MonthStart
  <2>6. MonthStart(0) = 0
    BY DEF MonthStart, DaysBefore
  <2> HIDE DEF leap, l1, next
  <2> QED BY <1>1, <2>2, <2>4, <2>5, <2>6
<1> QED BY <1>1, <1>2, <1>3

\* The months are in order, from the first hour of all on.
LEMMA MonthsAscend ==
  /\ DOMAIN MonthStarts = 1..120 /\ MonthStarts[1] = 0
  /\ \A i \in 1..120 : MonthStarts[i] \in Nat
  /\ \A i, j \in 1..120 : i < j => MonthStarts[i] < MonthStarts[j]
<1> DEFINE f == MonthStarts
<1>1. DOMAIN f = 1..120 /\ \A i \in 1..120 : f[i] = MonthStart(i - 1)
  BY DEF MonthStarts
<1>2. f[1] = 0
  BY <1>1, MonthsFollow
<1>3. ASSUME NEW i \in 1..120 PROVE f[i] \in Nat /\ (i < 120 => f[i] < f[i + 1])
  <2>1. i - 1 \in Nat /\ (i - 1) + 1 = i /\ i + 1 - 1 = i
    OBVIOUS
  <2>2. MonthStart(i - 1) \in Nat /\ MonthStart(i - 1) < MonthStart(i)
    BY <2>1, MonthsFollow
  <2>3. f[i] = MonthStart(i - 1)
    BY <1>1
  <2>4. i < 120 => f[i + 1] = MonthStart(i)
    <3>1. i < 120 => i + 1 \in 1..120
      OBVIOUS
    <3> QED BY <1>1, <2>1, <3>1
  <2>5. PICK a, b : a = MonthStart(i - 1) /\ b = MonthStart(i)
    OBVIOUS
  <2>6. a \in Nat /\ a < b /\ f[i] = a /\ (i < 120 => f[i + 1] = b)
    BY ONLY <2>2, <2>3, <2>4, <2>5
  <2> HIDE DEF f
  <2> QED BY ONLY <2>6
<1> HIDE DEF f
<1>4. \A i, j \in 1..120 : i < j => f[i] < f[j]
  BY <1>3, GrowsFromPlaceToPlace
<1> QED BY <1>1, <1>2, <1>3, <1>4 DEF f

\* The last of some numbered places that are ascending and begin at nought.
LEMMA LastBefore ==
  ASSUME NEW low \in Int, NEW high \in Int, low <= high, NEW f, f[low] = 0,
         NEW t \in Nat
  PROVE  LET last == Max({k \in low..high : f[k] <= t})
         IN  /\ last \in low..high /\ f[last] <= t
             /\ \A k \in low..high : f[k] <= t => k <= last
<1> DEFINE K == {k \in low..high : f[k] <= t}
<1>1. low \in K
  BY SMT
<1>2. K \in SUBSET Int /\ IsFiniteSet(K)
  <2>1. IsFiniteSet(low..high)
    BY FS_Interval
  <2> QED BY <2>1, FS_Subset
<1>3. \A k \in K : k \in low..high /\ f[k] <= t
  OBVIOUS
<1>4. \A k \in low..high : f[k] <= t => k \in K
  OBVIOUS
<1> HIDE DEF K
<1>5. \E x \in K : \A y \in K : x >= y
  BY <1>1, <1>2, FiniteHasEnds
<1>6. Max(K) \in K /\ \A y \in K : Max(K) >= y
  BY <1>5 DEF Max
<1>7. Max(K) \in Int /\ \A y \in K : y \in Int
  BY <1>2, <1>6
<1> QED BY <1>3, <1>4, <1>6, <1>7 DEF K

\* An hour lies in the month whose start is the last one before it.
LEMMA MonthIsTheLastBefore ==
  ASSUME NEW t \in Nat
  PROVE  /\ MonthOf(t) \in 1..120 /\ MonthStarts[MonthOf(t)] <= t
         /\ \A k \in 1..120 : MonthStarts[k] <= t => k <= MonthOf(t)
<1> DEFINE low == 1
           high == 120
<1>1. low \in Int /\ high \in Int /\ low <= high
  OBVIOUS
<1>2. MonthStarts[low] = 0
  BY MonthsAscend
<1> HIDE DEF low, high
<1> DEFINE found == Max({k \in low..high : MonthStarts[k] <= t})
<1>3. /\ found \in low..high /\ MonthStarts[found] <= t
       /\ \A k \in low..high : MonthStarts[k] <= t => k <= found
  BY <1>1, <1>2, LastBefore
<1> HIDE DEF found
<1>4. PICK last \in 1..120 : /\ MonthStarts[last] <= t
                             /\ \A k \in 1..120 : MonthStarts[k] <= t => k <= last
  BY <1>3 DEF low, high
<1>5. \A k \in 1..120 : MonthStarts[k] \in Nat
  BY MonthsAscend
<1>6. last = 120 \/ t < MonthStarts[last + 1]
  <2>1. last # 120 => last + 1 \in 1..120 /\ ~(last + 1 <= last)
    OBVIOUS
  <2> QED BY <2>1, <1>4, <1>5
<1>7. PICK n \in 1..120 : n = MonthOf(t) /\ MonthStarts[n] <= t /\ (n = 120 \/ t < MonthStarts[n + 1])
  BY <1>4, <1>6 DEF MonthOf
<1>8. ASSUME NEW k \in 1..120, MonthStarts[k] <= t PROVE k <= n
  <2> SUFFICES ASSUME n < k PROVE FALSE
    OBVIOUS
  <2>1. n # 120 /\ n + 1 \in 1..120 /\ (n + 1 < k \/ n + 1 = k)
    OBVIOUS
  <2>2. n + 1 < k => MonthStarts[n + 1] < MonthStarts[k]
    BY <2>1, MonthsAscend
  <2> QED BY <1>5, <1>7, <1>8, <2>1, <2>2
<1> QED BY <1>7, <1>8

\* The years are in order, and an hour lies in the last that begins before it.
LEMMA YearsAscend ==
  /\ NewYear(0) = 0
  /\ \A k \in 0..9 : NewYear(k) \in Nat /\ 12 * k + 1 \in 1..120
  /\ \A j, k \in 0..9 : j < k => NewYear(j) < NewYear(k)
<1>1. \A k \in 0..9 : 12 * k + 1 \in 1..120
  OBVIOUS
<1>2. \A k \in 0..9 : NewYear(k) \in Nat
  BY <1>1, MonthsAscend DEF NewYear
<1>3. ASSUME NEW j \in 0..9, NEW k \in 0..9, j < k PROVE NewYear(j) < NewYear(k)
  <2>1. 12 * j + 1 \in 1..120 /\ 12 * k + 1 \in 1..120 /\ 12 * j + 1 < 12 * k + 1
    BY <1>3
  <2> QED BY <2>1, MonthsAscend DEF NewYear
<1>4. NewYear(0) = 0
  <2>1. 12 * 0 + 1 = 1
    OBVIOUS
  <2> QED BY <2>1, MonthsAscend DEF NewYear
<1> QED BY <1>1, <1>2, <1>3, <1>4

LEMMA YearIsTheLastBefore ==
  ASSUME NEW t \in Nat
  PROVE  /\ YearOf(t) \in 0..9 /\ NewYear(YearOf(t)) <= t
         /\ \A k \in 0..9 : NewYear(k) <= t => k <= YearOf(t)
<1> DEFINE f == [k \in 0..9 |-> NewYear(k)]
<1>1. f[0] = 0 /\ \A k \in 0..9 : f[k] = NewYear(k)
  BY YearsAscend
<1> HIDE DEF f
<1>2. {k \in 0..9 : NewYear(k) <= t} = {k \in 0..9 : f[k] <= t}
  BY <1>1
<1>3. YearOf(t) = Max({k \in 0..9 : f[k] <= t})
  BY <1>2 DEF YearOf
<1> DEFINE low == 0
           high == 9
<1>4. low \in Int /\ high \in Int /\ low <= high /\ f[low] = 0
  BY <1>1
<1> HIDE DEF low, high
<1>5. LET last == Max({k \in low..high : f[k] <= t})
      IN  /\ last \in low..high /\ f[last] <= t
          /\ \A k \in low..high : f[k] <= t => k <= last
  BY <1>4, LastBefore
<1> QED BY <1>1, <1>3, <1>5 DEF low, high

\* The beginning of a period in each unit.
LEMMA TruncIs ==
  ASSUME NEW t \in Int
  PROVE  /\ date_trunc("day", t) = 24 * (t \div 24)
         /\ date_trunc("week", t) = 168 * ((t + 24) \div 168) - 24
         /\ date_trunc("month", t) = MonthStarts[MonthOf(t)]
<1>1. t % 24 = t - 24 * (t \div 24)
  OBVIOUS
<1>2. (t + 24) % 168 = (t + 24) - 168 * ((t + 24) \div 168)
  OBVIOUS
<1> QED BY <1>1, <1>2 DEF date_trunc

\* A month's first hour lies in that month.
LEMMA MonthOfItsStart ==
  ASSUME NEW k \in 1..120
  PROVE  MonthOf(MonthStarts[k]) = k
<1>1. MonthStarts[k] \in Nat
  BY MonthsAscend
<1>2. MonthOf(MonthStarts[k]) \in 1..120 /\ MonthStarts[MonthOf(MonthStarts[k])] <= MonthStarts[k]
      /\ k <= MonthOf(MonthStarts[k])
  BY <1>1, MonthIsTheLastBefore
<1>3. PICK m \in 1..120 : m = MonthOf(MonthStarts[k])
  BY <1>2
<1>4. k < m => MonthStarts[k] < MonthStarts[m]
  BY MonthsAscend
<1>5. MonthStarts[m] \in Nat /\ MonthStarts[m] <= MonthStarts[k] /\ k <= m
  BY <1>2, <1>3, MonthsAscend
<1> QED BY <1>1, <1>3, <1>4, <1>5

\* A period begins before each of its hours, a later hour's not before an earlier one's, and what
\* is not before the beginning of a period is in it or in a later one.
LEMMA TruncsAreInOrder ==
  ASSUME NEW unit \in Units, NEW s \in Nat, NEW t \in Nat
  PROVE  /\ date_trunc(unit, s) \in Int /\ date_trunc(unit, s) <= s
         /\ s <= t => date_trunc(unit, s) <= date_trunc(unit, t)
         /\ date_trunc(unit, s) <= t => date_trunc(unit, s) <= date_trunc(unit, t)
<1>1. CASE unit = "day"
  <2>1. /\ s \div 24 \in Int /\ 24 * (s \div 24) <= s
        /\ t \div 24 \in Int /\ t < 24 * (t \div 24) + 24
    BY QuotientIs
  <2>2. 24 * (s \div 24) <= t => s \div 24 <= t \div 24
    BY <2>1
  <2> QED BY <1>1, <2>1, <2>2, TruncIs
<1>2. CASE unit = "week"
  <2>1. /\ (s + 24) \div 168 \in Int /\ 168 * ((s + 24) \div 168) <= s + 24
        /\ (t + 24) \div 168 \in Int /\ t + 24 < 168 * ((t + 24) \div 168) + 168
    BY QuotientIs
  <2>2. 168 * ((s + 24) \div 168) - 24 <= t => (s + 24) \div 168 <= (t + 24) \div 168
    BY <2>1
  <2> QED BY <1>2, <2>1, <2>2, TruncIs
<1>3. CASE unit = "month"
  <2>1. PICK m \in 1..120 : m = MonthOf(s) /\ MonthStarts[m] <= s
    BY MonthIsTheLastBefore
  <2>2. PICK n \in 1..120 : n = MonthOf(t) /\ \A k \in 1..120 : MonthStarts[k] <= t => k <= n
    BY MonthIsTheLastBefore
  <2>3. MonthStarts[m] \in Nat /\ MonthStarts[n] \in Nat
    <3>1. \A i \in 1..120 : MonthStarts[i] \in Nat
      BY MonthsAscend
    <3> QED BY <3>1
  <2>4. MonthStarts[m] <= t => m <= n
    BY <2>2
  <2>5. m <= n => MonthStarts[m] <= MonthStarts[n]
    <3>1. m < n => MonthStarts[m] < MonthStarts[n]
      BY MonthsAscend
    <3> QED BY <3>1, <2>3
  <2>6. date_trunc("month", s) = MonthStarts[m] /\ date_trunc("month", t) = MonthStarts[n]
    BY <2>1, <2>2, TruncIs
  <2> QED BY <1>3, <2>1, <2>3, <2>4, <2>5, <2>6
<1> QED BY <1>1, <1>2, <1>3 DEF Units

\* The beginning of the period that the first hour of a year lies in.
Edge(unit, k) == date_trunc(unit, NewYear(k))

\* A boundary divides no period.
Cut(unit, t) == t \in Int /\ \A g \in Hours : t <= g <=> t <= date_trunc(unit, g)

LEMMA EdgesCut ==
  ASSUME NEW unit \in Units
  PROVE  /\ \A k \in 0..9 : Cut(unit, Edge(unit, k)) /\ Edge(unit, k) <= NewYear(k)
         /\ \A j, k \in 0..9 : j <= k => Edge(unit, j) <= Edge(unit, k)
         /\ Cut(unit, Now) /\ Now <= Edge(unit, 9)
<1>1. \A k \in 0..9 : NewYear(k) \in Nat
  BY YearsAscend
<1>2. ASSUME NEW k \in 0..9 PROVE Cut(unit, Edge(unit, k)) /\ Edge(unit, k) <= NewYear(k)
  <2>1. Edge(unit, k) \in Int /\ Edge(unit, k) <= NewYear(k)
    BY <1>1, TruncsAreInOrder DEF Edge
  <2>2. ASSUME NEW g \in Hours PROVE Edge(unit, k) <= g <=> Edge(unit, k) <= date_trunc(unit, g)
    <3>1. g \in Nat
      BY RepairConstants
    <3>2. Edge(unit, k) <= g => Edge(unit, k) <= date_trunc(unit, g)
      BY <1>1, <3>1, TruncsAreInOrder DEF Edge
    <3>3. date_trunc(unit, g) \in Int /\ date_trunc(unit, g) <= g
      BY <3>1, TruncsAreInOrder
    <3> QED BY <3>1, <3>2, <3>3, <2>1
  <2> QED BY <2>1, <2>2 DEF Cut
<1>3. ASSUME NEW j \in 0..9, NEW k \in 0..9, j <= k PROVE Edge(unit, j) <= Edge(unit, k)
  <2>1. NewYear(j) <= NewYear(k)
    <3>1. j < k => NewYear(j) < NewYear(k)
      BY YearsAscend
    <3> QED BY <3>1, <1>1, <1>3
  <2> QED BY <2>1, <1>1, TruncsAreInOrder DEF Edge
<1>4. Cut(unit, Now)
  <2>1. ASSUME NEW g \in Hours PROVE ~(Now <= g) /\ ~(Now <= date_trunc(unit, g))
    <3>1. g \in Nat /\ g < Now /\ Now \in Nat
      BY RepairConstants
    <3>2. date_trunc(unit, g) \in Int /\ date_trunc(unit, g) <= g
      BY <3>1, TruncsAreInOrder
    <3> QED BY <3>1, <3>2
  <2>2. Now \in Int
    BY RepairConstants
  <2> QED BY <2>1, <2>2 DEF Cut
<1>5. Now <= Edge(unit, 9)
  <2> DEFINE year == NewYear(9)
  <2>1. Now \in Nat /\ Now + 168 <= year /\ year \in Nat
    BY <1>1, RepairConstants
  <2>2. CASE unit = "day"
    <3>1. year \div 24 \in Int /\ year < 24 * (year \div 24) + 24
      BY <2>1, QuotientIs
    <3>2. Edge(unit, 9) = 24 * (year \div 24)
      BY <2>1, <2>2, TruncIs DEF Edge
    <3> HIDE DEF year
    <3> QED BY <2>1, <3>1, <3>2
  <2>3. CASE unit = "week"
    <3>1. (year + 24) \div 168 \in Int /\ year + 24 < 168 * ((year + 24) \div 168) + 168
      BY <2>1, QuotientIs
    <3>2. Edge(unit, 9) = 168 * ((year + 24) \div 168) - 24
      BY <2>1, <2>3, TruncIs DEF Edge
    <3> HIDE DEF year
    <3> QED BY <2>1, <3>1, <3>2
  <2>4. CASE unit = "month"
    <3>1. 109 \in 1..120
      OBVIOUS
    <3>2. year = MonthStarts[109]
      BY DEF NewYear
    <3>3. MonthOf(year) = 109
      BY <3>1, <3>2, MonthOfItsStart
    <3>4. Edge(unit, 9) = year
      BY <2>1, <2>4, <3>2, <3>3, TruncIs DEF Edge
    <3> QED BY <2>1, <3>4
  <2> QED BY <2>2, <2>3, <2>4 DEF Units
<1> QED BY <1>2, <1>3, <1>4, <1>5

LEMMA MinIs ==
  ASSUME NEW S \in SUBSET Int, NEW x \in S, \A y \in S : x <= y
  PROVE  Min(S) = x
<1>1. Min(S) \in S /\ \A y \in S : Min(S) <= y
  BY DEF Min
<1>2. Min(S) \in Int /\ x \in Int /\ Min(S) <= x /\ x <= Min(S)
  BY <1>1
<1> QED BY <1>2

LEMMA MinOfPair ==
  ASSUME NEW a \in Int, NEW b \in Int
  PROVE  Min({a, b}) = IF a <= b THEN a ELSE b
<1>1. {a, b} \in SUBSET Int
  OBVIOUS
<1>2. CASE a <= b
  <2>1. a \in {a, b} /\ \A y \in {a, b} : a <= y
    BY <1>2
  <2>2. Min({a, b}) = a
    BY ONLY <1>1, <2>1, MinIs
  <2> QED BY <1>2, <2>2
<1>3. CASE ~(a <= b)
  <2>1. b \in {a, b} /\ \A y \in {a, b} : b <= y
    BY <1>3
  <2>2. Min({a, b}) = b
    BY ONLY <1>1, <2>1, MinIs
  <2> QED BY <1>3, <2>2
<1> QED BY <1>2, <1>3

\* The hours of a period are those from its beginning to the next one's.
LEMMA NextBucketIs ==
  ASSUME NEW unit \in Units, NEW t \in Nat, t < Now, NEW g \in Nat
  PROVE  LET bucket == date_trunc(unit, t)
         IN  date_trunc(unit, g) = bucket <=> bucket <= g /\ g < NextBucket(unit, bucket)
<1>1. CASE unit = "day"
  <2>1. /\ t \div 24 \in Int /\ g \div 24 \in Int
        /\ 24 * (g \div 24) <= g /\ g < 24 * (g \div 24) + 24
    BY QuotientIs
  <2>2. date_trunc(unit, t) = 24 * (t \div 24) /\ date_trunc(unit, g) = 24 * (g \div 24)
    BY <1>1, TruncIs
  <2>3. NextBucket(unit, date_trunc(unit, t)) = 24 * (t \div 24) + 24
    BY <1>1, <2>2 DEF NextBucket
  <2> QED BY <2>1, <2>2, <2>3
<1>2. CASE unit = "week"
  <2>1. /\ (t + 24) \div 168 \in Int /\ (g + 24) \div 168 \in Int
        /\ 168 * ((g + 24) \div 168) <= g + 24 /\ g + 24 < 168 * ((g + 24) \div 168) + 168
    BY QuotientIs
  <2>2. /\ date_trunc(unit, t) = 168 * ((t + 24) \div 168) - 24
        /\ date_trunc(unit, g) = 168 * ((g + 24) \div 168) - 24
    BY <1>2, TruncIs
  <2>3. NextBucket(unit, date_trunc(unit, t)) = 168 * ((t + 24) \div 168) - 24 + 168
    BY <1>2, <2>2 DEF NextBucket
  <2> QED BY <2>1, <2>2, <2>3
<1>3. CASE unit = "month"
  <2>1. PICK m \in 1..120 : m = MonthOf(t) /\ MonthStarts[m] <= t
    BY MonthIsTheLastBefore
  <2>2. PICK n \in 1..120 : /\ n = MonthOf(g) /\ MonthStarts[n] <= g
                            /\ \A k \in 1..120 : MonthStarts[k] <= g => k <= n
    BY MonthIsTheLastBefore
  <2>3. /\ \A i \in 1..120 : MonthStarts[i] \in Nat
        /\ \A i, j \in 1..120 : i < j => MonthStarts[i] < MonthStarts[j]
    BY MonthsAscend
  <2>4. m < 109
    <3>1. PICK y \in 1..120 : y = 109 /\ NewYear(9) = MonthStarts[y]
      BY DEF NewYear
    <3>2. MonthStarts[y] \in Nat /\ MonthStarts[m] \in Nat
      BY <2>3
    <3>3. t < MonthStarts[y]
      BY <3>1, <3>2, RepairConstants
    <3>4. y < m => MonthStarts[y] < MonthStarts[m]
      BY <2>3
    <3>5. y = m => MonthStarts[y] = MonthStarts[m]
      OBVIOUS
    <3>6. ~(y <= m)
      BY <2>1, <3>2, <3>3, <3>4, <3>5
    <3> QED BY <3>1, <3>6
  <2>5. PICK o \in 1..120 : o = m + 1
    BY <2>4
  <2>6. date_trunc(unit, t) = MonthStarts[m] /\ date_trunc(unit, g) = MonthStarts[n]
    BY <1>3, <2>1, <2>2, TruncIs
  <2>7. NextBucket(unit, MonthStarts[m]) = MonthStarts[o]
    <3> DEFINE later == {x \in ToSet(MonthStarts) : x > MonthStarts[m]}
    <3>1. ToSet(MonthStarts) = {MonthStarts[i] : i \in 1..120}
      BY MonthsAscend DEF ToSet
    <3>2. later \in SUBSET Int
      <4>1. \A x \in later : \E i \in 1..120 : x = MonthStarts[i]
        BY <3>1
      <4>2. \A x \in later : x \in Nat
        BY <4>1, <2>3
      <4> QED BY <4>2
    <3>3. MonthStarts[o] \in later
      <4>1. MonthStarts[m] \in Nat /\ MonthStarts[o] \in Nat
        BY <2>3
      <4>2. m < o => MonthStarts[m] < MonthStarts[o]
        BY <2>3
      <4> QED BY <4>1, <4>2, <2>5, <3>1
    <3>4. ASSUME NEW x \in later PROVE MonthStarts[o] <= x
      <4>1. PICK i \in 1..120 : x = MonthStarts[i] /\ x > MonthStarts[m]
        BY <3>1
      <4>2. MonthStarts[i] \in Nat /\ MonthStarts[m] \in Nat /\ MonthStarts[o] \in Nat
        BY <2>3
      <4>3. i < m => MonthStarts[i] < MonthStarts[m]
        BY <2>3
      <4>4. o < i => MonthStarts[o] < MonthStarts[i]
        BY <2>3
      <4> QED BY <4>1, <4>2, <4>3, <4>4, <2>5
    <3> HIDE DEF later
    <3>5. Min(later) = MonthStarts[o]
      BY <3>2, <3>3, <3>4, MinIs
    <3> QED BY <1>3, <3>5 DEF NextBucket, later
  <2>8. MonthStarts[m] \in Nat /\ MonthStarts[n] \in Nat /\ MonthStarts[o] \in Nat
    BY <2>3
  <2>9. ASSUME MonthStarts[n] = MonthStarts[m] PROVE MonthStarts[m] <= g /\ g < MonthStarts[o]
    <3>1. n = m
      <4>1. n < m => MonthStarts[n] < MonthStarts[m]
        BY <2>3
      <4>2. m < n => MonthStarts[m] < MonthStarts[n]
        BY <2>3
      <4> QED BY <4>1, <4>2, <2>8, <2>9
    <3>2. MonthStarts[o] <= g => o <= n
      BY <2>2
    <3>3. ~(o <= n)
      BY <3>1, <2>5
    <3>4. MonthStarts[m] <= g
      BY <2>2, <2>9
    <3> QED BY <3>2, <3>3, <3>4, <2>8
  <2>10. ASSUME MonthStarts[m] <= g, g < MonthStarts[o] PROVE MonthStarts[n] = MonthStarts[m]
    <3>1. m <= n
      BY <2>2, <2>10
    <3>2. o < n => MonthStarts[o] < MonthStarts[n]
      BY <2>3
    <3>3. ~(o <= n)
      BY <3>2, <2>2, <2>8, <2>10
    <3> QED BY <3>1, <3>3, <2>5
  <2> QED BY <2>6, <2>7, <2>9, <2>10
<1> QED BY <1>1, <1>2, <1>3 DEF Units

-----------------------------------------------------------------------------
(* What the commands go over. *)

\* The batches a command has yet to do.
Batches == {b \in [unit : Units, from : Int, to : Int] : Cut(b.unit, b.from) /\ Cut(b.unit, b.to)}

\* A set of years, with each of them those before it, is an interval of as many.
LEMMA FirstYears ==
  ASSUME NEW low \in Int, NEW high \in Int, NEW K \in SUBSET (low..high),
         \A j, k \in low..high : j <= k /\ k \in K => j \in K
  PROVE  Cardinality(K) \in Nat /\ K = low..(low + Cardinality(K) - 1)
<1>1. IsFiniteSet(low..high)
  BY FS_Interval
<1>2. IsFiniteSet(K) /\ Cardinality(K) \in Nat
  BY <1>1, FS_Subset, FS_CardinalityType
<1>3. CASE K = {}
  BY <1>3, <1>2, FS_EmptySet
<1>4. CASE K # {}
  <2>1. K \in SUBSET Int
    OBVIOUS
  <2>2. PICK m \in K : \A y \in K : m >= y
    BY <1>2, <1>4, <2>1, FiniteHasEnds
  <2>3. m \in low..high
    OBVIOUS
  <2>4. K = low..m
    <3>1. \A j \in low..m : j \in low..high /\ j <= m
      BY <2>3
    <3>2. \A j \in low..m : j \in K
      BY <3>1, <2>2, <2>3
    <3>3. \A j \in K : j \in low..m
      BY <2>2, <2>3
    <3> QED BY <3>2, <3>3
  <2>5. low <= m /\ m \in Int
    BY <2>3
  <2>6. Cardinality(low..m) = m - low + 1
    BY <2>5, FS_Interval
  <2>7. low + Cardinality(K) - 1 = m
    BY <2>4, <2>5, <2>6
  <2> QED BY <1>2, <2>4, <2>7
<1> QED BY <1>3, <1>4

\* Batches end at boundaries that divide no period, and hold every hour there is from the day the
\* command was told.
LEMMA BatchesCover ==
  ASSUME NEW unit \in Units, NEW since \in Nat
  PROVE  LET batches == batch_ranges(unit, since, Now)
         IN  /\ batches \in Seq(Batches)
             /\ \A h \in Hours : h >= since =>
                  \E i \in DOMAIN batches : /\ batches[i].unit = unit
                                            /\ batches[i].from <= h /\ h < batches[i].to
<1> DEFINE batches == batch_ranges(unit, since, Now)
           first == YearOf(since)
           K == {k \in first..9 : Edge(unit, k) < Now}
           n == Cardinality(K)
<1>1. first \in 0..9 /\ NewYear(first) <= since
  BY YearIsTheLastBefore
<1>2. batches = [i \in 1..n |-> [unit |-> unit, from |-> Edge(unit, first + i - 1),
                                 to |-> Min({Edge(unit, first + i), Now})]]
  BY DEF batch_ranges, Edge
<1> HIDE DEF batches, first
<1>3. /\ \A k \in 0..9 : Cut(unit, Edge(unit, k)) /\ Edge(unit, k) \in Int
      /\ \A j, k \in 0..9 : j <= k => Edge(unit, j) <= Edge(unit, k)
      /\ Cut(unit, Now) /\ Now \in Int /\ Now <= Edge(unit, 9)
  BY EdgesCut DEF Cut
<1>4. n \in Nat /\ K = first..(first + n - 1)
  <2>1. ASSUME NEW j \in first..9, NEW k \in first..9, j <= k, k \in K PROVE j \in K
    <3>1. j \in 0..9 /\ k \in 0..9
      BY <1>1
    <3>2. Edge(unit, j) \in Int /\ Edge(unit, k) \in Int /\ Edge(unit, j) <= Edge(unit, k)
      BY <3>1, <2>1, <1>3
    <3> QED BY <2>1, <3>2, <1>3
  <2>2. first \in Int /\ 9 \in Int /\ K \in SUBSET (first..9)
    BY <1>1
  <2> HIDE DEF K
  <2> DEFINE last == 9
  <2>3. last \in Int /\ K \in SUBSET (first..last) /\ \A j, k \in first..last : j <= k /\ k \in K => j \in K
    BY <2>1, <2>2
  <2> HIDE DEF last
  <2>4. Cardinality(K) \in Nat /\ K = first..(first + Cardinality(K) - 1)
    BY <2>2, <2>3, FirstYears
  <2> QED BY <2>4
<1>5. \A k \in K : k \in first..9 /\ k # 9 /\ Edge(unit, k) < Now
  BY <1>3
<1>6. \A k \in first..9 : k \notin K => Now <= Edge(unit, k)
  <2>1. ASSUME NEW k \in first..9, k \notin K PROVE Now <= Edge(unit, k)
    <3>1. k \in 0..9 /\ ~(Edge(unit, k) < Now)
      BY <1>1, <2>1
    <3>2. Edge(unit, k) \in Int
      BY <3>1, <1>3
    <3> QED BY <3>1, <3>2, <1>3
  <2> QED BY <2>1
<1> HIDE DEF K
<1>7. ASSUME NEW i \in 1..n
      PROVE  /\ first + i - 1 \in K /\ first + i - 1 \in 0..9 /\ first + i \in 0..9 /\ first + i \in first..9
             /\ batches[i] = [unit |-> unit, from |-> Edge(unit, first + i - 1),
                              to |-> Min({Edge(unit, first + i), Now})]
  <2>1. first + i - 1 \in first..(first + n - 1)
    BY <1>1, <1>4
  <2>2. first + i - 1 \in K /\ first + i - 1 \in first..9 /\ first + i - 1 # 9
    BY <2>1, <1>4, <1>5
  <2> QED BY <1>1, <1>2, <1>4, <2>2
<1>8. ASSUME NEW i \in 1..n PROVE batches[i] \in Batches
  <2> DEFINE a == Edge(unit, first + i - 1)
             b == Edge(unit, first + i)
  <2>1. Cut(unit, a) /\ a \in Int /\ Cut(unit, b) /\ b \in Int
    BY <1>3, <1>7
  <2>2. Min({b, Now}) = b \/ Min({b, Now}) = Now
    BY <1>3, <2>1, MinOfPair
  <2>3. batches[i] = [unit |-> unit, from |-> a, to |-> Min({b, Now})]
    BY <1>7
  <2> HIDE DEF a, b
  <2>4. Cut(unit, Min({b, Now})) /\ Min({b, Now}) \in Int
    BY <1>3, <2>1, <2>2
  <2> QED BY <2>1, <2>3, <2>4 DEF Batches
<1>9. batches \in Seq(Batches)
  <2>1. batches = [i \in 1..n |-> batches[i]]
    BY <1>2
  <2>2. [i \in 1..n |-> batches[i]] \in Seq(Batches)
    BY <1>4, <1>8
  <2> QED BY <2>1, <2>2
<1>10. ASSUME NEW h \in Hours, h >= since
       PROVE  \E i \in DOMAIN batches : /\ batches[i].unit = unit
                                        /\ batches[i].from <= h /\ h < batches[i].to
  <2> DEFINE P == {k \in K : Edge(unit, k) <= h}
  <2>1. h \in Nat /\ h < Now
    BY RepairConstants
  <2>2. first \in P
    <3>1. NewYear(first) \in Nat /\ Edge(unit, first) \in Int /\ Edge(unit, first) <= NewYear(first)
      BY <1>1, <1>3, EdgesCut, YearsAscend
    <3>2. Edge(unit, first) <= h /\ Edge(unit, first) < Now
      BY <3>1, <1>1, <1>3, <1>10, <2>1
    <3>3. first \in first..9 /\ ~(Now <= Edge(unit, first))
      BY <3>1, <3>2, <1>1, <1>3
    <3> QED BY <3>2, <3>3, <1>6
  <2>3. P \in SUBSET Int /\ IsFiniteSet(P)
    <3>1. first \in Int /\ first + n - 1 \in Int
      BY <1>1, <1>4
    <3>2. IsFiniteSet(first..(first + n - 1))
      BY <3>1, FS_Interval
    <3>3. IsFiniteSet(K) /\ K \in SUBSET Int
      BY <1>4, <3>1, <3>2
    <3>4. P \in SUBSET K
      OBVIOUS
    <3> QED BY <3>3, <3>4, FS_Subset
  <2>4. PICK k \in P : \A j \in P : k >= j
    BY <2>2, <2>3, FiniteHasEnds
  <2>5. k \in K /\ Edge(unit, k) <= h /\ k \in first..(first + n - 1)
    BY <1>4, <2>4
  <2>6. PICK i \in 1..n : k = first + i - 1
    <3>1. k - first + 1 \in 1..n /\ k = first + (k - first + 1) - 1
      BY <1>1, <1>4, <2>5
    <3> QED BY <3>1
  <2> DEFINE b == Edge(unit, first + i)
  <2>7. b \in Int /\ h < b
    <3>1. first + i \in first..9 /\ first + i \in 0..9
      BY <1>7
    <3>2. b \in Int
      BY <3>1, <1>3
    <3>3. CASE first + i \in K
      <4>1. ~(b <= h)
        <5>1. b <= h => k >= first + i
          BY <3>3, <2>4
        <5> QED BY <5>1, <2>6, <1>1
      <4> QED BY <4>1, <3>2, <2>1
    <3>4. CASE first + i \notin K
      <4>1. Now <= b
        BY <3>1, <3>4, <1>6
      <4> QED BY <4>1, <3>2, <2>1, <1>3
    <3> QED BY <3>2, <3>3, <3>4
  <2>8. h < Min({b, Now})
    BY <2>1, <2>7, <1>3, MinOfPair
  <2>9. batches[i].unit = unit /\ batches[i].from <= h /\ h < batches[i].to /\ i \in DOMAIN batches
    BY <1>2, <1>7, <2>5, <2>6, <2>8
  <2> QED BY <2>9
<1> QED BY <1>9, <1>10 DEF batches

Spans == [from : Int, to : Int]

\* Years end where the next one begins, and hold every hour from the first to the last.
LEMMA YearsCover ==
  ASSUME NEW first \in Hours, NEW last \in Hours, first <= last
  PROVE  LET years == years_of(first, last)
         IN  /\ years \in Seq(Spans)
             /\ \A h \in Hours : first <= h /\ h <= last =>
                  \E i \in DOMAIN years : years[i].from <= h /\ h < years[i].to
<1> DEFINE years == years_of(first, last)
           low == YearOf(first)
           high == YearOf(last)
           n == high - low + 1
<1>1. years = [i \in 1..n |-> [from |-> NewYear(low + i - 1), to |-> NewYear(low + i)]]
  BY DEF years_of
<1>2. ASSUME NEW h \in Hours
      PROVE  /\ h \in Nat /\ YearOf(h) \in 0..8 /\ NewYear(YearOf(h)) <= h
             /\ \A k \in 0..9 : NewYear(k) <= h => k <= YearOf(h)
  <2>1. h \in Nat /\ h < Now
    BY RepairConstants
  <2>2. PICK y \in 0..9 : y = YearOf(h) /\ NewYear(y) <= h /\ \A k \in 0..9 : NewYear(k) <= h => k <= y
    BY <2>1, YearIsTheLastBefore
  <2>3. Now \in Nat /\ Now + 168 <= NewYear(9) /\ NewYear(9) \in Nat
    BY RepairConstants, YearsAscend
  <2>4. y # 9
    BY <2>1, <2>2, <2>3
  <2> QED BY <2>1, <2>2, <2>4
<1>3. \A k \in 0..9 : NewYear(k) \in Nat
  BY YearsAscend
<1>4. ASSUME NEW s \in Hours, NEW t \in Hours, s <= t PROVE YearOf(s) <= YearOf(t)
  <2>1. PICK y \in 0..8 : y = YearOf(s) /\ NewYear(y) <= s
    BY <1>2
  <2>2. y \in 0..9 /\ NewYear(y) \in Nat
    BY <1>3
  <2>3. NewYear(y) <= t
    BY <1>2, <1>4, <2>1, <2>2
  <2> QED BY <1>2, <2>1, <2>2, <2>3
<1>5. low \in 0..8 /\ high \in 0..8 /\ low <= high
  BY <1>2, <1>4
<1> HIDE DEF years, low, high
<1>6. n \in Nat /\ \A i \in 1..n : low + i - 1 \in 0..9 /\ low + i \in 0..9
  BY <1>5
<1>7. years \in Seq(Spans)
  <2>1. ASSUME NEW i \in 1..n PROVE years[i] \in Spans
    <3>1. NewYear(low + i - 1) \in Int /\ NewYear(low + i) \in Int
      BY <1>3, <1>6
    <3>2. years[i] = [from |-> NewYear(low + i - 1), to |-> NewYear(low + i)]
      BY <1>1
    <3> QED BY <3>1, <3>2 DEF Spans
  <2>2. years = [i \in 1..n |-> years[i]]
    BY <1>1
  <2>3. [i \in 1..n |-> years[i]] \in Seq(Spans)
    BY <1>6, <2>1
  <2> QED BY <2>2, <2>3
<1>8. ASSUME NEW h \in Hours, first <= h, h <= last
      PROVE  \E i \in DOMAIN years : years[i].from <= h /\ h < years[i].to
  <2>1. PICK y \in 0..8 : y = YearOf(h) /\ NewYear(y) <= h /\ \A k \in 0..9 : NewYear(k) <= h => k <= y
    BY <1>2
  <2>2. low <= y /\ y <= high
    BY <1>4, <1>8, <2>1 DEF low, high
  <2>3. PICK i \in 1..n : y = low + i - 1
    <3>1. y - low + 1 \in 1..n /\ y = low + (y - low + 1) - 1
      BY <1>5, <2>2
    <3> QED BY <3>1
  <2>4. h < NewYear(y + 1)
    <3>1. y + 1 \in 0..9 /\ ~(y + 1 <= y)
      OBVIOUS
    <3>2. ~(NewYear(y + 1) <= h)
      BY <2>1, <3>1
    <3>3. NewYear(y + 1) \in Nat /\ h \in Nat
      BY <1>2, <1>3, <3>1
    <3> QED BY <3>2, <3>3
  <2>5. low + i - 1 = y /\ low + i = y + 1
    BY <1>5, <2>3
  <2>6. years[i] = [from |-> NewYear(y), to |-> NewYear(y + 1)] /\ i \in DOMAIN years
    BY <1>1, <2>5
  <2> QED BY <2>1, <2>4, <2>6
<1> QED BY <1>7, <1>8 DEF years

-----------------------------------------------------------------------------
(* Rows. *)

IsRow(r) ==
  /\ r = [interchange |-> r.interchange, mix |-> r.mix, total |-> r.total, share |-> r.share]
  /\ r.mix # Null => IsMix(r.mix)

IsTable(table) ==
  /\ DOMAIN table \subseteq Hours /\ table = [h \in DOMAIN table |-> table[h]]
  /\ \A h \in DOMAIN table : IsRow(table[h])

LEMMA RowIsARow ==
  ASSUME NEW answer, IsAnswer(answer), NEW config
  PROVE  /\ IsRow(Row(answer, config)) /\ Row(answer, config).mix = answer.mix
         /\ answer.mix # Null => Row(answer, config).share = compute_shares(answer.mix, config)
<1>1. CASE answer.mix = Null
  BY <1>1 DEF Row, IsRow
<1>2. CASE answer.mix # Null
  BY <1>2 DEF Row, IsRow, IsAnswer
<1> QED BY <1>1, <1>2

\* What an upsert leaves: a row, whose shares are the mapper's or as they were, with the mix.
LEMMA UpsertedIs ==
  ASSUME NEW table, IsTable(table), NEW h \in Hours, NEW answer \in Answers
  PROVE  LET row == Upserted(table, h, answer)
         IN  /\ IsRow(row)
             /\ row.mix # Null => \/ row.share = compute_shares(row.mix, Config)
                                  \/ h \in DOMAIN table /\ row.mix = table[h].mix /\ row.share = table[h].share
<1> DEFINE new == Row(answer, Config)
           flow == IF new.interchange = Null THEN table[h].interchange ELSE new.interchange
           row == Upserted(table, h, answer)
<1>1. IsRow(new) /\ new.mix = answer.mix /\ (new.mix # Null => new.share = compute_shares(new.mix, Config))
  <2>1. IsAnswer(answer)
    BY RepairConstants
  <2>2. /\ IsRow(Row(answer, Config)) /\ Row(answer, Config).mix = answer.mix
        /\ answer.mix # Null => Row(answer, Config).share = compute_shares(answer.mix, Config)
    BY <2>1, RowIsARow
  <2> QED BY <2>2
<1>2. CASE h \notin DOMAIN table
  BY <1>1, <1>2 DEF Upserted
<1>3. CASE h \in DOMAIN table
  <2>1. IsRow(table[h])
    BY <1>3 DEF IsTable
  <2>2. row = [table[h] EXCEPT !.interchange = flow] \/ row = [new EXCEPT !.interchange = flow]
    BY <1>3 DEF Upserted
  <2> HIDE DEF new, flow, row
  <2>3. CASE row = [table[h] EXCEPT !.interchange = flow]
    <3>1. row = [interchange |-> flow, mix |-> table[h].mix, total |-> table[h].total, share |-> table[h].share]
      BY <2>1, <2>3 DEF IsRow
    <3> QED BY <1>3, <2>1, <3>1 DEF IsRow, row
  <2>4. CASE row = [new EXCEPT !.interchange = flow]
    <3>1. row = [interchange |-> flow, mix |-> new.mix, total |-> new.total, share |-> new.share]
      BY <1>1, <2>4 DEF IsRow
    <3> QED BY <1>1, <3>1 DEF IsRow, row
  <2> QED BY <2>2, <2>3, <2>4
<1> QED BY <1>2, <1>3

LEMMA WrittenIs ==
  ASSUME NEW table, IsTable(table), NEW h \in Hours, NEW answer \in Answers
  PROVE  LET new == Written(table, h, answer)
         IN  /\ IsTable(new) /\ DOMAIN new = DOMAIN table \cup {h}
             /\ new[h] = Upserted(table, h, answer)
             /\ \A g \in DOMAIN table : g # h => new[g] = table[g]
<1> DEFINE new == Written(table, h, answer)
<1>1. new = [k \in {h} \cup DOMAIN table |->
               IF k \in {h} THEN [g \in {h} |-> Upserted(table, g, answer)][k] ELSE table[k]]
  BY DEF Written, Over
<1> HIDE DEF new
<1>2. DOMAIN new = DOMAIN table \cup {h} /\ new = [g \in DOMAIN new |-> new[g]]
  BY <1>1
<1>3. new[h] = Upserted(table, h, answer)
  BY <1>1
<1>4. \A g \in DOMAIN table : g # h => new[g] = table[g]
  BY <1>1
<1>5. DOMAIN new \subseteq Hours
  BY <1>2 DEF IsTable
<1>6. ASSUME NEW g \in DOMAIN new PROVE IsRow(new[g])
  <2>1. CASE g = h
    BY <2>1, <1>3, UpsertedIs
  <2>2. CASE g # h
    BY <2>2, <1>2, <1>4 DEF IsTable
  <2> QED BY <2>1, <2>2
<1> QED BY <1>2, <1>3, <1>4, <1>5, <1>6 DEF IsTable, new

-----------------------------------------------------------------------------
(* Documents. *)

\* The rows of a period.
Whole(table, unit, bucket) == Restrict(table, {g \in DOMAIN table : date_trunc(unit, g) = bucket})

\* A resolution's documents have that of a period.
Shows(documents, table, unit, bucket) ==
  IF DOMAIN Whole(table, unit, bucket) = {} THEN bucket \notin DOMAIN documents
  ELSE bucket \in DOMAIN documents /\ documents[bucket] = DocumentOf(Whole(table, unit, bucket))

\* A range that holds all hours of a period or none.
Undivided(unit, from, to) ==
  \A g, h \in Hours : date_trunc(unit, g) = date_trunc(unit, h) =>
                        (from <= g /\ g < to <=> from <= h /\ h < to)

LEMMA WholeIs ==
  ASSUME NEW table, NEW unit, NEW bucket
  PROVE  DOMAIN Whole(table, unit, bucket) = {g \in DOMAIN table : date_trunc(unit, g) = bucket}
  BY DEF Whole, Restrict

LEMMA WholeIsTheSame ==
  ASSUME NEW table, NEW other, NEW unit, NEW bucket,
         {g \in DOMAIN other : date_trunc(unit, g) = bucket}
           = {g \in DOMAIN table : date_trunc(unit, g) = bucket},
         \A g \in DOMAIN table : date_trunc(unit, g) = bucket => other[g] = table[g]
  PROVE  Whole(other, unit, bucket) = Whole(table, unit, bucket)
<1> DEFINE S == {g \in DOMAIN table : date_trunc(unit, g) = bucket}
<1>1. Whole(table, unit, bucket) = [g \in S |-> table[g]]
  BY DEF Whole, Restrict
<1>2. Whole(other, unit, bucket) = [g \in S |-> other[g]]
  BY DEF Whole, Restrict
<1>3. \A g \in S : other[g] = table[g]
  OBVIOUS
<1> HIDE DEF S
<1>4. [g \in S |-> other[g]] = [g \in S |-> table[g]]
  BY <1>3
<1> QED BY <1>1, <1>2, <1>4

\* Rows that agree on a period have, an hour of it written, the same rows of that period.
LEMMA WrittenAgrees ==
  ASSUME NEW table, IsTable(table), NEW other, IsTable(other), NEW h \in Hours, NEW answer \in Answers,
         NEW unit, NEW bucket, bucket = date_trunc(unit, h),
         \A g \in Hours : date_trunc(unit, g) = bucket =>
           (g \in DOMAIN other <=> g \in DOMAIN table) /\ (g \in DOMAIN table => other[g] = table[g])
  PROVE  Whole(Written(other, h, answer), unit, bucket) = Whole(Written(table, h, answer), unit, bucket)
<1> DEFINE new == Written(table, h, answer)
           newer == Written(other, h, answer)
<1>1. /\ IsTable(new) /\ DOMAIN new = DOMAIN table \cup {h} /\ new[h] = Upserted(table, h, answer)
      /\ \A g \in DOMAIN table : g # h => new[g] = table[g]
  BY WrittenIs
<1>2. /\ IsTable(newer) /\ DOMAIN newer = DOMAIN other \cup {h} /\ newer[h] = Upserted(other, h, answer)
      /\ \A g \in DOMAIN other : g # h => newer[g] = other[g]
  BY WrittenIs
<1>3. Upserted(other, h, answer) = Upserted(table, h, answer)
  BY DEF Upserted
<1> HIDE DEF new, newer
<1>4. \A g \in DOMAIN table \cup DOMAIN other : g \in Hours
  BY DEF IsTable
<1>5. {g \in DOMAIN newer : date_trunc(unit, g) = bucket} = {g \in DOMAIN new : date_trunc(unit, g) = bucket}
  BY <1>1, <1>2, <1>4
<1>6. \A g \in DOMAIN new : date_trunc(unit, g) = bucket => newer[g] = new[g]
  BY <1>1, <1>2, <1>3, <1>4
<1> QED BY <1>5, <1>6, WholeIsTheSame DEF new, newer

\* The periods built are those of the rows read.
LEMMA BuiltPeriods ==
  ASSUME NEW table, NEW unit, NEW from, NEW to, NEW bucket
  PROVE  bucket \in DOMAIN build_aggregates(table, unit, from, to) <=>
           \E h \in DOMAIN table : from <= h /\ h < to /\ bucket = date_trunc(unit, h)
  BY DEF build_aggregates

\* What is built of an undivided range: each document is of the whole of its period.
LEMMA BuildIs ==
  ASSUME NEW table, IsTable(table), NEW unit, NEW from, NEW to, Undivided(unit, from, to)
  PROVE  LET new == build_aggregates(table, unit, from, to)
         IN  \A bucket \in DOMAIN new : Shows(new, table, unit, bucket)
<1> DEFINE read == {h \in DOMAIN table : from <= h /\ h < to}
           new == build_aggregates(table, unit, from, to)
<1>1. new = [bucket \in {date_trunc(unit, h) : h \in read} |->
               DocumentOf(Restrict(table, {h \in read : date_trunc(unit, h) = bucket}))]
  BY DEF build_aggregates
<1> HIDE DEF new
<1>2. DOMAIN new = {date_trunc(unit, h) : h \in read}
  BY <1>1
<1>3. ASSUME NEW bucket \in DOMAIN new PROVE Shows(new, table, unit, bucket)
  <2>1. PICK h \in read : bucket = date_trunc(unit, h)
    BY <1>2
  <2>2. h \in DOMAIN table /\ h \in Hours /\ from <= h /\ h < to
    BY DEF IsTable
  <2>3. \A g \in DOMAIN table : date_trunc(unit, g) = bucket => from <= g /\ g < to
    BY <2>1, <2>2 DEF Undivided, IsTable
  <2>4. {g \in read : date_trunc(unit, g) = bucket} = {g \in DOMAIN table : date_trunc(unit, g) = bucket}
    BY <2>3
  <2>5. new[bucket] = DocumentOf(Restrict(table, {g \in read : date_trunc(unit, g) = bucket}))
    BY <1>1, <1>2
  <2>6. new[bucket] = DocumentOf(Whole(table, unit, bucket))
    BY <2>4, <2>5 DEF Whole
  <2>7. h \in DOMAIN Whole(table, unit, bucket)
    <3>1. DOMAIN Whole(table, unit, bucket) = {g \in DOMAIN table : date_trunc(unit, g) = bucket}
      BY WholeIs
    <3> QED BY <3>1, <2>1, <2>2
  <2> QED BY <2>6, <2>7 DEF Shows
<1> QED BY <1>3 DEF new

\* Documents stored over others.
LEMMA OverIs ==
  ASSUME NEW new, NEW old
  PROVE  /\ DOMAIN Over(new, old) = DOMAIN new \cup DOMAIN old
         /\ \A k \in DOMAIN new : Over(new, old)[k] = new[k]
         /\ \A k \in DOMAIN old : k \notin DOMAIN new => Over(new, old)[k] = old[k]
  BY DEF Over

\* Of a period that was built there is now the new document, of another one what there was.
LEMMA StoredIs ==
  ASSUME NEW table, IsTable(table), NEW unit, NEW from, NEW to, Undivided(unit, from, to),
         NEW old, NEW stored,
         stored = Over(build_aggregates(table, unit, from, to), old),
         NEW bucket
  PROVE  /\ bucket \in DOMAIN build_aggregates(table, unit, from, to) => Shows(stored, table, unit, bucket)
         /\ bucket \notin DOMAIN build_aggregates(table, unit, from, to) /\ Shows(old, table, unit, bucket)
              => Shows(stored, table, unit, bucket)
<1> DEFINE new == build_aggregates(table, unit, from, to)
<1>1. \A b \in DOMAIN new : Shows(new, table, unit, b)
  BY BuildIs
<1> HIDE DEF new
<1>2. /\ DOMAIN Over(new, old) = DOMAIN new \cup DOMAIN old
      /\ \A k \in DOMAIN new : Over(new, old)[k] = new[k]
      /\ \A k \in DOMAIN old : k \notin DOMAIN new => Over(new, old)[k] = old[k]
  BY OverIs
<1>3. stored = Over(new, old)
  BY DEF new
<1>4. CASE bucket \in DOMAIN new
  <2>1. Shows(new, table, unit, bucket)
    BY <1>1, <1>4
  <2>2. bucket \in DOMAIN stored /\ stored[bucket] = new[bucket]
    BY <1>2, <1>3, <1>4
  <2> QED BY <1>4, <2>1, <2>2 DEF Shows, new
<1>5. CASE bucket \notin DOMAIN new
  <2>1. bucket \in DOMAIN stored <=> bucket \in DOMAIN old
    BY <1>2, <1>3, <1>5
  <2>2. bucket \in DOMAIN old => stored[bucket] = old[bucket]
    BY <1>2, <1>3, <1>5
  <2> QED BY <1>5, <2>1, <2>2 DEF Shows, new
<1> QED BY <1>4, <1>5

-----------------------------------------------------------------------------
(* The invariant of coarse documents. *)

DocsInv(table, documents, due) ==
  /\ DOMAIN documents = Units
  /\ \A unit \in Units, h \in Hours :
       <<unit, date_trunc(unit, h)>> \notin due => Shows(documents[unit], table, unit, date_trunc(unit, h))

Covered(todo, unit, h) ==
  \E i \in DOMAIN todo : todo[i].unit = unit /\ todo[i].from <= h /\ h < todo[i].to

IsCommand(c) ==
  /\ c = [name |-> c.name, todo |-> c.todo, built |-> c.built, since |-> c.since, writes |-> c.writes,
          missed |-> c.missed]
  /\ c.built = Null => c.missed = {}

IsPoll(p) ==
  /\ p = [hour |-> p.hour, answer |-> p.answer, todo |-> p.todo, built |-> p.built, missed |-> p.missed]
  /\ p.hour \in Hours /\ p.answer \in Answers /\ p.todo \in Seq(Units)

\* What an open poll has stored is the document of its bucket as the poll sees it, unless it was
\* overtaken; and what it has not stored it has yet to do.
OpenInv(p, table) ==
  p # Null =>
    /\ IsPoll(p)
    /\ \A unit \in Units : unit \in DOMAIN p.built \/ \E i \in DOMAIN p.todo : p.todo[i] = unit
    /\ \A unit \in Units : unit \in DOMAIN p.built =>
         LET bucket == date_trunc(unit, p.hour)
         IN  /\ DOMAIN p.built[unit] = {bucket}
             /\ <<unit, bucket>> \notin p.missed =>
                  Shows(p.built[unit], Written(table, p.hour, p.answer), unit, bucket)

\* What a rebuild has read of its first batch and not stored: the documents of whole periods,
\* unless they were overtaken; and of all of them, unless the jobs wrote.
BatchInv(c, table, count) ==
  c.built # Null =>
    /\ c.name = "rebuild-aggregates" /\ c.todo # <<>>
    /\ \A h \in Hours : LET unit == Head(c.todo).unit
                            bucket == date_trunc(unit, h)
                        IN  bucket \in DOMAIN c.built /\ <<unit, bucket>> \notin c.missed =>
                              Shows(c.built, table, unit, bucket)
    /\ c.writes = count =>
         /\ c.missed = {}
         /\ \A h \in DOMAIN table : Head(c.todo).from <= h /\ h < Head(c.todo).to =>
              date_trunc(Head(c.todo).unit, h) \in DOMAIN c.built

\* A rebuild has yet to come to whatever is owed from the day it was told, unless the jobs wrote.
RebuildInv(c, table, count, due) ==
  c.name = "rebuild-aggregates" =>
    /\ c.todo \in Seq(Batches)
    /\ c.writes = count =>
         \A h \in DOMAIN table, unit \in Units :
           h >= c.since /\ <<unit, date_trunc(unit, h)>> \in due => Covered(c.todo, unit, h)

CommandInv ==
  /\ IsCommand(command) /\ writes \in Nat /\ command.writes \in Nat /\ command.writes <= writes
  /\ RebuildInv(command, rows, writes, owed) /\ BatchInv(command, rows, writes)

BucketsInv == IsTable(rows) /\ DocsInv(rows, docs, owed) /\ OpenInv(poll, rows) /\ CommandInv

\* The buckets an hour lies in.
LEMMA BucketsAre ==
  ASSUME NEW h, NEW unit, NEW bucket
  PROVE  <<unit, bucket>> \in BucketsOf(h) <=> unit \in Units /\ bucket = date_trunc(unit, h)
  BY DEF BucketsOf

\* Two tables have the same rows of a period.
Agree(table, other, unit, bucket) ==
  \A g \in Hours : date_trunc(unit, g) = bucket =>
    (g \in DOMAIN other <=> g \in DOMAIN table) /\ (g \in DOMAIN table => other[g] = table[g])

\* They have the same rows of every period but some.
AgreeBut(changed, table, other) ==
  \A unit \in Units, h \in Hours :
    <<unit, date_trunc(unit, h)>> \notin changed => Agree(table, other, unit, date_trunc(unit, h))

LEMMA AgreedAreTheSame ==
  ASSUME NEW table, IsTable(table), NEW other, IsTable(other), NEW unit, NEW bucket,
         Agree(table, other, unit, bucket)
  PROVE  /\ Whole(other, unit, bucket) = Whole(table, unit, bucket)
         /\ \A documents : Shows(documents, table, unit, bucket) => Shows(documents, other, unit, bucket)
<1>1. \A g \in DOMAIN table \cup DOMAIN other : g \in Hours
  BY DEF IsTable
<1>2. {g \in DOMAIN other : date_trunc(unit, g) = bucket} = {g \in DOMAIN table : date_trunc(unit, g) = bucket}
  BY <1>1 DEF Agree
<1>3. \A g \in DOMAIN table : date_trunc(unit, g) = bucket => other[g] = table[g]
  BY <1>1 DEF Agree
<1>4. Whole(other, unit, bucket) = Whole(table, unit, bucket)
  BY <1>2, <1>3, WholeIsTheSame
<1> QED BY <1>4 DEF Shows

\* One hour written changes the periods it lies in, if anything.
LEMMA WrittenAgreesBut ==
  ASSUME IsTable(rows), NEW h \in Hours, NEW answer \in Answers, NEW table, table = Written(rows, h, answer)
  PROVE  IsTable(table) /\ AgreeBut(Changed(table, h), rows, table)
<1>1. /\ IsTable(table) /\ DOMAIN table = DOMAIN rows \cup {h}
      /\ \A g \in DOMAIN rows : g # h => table[g] = rows[g]
  BY WrittenIs
<1>2. CASE table = rows
  BY <1>1, <1>2 DEF AgreeBut, Agree
<1>3. CASE table # rows
  <2> SUFFICES ASSUME NEW unit \in Units, NEW i \in Hours, <<unit, date_trunc(unit, i)>> \notin BucketsOf(h)
               PROVE  Agree(rows, table, unit, date_trunc(unit, i))
    BY <1>1, <1>3 DEF AgreeBut, Changed
  <2>1. date_trunc(unit, i) # date_trunc(unit, h)
    BY BucketsAre
  <2>2. \A g \in Hours : date_trunc(unit, g) = date_trunc(unit, i) => g # h
    BY <2>1
  <2> QED BY <1>1, <2>2 DEF Agree
<1> QED BY <1>2, <1>3

\* A document that is owed none of the changes shows the rows as it did.
LEMMA DocsOutlast ==
  ASSUME NEW table, IsTable(table), NEW other, IsTable(other), NEW changed, AgreeBut(changed, table, other),
         NEW documents, NEW due, DocsInv(table, documents, due), NEW later, later = due \cup changed
  PROVE  DocsInv(other, documents, later)
<1>1. ASSUME NEW unit \in Units, NEW h \in Hours, <<unit, date_trunc(unit, h)>> \notin later
      PROVE  Shows(documents[unit], other, unit, date_trunc(unit, h))
  <2>1. Shows(documents[unit], table, unit, date_trunc(unit, h))
    BY <1>1 DEF DocsInv
  <2>2. Agree(table, other, unit, date_trunc(unit, h))
    BY <1>1 DEF AgreeBut
  <2> QED BY <2>1, <2>2, AgreedAreTheSame
<1> QED BY <1>1 DEF DocsInv

\* So do the documents of an open poll that are not marked.
LEMMA PollOutlasts ==
  ASSUME IsTable(rows), NEW other, IsTable(other), NEW changed, AgreeBut(changed, rows, other),
         OpenInv(poll, rows), NEW p, p = PollMissing(changed)
  PROVE  OpenInv(p, other)
<1>1. CASE poll = Null
  BY <1>1 DEF PollMissing, OpenInv
<1>2. CASE poll # Null
  <2> DEFINE missed == poll.missed \cup {b \in changed : b[1] \in DOMAIN poll.built}
  <2>1. IsPoll(poll)
    BY <1>2 DEF OpenInv
  <2>2. p = [hour |-> poll.hour, answer |-> poll.answer, todo |-> poll.todo, built |-> poll.built,
             missed |-> missed]
    BY <1>2, <2>1 DEF PollMissing, IsPoll
  <2> HIDE DEF missed
  <2>3. IsPoll(p) /\ p.hour = poll.hour /\ p.answer = poll.answer /\ p.todo = poll.todo
        /\ p.built = poll.built /\ p.missed = missed
    BY <2>1, <2>2 DEF IsPoll
  <2>4. \A unit \in Units : unit \in DOMAIN p.built \/ \E i \in DOMAIN p.todo : p.todo[i] = unit
    BY <1>2, <2>3 DEF OpenInv
  <2>5. ASSUME NEW unit \in Units, unit \in DOMAIN p.built,
               NEW bucket, bucket = date_trunc(unit, p.hour)
        PROVE  /\ DOMAIN p.built[unit] = {bucket}
               /\ <<unit, bucket>> \notin p.missed =>
                    Shows(p.built[unit], Written(other, p.hour, p.answer), unit, bucket)
    <3>1. /\ DOMAIN p.built[unit] = {bucket}
          /\ <<unit, bucket>> \notin poll.missed =>
               Shows(p.built[unit], Written(rows, p.hour, p.answer), unit, bucket)
      BY <1>2, <2>3, <2>5 DEF OpenInv
    <3>2. ASSUME <<unit, bucket>> \notin p.missed
          PROVE  Shows(p.built[unit], Written(other, p.hour, p.answer), unit, bucket)
      <4>1. <<unit, bucket>> \notin poll.missed /\ <<unit, bucket>> \notin changed
        <5>1. <<unit, bucket>>[1] = unit
          OBVIOUS
        <5> QED BY <2>3, <2>5, <3>2, <5>1 DEF missed
      <4>2. p.hour \in Hours /\ p.answer \in Answers
        BY <2>1, <2>3 DEF IsPoll
      <4>3. Agree(rows, other, unit, bucket)
        BY <2>5, <4>1, <4>2 DEF AgreeBut
      <4>4. Whole(Written(other, p.hour, p.answer), unit, bucket) = Whole(Written(rows, p.hour, p.answer), unit, bucket)
        BY <2>5, <4>2, <4>3, WrittenAgrees DEF Agree
      <4> QED BY <3>1, <4>1, <4>4 DEF Shows
    <3> QED BY <3>1, <3>2
  <2> QED BY <2>3, <2>4, <2>5 DEF OpenInv
<1> QED BY <1>1, <1>2

\* And those a rebuild has read, if the change is counted as a write.
LEMMA BatchOutlasts ==
  ASSUME IsTable(rows), NEW other, IsTable(other), NEW changed, AgreeBut(changed, rows, other),
         CommandInv, NEW c, c = CommandMissing(changed), NEW count \in Nat, command.writes < count,
         NEW due
  PROVE  /\ IsCommand(c) /\ c.writes \in Nat /\ c.writes <= count /\ c.name = command.name /\ c.todo = command.todo
         /\ RebuildInv(c, other, count, due) /\ BatchInv(c, other, count)
<1>1. IsCommand(command) /\ command.writes \in Nat
  BY DEF CommandInv
<1>2. /\ IsCommand(c) /\ c.name = command.name /\ c.todo = command.todo /\ c.writes = command.writes
      /\ c.built = command.built /\ (command.built # Null => c.missed = command.missed \cup changed)
  <2>1. CASE command.built = Null
    BY <1>1, <2>1 DEF CommandMissing
  <2>2. CASE command.built # Null
    <3>1. PICK missed : missed = command.missed \cup changed
      OBVIOUS
    <3>2. c = [command EXCEPT !.missed = missed]
      BY <2>2, <3>1 DEF CommandMissing
    <3>3. c = [name |-> command.name, todo |-> command.todo, built |-> command.built, since |-> command.since,
               writes |-> command.writes, missed |-> missed]
      BY <1>1, <3>2 DEF IsCommand
    <3>4. /\ c.name = command.name /\ c.todo = command.todo /\ c.writes = command.writes /\ c.since = command.since
          /\ c.built = command.built /\ c.missed = missed
      BY <3>3
    <3>5. c = [name |-> c.name, todo |-> c.todo, built |-> c.built, since |-> c.since, writes |-> c.writes,
               missed |-> c.missed]
      BY <3>3, <3>4
    <3> QED BY <2>2, <3>1, <3>4, <3>5 DEF IsCommand
  <2> QED BY <2>1, <2>2
<1>3. c.writes \in Nat /\ c.writes <= count /\ c.writes # count
  BY <1>1, <1>2
<1>4. RebuildInv(c, other, count, due)
  BY <1>2, <1>3 DEF CommandInv, RebuildInv
<1>5. ASSUME c.built # Null
      PROVE  /\ c.name = "rebuild-aggregates" /\ c.todo # <<>>
             /\ \A h \in Hours : LET unit == Head(c.todo).unit
                                     bucket == date_trunc(unit, h)
                                 IN  bucket \in DOMAIN c.built /\ <<unit, bucket>> \notin c.missed =>
                                       Shows(c.built, other, unit, bucket)
  <2>1. c.name = "rebuild-aggregates" /\ c.todo # <<>> /\ c.todo \in Seq(Batches)
    BY <1>2, <1>5 DEF CommandInv, BatchInv, RebuildInv
  <2>2. PICK unit : unit = Head(c.todo).unit
    OBVIOUS
  <2>3. unit \in Units
    <3>1. Head(c.todo) \in Batches
      BY <2>1
    <3> QED BY <2>2, <3>1 DEF Batches
  <2>4. ASSUME NEW h \in Hours, NEW bucket, bucket = date_trunc(unit, h),
               bucket \in DOMAIN c.built, <<unit, bucket>> \notin c.missed
        PROVE  Shows(c.built, other, unit, bucket)
    <3>1. <<unit, bucket>> \notin command.missed /\ <<unit, bucket>> \notin changed
      BY <1>2, <1>5, <2>4
    <3>2. Shows(c.built, rows, unit, bucket)
      BY <1>2, <1>5, <2>2, <2>4, <3>1 DEF CommandInv, BatchInv
    <3>3. Agree(rows, other, unit, bucket)
      BY <2>3, <2>4, <3>1 DEF AgreeBut
    <3> QED BY <3>2, <3>3, AgreedAreTheSame
  <2> QED BY <2>1, <2>2, <2>4
<1>6. BatchInv(c, other, count)
  BY <1>3, <1>5 DEF BatchInv
<1> QED BY <1>2, <1>3, <1>4, <1>6

LEMMA BucketsStart == Init => BucketsInv
<1> SUFFICES ASSUME Init PROVE BucketsInv
  OBVIOUS
<1>1. PICK history \in Histories :
        /\ rows = [h \in DOMAIN history |-> Row(history[h], Former)]
        /\ owed = UNION {BucketsOf(h) : h \in DOMAIN history}
  BY DEF Init
<1>2. DOMAIN history \subseteq Hours /\ \A h \in DOMAIN history : IsAnswer(history[h])
  BY RepairConstants
<1>3. IsTable(rows)
  <2>1. DOMAIN rows = DOMAIN history /\ rows = [h \in DOMAIN rows |-> rows[h]]
    BY <1>1
  <2>2. ASSUME NEW h \in DOMAIN rows PROVE IsRow(rows[h])
    <3>1. IsAnswer(history[h]) /\ rows[h] = Row(history[h], Former)
      BY <1>1, <1>2, <2>1
    <3> QED BY <3>1, RowIsARow
  <2> QED BY <1>2, <2>1, <2>2 DEF IsTable
<1>4. DocsInv(rows, docs, owed)
  <2>1. docs = [unit \in Units |-> <<>>]
    BY DEF Init
  <2>2. ASSUME NEW unit \in Units, NEW h \in Hours, <<unit, date_trunc(unit, h)>> \notin owed
        PROVE  Shows(docs[unit], rows, unit, date_trunc(unit, h))
    <3> DEFINE bucket == date_trunc(unit, h)
    <3>1. \A g \in DOMAIN history : <<unit, bucket>> \notin BucketsOf(g)
      BY <1>1, <2>2
    <3>2. \A g \in DOMAIN history : date_trunc(unit, g) # bucket
      BY <3>1, BucketsAre
    <3>3. DOMAIN rows = DOMAIN history
      BY <1>1
    <3>4. DOMAIN Whole(rows, unit, bucket) = {g \in DOMAIN rows : date_trunc(unit, g) = bucket}
      BY WholeIs
    <3>5. DOMAIN Whole(rows, unit, bucket) = {}
      BY <3>2, <3>3, <3>4
    <3>6. docs[unit] = <<>>
      BY <2>1
    <3>7. bucket \notin DOMAIN docs[unit]
      BY <3>6
    <3> QED BY <3>5, <3>7 DEF Shows
  <2> QED BY <2>1, <2>2 DEF DocsInv
<1>5. CommandInv /\ OpenInv(poll, rows)
  BY DEF Init, None, CommandInv, IsCommand, RebuildInv, BatchInv, OpenInv
<1> QED BY <1>3, <1>4, <1>5 DEF BucketsInv

LEMMA BackfillKeeps == BucketsInv /\ Backfill => BucketsInv'
<1> SUFFICES ASSUME BucketsInv, NEW h \in Hours, NEW answer \in Answers, NEW table,
                    table = Written(rows, h, answer), writes' = writes + 1, rows' = table,
                    poll' = PollMissing(Changed(table, h)), command' = CommandMissing(Changed(table, h)),
                    owed' = owed \cup Changed(table, h), UNCHANGED docs
             PROVE  BucketsInv'
  BY DEF Backfill
<1> DEFINE changed == Changed(table, h)
<1>1. IsTable(rows) /\ CommandInv /\ OpenInv(poll, rows) /\ DocsInv(rows, docs, owed)
  BY DEF BucketsInv
<1>2. IsTable(rows') /\ AgreeBut(changed, rows, rows')
  BY <1>1, WrittenAgreesBut
<1>3. poll' = PollMissing(changed) /\ command' = CommandMissing(changed) /\ owed' = owed \cup changed
  OBVIOUS
<1> HIDE DEF changed
<1>4. DocsInv(rows', docs', owed')
  BY <1>1, <1>2, <1>3, DocsOutlast
<1>5. OpenInv(poll', rows')
  BY <1>1, <1>2, <1>3, PollOutlasts
<1>6. writes' \in Nat /\ command.writes < writes'
  BY <1>1 DEF CommandInv
<1>7. /\ IsCommand(command') /\ command'.writes \in Nat /\ command'.writes <= writes'
      /\ RebuildInv(command', rows', writes', owed') /\ BatchInv(command', rows', writes')
  BY <1>1, <1>2, <1>3, <1>6, BatchOutlasts
<1> QED BY <1>2, <1>4, <1>5, <1>6, <1>7 DEF BucketsInv, CommandInv

LEMMA StartPollKeeps == BucketsInv /\ StartPoll => BucketsInv'
<1> SUFFICES ASSUME BucketsInv, StartPoll PROVE BucketsInv'
  OBVIOUS
<1>1. PICK h \in Hours, answer \in Answers :
        poll' = [hour |-> h, answer |-> answer, todo |-> <<"day", "week", "month">>, built |-> <<>>, missed |-> {}]
  BY DEF StartPoll
<1>2. IsPoll(poll') /\ poll'.built = <<>> /\ poll'.todo = <<"day", "week", "month">>
  <2>1. <<"day", "week", "month">> \in Seq(Units)
    BY DEF Units
  <2> QED BY <1>1, <2>1 DEF IsPoll
<1>3. DOMAIN poll'.built = {} /\ \A unit \in Units : \E i \in DOMAIN poll'.todo : poll'.todo[i] = unit
  <2>1. <<"day", "week", "month">>[1] = "day" /\ <<"day", "week", "month">>[2] = "week"
        /\ <<"day", "week", "month">>[3] = "month" /\ DOMAIN <<"day", "week", "month">> = 1..3
    OBVIOUS
  <2>2. 1 \in 1..3 /\ 2 \in 1..3 /\ 3 \in 1..3
    OBVIOUS
  <2> QED BY <1>2, <2>1, <2>2 DEF Units
<1>4. UNCHANGED <<rows, docs, command, writes, owed>>
  BY DEF StartPoll
<1>5. OpenInv(poll', rows')
  BY <1>2, <1>3 DEF OpenInv
<1> QED BY <1>4, <1>5 DEF BucketsInv, CommandInv

\* The hours of a bucket are those a poll reads, all of them or none.
LEMMA BucketIsARange ==
  ASSUME NEW unit \in Units, NEW h \in Hours, NEW from, from = date_trunc(unit, h),
         NEW to, to = NextBucket(unit, from)
  PROVE  /\ Undivided(unit, from, to)
         /\ \A g \in Hours : date_trunc(unit, g) = from <=> from <= g /\ g < to
<1>1. \A i \in Hours : date_trunc(unit, i) = from <=> from <= i /\ i < to
  <2>1. ASSUME NEW i \in Hours PROVE date_trunc(unit, i) = from <=> from <= i /\ i < to
    <3>1. h \in Nat /\ h < Now /\ i \in Nat
      BY RepairConstants
    <3> QED BY <3>1, NextBucketIs
  <2> QED BY <2>1
<1> QED BY <1>1 DEF Undivided

LEMMA RefreshBucketKeeps == BucketsInv /\ RefreshBucket => BucketsInv'
<1> SUFFICES ASSUME BucketsInv, RefreshBucket PROVE BucketsInv'
  OBVIOUS
<1> DEFINE unit == Head(poll.todo)
           from == date_trunc(unit, poll.hour)
           to == NextBucket(unit, from)
           table == Written(rows, poll.hour, poll.answer)
           new == build_aggregates(table, unit, from, to)
           built == Over([u \in {unit} |-> new], poll.built)
<1>1. /\ poll # Null /\ poll.todo # <<>> /\ poll' = [poll EXCEPT !.todo = Tail(@), !.built = built]
      /\ UNCHANGED <<rows, docs, command, writes, owed>>
  BY DEF RefreshBucket
<1>2. IsPoll(poll) /\ IsTable(rows)
  BY <1>1 DEF BucketsInv, OpenInv
<1>3. poll.hour \in Hours /\ poll.answer \in Answers /\ poll.todo \in Seq(Units) /\ unit \in Units
  BY <1>1, <1>2 DEF IsPoll
<1>4. IsTable(table) /\ DOMAIN table = DOMAIN rows \cup {poll.hour}
  <2>1. PICK h \in Hours, answer \in Answers : h = poll.hour /\ answer = poll.answer
    BY <1>3
  <2>2. IsTable(Written(rows, h, answer)) /\ DOMAIN Written(rows, h, answer) = DOMAIN rows \cup {h}
    BY <1>2, WrittenIs
  <2> QED BY <2>1, <2>2
<1>5. /\ Undivided(unit, from, to)
      /\ \A g \in Hours : date_trunc(unit, g) = from <=> from <= g /\ g < to
  BY <1>3, BucketIsARange
<1> HIDE DEF unit, from, to, table
<1>6. DOMAIN new = {from} /\ Shows(new, table, unit, from)
  <2>1. \A b : b \in DOMAIN new <=> \E i \in DOMAIN table : from <= i /\ i < to /\ b = date_trunc(unit, i)
    BY BuiltPeriods
  <2>2. \A i \in DOMAIN table : i \in Hours
    BY <1>4 DEF IsTable
  <2>3. from = date_trunc(unit, poll.hour)
    BY DEF from
  <2>4. \A b \in DOMAIN new : b = from
    BY <1>5, <2>1, <2>2
  <2>5. from \in DOMAIN new
    BY <1>3, <1>4, <1>5, <2>1, <2>3
  <2>6. \A b \in DOMAIN new : Shows(new, table, unit, b)
    BY <1>4, <1>5, BuildIs
  <2> HIDE DEF new
  <2> QED BY <2>4, <2>5, <2>6
<1> HIDE DEF new
<1>7. /\ DOMAIN built = {unit} \cup DOMAIN poll.built /\ built[unit] = new
      /\ \A u \in DOMAIN poll.built : u # unit => built[u] = poll.built[u]
  BY DEF Over
<1> HIDE DEF built
<1>8. /\ IsPoll(poll') /\ poll'.hour = poll.hour /\ poll'.answer = poll.answer /\ poll'.missed = poll.missed
      /\ poll'.todo = Tail(poll.todo) /\ poll'.built = built
  <2>1. poll' = [hour |-> poll.hour, answer |-> poll.answer, todo |-> Tail(poll.todo), built |-> built,
                 missed |-> poll.missed]
    BY <1>1, <1>2 DEF IsPoll
  <2>2. Tail(poll.todo) \in Seq(Units)
    BY <1>1, <1>3
  <2> QED BY <1>3, <2>1, <2>2 DEF IsPoll
<1>9. ASSUME NEW u \in Units PROVE u \in DOMAIN built \/ \E i \in DOMAIN poll'.todo : poll'.todo[i] = u
  <2>1. CASE u \in DOMAIN poll.built
    BY <1>7, <2>1
  <2>2. CASE \E i \in DOMAIN poll.todo : poll.todo[i] = u
    <3>1. PICK i \in DOMAIN poll.todo : poll.todo[i] = u
      BY <2>2
    <3>2. CASE i = 1
      BY <1>3, <1>7, <3>1, <3>2 DEF unit
    <3>3. CASE i # 1
      <4>1. i \in 2..Len(poll.todo) /\ Len(poll.todo) \in Nat
        BY <1>3, <3>1, <3>3
      <4>2. i - 1 \in DOMAIN Tail(poll.todo) /\ Tail(poll.todo)[i - 1] = poll.todo[i]
        BY <1>1, <1>3, <4>1
      <4> QED BY <1>8, <3>1, <4>2
    <3> QED BY <3>2, <3>3
  <2> QED BY <1>1, <2>1, <2>2 DEF BucketsInv, OpenInv
<1>10. ASSUME NEW u \in Units, u \in DOMAIN built, NEW bucket, bucket = date_trunc(u, poll.hour)
       PROVE  /\ DOMAIN built[u] = {bucket}
              /\ <<u, bucket>> \notin poll.missed => Shows(built[u], table, u, bucket)
  <2>1. CASE u = unit
    BY <1>6, <1>7, <1>10, <2>1 DEF from
  <2>2. CASE u # unit
    BY <1>1, <1>7, <1>10, <2>2 DEF BucketsInv, OpenInv, table
  <2> QED BY <2>1, <2>2
<1>11. OpenInv(poll', rows')
  BY <1>1, <1>8, <1>9, <1>10 DEF OpenInv, table
<1> QED BY <1>1, <1>11 DEF BucketsInv, CommandInv

LEMMA CommitPollKeeps == BucketsInv /\ CommitPoll => BucketsInv'
<1> SUFFICES ASSUME BucketsInv, CommitPoll PROVE BucketsInv'
  OBVIOUS
<1>1. PICK table : table = Written(rows, poll.hour, poll.answer)
  OBVIOUS
<1> DEFINE changed == Changed(table, poll.hour)
<1>2. /\ poll # Null /\ poll.todo = <<>> /\ rows' = table /\ command' = CommandMissing(changed)
      /\ docs' = [unit \in Units |-> Over(poll.built[unit], docs[unit])]
      /\ owed' = (owed \ BucketsOf(poll.hour)) \cup (BucketsOf(poll.hour) \cap poll.missed)
      /\ poll' = Null /\ writes' = writes + 1
  BY <1>1 DEF CommitPoll, Owing
<1>3. IsTable(rows) /\ CommandInv /\ OpenInv(poll, rows) /\ DocsInv(rows, docs, owed)
  BY DEF BucketsInv
<1>4. IsPoll(poll) /\ poll.hour \in Hours /\ poll.answer \in Answers
  BY <1>2, <1>3 DEF OpenInv, IsPoll
<1>5. IsTable(rows') /\ AgreeBut(changed, rows, rows')
  BY <1>1, <1>2, <1>3, <1>4, WrittenAgreesBut
<1>6. writes' \in Nat /\ command.writes < writes'
  BY <1>2, <1>3 DEF CommandInv
<1>7. changed \subseteq BucketsOf(poll.hour)
  BY DEF Changed
<1> HIDE DEF changed
<1>8. /\ IsCommand(command') /\ command'.writes \in Nat /\ command'.writes <= writes'
      /\ RebuildInv(command', rows', writes', owed') /\ BatchInv(command', rows', writes')
  BY <1>2, <1>3, <1>5, <1>6, BatchOutlasts
<1>9. ASSUME NEW unit \in Units, NEW g \in Hours, <<unit, date_trunc(unit, g)>> \notin owed'
      PROVE  Shows(docs'[unit], rows', unit, date_trunc(unit, g))
  <2>1. PICK bucket, mine : bucket = date_trunc(unit, g) /\ mine = date_trunc(unit, poll.hour)
    OBVIOUS
  <2>2. /\ DOMAIN poll.built[unit] = {mine}
        /\ <<unit, mine>> \notin poll.missed => Shows(poll.built[unit], rows', unit, mine)
    <3>1. unit \in DOMAIN poll.built
      BY <1>2, <1>3 DEF OpenInv
    <3> QED BY <1>1, <1>2, <1>3, <2>1, <3>1 DEF OpenInv
  <2>3. docs'[unit] = Over(poll.built[unit], docs[unit])
    BY <1>2
  <2>4. /\ DOMAIN docs'[unit] = {mine} \cup DOMAIN docs[unit] /\ docs'[unit][mine] = poll.built[unit][mine]
        /\ \A b \in DOMAIN docs[unit] : b # mine => docs'[unit][b] = docs[unit][b]
    <3>1. PICK new, old, later : new = poll.built[unit] /\ old = docs[unit] /\ later = docs'[unit]
      OBVIOUS
    <3>2. /\ DOMAIN later = DOMAIN new \cup DOMAIN old
          /\ \A k \in DOMAIN new : later[k] = new[k]
          /\ \A k \in DOMAIN old : k \notin DOMAIN new => later[k] = old[k]
      <4>1. later = Over(new, old)
        BY ONLY <2>3, <3>1
      <4> QED BY ONLY <4>1 DEF Over
    <3>3. DOMAIN new = {mine}
      BY <2>2, <3>1
    <3> QED BY ONLY <3>1, <3>2, <3>3
  <2>5. <<unit, mine>> \in BucketsOf(poll.hour)
    BY <2>1, BucketsAre
  <2>6. CASE bucket = mine
    <3>1. <<unit, mine>> \notin poll.missed
      BY <1>2, <1>9, <2>1, <2>5, <2>6
    <3>2. Shows(poll.built[unit], rows', unit, mine) /\ mine \in DOMAIN poll.built[unit]
      BY <2>2, <3>1
    <3>3. mine \in DOMAIN docs'[unit] /\ docs'[unit][mine] = poll.built[unit][mine]
      BY <2>4
    <3>4. Shows(docs'[unit], rows', unit, mine)
      BY <3>2, <3>3 DEF Shows
    <3> QED BY <2>1, <2>6, <3>4
  <2>7. CASE bucket # mine
    <3>1. <<unit, bucket>> \notin BucketsOf(poll.hour)
      BY <2>1, <2>7, BucketsAre
    <3>2. <<unit, bucket>> \notin owed /\ <<unit, bucket>> \notin changed
      BY <1>2, <1>7, <1>9, <2>1, <3>1
    <3>3. Shows(docs[unit], rows, unit, bucket)
      BY <1>3, <2>1, <3>2 DEF DocsInv
    <3>4. Agree(rows, rows', unit, bucket)
      BY <1>5, <2>1, <3>2 DEF AgreeBut
    <3>5. Shows(docs[unit], rows', unit, bucket)
      BY <1>3, <1>5, <3>3, <3>4, AgreedAreTheSame
    <3>6. /\ bucket \in DOMAIN docs'[unit] <=> bucket \in DOMAIN docs[unit]
          /\ bucket \in DOMAIN docs[unit] => docs'[unit][bucket] = docs[unit][bucket]
      BY <2>4, <2>7
    <3>7. Shows(docs'[unit], rows', unit, bucket)
      BY <3>5, <3>6 DEF Shows
    <3> QED BY <2>1, <3>7
  <2> QED BY <2>6, <2>7
<1>10. DocsInv(rows', docs', owed')
  BY <1>2, <1>9 DEF DocsInv
<1>11. OpenInv(poll', rows')
  BY <1>2 DEF OpenInv
<1> QED BY <1>5, <1>6, <1>8, <1>10, <1>11 DEF BucketsInv, CommandInv

LEMMA PollFailsKeeps == BucketsInv /\ PollFails => BucketsInv'
<1> SUFFICES ASSUME BucketsInv, PollFails PROVE BucketsInv'
  OBVIOUS
<1>1. poll' = Null /\ UNCHANGED <<rows, docs, command, writes, owed>>
  BY DEF PollFails
<1>2. OpenInv(poll', rows')
  BY <1>1 DEF OpenInv
<1> QED BY <1>1, <1>2 DEF BucketsInv, CommandInv

LEMMA StartRecomputeKeeps == BucketsInv /\ StartRecompute => BucketsInv'
<1> SUFFICES ASSUME BucketsInv, StartRecompute PROVE BucketsInv'
  OBVIOUS
<1>1. /\ command'.name = "recompute-shares" /\ IsCommand(command') /\ command'.writes = writes
      /\ command'.built = Null /\ UNCHANGED <<rows, docs, poll, writes, owed>>
  BY DEF StartRecompute, IsCommand, None
<1>2. RebuildInv(command', rows', writes', owed') /\ BatchInv(command', rows', writes')
  BY <1>1 DEF RebuildInv, BatchInv
<1> QED BY <1>1, <1>2 DEF BucketsInv, CommandInv

\* The batches of the three resolutions, one after the other, hold what any of them holds.
LEMMA BatchesJoined ==
  ASSUME NEW a \in Seq(Batches), NEW b \in Seq(Batches), NEW unit, NEW h,
         Covered(a, unit, h) \/ Covered(b, unit, h)
  PROVE  Covered(a \o b, unit, h)
<1>1. DOMAIN a = 1..Len(a) /\ DOMAIN b = 1..Len(b) /\ DOMAIN (a \o b) = 1..(Len(a) + Len(b))
      /\ Len(a) \in Nat /\ Len(b) \in Nat
  OBVIOUS
<1>2. CASE Covered(a, unit, h)
  <2>1. PICK i \in 1..Len(a) : a[i].unit = unit /\ a[i].from <= h /\ h < a[i].to
    BY <1>1, <1>2 DEF Covered
  <2>2. (a \o b)[i] = a[i] /\ i \in DOMAIN (a \o b)
    BY <1>1
  <2> QED BY <2>1, <2>2 DEF Covered
<1>3. CASE Covered(b, unit, h)
  <2>1. PICK i \in 1..Len(b) : b[i].unit = unit /\ b[i].from <= h /\ h < b[i].to
    BY <1>1, <1>3 DEF Covered
  <2>2. (a \o b)[Len(a) + i] = b[i] /\ Len(a) + i \in DOMAIN (a \o b)
    BY <1>1
  <2> QED BY <2>1, <2>2 DEF Covered
<1> QED BY <1>2, <1>3

LEMMA StartRebuildKeeps == BucketsInv /\ StartRebuild => BucketsInv'
<1> SUFFICES ASSUME BucketsInv, StartRebuild PROVE BucketsInv'
  OBVIOUS
<1>1. PICK since \in Sinces :
        command' = [name |-> "rebuild-aggregates", built |-> Null, since |-> since, writes |-> writes, missed |-> {},
                    todo |-> batch_ranges("day", since, Now) \o batch_ranges("week", since, Now)
                               \o batch_ranges("month", since, Now)]
  BY DEF StartRebuild, None
<1> DEFINE Of(unit) == batch_ranges(unit, since, Now)
           todo == Of("day") \o Of("week") \o Of("month")
<1>2. since \in Nat
  BY RepairConstants
<1>3. ASSUME NEW unit \in Units
      PROVE  Of(unit) \in Seq(Batches) /\ \A h \in Hours : h >= since => Covered(Of(unit), unit, h)
  BY <1>2, BatchesCover DEF Covered
<1>4. "day" \in Units /\ "week" \in Units /\ "month" \in Units
  BY DEF Units
<1> HIDE DEF Of
<1>5. Of("day") \in Seq(Batches) /\ Of("week") \in Seq(Batches) /\ Of("month") \in Seq(Batches)
  BY <1>3, <1>4
<1>6. Of("day") \o Of("week") \in Seq(Batches) /\ todo \in Seq(Batches)
  BY <1>5
<1>7. ASSUME NEW unit \in Units, NEW h \in Hours, h >= since PROVE Covered(todo, unit, h)
  <2>1. Covered(Of(unit), unit, h)
    BY <1>3, <1>7
  <2>2. CASE unit = "month"
    BY <1>5, <1>6, <2>1, <2>2, BatchesJoined
  <2>3. CASE unit = "day" \/ unit = "week"
    <3>1. Covered(Of("day"), unit, h) \/ Covered(Of("week"), unit, h)
      BY <2>1, <2>3
    <3>2. Covered(Of("day") \o Of("week"), unit, h)
      BY <1>5, <3>1, BatchesJoined
    <3> QED BY <1>5, <1>6, <3>2, BatchesJoined
  <2> QED BY <2>2, <2>3 DEF Units
<1>8. command' = [name |-> "rebuild-aggregates", built |-> Null, since |-> since, writes |-> writes, missed |-> {},
                  todo |-> todo]
  BY <1>1 DEF Of
<1> HIDE DEF todo
<1>9. UNCHANGED <<rows, docs, poll, writes, owed>>
  BY DEF StartRebuild
<1>10. /\ IsCommand(command') /\ command'.writes = writes /\ command'.since = since /\ command'.todo = todo
       /\ command'.built = Null
  BY <1>8 DEF IsCommand
<1>11. \A h \in DOMAIN rows : h \in Hours
  BY DEF BucketsInv, IsTable
<1>12. RebuildInv(command', rows', writes', owed') /\ BatchInv(command', rows', writes')
  BY <1>6, <1>7, <1>9, <1>10, <1>11 DEF RebuildInv, BatchInv
<1> QED BY <1>9, <1>10, <1>12 DEF BucketsInv, CommandInv

\* What a year's recompute leaves of a row: all but its shares; and a row whose shares it does
\* not change, as it was.
LEMMA RecomputedAre ==
  ASSUME IsTable(rows), RecomputeYear
  PROVE  /\ IsTable(rows') /\ DOMAIN rows' = DOMAIN rows
         /\ \A h \in DOMAIN rows : rows'[h].mix = rows[h].mix
         /\ \E changed : /\ AgreeBut(changed, rows, rows')
                         /\ owed' = owed \cup changed /\ poll' = PollMissing(changed)
<1> DEFINE year == Head(command.todo)
           In(h) == year.from <= h /\ h < year.to /\ rows[h].mix # Null
           New(h) == IF In(h) THEN recomputed(rows[h].mix, Config) ELSE rows[h].share
           moved == {h \in DOMAIN rows : New(h) # rows[h].share}
           changed == UNION {BucketsOf(h) : h \in moved}
<1>1. /\ rows' = [h \in DOMAIN rows |-> [rows[h] EXCEPT !.share = New(h)]]
      /\ owed' = owed \cup changed /\ poll' = PollMissing(changed)
  BY DEF RecomputeYear
<1> HIDE DEF New
<1>2. DOMAIN rows' = DOMAIN rows /\ \A h \in DOMAIN rows : rows'[h] = [rows[h] EXCEPT !.share = New(h)]
  BY <1>1
<1>3. ASSUME NEW h \in DOMAIN rows
      PROVE  /\ rows'[h] = [interchange |-> rows[h].interchange, mix |-> rows[h].mix,
                            total |-> rows[h].total, share |-> New(h)]
             /\ IsRow(rows'[h]) /\ rows'[h].mix = rows[h].mix
             /\ New(h) = rows[h].share => rows'[h] = rows[h]
  <2>1. IsRow(rows[h])
    BY DEF IsTable
  <2>2. rows'[h] = [interchange |-> rows[h].interchange, mix |-> rows[h].mix,
                    total |-> rows[h].total, share |-> New(h)]
    BY <1>2, <2>1 DEF IsRow
  <2> QED BY <2>1, <2>2 DEF IsRow
<1>4. ASSUME NEW unit \in Units, NEW h \in Hours, <<unit, date_trunc(unit, h)>> \notin changed
      PROVE  Agree(rows, rows', unit, date_trunc(unit, h))
  <2>1. ASSUME NEW g \in DOMAIN rows, date_trunc(unit, g) = date_trunc(unit, h) PROVE rows'[g] = rows[g]
    <3>1. <<unit, date_trunc(unit, h)>> \in BucketsOf(g)
      BY <2>1, BucketsAre
    <3>2. g \notin moved
      BY <1>4, <3>1
    <3> QED BY <1>3, <3>2
  <2> QED BY <1>2, <2>1 DEF Agree
<1>5. rows' = [h \in DOMAIN rows' |-> rows'[h]]
  BY <1>1
<1>6. IsTable(rows')
  BY <1>2, <1>3, <1>5 DEF IsTable
<1> HIDE DEF changed
<1>7. AgreeBut(changed, rows, rows')
  BY <1>4 DEF AgreeBut
<1> QED BY <1>1, <1>2, <1>3, <1>6, <1>7

LEMMA RecomputeYearKeeps == BucketsInv /\ RecomputeYear => BucketsInv'
<1> SUFFICES ASSUME BucketsInv, RecomputeYear PROVE BucketsInv'
  OBVIOUS
<1>1. IsTable(rows) /\ CommandInv /\ OpenInv(poll, rows) /\ DocsInv(rows, docs, owed)
  BY DEF BucketsInv
<1>2. /\ IsTable(rows')
      /\ \E changed : /\ AgreeBut(changed, rows, rows')
                      /\ owed' = owed \cup changed /\ poll' = PollMissing(changed)
  BY <1>1, RecomputedAre
<1>3. PICK changed : /\ AgreeBut(changed, rows, rows')
                     /\ owed' = owed \cup changed /\ poll' = PollMissing(changed)
  BY <1>2
<1>4. command.name = "recompute-shares" /\ command' = [command EXCEPT !.todo = Tail(@)] /\ UNCHANGED <<writes, docs>>
  BY DEF RecomputeYear
<1>5. IsCommand(command) /\ command.built = Null
  BY <1>1, <1>4 DEF CommandInv, BatchInv
<1>6. /\ command'.name = "recompute-shares" /\ IsCommand(command') /\ command'.writes = command.writes
      /\ command'.built = Null
  BY <1>4, <1>5 DEF IsCommand
<1>7. CommandInv'
  BY <1>1, <1>4, <1>6 DEF CommandInv, RebuildInv, BatchInv
<1>8. DocsInv(rows', docs', owed')
  <2>1. DocsInv(rows', docs, owed')
    BY <1>1, <1>2, <1>3, DocsOutlast
  <2> QED BY <1>4, <2>1
<1>9. OpenInv(poll', rows')
  BY <1>1, <1>2, <1>3, PollOutlasts
<1> QED BY <1>2, <1>7, <1>8, <1>9 DEF BucketsInv

\* A batch divides no period.
LEMMA BatchIsUndivided ==
  ASSUME NEW batch \in Batches
  PROVE  batch.unit \in Units /\ Undivided(batch.unit, batch.from, batch.to)
<1>1. batch.unit \in Units /\ Cut(batch.unit, batch.from) /\ Cut(batch.unit, batch.to)
  BY DEF Batches
<1>2. ASSUME NEW g \in Hours, NEW h \in Hours, date_trunc(batch.unit, g) = date_trunc(batch.unit, h)
      PROVE  batch.from <= g /\ g < batch.to <=> batch.from <= h /\ h < batch.to
  <2>1. batch.from <= g <=> batch.from <= h
    BY <1>1, <1>2 DEF Cut
  <2>2. batch.to <= g <=> batch.to <= h
    BY <1>1, <1>2 DEF Cut
  <2>3. g \in Int /\ h \in Int /\ batch.to \in Int
    BY <1>1, RepairConstants DEF Cut
  <2> QED BY <2>1, <2>2, <2>3
<1> QED BY <1>1, <1>2 DEF Undivided

LEMMA ReadBatchKeeps == BucketsInv /\ ReadBatch => BucketsInv'
<1> SUFFICES ASSUME BucketsInv, ReadBatch PROVE BucketsInv'
  OBVIOUS
<1> DEFINE batch == Head(command.todo)
           new == build_aggregates(rows, batch.unit, batch.from, batch.to)
<1>1. /\ command.name = "rebuild-aggregates" /\ command.todo # <<>>
      /\ command' = [command EXCEPT !.built = new] /\ UNCHANGED <<rows, docs, poll, writes, owed>>
  BY DEF ReadBatch
<1>2. IsTable(rows) /\ CommandInv
  BY DEF BucketsInv
<1>3. IsCommand(command) /\ command.todo \in Seq(Batches)
  BY <1>1, <1>2 DEF CommandInv, RebuildInv
<1>4. batch \in Batches
  BY <1>1, <1>3
<1> HIDE DEF batch, new
<1>5. /\ command'.name = command.name /\ command'.todo = command.todo /\ command'.built = new
      /\ command'.since = command.since /\ command'.writes = command.writes /\ command'.missed = command.missed
      /\ IsCommand(command')
  <2>1. command' = [name |-> command.name, todo |-> command.todo, built |-> new, since |-> command.since,
                    writes |-> command.writes, missed |-> command.missed]
    BY <1>1, <1>3 DEF IsCommand
  <2>2. command.missed = {}
    BY <1>3 DEF ReadBatch, IsCommand
  <2> QED BY <2>1, <2>2 DEF IsCommand
<1>6. Undivided(batch.unit, batch.from, batch.to)
  BY <1>4, BatchIsUndivided
<1>7. \A bucket \in DOMAIN new : Shows(new, rows, batch.unit, bucket)
  BY <1>2, <1>6, BuildIs DEF new
<1>8. \A h \in DOMAIN rows : batch.from <= h /\ h < batch.to => date_trunc(batch.unit, h) \in DOMAIN new
  BY BuiltPeriods DEF new
<1>9. command.missed = {}
  BY <1>3 DEF ReadBatch, IsCommand
<1>10. BatchInv(command', rows, writes)
  BY <1>1, <1>5, <1>7, <1>8, <1>9 DEF BatchInv, batch
<1>11. RebuildInv(command', rows, writes, owed)
  BY <1>2, <1>5 DEF CommandInv, RebuildInv
<1> QED BY <1>1, <1>2, <1>5, <1>10, <1>11 DEF BucketsInv, CommandInv

LEMMA StoreBatchKeeps == BucketsInv /\ StoreBatch => BucketsInv'
<1> SUFFICES ASSUME BucketsInv, StoreBatch PROVE BucketsInv'
  OBVIOUS
<1>1. PICK batch, new : batch = Head(command.todo) /\ new = command.built
  OBVIOUS
<1> DEFINE stored == {<<batch.unit, bucket>> : bucket \in DOMAIN new}
<1>2. /\ command.built # Null /\ docs' = [docs EXCEPT ![batch.unit] = Over(new, docs[batch.unit])]
      /\ owed' = (owed \ stored) \cup (stored \cap command.missed)
      /\ command' = [command EXCEPT !.todo = Tail(@), !.built = Null, !.missed = {}]
      /\ UNCHANGED <<rows, poll, writes>>
  BY <1>1 DEF StoreBatch, Owing
<1>3. IsTable(rows) /\ CommandInv /\ OpenInv(poll, rows) /\ DocsInv(rows, docs, owed)
  BY DEF BucketsInv
<1>4. command.name = "rebuild-aggregates" /\ command.todo # <<>> /\ command.todo \in Seq(Batches) /\ IsCommand(command)
  BY <1>2, <1>3 DEF CommandInv, BatchInv, RebuildInv
<1>5. batch \in Batches /\ batch.unit \in Units
  <2>1. batch \in Batches
    BY <1>1, <1>4
  <2> QED BY <2>1 DEF Batches
<1>6. \A h \in Hours : \A bucket : bucket = date_trunc(batch.unit, h) /\ bucket \in DOMAIN new
        /\ <<batch.unit, bucket>> \notin command.missed => Shows(new, rows, batch.unit, bucket)
  BY <1>1, <1>2, <1>3 DEF CommandInv, BatchInv
<1>7. \A unit, bucket : <<unit, bucket>> \in stored <=> unit = batch.unit /\ bucket \in DOMAIN new
  OBVIOUS
<1> HIDE DEF stored
<1>8. ASSUME NEW unit \in Units, NEW g \in Hours, <<unit, date_trunc(unit, g)>> \notin owed'
      PROVE  Shows(docs'[unit], rows, unit, date_trunc(unit, g))
  <2>1. PICK bucket : bucket = date_trunc(unit, g)
    OBVIOUS
  <2>2. DOMAIN docs = Units
    BY <1>3 DEF DocsInv
  <2>3. CASE unit # batch.unit
    <3>1. <<unit, bucket>> \notin owed
      BY <1>2, <1>7, <1>8, <2>1, <2>3
    <3>2. docs'[unit] = docs[unit]
      BY <1>2, <2>2, <2>3
    <3> QED BY <1>3, <2>1, <3>1, <3>2 DEF DocsInv
  <2>4. CASE unit = batch.unit
    <3>1. docs'[unit] = Over(new, docs[unit])
      BY <1>2, <2>2, <2>4
    <3>2. /\ DOMAIN docs'[unit] = DOMAIN new \cup DOMAIN docs[unit]
          /\ \A k \in DOMAIN new : docs'[unit][k] = new[k]
          /\ \A k \in DOMAIN docs[unit] : k \notin DOMAIN new => docs'[unit][k] = docs[unit][k]
      <4>1. PICK old, later : old = docs[unit] /\ later = docs'[unit]
        OBVIOUS
      <4>2. /\ DOMAIN later = DOMAIN new \cup DOMAIN old
            /\ \A k \in DOMAIN new : later[k] = new[k]
            /\ \A k \in DOMAIN old : k \notin DOMAIN new => later[k] = old[k]
        <5>1. later = Over(new, old)
          BY ONLY <3>1, <4>1
        <5> QED BY ONLY <5>1 DEF Over
      <4> QED BY ONLY <4>1, <4>2
    <3>3. CASE bucket \in DOMAIN new
      <4>1. <<unit, bucket>> \notin command.missed
        BY <1>2, <1>7, <1>8, <2>1, <2>4, <3>3
      <4>2. Shows(new, rows, unit, bucket)
        BY <1>6, <2>1, <2>4, <3>3, <4>1
      <4>3. bucket \in DOMAIN docs'[unit] /\ docs'[unit][bucket] = new[bucket]
        BY <3>2, <3>3
      <4>4. Shows(docs'[unit], rows, unit, bucket)
        BY <3>3, <4>2, <4>3 DEF Shows
      <4> QED BY <2>1, <4>4
    <3>4. CASE bucket \notin DOMAIN new
      <4>1. <<unit, bucket>> \notin owed
        BY <1>2, <1>7, <1>8, <2>1, <3>4
      <4>2. Shows(docs[unit], rows, unit, bucket)
        BY <1>3, <2>1, <4>1 DEF DocsInv
      <4>3. /\ bucket \in DOMAIN docs'[unit] <=> bucket \in DOMAIN docs[unit]
            /\ bucket \in DOMAIN docs[unit] => docs'[unit][bucket] = docs[unit][bucket]
        BY <3>2, <3>4
      <4>4. Shows(docs'[unit], rows, unit, bucket)
        BY <4>2, <4>3 DEF Shows
      <4> QED BY <2>1, <4>4
    <3> QED BY <3>3, <3>4
  <2> QED BY <2>3, <2>4
<1>9. DocsInv(rows, docs', owed')
  BY <1>2, <1>3, <1>8 DEF DocsInv
<1>10. /\ command'.name = command.name /\ command'.since = command.since /\ command'.writes = command.writes
       /\ command'.todo = Tail(command.todo) /\ command'.built = Null /\ command'.missed = {} /\ IsCommand(command')
  BY <1>2, <1>4 DEF IsCommand
<1>11. Tail(command.todo) \in Seq(Batches)
  BY <1>4
<1>12. ASSUME command.writes = writes, NEW h \in DOMAIN rows, NEW unit \in Units, h >= command.since,
              <<unit, date_trunc(unit, h)>> \in owed'
       PROVE  Covered(Tail(command.todo), unit, h)
  <2>1. command.missed = {} /\ \A g \in DOMAIN rows : batch.from <= g /\ g < batch.to => date_trunc(batch.unit, g) \in DOMAIN new
    BY <1>1, <1>2, <1>3, <1>12 DEF CommandInv, BatchInv
  <2>2. <<unit, date_trunc(unit, h)>> \in owed /\ <<unit, date_trunc(unit, h)>> \notin stored
    BY <1>2, <1>12, <2>1
  <2>3. Covered(command.todo, unit, h)
    BY <1>3, <1>4, <1>12, <2>2 DEF CommandInv, RebuildInv
  <2>4. PICK i \in DOMAIN command.todo : /\ command.todo[i].unit = unit
                                         /\ command.todo[i].from <= h /\ h < command.todo[i].to
    BY <2>3 DEF Covered
  <2>5. i # 1
    <3>1. SUFFICES ASSUME i = 1 PROVE FALSE
      OBVIOUS
    <3>2. command.todo[i] = batch
      BY <1>1, <1>4, <3>1
    <3>3. unit = batch.unit /\ date_trunc(unit, h) \in DOMAIN new
      BY <2>1, <2>4, <3>2
    <3> QED BY <1>7, <2>2, <3>3
  <2>6. i \in 2..Len(command.todo) /\ Len(command.todo) \in Nat
    BY <1>4, <2>4, <2>5
  <2>7. i - 1 \in DOMAIN Tail(command.todo) /\ Tail(command.todo)[i - 1] = command.todo[i]
    BY <1>4, <2>6
  <2> QED BY <2>4, <2>7 DEF Covered
<1>13. RebuildInv(command', rows, writes, owed') /\ BatchInv(command', rows, writes)
  BY <1>10, <1>11, <1>12 DEF RebuildInv, BatchInv
<1> QED BY <1>2, <1>3, <1>9, <1>10, <1>13 DEF BucketsInv, CommandInv

LEMMA EndsKeep == BucketsInv /\ (Finish \/ Interrupt \/ UNCHANGED vars) => BucketsInv'
<1> SUFFICES ASSUME BucketsInv, Finish \/ Interrupt \/ UNCHANGED vars PROVE BucketsInv'
  OBVIOUS
<1>1. CASE command' = None /\ UNCHANGED <<rows, docs, poll, writes, owed>>
  BY <1>1 DEF BucketsInv, CommandInv, RebuildInv, BatchInv, IsCommand, None
<1>2. CASE UNCHANGED vars
  BY <1>2 DEF vars, BucketsInv, CommandInv
<1> QED BY <1>1, <1>2 DEF Finish, Interrupt

LEMMA BucketsKeep == BucketsInv /\ [Next]_vars => BucketsInv'
BY BackfillKeeps, StartPollKeeps, RefreshBucketKeeps, CommitPollKeeps, PollFailsKeeps, StartRecomputeKeeps,
   StartRebuildKeeps, RecomputeYearKeeps, ReadBatchKeeps, StoreBatchKeeps, EndsKeep DEF Next

\* Every coarse document is of the whole of its period unless it is owed, a week across the new
\* year included, whatever was interrupted, and whatever commits between the reading of a document
\* and the storing of it: what was overtaken is owed.  A rebuild that has done its batches owes
\* nothing if no job committed meanwhile.  For any hours, answers and histories (aggregates.py:267).
THEOREM BucketsStayWhole == Spec => []BucketsAreWhole
<1>1. BucketsInv => BucketsAreWhole
  <2> SUFFICES ASSUME BucketsInv PROVE BucketsAreWhole
    OBVIOUS
  <2>1. ASSUME NEW unit \in Units, NEW h \in Hours, <<unit, date_trunc(unit, h)>> \notin owed
        PROVE  Shows(docs[unit], rows, unit, date_trunc(unit, h))
    BY <2>1 DEF BucketsInv, DocsInv
  <2>2. ASSUME Done("rebuild-aggregates"), writes = command.writes, NEW h \in DOMAIN rows, h >= command.since
        PROVE  BucketsOf(h) \cap owed = {}
    <3>1. command.name = "rebuild-aggregates" /\ command.todo = <<>>
      BY <2>2 DEF Done
    <3>2. ASSUME NEW unit \in Units, <<unit, date_trunc(unit, h)>> \in owed PROVE FALSE
      <4>1. Covered(command.todo, unit, h)
        BY <2>2, <3>1, <3>2 DEF BucketsInv, CommandInv, RebuildInv
      <4> QED BY <3>1, <4>1 DEF Covered
    <3> QED BY <3>2 DEF BucketsOf
  <2> QED BY <2>1, <2>2 DEF BucketsAreWhole, Shows, Whole
<1> QED BY <1>1, BucketsStart, BucketsKeep, PTL DEF Spec

-----------------------------------------------------------------------------
(* Shares. *)

LEMMA ProductsCompare ==
  ASSUME NEW d \in Nat, NEW a \in Int, NEW b \in Int, a <= b
  PROVE  d * a \in Int /\ d * b \in Int /\ d * a <= d * b
<1>1. PICK c \in Nat : b = a + c
  <2>1. b - a \in Nat /\ b = a + (b - a)
    OBVIOUS
  <2> QED BY <2>1
<1>2. d * c \in Nat /\ d * (a + c) = d * a + d * c
  OBVIOUS
<1>3. d * a \in Int
  OBVIOUS
<1> QED BY <1>1, <1>2, <1>3

\* Both ways to round are to a nearest one.
Nearest(x, n, d) == x \in Int /\ d * x \in Int /\ 2 * (d * x) <= 2 * n + d /\ 2 * n <= 2 * (d * x) + d

LEMMA HalfEvenIsNearest ==
  ASSUME NEW n \in Int, NEW d \in Nat \ {0}
  PROVE  Nearest(HalfEven(n, d), n, d)
<1> DEFINE q == n \div d
           r == n % d
<1>1. PICK p \in Int : p = d * q
  <2>1. q \in Int
    BY QuotientIs
  <2>2. d * q \in Int
    BY <2>1
  <2> QED BY <2>2
<1>2. q \in Int /\ r \in Int /\ n = p + r /\ 0 <= r /\ r < d
  <2>1. q \in Int /\ r \in Int /\ n = d * q + r /\ 0 <= r /\ r < d
    OBVIOUS
  <2> QED BY <1>1, <2>1
<1>3. d * (q + 1) = p + d
  BY <1>1, <1>2
<1>4. HalfEven(n, d) = IF 2 * r > d \/ (2 * r = d /\ q % 2 = 1) THEN q + 1 ELSE q
  BY DEF HalfEven
<1> HIDE DEF q, r
<1>5. CASE 2 * r > d \/ (2 * r = d /\ q % 2 = 1)
  <2>1. HalfEven(n, d) = q + 1
    BY <1>4, <1>5
  <2>2. d <= 2 * r
    BY <1>2, <1>5
  <2>3. 2 * (p + d) <= 2 * n + d /\ 2 * n <= 2 * (p + d) + d
    BY <1>1, <1>2, <2>2
  <2> QED BY <1>1, <1>2, <1>3, <2>1, <2>3 DEF Nearest
<1>6. CASE ~(2 * r > d \/ (2 * r = d /\ q % 2 = 1))
  <2>1. HalfEven(n, d) = q
    BY <1>4, <1>6
  <2>2. 2 * r <= d
    BY <1>2, <1>6
  <2>3. 2 * p <= 2 * n + d /\ 2 * n <= 2 * p + d
    BY <1>1, <1>2, <2>2
  <2> QED BY <1>1, <1>2, <2>1, <2>3 DEF Nearest
<1> QED BY <1>5, <1>6

LEMMA HalfAwayIsNearest ==
  ASSUME NEW n \in Int, NEW d \in Nat \ {0}
  PROVE  Nearest(HalfAway(n, d), n, d)
<1> DEFINE c == 2 * d
           x == (2 * n + d) \div c
<1>1. c \in Nat \ {0} /\ 2 * n + d \in Int
  OBVIOUS
<1>2. x \in Int /\ c * x <= 2 * n + d /\ 2 * n + d < c * x + c
  BY <1>1, QuotientIs
<1>3. HalfAway(n, d) = x
  BY DEF HalfAway
<1> HIDE DEF x
<1>4. PICK p \in Int : p = d * x
  BY <1>2
<1>5. c * x = 2 * p
  BY <1>2, <1>4
<1> QED BY <1>2, <1>3, <1>4, <1>5 DEF Nearest

\* So they differ by one at most,
LEMMA NearestDiffer ==
  ASSUME NEW n \in Int, NEW d \in Nat \ {0}, NEW x, NEW y, Nearest(x, n, d), Nearest(y, n, d)
  PROVE  x \in (y - 1)..(y + 1)
<1>1. x \in Int /\ y \in Int
  BY DEF Nearest
<1>2. PICK p \in Int, q \in Int : p = d * x /\ q = d * y
  BY <1>1
<1>3. /\ 2 * p <= 2 * n + d /\ 2 * n <= 2 * p + d
      /\ 2 * q <= 2 * n + d /\ 2 * n <= 2 * q + d
  BY <1>2 DEF Nearest
<1>4. d * (y + 2) = q + 2 * d /\ d * (x + 2) = p + 2 * d
  BY <1>1, <1>2
<1>5. ~(y + 2 <= x)
  <2>1. y + 2 <= x => d * (y + 2) <= d * x
    BY <1>1, ProductsCompare
  <2> QED BY <1>2, <1>3, <1>4, <2>1
<1>6. ~(x + 2 <= y)
  <2>1. x + 2 <= y => d * (x + 2) <= d * y
    BY <1>1, ProductsCompare
  <2> QED BY <1>2, <1>3, <1>4, <2>1
<1> QED BY <1>1, <1>5, <1>6

\* and what lies between nothing and a multiple is rounded to what does.
LEMMA NearestIsBetween ==
  ASSUME NEW n \in Nat, NEW d \in Nat \ {0}, NEW c \in Nat, n <= c * d, NEW x, Nearest(x, n, d)
  PROVE  0 <= x /\ x <= c
<1>1. x \in Int /\ c + 1 \in Int /\ -1 \in Int
  BY DEF Nearest
<1>2. PICK p \in Int : p = d * x /\ 2 * p <= 2 * n + d /\ 2 * n <= 2 * p + d
  BY DEF Nearest
<1>3. PICK w \in Int : w = c * d
  OBVIOUS
<1>4. d * (c + 1) = w + d /\ d * (-1) = -d
  BY <1>3
<1>5. ~(c + 1 <= x)
  <2>1. c + 1 <= x => d * (c + 1) <= d * x
    BY <1>1, ProductsCompare
  <2> QED BY <1>2, <1>3, <1>4, <2>1
<1>6. ~(x <= -1)
  <2>1. x <= -1 => d * x <= d * (-1)
    BY <1>1, ProductsCompare
  <2> QED BY <1>2, <1>4, <2>1
<1> QED BY <1>1, <1>5, <1>6

LEMMA MaxWithNought ==
  ASSUME NEW x \in Int
  PROVE  Max({x, 0}) = IF x >= 0 THEN x ELSE 0
<1>1. \E y \in {x, 0} : \A z \in {x, 0} : y >= z
  <2>1. CASE x >= 0
    BY <2>1
  <2>2. CASE ~(x >= 0)
    BY <2>2
  <2> QED BY <2>1, <2>2
<1>2. Max({x, 0}) \in {x, 0} /\ \A z \in {x, 0} : Max({x, 0}) >= z
  BY <1>1 DEF Max
<1>3. Max({x, 0}) >= x /\ Max({x, 0}) >= 0 /\ (Max({x, 0}) = x \/ Max({x, 0}) = 0)
  BY <1>2
<1> HIDE DEF Max
<1> QED BY <1>3

\* What modes of a mix generate: what was reported and not less than nothing.
LEMMA MixSums ==
  ASSUME NEW mix, IsMix(mix), NEW modes, NEW part, part \subseteq modes
  PROVE  /\ Generated(mix, modes) \in Nat /\ Generated(mix, part) \in Nat
         /\ Generated(mix, part) <= Generated(mix, modes)
         /\ Total(mix, modes) \in Int /\ Total(mix, modes) <= Generated(mix, modes)
         /\ (\A m \in modes \cap Reported(mix) : mix[m] >= 0) => Total(mix, modes) = Generated(mix, modes)
<1> DEFINE A == modes \cap Reported(mix)
           B == part \cap Reported(mix)
           f == [m \in A |-> Max({mix[m], 0})]
           g == [m \in B |-> Max({mix[m], 0})]
<1>1. IsFiniteSet(A) /\ B \in SUBSET A /\ IsFiniteSet(B)
  <2>1. A \in SUBSET DOMAIN mix /\ B \in SUBSET A
    BY DEF Reported
  <2>2. IsFiniteSet(DOMAIN mix)
    BY DEF IsMix
  <2> QED BY <2>1, <2>2, FS_Subset
<1>2. \A m \in A : mix[m] \in Int
  BY DEF Reported, IsMix
<1>3. \A m \in A : f[m] = (IF mix[m] >= 0 THEN mix[m] ELSE 0)
  BY <1>2, MaxWithNought
<1>4. \A m \in B : g[m] = f[m]
  BY <1>1
<1>5. Generated(mix, modes) = SumFunctionOnSet(f, A) /\ Generated(mix, part) = SumFunctionOnSet(g, B)
  <2>1. DOMAIN f = A /\ DOMAIN g = B
    OBVIOUS
  <2>2. Generated(mix, modes) = SumFunction(f) /\ Generated(mix, part) = SumFunction(g)
    BY DEF Generated
  <2> HIDE DEF f, g, A, B
  <2>3. SumFunction(f) = SumFunctionOnSet(f, A) /\ SumFunction(g) = SumFunctionOnSet(g, B)
    BY <2>1 DEF SumFunction, SumFunctionOnSet, FoldFunction
  <2> QED BY <2>2, <2>3
<1>6. Total(mix, modes) = SumFunctionOnSet(mix, A)
  BY DEF Total
<1> HIDE DEF A, B, f, g
<1>7. \A m \in A : f[m] \in Int /\ f[m] >= 0 /\ mix[m] <= f[m] /\ (mix[m] >= 0 => mix[m] = f[m])
  BY <1>2, <1>3
<1>8. SumFunctionOnSet(f, A) \in Int /\ SumFunctionOnSet(mix, A) \in Int
  BY <1>1, <1>2, <1>7, SumStep
<1>9. SumFunctionOnSet(mix, A) <= SumFunctionOnSet(f, A)
  BY <1>1, <1>2, <1>7, SumsCompare
<1>10. SumFunctionOnSet(g, B) = SumFunctionOnSet(f, B) /\ SumFunctionOnSet(f, B) \in Int
  <2>1. \A m \in B : g[m] \in Int /\ g[m] = f[m] /\ f[m] \in Int
    BY <1>1, <1>4, <1>7
  <2> QED BY <1>1, <2>1, SumsAgree, SumStep
<1>11. SumFunctionOnSet(f, B) <= SumFunctionOnSet(f, A)
  BY <1>1, <1>7, SumOfSome
<1>12. 0 <= SumFunctionOnSet(f, B)
  <2>1. IsFiniteSet({}) /\ {} \in SUBSET B /\ \A m \in B : f[m] \in Int /\ f[m] >= 0
    BY <1>1, <1>7, FS_EmptySet
  <2>2. SumFunctionOnSet(f, {}) = 0
    BY <2>1, SumStep
  <2>3. SumFunctionOnSet(f, {}) <= SumFunctionOnSet(f, B)
    BY <1>1, <2>1, SumOfSome
  <2> QED BY <2>2, <2>3
<1>13. (\A m \in A : mix[m] >= 0) => SumFunctionOnSet(mix, A) = SumFunctionOnSet(f, A)
  <2>1. SUFFICES ASSUME \A m \in A : mix[m] >= 0 PROVE SumFunctionOnSet(mix, A) = SumFunctionOnSet(f, A)
    OBVIOUS
  <2>2. \A m \in A : mix[m] \in Int /\ mix[m] = f[m]
    BY <1>2, <1>7, <2>1
  <2> QED BY <1>1, <2>2, SumsAgree
<1> QED BY <1>5, <1>6, <1>8, <1>9, <1>10, <1>11, <1>12, <1>13 DEF A

PartOf(mix, p)  == Generated(mix, Config[p] \cap Counted(Config))
WholeOf(mix)    == Generated(mix, Counted(Config))
TotalOf(mix)    == Total(mix, Counted(Config))

LEMMA MixIs ==
  ASSUME NEW mix, IsMix(mix), NEW p \in Parts
  PROVE  /\ PartOf(mix, p) \in Nat /\ WholeOf(mix) \in Nat /\ PartOf(mix, p) <= WholeOf(mix)
         /\ TotalOf(mix) \in Int /\ TotalOf(mix) <= WholeOf(mix)
<1>1. Config[p] \cap Counted(Config) \subseteq Counted(Config)
  OBVIOUS
<1> QED BY <1>1, MixSums DEF PartOf, WholeOf, TotalOf

\* The share of the mapper: unknown, or the nearest to the quotient, which is between nothing and
\* the whole.
LEMMA SharesAre ==
  ASSUME NEW mix, IsMix(mix), NEW p \in Parts
  PROVE  LET share == compute_shares(mix, Config)[p]
         IN  /\ TotalOf(mix) <= 0 => share = Null
             /\ TotalOf(mix) > 0 => /\ share \in Int /\ 0 <= share /\ share <= 10000 /\ WholeOf(mix) > 0
                                    /\ Nearest(share, 10000 * PartOf(mix, p), WholeOf(mix))
<1> DEFINE part == PartOf(mix, p)
           whole == WholeOf(mix)
           x == HalfEven(10000 * part, whole)
<1>1. compute_shares(mix, Config)[p] = IF TotalOf(mix) <= 0 THEN Null ELSE Min({Max({x, 0}), 10000})
  BY DEF compute_shares, PartOf, WholeOf, TotalOf
<1>2. /\ part \in Nat /\ whole \in Nat /\ part <= whole
      /\ TotalOf(mix) \in Int /\ TotalOf(mix) <= whole
  BY MixIs
<1> HIDE DEF part, whole, x
<1>3. CASE TotalOf(mix) <= 0
  BY <1>1, <1>2, <1>3
<1>4. CASE TotalOf(mix) > 0
  <2>1. whole \in Nat \ {0} /\ 10000 * part \in Nat /\ 10000 * part <= 10000 * whole
    BY <1>2, <1>4
  <2>2. Nearest(x, 10000 * part, whole)
    BY <2>1, HalfEvenIsNearest DEF x
  <2> DEFINE n == 10000 * part
             c == 10000
  <2>3. n \in Nat /\ c \in Nat /\ n <= c * whole /\ Nearest(x, n, whole)
    BY <2>1, <2>2
  <2> HIDE DEF n, c
  <2>4. 0 <= x /\ x <= c
    BY <2>1, <2>3, NearestIsBetween
  <2>5. x \in Int
    BY <2>2 DEF Nearest
  <2>6. Max({x, 0}) = x
    BY <2>4, <2>5, MaxWithNought
  <2>7. Min({x, c}) = x
    BY <2>3, <2>4, <2>5, MinOfPair
  <2>8. compute_shares(mix, Config)[p] = x
    BY <1>1, <1>2, <1>4, <2>6, <2>7 DEF c
  <2>9. 0 <= x /\ x <= 10000
    BY <2>4 DEF c
  <2> QED BY <1>2, <1>4, <2>1, <2>2, <2>5, <2>8, <2>9 DEF part, whole
<1> QED BY <1>2, <1>3, <1>4

LEMMA RecomputedIsNearest ==
  ASSUME NEW mix, IsMix(mix), NEW p \in Parts, TotalOf(mix) > 0
  PROVE  Nearest(recomputed(mix, Config)[p], 10000 * PartOf(mix, p), WholeOf(mix))
<1>1. recomputed(mix, Config)[p] = IF WholeOf(mix) <= 0 THEN Null ELSE HalfAway(10000 * PartOf(mix, p), WholeOf(mix))
  BY DEF recomputed, PartOf, WholeOf
<1>2. /\ PartOf(mix, p) \in Nat /\ WholeOf(mix) \in Nat
      /\ TotalOf(mix) \in Int /\ TotalOf(mix) <= WholeOf(mix)
  BY MixIs
<1>3. WholeOf(mix) \in Nat \ {0} /\ ~(WholeOf(mix) <= 0) /\ 10000 * PartOf(mix, p) \in Int
  BY <1>2
<1> QED BY <1>1, <1>3, HalfAwayIsNearest

-----------------------------------------------------------------------------
(* The invariant of stored shares. *)

\* A row's shares are the mapper's, to a unit of the last place; where it knows nothing, unknown or
\* what the recompute makes of the mix.
Settled(row) ==
  \A p \in Parts : LET today == compute_shares(row.mix, Config)[p]
                   IN  row.share[p] \in IF today # Null THEN (today - 1)..(today + 1)
                                        ELSE {Null, recomputed(row.mix, Config)[p]}

InSpans(todo, h) == \E i \in DOMAIN todo : todo[i].from <= h /\ h < todo[i].to

\* A recompute has yet to come to every row that is not settled.
SharesInv ==
  command.name = "recompute-shares" =>
    /\ command.todo \in Seq(Spans)
    /\ \A h \in Mixed(rows) : Settled(rows[h]) \/ InSpans(command.todo, h)

RepairInv == BucketsInv /\ SharesInv

LEMMA MappedIsSettled ==
  ASSUME NEW row, IsMix(row.mix), row.share = compute_shares(row.mix, Config)
  PROVE  Settled(row)
<1> SUFFICES ASSUME NEW p \in Parts
             PROVE  row.share[p] \in IF compute_shares(row.mix, Config)[p] # Null
                                     THEN (compute_shares(row.mix, Config)[p] - 1)..(compute_shares(row.mix, Config)[p] + 1)
                                     ELSE {Null, recomputed(row.mix, Config)[p]}
  BY DEF Settled
<1> DEFINE today == compute_shares(row.mix, Config)[p]
<1>1. TotalOf(row.mix) \in Int /\ (TotalOf(row.mix) <= 0 => today = Null) /\ (TotalOf(row.mix) > 0 => today \in Int)
  BY MixIs, SharesAre
<1>2. row.share[p] = today /\ (today # Null => today \in Int)
  BY <1>1
<1> HIDE DEF today
<1>3. today # Null => today \in (today - 1)..(today + 1)
  BY <1>2
<1> QED BY <1>2, <1>3 DEF today

LEMMA RecomputedIsSettled ==
  ASSUME NEW row, IsMix(row.mix), row.share = recomputed(row.mix, Config)
  PROVE  Settled(row)
<1> SUFFICES ASSUME NEW p \in Parts, compute_shares(row.mix, Config)[p] # Null
             PROVE  row.share[p] \in (compute_shares(row.mix, Config)[p] - 1)..(compute_shares(row.mix, Config)[p] + 1)
  <2>1. \A p \in Parts : row.share[p] = recomputed(row.mix, Config)[p]
    OBVIOUS
  <2> QED BY <2>1 DEF Settled
<1> DEFINE today == compute_shares(row.mix, Config)[p]
           n == 10000 * PartOf(row.mix, p)
           d == WholeOf(row.mix)
<1>1. TotalOf(row.mix) \in Int /\ PartOf(row.mix, p) \in Nat /\ d \in Nat
  BY MixIs
<1>2. (TotalOf(row.mix) <= 0 => today = Null) /\ (TotalOf(row.mix) > 0 => d > 0 /\ Nearest(today, n, d))
  BY SharesAre
<1>3. TotalOf(row.mix) > 0
  BY <1>1, <1>2
<1>4. Nearest(row.share[p], n, d)
  BY <1>3, RecomputedIsNearest
<1>5. n \in Int /\ d \in Nat \ {0} /\ Nearest(today, n, d)
  BY <1>1, <1>2, <1>3
<1> HIDE DEF today, n, d
<1>6. row.share[p] \in (today - 1)..(today + 1)
  BY <1>4, <1>5, NearestDiffer
<1> QED BY <1>6 DEF today

LEMMA SettledKeeps ==
  ASSUME NEW row, NEW other, other.mix = row.mix, other.share = row.share, Settled(row)
  PROVE  Settled(other)
  BY DEF Settled

LEMMA WritesKeepShares ==
  ASSUME RepairInv, NEW h \in Hours, NEW answer \in Answers, rows' = Written(rows, h, answer),
         command'.name = command.name, command'.todo = command.todo
  PROVE  SharesInv'
<1>1. rows' = Written(rows, h, answer) /\ command'.name = command.name /\ command'.todo = command.todo
  OBVIOUS
<1>2. IsTable(rows)
  BY DEF RepairInv, BucketsInv
<1>3. /\ DOMAIN rows' = DOMAIN rows \cup {h} /\ rows'[h] = Upserted(rows, h, answer)
      /\ \A g \in DOMAIN rows : g # h => rows'[g] = rows[g]
      /\ IsTable(rows')
  <2>1. PICK later : later = rows'
    OBVIOUS
  <2>2. /\ DOMAIN later = DOMAIN rows \cup {h} /\ later[h] = Upserted(rows, h, answer)
        /\ \A g \in DOMAIN rows : g # h => later[g] = rows[g]
        /\ IsTable(later)
    BY <1>1, <1>2, <2>1, WrittenIs
  <2> QED BY <2>1, <2>2
<1>4. /\ IsRow(rows'[h])
      /\ rows'[h].mix # Null => \/ rows'[h].share = compute_shares(rows'[h].mix, Config)
                                \/ h \in DOMAIN rows /\ rows'[h].mix = rows[h].mix /\ rows'[h].share = rows[h].share
  BY <1>2, <1>3, UpsertedIs
<1> SUFFICES ASSUME command'.name = "recompute-shares"
             PROVE  /\ command'.todo \in Seq(Spans)
                    /\ \A g \in Mixed(rows') : Settled(rows'[g]) \/ InSpans(command'.todo, g)
  BY DEF SharesInv
<1>5. /\ command.todo \in Seq(Spans)
      /\ \A g \in Mixed(rows) : Settled(rows[g]) \/ InSpans(command.todo, g)
  BY <1>1 DEF RepairInv, SharesInv
<1>6. ASSUME NEW g \in Mixed(rows') PROVE Settled(rows'[g]) \/ InSpans(command.todo, g)
  <2>1. g \in DOMAIN rows' /\ rows'[g].mix # Null
    BY DEF Mixed
  <2>2. CASE g # h
    <3>1. g \in DOMAIN rows /\ rows'[g] = rows[g]
      BY <1>3, <2>1, <2>2
    <3>2. g \in Mixed(rows)
      BY <2>1, <3>1 DEF Mixed
    <3> QED BY <1>5, <3>1, <3>2
  <2>3. CASE g = h /\ rows'[h].share = compute_shares(rows'[h].mix, Config)
    <3>1. IsMix(rows'[h].mix)
      BY <1>4, <2>1, <2>3 DEF IsRow
    <3> QED BY <2>3, <3>1, MappedIsSettled
  <2>4. CASE g = h /\ h \in DOMAIN rows /\ rows'[h].mix = rows[h].mix /\ rows'[h].share = rows[h].share
    <3>1. h \in Mixed(rows)
      BY <2>1, <2>4 DEF Mixed
    <3>2. Settled(rows[h]) \/ InSpans(command.todo, h)
      BY <1>5, <3>1
    <3>3. Settled(rows[h]) => Settled(rows'[h])
      BY <2>4, SettledKeeps
    <3> QED BY <2>4, <3>2, <3>3
  <2> QED BY <1>4, <2>1, <2>2, <2>3, <2>4
<1> QED BY <1>1, <1>5, <1>6

LEMMA StartRecomputeSettles == RepairInv /\ StartRecompute => SharesInv'
<1> SUFFICES ASSUME RepairInv, StartRecompute PROVE SharesInv'
  OBVIOUS
<1> DEFINE mixed == Mixed(rows)
<1>1. /\ mixed # {} /\ rows' = rows
      /\ command'.todo = years_of(Min(mixed), Max(mixed))
  BY DEF StartRecompute, None
<1>2. mixed \in SUBSET Hours
  BY DEF Mixed, RepairInv, BucketsInv, IsTable
<1>3. mixed \in SUBSET Int /\ IsFiniteSet(mixed)
  <2>1. \A h \in mixed : h \in 0..Now
    <3> TAKE h \in mixed
    <3>1. h \in Hours
      BY <1>2
    <3>2. h \in Nat /\ h < Now /\ Now \in Nat
      BY <3>1, RepairConstants
    <3> QED BY <3>2
  <2>2. IsFiniteSet(0..Now) /\ mixed \in SUBSET (0..Now)
    <3>1. 0 \in Int /\ Now \in Int
      BY RepairConstants
    <3> QED BY <2>1, <3>1, FS_Interval
  <2>3. \A h \in 0..Now : h \in Int
    BY RepairConstants
  <2> QED BY <2>2, <2>3, FS_Subset
<1> HIDE DEF mixed
<1>4. (\E x \in mixed : \A y \in mixed : x <= y) /\ (\E x \in mixed : \A y \in mixed : x >= y)
  BY <1>1, <1>3, FiniteHasEnds
<1>5. /\ Min(mixed) \in mixed /\ \A h \in mixed : Min(mixed) <= h
      /\ Max(mixed) \in mixed /\ \A h \in mixed : Max(mixed) >= h
  BY <1>4 DEF Min, Max
<1>6. PICK first \in Hours, last \in Hours :
        /\ first = Min(mixed) /\ last = Max(mixed)
        /\ \A h \in mixed : first <= h /\ h <= last
        /\ first <= last
  <2>1. Min(mixed) \in Hours /\ Max(mixed) \in Hours
    BY <1>2, <1>5
  <2>2. \A h \in mixed : h \in Int
    BY <1>3
  <2>3. \A h \in mixed : Min(mixed) <= h /\ h <= Max(mixed)
    BY <1>5, <2>2
  <2> QED BY <1>5, <2>1, <2>3
<1>7. /\ years_of(first, last) \in Seq(Spans)
      /\ \A h \in Hours : first <= h /\ h <= last => InSpans(years_of(first, last), h)
  BY <1>6, YearsCover DEF InSpans
<1>8. command'.todo = years_of(first, last)
  BY <1>1, <1>6
<1>9. \A h \in mixed : InSpans(command'.todo, h)
  BY <1>2, <1>6, <1>7, <1>8
<1> QED BY <1>1, <1>7, <1>8, <1>9 DEF SharesInv, mixed

LEMMA RecomputeYearSettles == RepairInv /\ RecomputeYear => SharesInv'
<1> SUFFICES ASSUME RepairInv, RecomputeYear PROVE SharesInv'
  OBVIOUS
<1> DEFINE year == Head(command.todo)
           In(h) == year.from <= h /\ h < year.to /\ rows[h].mix # Null
           New(h) == IF In(h) THEN recomputed(rows[h].mix, Config) ELSE rows[h].share
<1>1. /\ command.name = "recompute-shares" /\ command.todo # <<>>
      /\ command' = [command EXCEPT !.todo = Tail(@)]
      /\ rows' = [h \in DOMAIN rows |-> [rows[h] EXCEPT !.share = New(h)]]
  BY DEF RecomputeYear
<1>2. IsCommand(command) /\ IsTable(rows) /\ IsTable(rows')
  BY RecomputedAre DEF RepairInv, BucketsInv, CommandInv
<1>3. /\ command.todo \in Seq(Spans)
      /\ \A h \in Mixed(rows) : Settled(rows[h]) \/ InSpans(command.todo, h)
  BY <1>1 DEF RepairInv, SharesInv
<1>4. command'.todo = Tail(command.todo) /\ Tail(command.todo) \in Seq(Spans)
  BY <1>1, <1>2, <1>3 DEF IsCommand
<1>5. ASSUME NEW h \in DOMAIN rows
      PROVE  rows'[h].mix = rows[h].mix /\ rows'[h].share = New(h) /\ DOMAIN rows' = DOMAIN rows
  <2>1. rows'[h] = [rows[h] EXCEPT !.share = New(h)] /\ DOMAIN rows' = DOMAIN rows
    BY <1>1
  <2>2. IsRow(rows[h])
    BY <1>2 DEF IsTable
  <2> HIDE DEF New
  <2> QED BY <2>1, <2>2 DEF IsRow
<1>6. DOMAIN rows' = DOMAIN rows
  BY <1>1
<1>7. ASSUME NEW h \in Mixed(rows') PROVE Settled(rows'[h]) \/ InSpans(Tail(command.todo), h)
  <2>1. h \in DOMAIN rows /\ rows'[h].mix = rows[h].mix /\ rows'[h].share = New(h) /\ rows[h].mix # Null
    BY <1>5, <1>6, <1>7 DEF Mixed
  <2>2. h \in Mixed(rows) /\ IsMix(rows[h].mix)
    BY <1>2, <2>1 DEF Mixed, IsTable, IsRow
  <2>3. CASE year.from <= h /\ h < year.to
    <3>1. rows'[h].share = recomputed(rows'[h].mix, Config) /\ IsMix(rows'[h].mix)
      BY <2>1, <2>2, <2>3
    <3> QED BY <3>1, RecomputedIsSettled
  <2>4. CASE ~(year.from <= h /\ h < year.to)
    <3>1. rows'[h].share = rows[h].share
      BY <2>1, <2>4
    <3>2. Settled(rows[h]) => Settled(rows'[h])
      BY <2>1, <3>1, SettledKeeps
    <3>3. ASSUME InSpans(command.todo, h) PROVE InSpans(Tail(command.todo), h)
      <4>1. PICK i \in DOMAIN command.todo : command.todo[i].from <= h /\ h < command.todo[i].to
        BY <3>3 DEF InSpans
      <4>2. i # 1
        BY <1>3, <2>4, <4>1
      <4>3. i \in 2..Len(command.todo) /\ Len(command.todo) \in Nat
        BY <1>3, <4>1, <4>2
      <4>4. i - 1 \in DOMAIN Tail(command.todo) /\ Tail(command.todo)[i - 1] = command.todo[i]
        BY <1>1, <1>3, <4>3
      <4> QED BY <4>1, <4>4 DEF InSpans
    <3> QED BY <1>3, <2>2, <3>2, <3>3
  <2> QED BY <2>3, <2>4
<1> QED BY <1>4, <1>7 DEF SharesInv

LEMMA MissingKeepsTodo ==
  ASSUME RepairInv, NEW changed, NEW c, c = CommandMissing(changed)
  PROVE  c.name = command.name /\ c.todo = command.todo
<1>1. IsCommand(command)
  BY DEF RepairInv, BucketsInv, CommandInv
<1>2. CASE command.built = Null
  BY <1>2 DEF CommandMissing
<1>3. CASE command.built # Null
  <2>1. c = [command EXCEPT !.missed = command.missed \cup changed]
    BY <1>3 DEF CommandMissing
  <2> QED BY <1>1, <2>1 DEF IsCommand
<1> QED BY <1>2, <1>3

LEMMA SharesKeep == RepairInv /\ [Next]_vars => SharesInv'
<1> SUFFICES ASSUME RepairInv, [Next]_vars PROVE SharesInv'
  OBVIOUS
<1>1. CASE Backfill
  <2>1. PICK h \in Hours, answer \in Answers :
          rows' = Written(rows, h, answer) /\ \E changed : command' = CommandMissing(changed)
    BY <1>1 DEF Backfill
  <2> QED BY <2>1, MissingKeepsTodo, WritesKeepShares
<1>2. CASE CommitPoll
  <2>1. /\ rows' = Written(rows, poll.hour, poll.answer)
        /\ \E changed : command' = CommandMissing(changed)
    BY <1>2 DEF CommitPoll
  <2>2. poll.hour \in Hours /\ poll.answer \in Answers
    BY <1>2 DEF CommitPoll, RepairInv, BucketsInv, OpenInv, IsPoll
  <2> QED BY <2>1, <2>2, MissingKeepsTodo, WritesKeepShares
<1>3. CASE StartRecompute
  BY <1>3, StartRecomputeSettles
<1>4. CASE StartRebuild
  BY <1>4 DEF StartRebuild, SharesInv, None
<1>5. CASE RecomputeYear
  BY <1>5, RecomputeYearSettles
<1>6. CASE ReadBatch \/ StoreBatch
  <2>1. command.name = "rebuild-aggregates"
    BY <1>6 DEF ReadBatch, StoreBatch, RepairInv, BucketsInv, CommandInv, BatchInv
  <2>2. IsCommand(command)
    BY DEF RepairInv, BucketsInv, CommandInv
  <2>3. command'.name = command.name
    BY <1>6, <2>2 DEF ReadBatch, StoreBatch, IsCommand
  <2> QED BY <2>1, <2>3 DEF SharesInv
<1>7. CASE Finish \/ Interrupt
  <2>1. command'.name = "none"
    BY <1>7 DEF Finish, Interrupt, None
  <2> QED BY <2>1 DEF SharesInv
<1>8. CASE StartPoll \/ RefreshBucket \/ PollFails \/ UNCHANGED vars
  <2>1. UNCHANGED <<rows, command>>
    BY <1>8 DEF StartPoll, RefreshBucket, PollFails, vars
  <2> QED BY <2>1 DEF RepairInv, SharesInv, Mixed
<1> QED BY <1>1, <1>2, <1>3, <1>4, <1>5, <1>6, <1>7, <1>8 DEF Next

LEMMA RepairIsKept == Spec => []RepairInv
<1>1. Init => RepairInv
  BY BucketsStart DEF Init, None, SharesInv, RepairInv
<1>2. RepairInv /\ [Next]_vars => RepairInv'
  BY BucketsKeep, SharesKeep DEF RepairInv
<1> QED BY <1>1, <1>2, PTL DEF Spec

\* A recompute that has done its years leaves no share of an older rule, for any rows, whatever the
\* jobs wrote meanwhile: each is the mapper's, to a unit of the last place, and where the mapper
\* knows nothing it is unknown or what shares.py:61 makes of the mix (shares.py:37).
THEOREM RecomputeReaches == Spec => []RecomputeReachesEveryRow
<1>1. RepairInv => RecomputeReachesEveryRow
  <2> SUFFICES ASSUME RepairInv, Done("recompute-shares"), NEW h \in Mixed(rows) PROVE Settled(rows[h])
    BY DEF RecomputeReachesEveryRow, Settled
  <2>1. command.todo = <<>> /\ (Settled(rows[h]) \/ InSpans(command.todo, h))
    BY DEF Done, RepairInv, SharesInv
  <2> QED BY <2>1 DEF InSpans
<1> QED BY <1>1, RepairIsKept, PTL

-----------------------------------------------------------------------------
(* Sums of shares. *)

LEMMA DividesBoth ==
  ASSUME NEW d \in Nat \ {0}, NEW a \in Int, NEW b \in Int, d * a <= d * b
  PROVE  a <= b
<1>1. b + 1 <= a => d * (b + 1) <= d * a
  BY ProductsCompare
<1>2. PICK p \in Int, q \in Int : p = d * a /\ q = d * b
  OBVIOUS
<1>3. d * (b + 1) = q + d
  BY <1>2
<1> QED BY <1>1, <1>2, <1>3

\* An hour's share, where it generates, is the nearest to a quotient and between two others.
SharesBetween(H, part, whole, share, least, most) ==
  \A g \in H : /\ part[g] \in Nat /\ whole[g] \in Nat /\ part[g] <= whole[g]
               /\ whole[g] > 0 => /\ Nearest(share[g], 10000 * part[g], whole[g])
                                  /\ least <= share[g] /\ share[g] <= most

\* What bounds the shares of the hours bounds those of their sums, in the other unit.
LEMMA QuotientOfSums ==
  ASSUME NEW H, IsFiniteSet(H), NEW part, NEW whole, NEW share, NEW least \in Int, NEW most \in Int,
         SharesBetween(H, part, whole, share, least, most),
         NEW P \in Int, P = SumFunctionOnSet(part, H), NEW W \in Nat \ {0}, W = SumFunctionOnSet(whole, H),
         NEW mean, Nearest(mean, 1000 * P, W)
  PROVE  least - 10 <= 10 * mean /\ 10 * mean <= most + 10
<1> DEFINE low == 2 * least - 1
           high == 2 * most + 1
           lows == [g \in H |-> low * whole[g]]
           highs == [g \in H |-> high * whole[g]]
           parts == [g \in H |-> 20000 * part[g]]
<1>1. low \in Int /\ high \in Int /\ 20000 \in Int
  OBVIOUS
<1> USE DEF SharesBetween
<1>2. \A g \in H : part[g] \in Int /\ whole[g] \in Int
  OBVIOUS
<1>3. \A g \in H : lows[g] = low * whole[g] /\ highs[g] = high * whole[g] /\ parts[g] = 20000 * part[g]
  OBVIOUS
<1>4. ASSUME NEW g \in H PROVE /\ lows[g] \in Int /\ parts[g] \in Int /\ highs[g] \in Int
                               /\ lows[g] <= parts[g] /\ parts[g] <= highs[g]
  <2>1. PICK w \in Nat, n \in Nat : w = whole[g] /\ n = part[g] /\ n <= w
    OBVIOUS
  <2>2. PICK a \in Int, b \in Int : a = w * least /\ b = w * most
    OBVIOUS
  <2>3. low * w = 2 * a - w /\ high * w = 2 * b + w
    BY <2>2
  <2> HIDE DEF low, high, lows, highs, parts
  <2>4. lows[g] = low * w /\ highs[g] = high * w /\ parts[g] = 20000 * n
    BY <1>3, <2>1
  <2>5. lows[g] = 2 * a - w /\ highs[g] = 2 * b + w /\ parts[g] = 20000 * n
    BY <2>3, <2>4
  <2>6. CASE w = 0
    <3>1. a = 0 /\ b = 0 /\ n = 0
      BY <2>1, <2>2, <2>6
    <3> QED BY <2>5, <2>6, <3>1
  <2>7. CASE w > 0
    <3>1. Nearest(share[g], 10000 * n, w) /\ least <= share[g] /\ share[g] <= most
      BY <2>1, <2>7
    <3>2. PICK x \in Int : x = share[g]
      BY <3>1 DEF Nearest
    <3>3. PICK c \in Int : c = w * x
      OBVIOUS
    <3>4. 2 * c <= 2 * (10000 * n) + w /\ 2 * (10000 * n) <= 2 * c + w
      BY <3>1, <3>2, <3>3 DEF Nearest
    <3>5. a <= c /\ c <= b
      BY <2>2, <3>1, <3>2, <3>3, ProductsCompare
    <3> QED BY <2>1, <2>2, <2>5, <3>3, <3>4, <3>5
  <2> QED BY <2>1, <2>6, <2>7
<1> HIDE DEF low, high, lows, highs, parts
<1>5. /\ SumFunctionOnSet(lows, H) = low * W
      /\ SumFunctionOnSet(highs, H) = high * W
      /\ SumFunctionOnSet(parts, H) = 20000 * P
  BY <1>1, <1>2, <1>3, SumScaled
<1>6. SumFunctionOnSet(lows, H) <= SumFunctionOnSet(parts, H) /\ SumFunctionOnSet(parts, H) <= SumFunctionOnSet(highs, H)
  BY <1>4, SumsCompare
<1>7. low * W <= 20000 * P /\ 20000 * P <= high * W
  BY <1>5, <1>6
<1>8. PICK x \in Int : x = mean
  BY DEF Nearest
<1>9. PICK c \in Int, a \in Int, b \in Int : c = W * x /\ a = W * least /\ b = W * most
  OBVIOUS
<1>10. low * W = 2 * a - W /\ high * W = 2 * b + W
  BY <1>9 DEF low, high
<1>11. 2 * c <= 2 * (1000 * P) + W /\ 2 * (1000 * P) <= 2 * c + W
  BY <1>8, <1>9 DEF Nearest
<1>12. 2 * a <= 20 * c + 11 * W /\ 20 * c <= 2 * b + 11 * W
  BY <1>7, <1>9, <1>10, <1>11
<1>13. W * (2 * least) = 2 * a /\ W * (20 * x + 11) = 20 * c + 11 * W
       /\ W * (20 * x) = 20 * c /\ W * (2 * most + 11) = 2 * b + 11 * W
  BY <1>9
<1>14. 2 * least <= 20 * x + 11 /\ 20 * x <= 2 * most + 11
  <2>1. W * (2 * least) <= W * (20 * x + 11) /\ W * (20 * x) <= W * (2 * most + 11)
    BY <1>12, <1>13
  <2>2. 2 * least \in Int /\ 20 * x + 11 \in Int /\ 20 * x \in Int /\ 2 * most + 11 \in Int
    OBVIOUS
  <2> QED BY <2>1, <2>2, DividesBoth
<1> QED BY <1>8, <1>14

\* The mean of a set of hours: of what was reported of their modes.
LEMMA MeanIs ==
  ASSUME NEW H \in SUBSET Mixed(rows), H # {}, NEW p \in Parts, NEW part, NEW whole,
         part = [g \in H |-> Total(rows[g].mix, Config[p])],
         whole = [g \in H |-> Total(rows[g].mix, Counted(Config))]
  PROVE  DocumentOf(Restrict(rows, H)).mean[p] =
           IF SumFunctionOnSet(whole, H) <= 0 THEN Null
           ELSE HalfEven(1000 * SumFunctionOnSet(part, H), SumFunctionOnSet(whole, H))
<1> DEFINE table == Restrict(rows, H)
           mixes == [g \in H |-> rows[g].mix]
<1>1. DOMAIN table = H /\ \A g \in H : table[g] = rows[g]
  <2>1. H \cap DOMAIN rows = H
    BY DEF Mixed
  <2>2. table = [g \in H \cap DOMAIN rows |-> rows[g]]
    BY <2>1 DEF Restrict
  <2> QED BY <2>1, <2>2
<1>2. Mixed(table) = H
  <2>1. \A g \in H : rows[g].mix # Null
    BY DEF Mixed
  <2> HIDE DEF table
  <2> QED BY <1>1, <2>1 DEF Mixed
<1>3. [g \in Mixed(table) |-> table[g].mix] = mixes
  <2> HIDE DEF table
  <2> QED BY <1>1, <1>2
<1>4. DocumentOf(table).mean = ShareOfSums([g \in Mixed(table) |-> table[g].mix], Config)
  BY DEF DocumentOf
<1> HIDE DEF table
<1>5. DocumentOf(table).mean = ShareOfSums(mixes, Config)
  BY <1>3, <1>4
<1>6. DOMAIN mixes = H /\ \A g \in H : mixes[g] = rows[g].mix
  OBVIOUS
<1> HIDE DEF mixes
<1> DEFINE Sum(modes) == SumFunction([g \in DOMAIN mixes |-> Total(mixes[g], modes)])
<1>7. ShareOfSums(mixes, Config)[p] = IF DOMAIN mixes = {} \/ Sum(Counted(Config)) <= 0 THEN Null
                                      ELSE HalfEven(1000 * Sum(Config[p]), Sum(Counted(Config)))
  BY DEF ShareOfSums
<1>8. /\ [g \in DOMAIN mixes |-> Total(mixes[g], Counted(Config))] = whole
      /\ [g \in DOMAIN mixes |-> Total(mixes[g], Config[p])] = part
  BY <1>6
<1>9. Sum(Counted(Config)) = SumFunctionOnSet(whole, H) /\ Sum(Config[p]) = SumFunctionOnSet(part, H)
  <2>1. DOMAIN whole = H /\ DOMAIN part = H
    OBVIOUS
  <2>2. Sum(Counted(Config)) = SumFunction(whole) /\ Sum(Config[p]) = SumFunction(part)
    BY <1>8
  <2> QED BY <2>1, <2>2 DEF SumFunction
<1> HIDE DEF Sum
<1> QED BY <1>5, <1>6, <1>7, <1>9 DEF table

\* Where nothing that counts was negative, what was reported is what was generated.
LEMMA ReportedIsGenerated ==
  ASSUME NEW mix, IsMix(mix), NEW p \in Parts, Config[p] \subseteq Counted(Config),
         \A m \in Counted(Config) : mix[m] # Null => mix[m] >= 0
  PROVE  /\ Total(mix, Counted(Config)) = WholeOf(mix) /\ TotalOf(mix) = WholeOf(mix)
         /\ Total(mix, Config[p]) = PartOf(mix, p)
<1>1. \A m \in Counted(Config) \cap Reported(mix) : mix[m] >= 0
  BY DEF Reported
<1>2. \A m \in Config[p] \cap Reported(mix) : mix[m] >= 0
  BY <1>1
<1>3. Config[p] \cap Counted(Config) = Config[p]
  OBVIOUS
<1>4. Total(mix, Counted(Config)) = Generated(mix, Counted(Config))
  BY <1>1, MixSums
<1>5. Total(mix, Config[p]) = Generated(mix, Config[p])
  BY <1>2, MixSums
<1> QED BY <1>3, <1>4, <1>5 DEF WholeOf, TotalOf, PartOf

LEMMA BetweenIsFinite ==
  ASSUME NEW S \in SUBSET Int, NEW top \in Int, \A x \in S : 0 <= x /\ x <= top
  PROVE  IsFiniteSet(S)
<1>1. S \in SUBSET (0..top)
  OBVIOUS
<1>2. IsFiniteSet(0..top)
  <2>1. 0 \in Int
    OBVIOUS
  <2> QED BY <2>1, FS_Interval
<1> QED BY <1>1, <1>2, FS_Subset

\* The ends of a finite set of integers.
LEMMA EndsAre ==
  ASSUME NEW S \in SUBSET Int, IsFiniteSet(S), S # {}
  PROVE  /\ Min(S) \in Int /\ \A x \in S : Min(S) <= x
         /\ Max(S) \in Int /\ \A x \in S : x <= Max(S)
<1>1. (\E x \in S : \A y \in S : x <= y) /\ (\E x \in S : \A y \in S : x >= y)
  BY FiniteHasEnds
<1>2. Min(S) \in S /\ (\A x \in S : Min(S) <= x) /\ Max(S) \in S /\ \A x \in S : Max(S) >= x
  BY <1>1 DEF Min, Max
<1>3. \A x \in S : x \in Int
  OBVIOUS
<1>4. Min(S) \in Int /\ Max(S) \in Int
  BY <1>2, <1>3
<1> HIDE DEF Min, Max
<1> QED BY <1>2, <1>3, <1>4

\* modes.yaml: what is renewable or low in carbon counts in the whole it is a share of.
SharesAreOfCounted == \A p \in Parts : Config[p] \subseteq Counted(Config)

LEMMA MeanIsBetween ==
  ASSUME IsTable(rows), SharesAreOfCounted, NEW H \in SUBSET Mixed(rows), H # {}, NEW p \in Parts,
         \A g \in H, m \in Counted(Config) : rows[g].mix[m] # Null => rows[g].mix[m] >= 0,
         NEW mean, mean = DocumentOf(Restrict(rows, H)).mean[p],
         NEW shares, shares = {compute_shares(rows[g].mix, Config)[p] : g \in H} \ {Null}
  PROVE  IF shares = {} THEN mean = Null
         ELSE Min(shares) - 10 <= 10 * mean /\ 10 * mean <= Max(shares) + 10
<1> DEFINE part  == [g \in H |-> Total(rows[g].mix, Config[p])]
           whole == [g \in H |-> Total(rows[g].mix, Counted(Config))]
           share == [g \in H |-> compute_shares(rows[g].mix, Config)[p]]
<1>1. IsFiniteSet(H)
  <2>1. H \in SUBSET (0..Now)
    <3> SUFFICES ASSUME NEW g \in H PROVE g \in 0..Now
      OBVIOUS
    <3>1. g \in Hours
      BY DEF Mixed, IsTable
    <3>2. g \in Nat /\ g < Now /\ Now \in Nat
      BY <3>1, RepairConstants
    <3> QED BY <3>2
  <2>2. IsFiniteSet(0..Now)
    <3>1. 0 \in Int /\ Now \in Int
      BY RepairConstants
    <3> QED BY <3>1, FS_Interval
  <2> QED BY <2>1, <2>2, FS_Subset
<1>2. ASSUME NEW g \in H
      PROVE /\ part[g] \in Nat /\ whole[g] \in Nat /\ part[g] <= whole[g]
            /\ whole[g] = 0 => share[g] = Null
            /\ whole[g] > 0 => /\ share[g] \in Int /\ 0 <= share[g] /\ share[g] <= 10000
                               /\ Nearest(share[g], 10000 * part[g], whole[g])
  <2> DEFINE mix == rows[g].mix
  <2>1. IsMix(mix)
    BY DEF Mixed, IsTable, IsRow
  <2>2. part[g] = Total(mix, Config[p]) /\ whole[g] = Total(mix, Counted(Config))
        /\ share[g] = compute_shares(mix, Config)[p]
    OBVIOUS
  <2>3. \A m \in Counted(Config) : mix[m] # Null => mix[m] >= 0
    OBVIOUS
  <2>4. Config[p] \subseteq Counted(Config)
    BY DEF SharesAreOfCounted
  <2> HIDE DEF mix, part, whole, share
  <2>5. whole[g] = WholeOf(mix) /\ TotalOf(mix) = WholeOf(mix) /\ part[g] = PartOf(mix, p)
    BY <2>1, <2>2, <2>3, <2>4, ReportedIsGenerated
  <2>6. PartOf(mix, p) \in Nat /\ WholeOf(mix) \in Nat /\ PartOf(mix, p) <= WholeOf(mix)
    BY <2>1, MixIs
  <2>7. /\ TotalOf(mix) <= 0 => share[g] = Null
        /\ TotalOf(mix) > 0 => /\ share[g] \in Int /\ 0 <= share[g] /\ share[g] <= 10000 /\ WholeOf(mix) > 0
                               /\ Nearest(share[g], 10000 * PartOf(mix, p), WholeOf(mix))
    BY <2>1, <2>2, SharesAre
  <2> QED BY <2>5, <2>6, <2>7
<1>3. mean = IF SumFunctionOnSet(whole, H) <= 0 THEN Null
             ELSE HalfEven(1000 * SumFunctionOnSet(part, H), SumFunctionOnSet(whole, H))
  BY MeanIs
<1>4. \A x : x \in shares <=> x # Null /\ \E g \in H : x = share[g]
  OBVIOUS
<1> HIDE DEF part, whole, share
<1>5. PICK P \in Int, W \in Int : P = SumFunctionOnSet(part, H) /\ W = SumFunctionOnSet(whole, H)
  <2>1. \A g \in H : part[g] \in Int /\ whole[g] \in Int
    BY <1>2
  <2> QED BY <1>1, <2>1, SumStep
<1>6. \A g \in H : share[g] # Null <=> whole[g] > 0
  BY <1>2, RepairConstants
<1>7. CASE \A g \in H : whole[g] = 0
  <2>1. shares = {}
    <3>1. \A g \in H : share[g] = Null
      BY <1>2, <1>7
    <3> QED BY <1>4, <3>1
  <2>2. W = 0
    <3>1. W = 0 * Cardinality(H)
      BY <1>1, <1>5, <1>7, SumOfConstant
    <3>2. Cardinality(H) \in Nat
      BY <1>1, FS_CardinalityType
    <3> QED BY <3>1, <3>2
  <2> QED BY <1>3, <1>5, <2>1, <2>2
<1>8. CASE \E g \in H : whole[g] # 0
  <2>1. PICK one \in H : whole[one] > 0
    BY <1>2, <1>8
  <2>2. share[one] \in shares
    BY <1>4, <1>6, <2>1
  <2>3. shares \in SUBSET Int /\ IsFiniteSet(shares)
    <3>1. \A x \in shares : x \in Int /\ 0 <= x /\ x <= 10000
      BY <1>2, <1>4, <1>6
    <3>2. shares \in SUBSET Int
      BY <3>1
    <3>3. PICK top \in Int : \A x \in shares : 0 <= x /\ x <= top
      BY <3>1
    <3> QED BY ONLY <3>2, <3>3, BetweenIsFinite
  <2>4. PICK least \in Int, most \in Int :
          /\ least = Min(shares) /\ most = Max(shares)
          /\ \A x \in shares : least <= x /\ x <= most
    BY <2>2, <2>3, EndsAre
  <2>5. W > 0
    <3>1. IsFiniteSet({one}) /\ {one} \in SUBSET H /\ {one} \ {one} = {} /\ IsFiniteSet({})
      BY FS_EmptySet, FS_Singleton
    <3>2. \A g \in H : whole[g] \in Int /\ whole[g] >= 0
      BY <1>2
    <3>3. SumFunctionOnSet(whole, {one}) <= W
      BY <1>1, <1>5, <3>1, <3>2, SumOfSome
    <3>4. SumFunctionOnSet(whole, {}) = 0
      BY <3>1, SumStep
    <3>5. SumFunctionOnSet(whole, {one}) = whole[one] + SumFunctionOnSet(whole, {one} \ {one})
      BY <3>1, <3>2, SumStep
    <3>6. whole[one] \in Int /\ SumFunctionOnSet(whole, {one}) = whole[one] + 0
      BY <3>1, <3>2, <3>4, <3>5
    <3>7. whole[one] <= W
      BY <3>3, <3>6
    <3> QED BY <2>1, <3>6, <3>7
  <2>6. Nearest(mean, 1000 * P, W)
    <3>1. mean = HalfEven(1000 * P, W)
      BY <1>3, <1>5, <2>5
    <3>2. 1000 * P \in Int /\ W \in Nat \ {0}
      BY <2>5
    <3> QED BY <3>1, <3>2, HalfEvenIsNearest
  <2>7. SharesBetween(H, part, whole, share, least, most)
    BY <1>2, <1>4, <1>6, <2>4 DEF SharesBetween
  <2>8. least - 10 <= 10 * mean /\ 10 * mean <= most + 10
    <3>1. W \in Nat \ {0} /\ least \in Int /\ most \in Int /\ P \in Int
      BY <1>5, <2>4, <2>5
    <3> QED BY ONLY <1>1, <1>5, <2>6, <2>7, <3>1, QuotientOfSums
  <2> QED BY <2>2, <2>4, <2>8
<1> QED BY <1>7, <1>8

\* The mean share of a period lies between the least and the greatest of its hours', to a unit of
\* its last place, wherever nothing that counts was negative, for any hours, mixes and periods, if
\* every mode a share is made of counts: config/modes.yaml's do, and models.py:207 refuses a
\* renewable one that does not.
THEOREM CoarseShareLiesBetween == SharesAreOfCounted => (Spec => []CoarseShareIsBetween)
<1> SUFFICES ASSUME SharesAreOfCounted PROVE Spec => []CoarseShareIsBetween
  OBVIOUS
<1>1. RepairInv => CoarseShareIsBetween
  <2> SUFFICES ASSUME RepairInv, NEW unit \in Units, NEW h \in Mixed(rows), NEW p \in Parts
               PROVE  LET H == {g \in Mixed(rows) : date_trunc(unit, g) = date_trunc(unit, h)}
                          mean   == DocumentOf(Restrict(rows, H)).mean[p]
                          shares == {compute_shares(rows[g].mix, Config)[p] : g \in H} \ {Null}
                      IN  (\A g \in H, m \in Counted(Config) : rows[g].mix[m] # Null => rows[g].mix[m] >= 0) =>
                            IF shares = {} THEN mean = Null
                            ELSE Min(shares) - 10 <= 10 * mean /\ 10 * mean <= Max(shares) + 10
    BY DEF CoarseShareIsBetween
  <2> DEFINE H == {g \in Mixed(rows) : date_trunc(unit, g) = date_trunc(unit, h)}
  <2>1. H \in SUBSET Mixed(rows) /\ H # {}
    OBVIOUS
  <2>2. IsTable(rows)
    BY DEF RepairInv, BucketsInv
  <2> HIDE DEF H
  <2>3. (\A g \in H, m \in Counted(Config) : rows[g].mix[m] # Null => rows[g].mix[m] >= 0) =>
          LET mean   == DocumentOf(Restrict(rows, H)).mean[p]
              shares == {compute_shares(rows[g].mix, Config)[p] : g \in H} \ {Null}
          IN  IF shares = {} THEN mean = Null
              ELSE Min(shares) - 10 <= 10 * mean /\ 10 * mean <= Max(shares) + 10
    BY <2>1, <2>2, MeanIsBetween
  <2> QED BY <2>3 DEF H
<1> QED BY <1>1, RepairIsKept, PTL
=============================================================================
