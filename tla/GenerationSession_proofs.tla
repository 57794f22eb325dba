----------------------- MODULE GenerationSession_proofs -----------------------
(***************************************************************************)
(* Proofs about GenerationSession, for any configurations: a plan covers   *)
(* its span, and what is saved, what is in memory and what is on disk      *)
(* describe the same run, under the conditions on the configurations and   *)
(* on the lengths of appends that this needs.                              *)
(***************************************************************************)
EXTENDS GenerationSession, SequenceTheorems, WellFoundedInduction, TLAPS

USE ConfigsAssumption, NumbersAssumption
-----------------------------------------------------------------------------
(* Arithmetic. *)

LEMMA ProductGrows ==
  ASSUME NEW d \in Nat, NEW p \in Int, NEW q \in Int, p < q
  PROVE  d * p + d <= d * q
<1>1. q - p - 1 \in Nat
  OBVIOUS
<1>2. d * (q - p - 1) \in Nat
  BY <1>1
<1>3. d * (q - p - 1) = d * q - d * p - d
  OBVIOUS
<1> QED BY <1>2, <1>3

LEMMA LeastNumber ==
  ASSUME NEW T \in SUBSET Nat, T # {}
  PROVE  \E m \in T : \A j \in T : m <= j
<1>1. PICK m \in T : \A j \in T : ~(<<j, m>> \in OpToRel(<, Nat))
  BY WFMin, NatLessThanWellFounded, Zenon
<1>2. \A j \in T : ~(j < m)
  BY <1>1, Zenon DEF OpToRel
<1> QED BY <1>2

LEMMA ProductOfNats == \A a, b \in Nat : a * b \in Nat /\ a * b = b * a
OBVIOUS

LEMMA ProductOfSum ==
  ASSUME NEW a \in Int, NEW b \in Int, NEW d \in Int
  PROVE  (a + b) * d = a * d + b * d /\ a * d \in Int /\ b * d \in Int
OBVIOUS

(* Dates a period's length apart fall into different periods. *)
LEMMA QuotientGrows ==
  ASSUME NEW d \in Nat \ {0}, NEW a \in Nat, NEW b \in Nat, a + d <= b
  PROVE  a \div d < b \div d
<1> DEFINE p == a \div d
           q == b \div d
           r == a % d
           t == b % d
<1>1. /\ p \in Int /\ q \in Int
      /\ r \in 0..(d - 1) /\ t \in 0..(d - 1)
      /\ a = d * p + r /\ b = d * q + t
  OBVIOUS
<1> HIDE DEF p, q, r, t
<1> SUFFICES ASSUME q <= p PROVE FALSE
  BY <1>1 DEF p, q
<1>2. d * p \in Int /\ d * q \in Int /\ d * q <= d * p
  <2>1. CASE q = p
    BY <1>1, <2>1
  <2>2. CASE q < p
    <3>1. d * q + d <= d * p
      BY <1>1, <2>2, ProductGrows
    <3> QED BY <1>1, <3>1
  <2> QED BY <1>1, <2>1, <2>2
<1> QED BY <1>1, <1>2

(* The number of periods, and the months before each: the last period      *)
(* begins within the span, and ends with it or later.                      *)
PeriodCount(total, fiscalYear) == (total + fiscalYear - 1) \div fiscalYear
Before(i, fiscalYear) == (i - 1) * fiscalYear

LEMMA BeforeGrows ==
  ASSUME NEW fy \in Nat \ {0}
  PROVE  /\ Before(1, fy) = 0
         /\ \A i \in Nat \ {0} : Before(i, fy) \in Nat /\ Before(i + 1, fy) = Before(i, fy) + fy
<1>1. Before(1, fy) = 0
  BY DEF Before
<1>2. ASSUME NEW i \in Nat \ {0}
      PROVE  Before(i, fy) \in Nat /\ Before(i + 1, fy) = Before(i, fy) + fy
  <2>1. i - 1 \in Nat /\ (i - 1) + 1 = i /\ (i + 1) - 1 = i
    OBVIOUS
  <2>2. ((i - 1) + 1) * fy = (i - 1) * fy + 1 * fy
    BY <2>1, ProductOfSum
  <2>3. (i - 1) * fy \in Nat
    BY <2>1, ProductOfNats
  <2> QED BY <2>1, <2>2, <2>3 DEF Before
<1> QED BY <1>1, <1>2

LEMMA PeriodsCoverTotal ==
  ASSUME NEW total \in Nat \ {0}, NEW fy \in Nat \ {0}
  PROVE  /\ PeriodCount(total, fy) \in Nat \ {0}
         /\ \A i \in 1..PeriodCount(total, fy) :
              Before(i, fy) \in Nat /\ Before(i, fy) < total
         /\ Before(PeriodCount(total, fy), fy) + fy >= total
<1> DEFINE n == PeriodCount(total, fy)
           r == (total + fy - 1) % fy
<1>1. n \in Int /\ r \in 0..(fy - 1) /\ total + fy - 1 = fy * n + r
  BY DEF PeriodCount
<1> HIDE DEF r, n
<1>2. fy * n \in Int
  BY <1>1
<1>3. n > 0
  <2> SUFFICES ASSUME n <= 0 PROVE FALSE
    BY <1>1
  <2>1. fy * n <= fy * 0
    <3>1. CASE n < 0
      <4>1. fy * n + fy <= fy * 0
        BY <1>1, <3>1, ProductGrows
      <4> QED BY <1>2, <4>1
    <3> QED BY <1>1, <3>1
  <2> QED BY <1>1, <1>2, <2>1
<1>4. ASSUME NEW i \in 1..n PROVE Before(i, fy) \in Nat /\ Before(i, fy) < total
  <2>1. i - 1 \in Nat /\ i - 1 < n
    BY <1>1
  <2>2. (i - 1) * fy \in Nat /\ (i - 1) * fy = fy * (i - 1)
    BY <2>1, ProductOfNats
  <2>3. fy * (i - 1) + fy <= fy * n
    BY <1>1, <2>1, ProductGrows
  <2> QED BY <1>1, <1>2, <2>2, <2>3 DEF Before
<1>5. Before(n, fy) + fy >= total
  <2>1. n - 1 \in Int /\ (n - 1) + 1 = n
    BY <1>1
  <2>2. ((n - 1) + 1) * fy = (n - 1) * fy + 1 * fy /\ (n - 1) * fy \in Int
    BY <2>1, ProductOfSum
  <2>3. n * fy = fy * n
    BY <1>1
  <2> QED BY <1>1, <1>2, <2>1, <2>2, <2>3 DEF Before
<1> QED BY <1>1, <1>3, <1>4, <1>5 DEF n
-----------------------------------------------------------------------------
(* The calendar. *)

LEMMA MonthsHaveDays == \A m \in Nat : DaysIn(m) \in Nat \ {0}
<1>1. Len(MonthLengths) \in Nat \ {0}
  BY CalendarAssumption, EmptySeq, LenProperties
<1> DEFINE n == Len(MonthLengths)
<1>2. n \in Nat \ {0} /\ \A i \in 1..n : MonthLengths[i] \in Nat \ {0}
  <2>1. MonthLengths \in [1..n -> Nat \ {0}]
    BY CalendarAssumption, LenProperties
  <2> QED BY <1>1, <2>1
<1> HIDE DEF n
<1> SUFFICES ASSUME NEW m \in Nat PROVE DaysIn(m) \in Nat \ {0}
  OBVIOUS
<1>3. (m % n) + 1 \in 1..n
  BY <1>2
<1> QED BY <1>2, <1>3 DEF DaysIn, n

LEMMA AddMonthsTyped ==
  ASSUME NEW d \in Dates, NEW n \in Nat
  PROVE  /\ AddMonths(d, n) \in Dates
         /\ AddMonths(d, n).month = d.month + n
         /\ AddMonths(d, n).day = MinOf(d.day, DaysIn(d.month + n))
<1>1. d.month + n \in Nat /\ d.day \in Nat \ {0}
  BY DEF Dates
<1>2. DaysIn(d.month + n) \in Nat \ {0}
  BY <1>1, MonthsHaveDays
<1>3. /\ MinOf(d.day, DaysIn(d.month + n)) \in Nat \ {0}
      /\ MinOf(d.day, DaysIn(d.month + n)) <= DaysIn(d.month + n)
  BY <1>1, <1>2 DEF MinOf
<1> QED BY <1>1, <1>3 DEF AddMonths, Dates

(* The day after the day before is the same day, in a later month than 0.  *)
LEMMA DayBeforeAndAfter ==
  ASSUME NEW d \in Dates, d.month > 0
  PROVE  /\ DayBefore(d) \in Dates
         /\ DayBefore(d).month \in {d.month, d.month - 1}
         /\ DayAfter(DayBefore(d)) = d
<1>1. /\ d.month \in Nat /\ d.day \in Nat \ {0} /\ d.day <= DaysIn(d.month)
      /\ d.month - 1 \in Nat /\ d = [month |-> d.month, day |-> d.day]
  BY DEF Dates
<1>2. DaysIn(d.month - 1) \in Nat \ {0} /\ DaysIn(d.month) \in Nat \ {0}
  BY <1>1, MonthsHaveDays
<1>3. CASE d.day = 1
  <2>1. DayBefore(d) = [month |-> d.month - 1, day |-> DaysIn(d.month - 1)]
    BY <1>3 DEF DayBefore
  <2>2. DayBefore(d) \in Dates
    BY <1>1, <1>2, <2>1 DEF Dates
  <2>3. DayAfter(DayBefore(d)) = [month |-> (d.month - 1) + 1, day |-> 1]
    BY <2>1 DEF DayAfter
  <2> QED BY <1>1, <1>3, <2>1, <2>2, <2>3
<1>4. CASE d.day # 1
  <2>1. DayBefore(d) = [month |-> d.month, day |-> d.day - 1]
    BY <1>1, <1>4 DEF DayBefore
  <2>2. DayBefore(d) \in Dates
    <3>1. d.day - 1 \in Nat \ {0} /\ d.day - 1 <= DaysIn(d.month)
      BY <1>1, <1>2, <1>4
    <3> QED BY <1>1, <2>1, <3>1 DEF Dates
  <2>3. d.day - 1 # DaysIn(d.month) /\ (d.day - 1) + 1 = d.day
    BY <1>1, <1>2
  <2>4. DayAfter(DayBefore(d)) = [month |-> d.month, day |-> (d.day - 1) + 1]
    BY <2>1, <2>3 DEF DayAfter
  <2> QED BY <1>1, <2>1, <2>2, <2>3, <2>4
<1> QED BY <1>3, <1>4
-----------------------------------------------------------------------------
(* The cursor of compute_periods: the table that PeriodStart looks it up   *)
(* in exists and is the same for all periods.                              *)

IsCursor(f, start, fy, n) ==
  f = [k \in 1..n |-> IF k = 1 THEN start ELSE AddMonths(f[k - 1], fy)]

LEMMA CursorExists ==
  ASSUME NEW start, NEW fy PROVE \A n \in Nat : \E f : IsCursor(f, start, fy, n)
<1> DEFINE T == {n \in Nat : \A f : ~IsCursor(f, start, fy, n)}
<1> SUFFICES ASSUME T # {} PROVE FALSE
  OBVIOUS
<1>1. PICK n \in T : \A j \in T : n <= j
  <2>1. T \in SUBSET Nat
    OBVIOUS
  <2> HIDE DEF T
  <2> QED BY <2>1, LeastNumber
<1>2. n \in Nat /\ \A f : ~IsCursor(f, start, fy, n)
  OBVIOUS
<1>3. n # 0
  <2> DEFINE g == [k \in 1..0 |-> start]
  <2>1. g = [k \in 1..0 |-> IF k = 1 THEN start ELSE AddMonths(g[k - 1], fy)]
    OBVIOUS
  <2>2. IsCursor(g, start, fy, 0)
    BY Zenon, <2>1 DEF IsCursor
  <2> QED BY <1>2, <2>2
<1>4. PICK f : IsCursor(f, start, fy, n - 1)
  <2>1. n - 1 \in Nat /\ ~(n <= n - 1)
    BY <1>2, <1>3
  <2>2. n - 1 \notin T
    BY <1>1, <2>1
  <2> QED BY <2>1, <2>2
<1> DEFINE g == [k \in 1..n |-> IF k = 1 THEN start ELSE AddMonths(f[k - 1], fy)]
<1>5. \A k \in 1..(n - 1) : g[k] = f[k]
  <2> SUFFICES ASSUME NEW k \in 1..(n - 1) PROVE g[k] = f[k]
    OBVIOUS
  <2>1. k \in 1..n
    BY <1>2
  <2>2. g[k] = IF k = 1 THEN start ELSE AddMonths(f[k - 1], fy)
    BY <2>1
  <2> HIDE DEF g
  <2>3. f[k] = IF k = 1 THEN start ELSE AddMonths(f[k - 1], fy)
    BY <1>4, Zenon DEF IsCursor
  <2> QED BY <2>2, <2>3
<1>6. ASSUME NEW k \in 1..n
      PROVE  (IF k = 1 THEN start ELSE AddMonths(f[k - 1], fy))
               = IF k = 1 THEN start ELSE AddMonths(g[k - 1], fy)
  <2> HIDE DEF g
  <2>1. CASE k = 1
    BY <2>1
  <2>2. CASE k # 1
    <3>1. k - 1 \in 1..(n - 1)
      BY <1>2, <2>2
    <3> QED BY <1>5, <3>1
  <2> QED BY <2>1, <2>2
<1>7. g = [k \in 1..n |-> IF k = 1 THEN start ELSE AddMonths(g[k - 1], fy)]
  BY <1>6, Zenon
<1> QED BY <1>2, <1>7, Zenon DEF IsCursor

LEMMA CursorsAgree ==
  ASSUME NEW start, NEW fy, NEW f, NEW g, NEW a \in Nat, NEW b \in Nat, NEW k \in Nat \ {0},
         IsCursor(f, start, fy, a), IsCursor(g, start, fy, b), k <= a, k <= b
  PROVE  f[k] = g[k]
<1>1. \A i \in 1..a : f[i] = IF i = 1 THEN start ELSE AddMonths(f[i - 1], fy)
  BY Zenon DEF IsCursor
<1>2. \A i \in 1..b : g[i] = IF i = 1 THEN start ELSE AddMonths(g[i - 1], fy)
  BY Zenon DEF IsCursor
<1> DEFINE T == {i \in 1..k : f[i] # g[i]}
<1> SUFFICES ASSUME T # {} PROVE FALSE
  BY k \in 1..k
<1>3. PICK i \in T : \A j \in T : i <= j
  <2>1. T \in SUBSET Nat
    OBVIOUS
  <2> HIDE DEF T
  <2> QED BY <2>1, LeastNumber
<1>4. i \in 1..k /\ f[i] # g[i] /\ i \in 1..a /\ i \in 1..b
  OBVIOUS
<1>5. i # 1
  BY <1>1, <1>2, <1>4
<1>6. i - 1 \in 1..k /\ ~(i <= i - 1)
  BY <1>4, <1>5
<1>7. f[i - 1] = g[i - 1]
  BY <1>3, <1>6
<1>8. f[i] = AddMonths(f[i - 1], fy) /\ g[i] = AddMonths(g[i - 1], fy)
  BY Zenon, <1>1, <1>2, <1>4, <1>5
<1> QED BY Zenon, <1>4, <1>7, <1>8

LEMMA StartIsLookup ==
  ASSUME NEW start, NEW fy, NEW i \in Nat
  PROVE  \E f : IsCursor(f, start, fy, i) /\ PeriodStart(start, fy, i) = f[i]
<1> DEFINE cursor == CHOOSE f : IsCursor(f, start, fy, i)
<1>1. IsCursor(cursor, start, fy, i)
  BY Zenon, CursorExists
<1>2. PeriodStart(start, fy, i) = cursor[i]
  BY Zenon DEF PeriodStart, IsCursor
<1> QED BY <1>1, <1>2

(* The loop: it begins with the first day and adds a fiscal year a time.   *)
LEMMA StartsFollow ==
  ASSUME NEW start, NEW fy
  PROVE  /\ PeriodStart(start, fy, 1) = start
         /\ \A i \in Nat \ {0} :
              PeriodStart(start, fy, i + 1) = AddMonths(PeriodStart(start, fy, i), fy)
<1>1. PeriodStart(start, fy, 1) = start
  <2>1. PICK f : IsCursor(f, start, fy, 1) /\ PeriodStart(start, fy, 1) = f[1]
    BY StartIsLookup
  <2>2. f[1] = IF 1 = 1 THEN start ELSE AddMonths(f[1 - 1], fy)
    <3>1. 1 \in 1..1
      OBVIOUS
    <3> QED BY Zenon, <2>1, <3>1 DEF IsCursor
  <2> QED BY <2>1, <2>2
<1>2. ASSUME NEW i \in Nat \ {0}
      PROVE  PeriodStart(start, fy, i + 1) = AddMonths(PeriodStart(start, fy, i), fy)
  <2>1. PICK f : IsCursor(f, start, fy, i) /\ PeriodStart(start, fy, i) = f[i]
    BY StartIsLookup
  <2>2. /\ i + 1 \in Nat /\ i <= i + 1 /\ i <= i /\ i + 1 \in 1..(i + 1)
        /\ i + 1 # 1 /\ (i + 1) - 1 = i
    OBVIOUS
  <2>3. PICK g : IsCursor(g, start, fy, i + 1) /\ PeriodStart(start, fy, i + 1) = g[i + 1]
    BY <2>2, StartIsLookup
  <2>4. f[i] = g[i]
    BY <2>1, <2>2, <2>3, CursorsAgree
  <2>5. g[i + 1] = IF i + 1 = 1 THEN start ELSE AddMonths(g[(i + 1) - 1], fy)
    BY Zenon, <2>2, <2>3 DEF IsCursor
  <2> QED BY <2>1, <2>2, <2>3, <2>4, <2>5
<1> QED BY <1>1, <1>2

(* Where a period starts: so many months after the first, on its day or,   *)
(* after a month that lacks that day, on an earlier one.                   *)
Starts(d, start, fy, i) ==
  /\ d \in Dates
  /\ d.month = start.month + Before(i, fy)
  /\ d.day <= start.day
  /\ InEveryMonth(start.day) => d.day = start.day

LEMMA InEveryMonthOfAll ==
  ASSUME NEW day \in Nat, InEveryMonth(day), NEW m \in Nat PROVE day <= DaysIn(m)
<1> DEFINE n == Len(MonthLengths)
<1>1. n \in Nat \ {0} /\ DOMAIN MonthLengths = 1..n
  BY CalendarAssumption, EmptySeq, LenProperties
<1> HIDE DEF n
<1>2. (m % n) + 1 \in 1..n
  BY <1>1
<1> QED BY <1>1, <1>2 DEF DaysIn, InEveryMonth, n

GoesOn(d, start, month) ==
  /\ d \in Dates /\ d.month = month
  /\ d.day <= start.day /\ d.day <= DaysIn(month)
  /\ InEveryMonth(start.day) => d.day = start.day

LEMMA StartsGoOn ==
  ASSUME NEW d, NEW start \in Dates, NEW fy \in Nat \ {0}, NEW i \in Nat \ {0},
         Starts(d, start, fy, i), NEW n \in Nat
  PROVE  GoesOn(AddMonths(d, n), start, start.month + Before(i, fy) + n)
<1>1. /\ d \in Dates /\ d.month = start.month + Before(i, fy)
      /\ d.day <= start.day /\ (InEveryMonth(start.day) => d.day = start.day)
  BY DEF Starts
<1>2. Before(i, fy) \in Nat
  BY BeforeGrows
<1>3. start.month \in Nat /\ start.day \in Nat \ {0} /\ d.day \in Nat \ {0}
  BY <1>1 DEF Dates
<1> DEFINE m == start.month + Before(i, fy) + n
<1>4. m \in Nat /\ d.month + n = m
  BY <1>1, <1>2, <1>3
<1>5. DaysIn(m) \in Nat \ {0}
  BY <1>4, MonthsHaveDays
<1>6. /\ AddMonths(d, n) \in Dates /\ AddMonths(d, n).month = m
      /\ AddMonths(d, n).day = MinOf(d.day, DaysIn(m))
  BY <1>1, <1>4, AddMonthsTyped
<1>7. InEveryMonth(start.day) => start.day <= DaysIn(m)
  BY <1>3, <1>4, InEveryMonthOfAll
<1> HIDE DEF m
<1>8. MinOf(d.day, DaysIn(m)) <= start.day /\ MinOf(d.day, DaysIn(m)) <= DaysIn(m)
  BY <1>1, <1>3, <1>5 DEF MinOf
<1>9. InEveryMonth(start.day) => MinOf(d.day, DaysIn(m)) = start.day
  BY <1>1, <1>3, <1>5, <1>7 DEF MinOf
<1> QED BY <1>6, <1>8, <1>9 DEF GoesOn, m

LEMMA StartsWell ==
  ASSUME NEW start \in Dates, NEW fy \in Nat \ {0}
  PROVE  \A i \in Nat \ {0} : Starts(PeriodStart(start, fy, i), start, fy, i)
<1> DEFINE T == {i \in Nat \ {0} : ~Starts(PeriodStart(start, fy, i), start, fy, i)}
<1> SUFFICES ASSUME T # {} PROVE FALSE
  OBVIOUS
<1>1. PICK i \in T : \A j \in T : i <= j
  <2>1. T \in SUBSET Nat
    OBVIOUS
  <2> HIDE DEF T
  <2> QED BY <2>1, LeastNumber
<1>2. i \in Nat \ {0} /\ ~Starts(PeriodStart(start, fy, i), start, fy, i)
  OBVIOUS
<1>3. Starts(start, start, fy, 1)
  <2>1. start.month \in Nat /\ start.day \in Nat
    BY DEF Dates
  <2>2. Before(1, fy) = 0
    BY BeforeGrows
  <2> QED BY <2>1, <2>2 DEF Starts
<1>4. i # 1
  BY <1>2, <1>3, StartsFollow
<1>5. i - 1 \in Nat \ {0} /\ (i - 1) + 1 = i /\ ~(i <= i - 1)
  BY <1>2, <1>4
<1> DEFINE d == PeriodStart(start, fy, i - 1)
<1>6. Starts(d, start, fy, i - 1)
  BY <1>1, <1>5
<1>7. PeriodStart(start, fy, i) = AddMonths(d, fy)
  <2>1. PeriodStart(start, fy, (i - 1) + 1) = AddMonths(d, fy)
    BY <1>5, StartsFollow
  <2> QED BY <1>5, <2>1
<1> HIDE DEF d, T
<1>8. GoesOn(AddMonths(d, fy), start, start.month + Before(i - 1, fy) + fy)
  <2> DEFINE j == i - 1
  <2>1. j \in Nat \ {0} /\ Starts(d, start, fy, j) /\ fy \in Nat
    BY <1>5, <1>6
  <2> HIDE DEF j
  <2>2. GoesOn(AddMonths(d, fy), start, start.month + Before(j, fy) + fy)
    BY <2>1, StartsGoOn
  <2> QED BY <2>2 DEF j
<1>9. Before(i, fy) = Before(i - 1, fy) + fy /\ Before(i - 1, fy) \in Nat
  <2>1. Before((i - 1) + 1, fy) = Before(i - 1, fy) + fy /\ Before(i - 1, fy) \in Nat
    BY <1>5, BeforeGrows
  <2> QED BY <1>5, <2>1
<1>10. AddMonths(d, fy).month = start.month + Before(i, fy)
  <2>1. start.month \in Nat
    BY DEF Dates
  <2> QED BY <1>8, <1>9, <2>1 DEF GoesOn
<1>11. Starts(AddMonths(d, fy), start, fy, i)
  BY <1>8, <1>10 DEF Starts, GoesOn
<1> QED BY <1>2, <1>7, <1>11
-----------------------------------------------------------------------------
(* Plans. *)

PeriodOf(first, start, total, fy, i) ==
  [index |-> first + i - 1,
   start |-> PeriodStart(start, fy, i),
   months |-> MinOf(fy, total - Before(i, fy))]

LEMMA PeriodOfIsPeriod ==
  ASSUME NEW first \in Nat, NEW start \in Dates, NEW total \in Nat \ {0}, NEW fy \in Nat \ {0},
         NEW i \in 1..PeriodCount(total, fy)
  PROVE  PeriodOf(first, start, total, fy, i) \in Periods
<1>1. Before(i, fy) \in Nat /\ Before(i, fy) < total /\ i \in Nat \ {0}
  BY PeriodsCoverTotal
<1>2. PeriodStart(start, fy, i) \in Dates
  BY <1>1, StartsWell DEF Starts
<1>3. first + i - 1 \in Nat
  BY <1>1
<1>4. MinOf(fy, total - Before(i, fy)) \in Nat \ {0}
  BY <1>1 DEF MinOf
<1> QED BY <1>2, <1>3, <1>4 DEF Periods, PeriodOf

LEMMA PeriodOfFields ==
  ASSUME NEW first, NEW start, NEW total, NEW fy, NEW i
  PROVE  /\ PeriodOf(first, start, total, fy, i).index = first + i - 1
         /\ PeriodOf(first, start, total, fy, i).start = PeriodStart(start, fy, i)
         /\ PeriodOf(first, start, total, fy, i).months = MinOf(fy, total - Before(i, fy))
BY DEF PeriodOf

(* A period ends in the month its months lead to, or the one before, and   *)
(* the next one begins on the day after.                                   *)
LEMMA EndOfPeriod ==
  ASSUME NEW p \in Periods
  PROVE  /\ EndDate(p) \in Dates
         /\ EndDate(p).month >= p.start.month + p.months - 1
         /\ DayAfter(EndDate(p)) = AddMonths(p.start, p.months)
<1>1. p.start \in Dates /\ p.months \in Nat \ {0} /\ p.start.month \in Nat
  BY DEF Periods, Dates
<1> DEFINE d == AddMonths(p.start, p.months)
<1>2. d \in Dates /\ d.month = p.start.month + p.months
  BY <1>1, AddMonthsTyped
<1> HIDE DEF d
<1>3. d.month > 0
  BY <1>1, <1>2
<1>4. DayBefore(d) \in Dates /\ DayBefore(d).month \in {d.month, d.month - 1} /\ DayAfter(DayBefore(d)) = d
  BY <1>2, <1>3, DayBeforeAndAfter
<1>5. EndDate(p) = DayBefore(d)
  BY DEF EndDate, d
<1>6. EndDate(p).month >= p.start.month + p.months - 1
  BY <1>1, <1>2, <1>4, <1>5
<1> QED BY <1>4, <1>5, <1>6 DEF d

(* The periods of a plan, one by one. *)
LEMMA PlanIsSequence ==
  ASSUME NEW first \in Nat, NEW start \in Dates, NEW total \in Nat \ {0}, NEW fy \in Nat \ {0}
  PROVE  Plan(first, start, total, fy) \in [1..PeriodCount(total, fy) -> Periods]
<1>1. Plan(first, start, total, fy)
        = [i \in 1..PeriodCount(total, fy) |-> PeriodOf(first, start, total, fy, i)]
  BY Zenon DEF Plan, PeriodCount, PeriodOf, Before
<1> QED BY <1>1, PeriodOfIsPeriod

LEMMA PlanLength ==
  ASSUME NEW first \in Nat, NEW start \in Dates, NEW total \in Nat \ {0}, NEW fy \in Nat \ {0}
  PROVE  Len(Plan(first, start, total, fy)) = PeriodCount(total, fy)
<1> DEFINE n == PeriodCount(total, fy)
           plan == Plan(first, start, total, fy)
<1>1. n \in Nat
  BY PeriodsCoverTotal
<1>2. plan \in [1..n -> Periods]
  BY PlanIsSequence
<1> HIDE DEF n, plan
<1>3. plan \in Seq(Periods)
  BY <1>1, <1>2, SeqDef
<1>4. Len(plan) = n
  <2>1. DOMAIN plan = 1..n
    BY <1>2
  <2>2. Len(plan) \in Nat /\ DOMAIN plan = 1..Len(plan)
    BY <1>3, LenProperties
  <2> QED BY <1>1, <2>1, <2>2
<1> QED BY <1>4 DEF n, plan

LEMMA PlanPeriods ==
  ASSUME NEW first \in Nat, NEW start \in Dates, NEW total \in Nat \ {0}, NEW fy \in Nat \ {0}
  PROVE  /\ Plan(first, start, total, fy) \in Seq(Periods)
         /\ \A i \in 1..PeriodCount(total, fy) :
              Plan(first, start, total, fy)[i] = PeriodOf(first, start, total, fy, i)
<1>1. Plan(first, start, total, fy)
        = [i \in 1..PeriodCount(total, fy) |-> PeriodOf(first, start, total, fy, i)]
  BY Zenon DEF Plan, PeriodCount, PeriodOf, Before
<1>2. PeriodCount(total, fy) \in Nat
  BY PeriodsCoverTotal
<1>3. Plan(first, start, total, fy) \in [1..PeriodCount(total, fy) -> Periods]
  BY PlanIsSequence
<1>4. \A S, n : \A f \in [1..n -> S] : n \in Nat => f \in Seq(S)
  BY SeqDef
<1>5. Plan(first, start, total, fy) \in Seq(Periods)
  BY Zenon, <1>2, <1>3, <1>4
<1> QED BY <1>1, <1>5

LEMMA PlanNotEmpty ==
  ASSUME NEW first \in Nat, NEW start \in Dates, NEW total \in Nat \ {0}, NEW fy \in Nat \ {0}
  PROVE  Len(Plan(first, start, total, fy)) \in Nat \ {0}
<1>1. Len(Plan(first, start, total, fy)) = PeriodCount(total, fy)
  BY PlanLength
<1>2. PeriodCount(total, fy) \in Nat \ {0}
  BY PeriodsCoverTotal
<1> QED BY Zenon, <1>1, <1>2

(* All periods but the last are as long as a fiscal year, and the last     *)
(* ends with the span.                                                     *)
LEMMA PlanMonths ==
  ASSUME NEW first \in Nat, NEW start \in Dates, NEW total \in Nat \ {0}, NEW fy \in Nat \ {0}
  PROVE  /\ \A i \in 1..(PeriodCount(total, fy) - 1) :
              Plan(first, start, total, fy)[i].months = fy
         /\ Before(PeriodCount(total, fy), fy)
              + Plan(first, start, total, fy)[PeriodCount(total, fy)].months = total
<1> DEFINE n == PeriodCount(total, fy)
           plan == Plan(first, start, total, fy)
<1>1. /\ n \in Nat \ {0} /\ Before(n, fy) + fy >= total
      /\ \A i \in 1..n : Before(i, fy) \in Nat /\ Before(i, fy) < total
  BY PeriodsCoverTotal
<1>2. \A i \in 1..n : plan[i] = PeriodOf(first, start, total, fy, i)
  BY PlanPeriods
<1> HIDE DEF n, plan
<1>3. ASSUME NEW i \in 1..n PROVE plan[i].months = MinOf(fy, total - Before(i, fy))
  BY <1>2, PeriodOfFields
<1>4. ASSUME NEW i \in 1..n, Before(i, fy) + fy <= total PROVE plan[i].months = fy
  BY <1>1, <1>3, <1>4 DEF MinOf
<1>5. ASSUME NEW i \in 1..(n - 1) PROVE plan[i].months = fy
  <2>1. i \in 1..n /\ i + 1 \in 1..n /\ i \in Nat \ {0}
    BY <1>1
  <2>2. Before(i + 1, fy) = Before(i, fy) + fy /\ Before(i + 1, fy) < total
    BY <1>1, <2>1, BeforeGrows
  <2>3. Before(i, fy) + fy <= total
    BY <1>1, <2>1, <2>2
  <2> QED BY <1>4, <2>1, <2>3
<1>6. Before(n, fy) + plan[n].months = total
  <2>1. n \in 1..n
    BY <1>1
  <2>2. plan[n].months = MinOf(fy, total - Before(n, fy)) /\ Before(n, fy) \in Nat
    BY <1>1, <1>3, <2>1
  <2> QED BY <1>1, <2>2 DEF MinOf
<1> QED BY <1>4, <1>5, <1>6 DEF n, plan

(* The periods of a plan follow one another from its first day to the last *)
(* day of the span, or to one before it if the first day is a late one.    *)
LEMMA PlanFollowsSpan ==
  ASSUME NEW first \in Nat, NEW start \in Dates, NEW total \in Nat \ {0}, NEW fy \in Nat \ {0}
  PROVE  Covers(Plan(first, start, total, fy), start, AddMonths(start, total))
<1> DEFINE n == PeriodCount(total, fy)
           plan == Plan(first, start, total, fy)
<1>1. n \in Nat \ {0}
  BY PeriodsCoverTotal
<1>2. Len(plan) = n
  BY PlanLength
<1>3. plan \in Seq(Periods)
  BY PlanPeriods
<1>4. \A i \in 1..n : plan[i] = PeriodOf(first, start, total, fy, i)
  BY PlanPeriods
<1>5. \A i \in 1..(n - 1) : plan[i].months = fy
  BY PlanMonths
<1>6. Before(n, fy) + plan[n].months = total
  BY PlanMonths
<1> HIDE DEF n, plan
<1>7. ASSUME NEW i \in 1..n PROVE plan[i].start = PeriodStart(start, fy, i)
  BY <1>4, PeriodOfFields
<1>8. ASSUME NEW i \in 1..n PROVE plan[i] \in Periods
  BY <1>2, <1>3, LenProperties
<1>9. FollowOneAnother(plan)
  <2> SUFFICES ASSUME NEW i \in 1..(n - 1)
               PROVE  plan[i + 1].start = DayAfter(EndDate(plan[i]))
    BY <1>2 DEF FollowOneAnother
  <2>1. i \in 1..n /\ i + 1 \in 1..n /\ i \in Nat \ {0}
    BY <1>1
  <2>2. DayAfter(EndDate(plan[i])) = AddMonths(plan[i].start, fy)
    BY <1>5, <1>8, <2>1, EndOfPeriod
  <2>3. plan[i + 1].start = PeriodStart(start, fy, i + 1) /\ plan[i].start = PeriodStart(start, fy, i)
    BY <1>7, <2>1
  <2>4. PeriodStart(start, fy, i + 1) = AddMonths(PeriodStart(start, fy, i), fy)
    BY <2>1, StartsFollow
  <2> QED BY Zenon, <2>2, <2>3, <2>4
<1>10. plan[1].start = start
  <2>1. 1 \in 1..n
    BY <1>1
  <2> QED BY Zenon, <1>7, <2>1, StartsFollow
<1> DEFINE end == DayAfter(EndDate(plan[n]))
           after == AddMonths(start, total)
           d == PeriodStart(start, fy, n)
           months == plan[n].months
<1>11. n \in 1..n
  BY <1>1
<1>12. months \in Nat
  BY <1>8, <1>11 DEF Periods
<1>13. end = AddMonths(d, months)
  BY <1>7, <1>8, <1>11, EndOfPeriod
<1>14. Starts(d, start, fy, n)
  BY <1>1, StartsWell
<1>15. start.month \in Nat /\ start.day \in Nat \ {0} /\ Before(n, fy) \in Nat
  BY <1>1, BeforeGrows DEF Dates
<1>16. start.month + Before(n, fy) + months = start.month + total
  BY <1>6, <1>12, <1>15
<1>17. after.month = start.month + total /\ after.day = MinOf(start.day, DaysIn(start.month + total))
  BY AddMonthsTyped
<1> HIDE DEF d, months
<1>18. /\ AddMonths(d, months) \in Dates
       /\ AddMonths(d, months).month = start.month + total
       /\ AddMonths(d, months).day <= start.day
       /\ AddMonths(d, months).day <= DaysIn(start.month + total)
       /\ InEveryMonth(start.day) => AddMonths(d, months).day = start.day
  <2>1. GoesOn(AddMonths(d, months), start, start.month + Before(n, fy) + months)
    BY <1>1, <1>12, <1>14, StartsGoOn
  <2> QED BY <1>16, <2>1 DEF GoesOn
<1>19. after \in Dates
  BY AddMonthsTyped
<1> HIDE DEF end, after
<1>20. end.month = after.month /\ end.day <= after.day
  BY <1>13, <1>17, <1>18 DEF MinOf
<1>21. InEveryMonth(start.day) => end = after
  <2> SUFFICES ASSUME InEveryMonth(start.day) PROVE end = after
    OBVIOUS
  <2>1. start.day <= DaysIn(start.month + total)
    BY <1>13, <1>18
  <2>2. DaysIn(start.month + total) \in Nat
    <3>1. start.month + total \in Nat
      BY <1>15
    <3> QED BY <3>1, MonthsHaveDays
  <2>3. after.day = start.day
    BY <1>15, <1>17, <2>1, <2>2 DEF MinOf
  <2>4. end.day = after.day /\ end.month = after.month /\ end \in Dates
    BY <1>13, <1>18, <1>20, <2>3
  <2> QED BY <1>19, <2>4 DEF Dates
<1>22. Covers(plan, start, after)
  <2>1. FollowOneAnother(plan) /\ plan[1].start = start /\ end = DayAfter(EndDate(plan[Len(plan)]))
    BY <1>2, <1>9, <1>10 DEF end
  <2> QED BY <1>20, <1>21, <2>1 DEF Covers
<1> QED BY <1>22 DEF plan, after
-----------------------------------------------------------------------------
(* The plans of a session. *)

LEMMA ConfigFields ==
  ASSUME NEW c \in Configs
  PROVE  /\ c.volume \in Nat /\ c.start \in Dates
         /\ c.total \in Nat \ {0} /\ c.fiscalYear \in Nat \ {0}
OBVIOUS

LEMMA BasePlanTyped ==
  ASSUME NEW c \in Configs
  PROVE  /\ BasePlan(c) \in Seq(Periods)
         /\ Len(BasePlan(c)) \in Nat \ {0}
<1>1. c.start \in Dates /\ c.total \in Nat \ {0} /\ c.fiscalYear \in Nat \ {0} /\ 0 \in Nat
  BY ConfigFields
<1>2. Plan(0, c.start, c.total, c.fiscalYear) \in Seq(Periods)
  BY <1>1, PlanPeriods
<1>3. Len(Plan(0, c.start, c.total, c.fiscalYear)) \in Nat \ {0}
  BY <1>1, PlanNotEmpty
<1> QED BY <1>2, <1>3 DEF BasePlan

(* Where the appended periods begin: a month and more after the start of   *)
(* the last period.                                                        *)
LastOf(c) == BasePlan(c)[Len(BasePlan(c))]
DeltaStart(c) == AddMonths(EndDate(LastOf(c)), 1)

LEMMA DeltaStartTyped ==
  ASSUME NEW c \in Configs
  PROVE  /\ LastOf(c) \in Periods
         /\ DeltaStart(c) \in Dates
         /\ DeltaStart(c).month >= LastOf(c).start.month + LastOf(c).months
<1> DEFINE last == LastOf(c)
<1>1. last \in Periods
  <2>1. Len(BasePlan(c)) \in 1..Len(BasePlan(c))
    BY BasePlanTyped
  <2> QED BY <2>1, BasePlanTyped, LenProperties DEF LastOf
<1> HIDE DEF last
<1>2. last.start.month \in Nat /\ last.months \in Nat \ {0}
  BY <1>1 DEF Periods, Dates
<1>3. EndDate(last) \in Dates /\ EndDate(last).month >= last.start.month + last.months - 1
  BY <1>1, EndOfPeriod
<1>4. EndDate(last).month \in Nat
  BY <1>3 DEF Dates
<1>5. AddMonths(EndDate(last), 1) \in Dates /\ AddMonths(EndDate(last), 1).month = EndDate(last).month + 1
  BY <1>3, AddMonthsTyped
<1>6. DeltaStart(c) = AddMonths(EndDate(last), 1)
  BY DEF DeltaStart, last
<1>7. EndDate(last).month + 1 >= last.start.month + last.months
  BY <1>2, <1>3, <1>4
<1> QED BY <1>1, <1>5, <1>6, <1>7 DEF last

LEMMA DeltaIsPlan ==
  ASSUME NEW c \in Configs, NEW m \in AppendMonths
  PROVE  /\ DeltaPlan(c, m) = Plan(Len(BasePlan(c)), DeltaStart(c), m, c.fiscalYear)
         /\ Len(BasePlan(c)) \in Nat /\ DeltaStart(c) \in Dates
         /\ m \in Nat \ {0} /\ c.fiscalYear \in Nat \ {0}
<1>1. DeltaPlan(c, m) = Plan(Len(BasePlan(c)), DeltaStart(c), m, c.fiscalYear)
  BY Zenon DEF DeltaPlan, DeltaStart, LastOf
<1> QED BY <1>1, BasePlanTyped, DeltaStartTyped, ConfigFields

LEMMA DeltaPlanTyped ==
  ASSUME NEW c \in Configs, NEW m \in AppendMonths
  PROVE  /\ DeltaPlan(c, m) \in Seq(Periods)
         /\ Len(DeltaPlan(c, m)) \in Nat \ {0}
<1> DEFINE b == Len(BasePlan(c))
           st == DeltaStart(c)
           fy == c.fiscalYear
<1>1. b \in Nat /\ st \in Dates /\ m \in Nat \ {0} /\ fy \in Nat \ {0}
  BY DeltaIsPlan
<1>2. DeltaPlan(c, m) = Plan(b, st, m, fy)
  BY DeltaIsPlan
<1> HIDE DEF b, st, fy
<1>3. Plan(b, st, m, fy) \in Seq(Periods)
  BY <1>1, PlanPeriods
<1>4. Len(Plan(b, st, m, fy)) \in Nat \ {0}
  BY <1>1, PlanNotEmpty
<1> QED BY <1>2, <1>3, <1>4

(* The plans that a command over a config may have in memory: the periods  *)
(* of the config, and those with an append after them.                     *)
Extended(c, m) == BasePlan(c) \o DeltaPlan(c, m)
Plans(c) == {BasePlan(c)} \cup {Extended(c, m) : m \in AppendMonths}

LEMMA ExtendedAt ==
  ASSUME NEW c \in Configs, NEW m \in AppendMonths
  PROVE  /\ Extended(c, m) \in Seq(Periods)
         /\ Len(Extended(c, m)) = Len(BasePlan(c)) + Len(DeltaPlan(c, m))
         /\ \A i \in 1..Len(Extended(c, m)) :
              Extended(c, m)[i] = IF i <= Len(BasePlan(c)) THEN BasePlan(c)[i]
                                  ELSE DeltaPlan(c, m)[i - Len(BasePlan(c))]
<1> DEFINE base == BasePlan(c)
           delta == DeltaPlan(c, m)
<1>1. base \in Seq(Periods) /\ delta \in Seq(Periods)
  BY BasePlanTyped, DeltaPlanTyped
<1> HIDE DEF base, delta
<1>2. /\ base \o delta \in Seq(Periods)
      /\ Len(base \o delta) = Len(base) + Len(delta)
      /\ \A i \in 1..Len(base) + Len(delta) :
           (base \o delta)[i] = IF i <= Len(base) THEN base[i] ELSE delta[i - Len(base)]
  BY <1>1, ConcatProperties
<1> QED BY <1>2 DEF Extended, base, delta

LEMMA PlansTyped ==
  ASSUME NEW c \in Configs, NEW ps \in Plans(c)
  PROVE  ps \in Seq(Periods) /\ Len(ps) \in Nat
<1>1. ps \in Seq(Periods)
  BY BasePlanTyped, ExtendedAt DEF Plans
<1> QED BY <1>1, LenProperties
-----------------------------------------------------------------------------
Active == pc \in {"running", "writing", "saving", "truncated"}

(* What a session in memory is: the plan of its command, and a cursor that *)
(* went from where the command began towards the end of that plan.         *)
Planned ==
  /\ pc = "idle" => command = NoCommand
  /\ pc \in {"idle", "standard"} => periods = <<>>
  /\ Active =>
       /\ \/ command.kind = "generate" /\ command.from = 0
             /\ periods = BasePlan(command.config)
          \/ /\ command.kind = "append" /\ command.from >= Len(BasePlan(command.config))
             /\ \E m \in AppendMonths :
                  periods = BasePlan(command.config) \o DeltaPlan(command.config, m)
       /\ state.cursor >= command.from
       /\ state.cursor = command.from \/ state.cursor <= Len(periods)
  /\ pc = "writing" => state.cursor < Len(periods)
  /\ pc \in {"saving", "truncated"} => state.cursor >= Len(periods)
  /\ file = "saved" => saved.state.cursor >= Len(BasePlan(saved.config))
SessionInv == TypeOK /\ Planned

-----------------------------------------------------------------------------
(* Types. *)

LEMMA LabelIsNat ==
  ASSUME NEW p \in Periods PROVE Label(p) \in Nat
<1>1. p.start.month \in Nat
  BY DEF Periods, Dates
<1> QED BY <1>1 DEF Label

LEMMA IncomeIsNat ==
  ASSUME NEW c \in Configs, NEW p \in Periods PROVE Income(c, p) \in Nat
<1>1. p.index \in Nat /\ p.months \in Nat /\ c.volume \in Nat
  BY ConfigFields DEF Periods
<1>2. p.months * c.volume \in Nat
  BY <1>1, ProductOfNats
<1> QED BY <1>1, <1>2 DEF Income

LEMMA CarriedForward ==
  ASSUME NEW s \in States, NEW c \in Configs, NEW p \in Periods
  PROVE  /\ CarryForward(s, c, p) \in States
         /\ CarryForward(s, c, p).cursor = s.cursor + 1
         /\ CarryForward(s, c, p).balance = s.balance + Income(c, p)
         /\ CarryForward(s, c, p).nextPo = s.nextPo + PurchaseOrders
         /\ CarryForward(s, c, p).log = Append(s.log, Label(p))
<1>1. /\ s.cursor \in Nat /\ s.balance \in Nat /\ s.retained \in Nat
      /\ s.nextPo \in Nat /\ s.log \in Seq(Nat)
  BY DEF States
<1> DEFINE income == Income(c, p)
           sum == s.balance + income
           kept == s.retained + sum
           log == Append(s.log, Label(p))
<1>2. income \in Nat
  BY IncomeIsNat
<1>3. CarryForward(s, c, p)
        = [cursor |-> s.cursor + 1, balance |-> sum, retained |-> kept,
           nextPo |-> s.nextPo + PurchaseOrders, log |-> log]
  BY DEF CarryForward
<1>4. log \in Seq(Nat)
  BY <1>1, LabelIsNat, AppendProperties
<1> HIDE DEF income, log
<1>5. s.cursor + 1 \in Nat /\ sum \in Nat /\ kept \in Nat /\ s.nextPo + PurchaseOrders \in Nat
  <2>1. \A a, b \in Nat : a + b \in Nat
    OBVIOUS
  <2>2. PurchaseOrders \in Nat /\ 1 \in Nat
    BY NumbersAssumption
  <2> QED BY Zenon, <1>1, <1>2, <2>1, <2>2
<1> HIDE DEF sum, kept
<1>6. CarryForward(s, c, p) \in States
  BY <1>3, <1>4, <1>5 DEF States
<1>7. /\ CarryForward(s, c, p).cursor = s.cursor + 1
      /\ CarryForward(s, c, p).balance = sum
      /\ CarryForward(s, c, p).nextPo = s.nextPo + PurchaseOrders
      /\ CarryForward(s, c, p).log = log
  BY <1>3
<1> QED BY <1>6, <1>7 DEF sum, income, log

LEMMA FreshTyped ==
  /\ Fresh \in States /\ Fresh.cursor = 0 /\ Fresh.balance = 0 /\ Fresh.nextPo = 0 /\ Fresh.log = <<>>
  /\ NoCommand \in [kind : {"none", "generate", "append"}, config : Configs, from : Nat]
  /\ NoCommand.kind = "none" /\ NoCommand.config \in Configs
<1>1. Fresh \in States /\ Fresh.cursor = 0 /\ Fresh.balance = 0 /\ Fresh.nextPo = 0 /\ Fresh.log = <<>>
  BY DEF Fresh, States
<1>2. (CHOOSE c \in Configs : TRUE) \in Configs
  <2>1. \E c : c \in Configs
    BY ConfigsAssumption
  <2> QED BY Zenon, <2>1
<1> QED BY <1>1, <1>2 DEF NoCommand

LEMMA DirectoryTyped ==
  ASSUME NEW dirs \in SUBSET Directories, NEW p \in Periods, NEW c \in Configs, NEW b \in BOOLEAN
  PROVE  /\ Directory(p, c, b) \in Directories
         /\ Put(dirs, Directory(p, c, b)) \in SUBSET Directories
<1>1. Directory(p, c, b) \in Directories
  BY LabelIsNat DEF Directory, Directories
<1> QED BY <1>1 DEF Put
-----------------------------------------------------------------------------
(* A session keeps its types and its plan. *)

Answers == {"none", "done", "error", "died", "refused", "config changed"}

LEMMA CommandEnds ==
  ASSUME SessionInv, NEW how \in Answers, End(how), disk' = disk,
         file' \in {"none", "torn", "saved"},
         saved' \in [state : States, config : Configs],
         file' = "saved" => saved'.state.cursor >= Len(BasePlan(saved'.config))
  PROVE  SessionInv'
<1>1. TypeOK'
  <2>1. <<>> \in Seq(Periods)
    BY EmptySeq
  <2> QED BY <2>1, FreshTyped DEF SessionInv, TypeOK, End, Answers
<1>2. Planned'
  BY DEF End, Planned, Active
<1> QED BY <1>1, <1>2 DEF SessionInv

LEMMA SessionBegins ==
  ASSUME SessionInv, NEW kind, NEW c \in Configs, NEW plan \in Seq(Periods), NEW s \in States,
         Start(kind, c, plan, s), UNCHANGED <<disk, file, saved>>,
         \/ kind = "generate" /\ s.cursor = 0 /\ plan = BasePlan(c)
         \/ /\ kind = "append" /\ s.cursor >= Len(BasePlan(c))
            /\ \E m \in AppendMonths : plan = BasePlan(c) \o DeltaPlan(c, m)
  PROVE  SessionInv'
<1>1. s.cursor \in Nat
  BY DEF States
<1>2. /\ command'.kind = kind /\ command'.config = c /\ command'.from = s.cursor
      /\ command' \in [kind : {"none", "generate", "append"}, config : Configs, from : Nat]
  BY <1>1 DEF Start
<1>3. TypeOK'
  BY <1>2 DEF SessionInv, TypeOK, Start
<1>4. Active' => \/ command'.kind = "generate" /\ command'.from = 0
                    /\ periods' = BasePlan(command'.config)
                 \/ /\ command'.kind = "append" /\ command'.from >= Len(BasePlan(command'.config))
                    /\ \E m \in AppendMonths :
                         periods' = BasePlan(command'.config) \o DeltaPlan(command'.config, m)
  BY <1>2 DEF Start
<1>5. state'.cursor >= command'.from /\ state'.cursor = command'.from
  BY <1>1, <1>2 DEF Start
<1>6. pc' = "running" /\ (file' = "saved" => saved'.state.cursor >= Len(BasePlan(saved'.config)))
  BY DEF Start, SessionInv, Planned
<1>7. Planned'
  BY <1>4, <1>5, <1>6 DEF Planned
<1> QED BY <1>3, <1>7 DEF SessionInv

LEMMA GenerateKeeps ==
  ASSUME SessionInv, NEW c \in Configs, Generate(c) PROVE SessionInv'
<1>1. CASE c.fiscalYear < c.total
  <2>1. Start("generate", c, BasePlan(c), Fresh) /\ UNCHANGED <<disk, file, saved>>
    BY <1>1 DEF Generate
  <2>2. BasePlan(c) \in Seq(Periods)
    BY BasePlanTyped
  <2> QED BY <2>1, <2>2, FreshTyped, SessionBegins
<1>2. CASE ~(c.fiscalYear < c.total)
  <2>1. /\ pc = "idle" /\ pc' = "standard"
        /\ command' = [kind |-> "generate", config |-> c, from |-> 0]
        /\ UNCHANGED <<periods, state, disk, file, saved, answer>>
    BY <1>2 DEF Generate
  <2>2. TypeOK'
    BY <2>1 DEF SessionInv, TypeOK
  <2>3. Planned'
    BY <2>1 DEF SessionInv, Planned, Active
  <2> QED BY <2>2, <2>3 DEF SessionInv
<1> QED BY <1>1, <1>2

LEMMA ResumeKeeps ==
  ASSUME SessionInv, NEW c \in Configs, NEW m \in AppendMonths, Resume(c, m) PROVE SessionInv'
<1>1. /\ Start("append", c, BasePlan(c) \o DeltaPlan(c, m), saved.state)
      /\ file = "saved" /\ c = saved.config /\ UNCHANGED <<disk, file, saved>>
  BY DEF Resume, HashMayMatch
<1>2. BasePlan(c) \o DeltaPlan(c, m) \in Seq(Periods)
  BY BasePlanTyped, DeltaPlanTyped, ConcatProperties
<1>3. saved.state \in States
  BY DEF SessionInv, TypeOK
<1>4. saved.state.cursor >= Len(BasePlan(c))
  BY <1>1 DEF SessionInv, Planned
<1>5. \E n \in AppendMonths : BasePlan(c) \o DeltaPlan(c, m) = BasePlan(c) \o DeltaPlan(c, n)
  OBVIOUS
<1> DEFINE plan == BasePlan(c) \o DeltaPlan(c, m)
           s == saved.state
<1>6. /\ Start("append", c, plan, s) /\ plan \in Seq(Periods) /\ s \in States
      /\ s.cursor >= Len(BasePlan(c)) /\ UNCHANGED <<disk, file, saved>>
      /\ \E n \in AppendMonths : plan = BasePlan(c) \o DeltaPlan(c, n)
  BY <1>1, <1>2, <1>3, <1>4, <1>5
<1> HIDE DEF plan, s
<1> QED BY <1>6, SessionBegins

LEMMA EndsKeep ==
  ASSUME SessionInv,
         \/ StandardDone \/ AppendImpossible \/ FailOrDie
         \/ \E c \in Configs : ConfigRefused(c)
  PROVE  SessionInv'
<1>1. \E how \in Answers : End(how)
  BY DEF StandardDone, AppendImpossible, FailOrDie, ConfigRefused, Answers
<1>2. UNCHANGED <<disk, file, saved>>
  BY DEF StandardDone, AppendImpossible, FailOrDie, ConfigRefused
<1>3. /\ file' \in {"none", "torn", "saved"}
      /\ saved' \in [state : States, config : Configs]
      /\ file' = "saved" => saved'.state.cursor >= Len(BasePlan(saved'.config))
  BY <1>2 DEF SessionInv, TypeOK, Planned
<1> QED BY <1>1, <1>2, <1>3, CommandEnds

(* What the plan in memory is made of. *)
LEMMA PeriodInPlan ==
  ASSUME SessionInv, pc \in {"running", "writing"}, state.cursor < Len(periods)
  PROVE  /\ Period \in Periods /\ command.config \in Configs
         /\ state.cursor \in Nat /\ Len(periods) \in Nat /\ state.cursor + 1 \in 1..Len(periods)
<1>1. /\ periods \in Seq(Periods) /\ command.config \in Configs /\ state.cursor \in Nat
  BY DEF SessionInv, TypeOK, States
<1>2. Len(periods) \in Nat
  BY <1>1, LenProperties
<1>3. state.cursor + 1 \in 1..Len(periods)
  BY <1>1, <1>2
<1>4. Period \in Periods
  BY <1>1, <1>3, LenProperties DEF Period
<1> QED BY <1>1, <1>2, <1>3, <1>4

LEMMA BeginPeriodKeeps ==
  ASSUME SessionInv, BeginPeriod PROVE SessionInv'
<1>1. /\ pc = "running" /\ state.cursor < Len(periods) /\ pc' = "writing"
      /\ disk' = Put(disk, Directory(Period, command.config, FALSE))
      /\ UNCHANGED <<command, periods, state, file, saved, answer>>
  BY DEF BeginPeriod, session
<1>2. disk' \in SUBSET Directories
  BY <1>1, PeriodInPlan, DirectoryTyped DEF SessionInv, TypeOK
<1>3. TypeOK'
  BY <1>1, <1>2 DEF SessionInv, TypeOK
<1>4. Planned'
  BY <1>1 DEF SessionInv, Planned, Active
<1> QED BY <1>3, <1>4 DEF SessionInv

LEMMA FinishPeriodKeeps ==
  ASSUME SessionInv, FinishPeriod PROVE SessionInv'
<1>1. /\ pc = "writing" /\ pc' = "running"
      /\ disk' = Put(disk, Directory(Period, command.config, TRUE))
      /\ state' = CarryForward(state, command.config, Period)
      /\ UNCHANGED <<command, periods, file, saved, answer>>
  BY DEF FinishPeriod
<1>2. state.cursor < Len(periods)
  BY <1>1 DEF SessionInv, Planned
<1>3. /\ Period \in Periods /\ command.config \in Configs
      /\ state.cursor \in Nat /\ Len(periods) \in Nat
  BY <1>1, <1>2, PeriodInPlan
<1>4. disk' \in SUBSET Directories
  BY <1>1, <1>3, DirectoryTyped DEF SessionInv, TypeOK
<1>5. state \in States
  BY DEF SessionInv, TypeOK
<1>6. state' \in States /\ state'.cursor = state.cursor + 1
  BY <1>1, <1>3, <1>5, CarriedForward
<1>7. TypeOK'
  BY <1>1, <1>4, <1>6 DEF SessionInv, TypeOK
<1>8. command.from \in Nat /\ state.cursor >= command.from
  BY <1>1 DEF SessionInv, TypeOK, Planned, Active
<1>9. state'.cursor >= command.from /\ state'.cursor <= Len(periods)
  BY <1>2, <1>3, <1>6, <1>8
<1>10. Planned'
  BY <1>1, <1>9 DEF SessionInv, Planned, Active
<1> QED BY <1>7, <1>10 DEF SessionInv

LEMMA SavingKeeps ==
  ASSUME SessionInv, AllGenerated \/ Truncate PROVE SessionInv'
<1>1. TypeOK'
  BY DEF AllGenerated, Truncate, session, SessionInv, TypeOK
<1>2. Planned'
  BY DEF AllGenerated, Truncate, session, SessionInv, Planned, Active
<1> QED BY <1>1, <1>2 DEF SessionInv

LEMMA WriteKeeps ==
  ASSUME SessionInv, Write PROVE SessionInv'
<1>1. /\ pc = "truncated" /\ file' = "saved" /\ disk' = disk /\ End("done")
      /\ saved' = [state |-> state, config |-> command.config]
  BY DEF Write
<1>2. command.config \in Configs /\ state \in States /\ periods \in Seq(Periods)
  BY DEF SessionInv, TypeOK
<1>3. /\ saved' \in [state : States, config : Configs]
      /\ saved'.state = state /\ saved'.config = command.config
  BY <1>1, <1>2
<1>4. state.cursor >= Len(periods) /\ state.cursor \in Nat
  BY <1>1, <1>2 DEF SessionInv, Planned, States
<1>5. Len(periods) >= Len(BasePlan(command.config))
  <2>1. periods \in Plans(command.config)
    BY <1>1 DEF SessionInv, Planned, Active, Plans, Extended
  <2>2. Len(BasePlan(command.config)) \in Nat
    BY <1>2, BasePlanTyped
  <2>3. ASSUME NEW m \in AppendMonths, periods = Extended(command.config, m)
        PROVE  Len(periods) >= Len(BasePlan(command.config))
    <3>1. Len(DeltaPlan(command.config, m)) \in Nat
      BY <1>2, DeltaPlanTyped
    <3> QED BY <1>2, <2>2, <2>3, <3>1, ExtendedAt
  <2> QED BY <2>1, <2>2, <2>3 DEF Plans
<1>6. Len(periods) \in Nat /\ Len(BasePlan(command.config)) \in Nat
  BY <1>2, LenProperties, BasePlanTyped
<1>7. saved'.state.cursor >= Len(BasePlan(saved'.config))
  BY <1>3, <1>4, <1>5, <1>6
<1> QED BY <1>1, <1>3, <1>7, CommandEnds DEF Answers

LEMMA SessionInvInit == Init => SessionInv
<1> SUFFICES ASSUME Init PROVE SessionInv
  OBVIOUS
<1>1. <<>> \in Seq(Periods)
  BY EmptySeq
<1>2. TypeOK
  BY <1>1, FreshTyped DEF Init, TypeOK
<1>3. Planned
  BY DEF Init, Planned, Active
<1> QED BY <1>2, <1>3 DEF SessionInv

LEMMA SessionInvNext == SessionInv /\ [Next]_vars => SessionInv'
<1> SUFFICES ASSUME SessionInv, [Next]_vars PROVE SessionInv'
  OBVIOUS
<1>1. ASSUME NEW c \in Configs, Generate(c) PROVE SessionInv'
  BY <1>1, GenerateKeeps
<1>2. ASSUME NEW c \in Configs, NEW m \in AppendMonths, Resume(c, m) PROVE SessionInv'
  BY <1>2, ResumeKeeps
<1>3. CASE StandardDone \/ AppendImpossible \/ FailOrDie \/ \E c \in Configs : ConfigRefused(c)
  BY <1>3, EndsKeep
<1>4. CASE BeginPeriod
  BY <1>4, BeginPeriodKeeps
<1>5. CASE FinishPeriod
  BY <1>5, FinishPeriodKeeps
<1>6. CASE AllGenerated \/ Truncate
  BY <1>6, SavingKeeps
<1>7. CASE Write
  BY <1>7, WriteKeeps
<1>8. CASE UNCHANGED vars
  <2>1. UNCHANGED <<pc, command, periods, state, disk, file, saved, answer>>
    BY <1>8 DEF vars, session
  <2>2. TypeOK'
    BY <2>1 DEF SessionInv, TypeOK
  <2>3. Planned'
    BY <2>1 DEF SessionInv, Planned, Active
  <2> QED BY <2>2, <2>3 DEF SessionInv
<1> QED BY <1>1, <1>2, <1>3, <1>4, <1>5, <1>6, <1>7, <1>8 DEF Next, Work

(* Whatever fails or dies, a session has the plan of its command, and a    *)
(* checkpoint is past the periods of its config.                           *)
THEOREM SessionInvariant == Spec => []SessionInv
<1> QED BY SessionInvInit, SessionInvNext, PTL DEF Spec

(* Every variable keeps its type: a period is found at the cursor, the log *)
(* and the balances stay numbers.                                          *)
THEOREM SessionTypeCorrect == Spec => []TypeOK
<1>1. SessionInv => TypeOK
  BY DEF SessionInv
<1> QED BY <1>1, SessionInvariant, PTL

(* The periods of a new session follow one another without gap or overlap  *)
(* from the first day of the span; they never reach past it, and they end  *)
(* on its last day if every month has the day that the span begins on.     *)
THEOREM PlansCoverTheirSpans == Spec => []PlanCoversSpan
<1>1. ASSUME NEW c \in Configs PROVE Covers(BasePlan(c), c.start, AddMonths(c.start, c.total))
  <2>1. c.start \in Dates /\ c.total \in Nat \ {0} /\ c.fiscalYear \in Nat \ {0} /\ 0 \in Nat
    BY ConfigFields
  <2> QED BY <2>1, PlanFollowsSpan DEF BasePlan
<1>2. SessionInv => PlanCoversSpan
  <2> SUFFICES ASSUME SessionInv, command.kind = "generate", periods # <<>>
               PROVE  PlanCoversSpan
    BY DEF PlanCoversSpan
  <2>1. Active
    BY FreshTyped DEF SessionInv, TypeOK, Planned, Active
  <2>2. periods = BasePlan(command.config) /\ command.config \in Configs
    BY <2>1 DEF SessionInv, TypeOK, Planned
  <2> QED BY <1>1, <2>2 DEF PlanCoversSpan
<1> QED BY <1>2, SessionInvariant, PTL
-----------------------------------------------------------------------------
(* The net of a sequence of periods: the table that NetOf looks it up in   *)
(* exists and is the same for all plans that agree.                        *)

(* f is the table of the nets of up to m periods of ps. *)
IsNet(f, c, ps, m) ==
  f = [n \in 0..m |-> IF n = 0 THEN 0 ELSE f[n - 1] + Income(c, ps[n])]

LEMMA NetTableExists ==
  ASSUME NEW c, NEW ps PROVE \A m \in Nat : \E f : IsNet(f, c, ps, m)
<1> DEFINE T == {m \in Nat : \A f : ~IsNet(f, c, ps, m)}
<1> SUFFICES ASSUME T # {} PROVE FALSE
  OBVIOUS
<1>1. PICK m \in T : \A j \in T : m <= j
  <2>1. T \in SUBSET Nat
    OBVIOUS
  <2> HIDE DEF T
  <2> QED BY <2>1, LeastNumber
<1>2. m \in Nat /\ \A f : ~IsNet(f, c, ps, m)
  OBVIOUS
<1>3. m # 0
  <2> DEFINE g == [n \in 0..0 |-> 0]
  <2>1. IsNet(g, c, ps, 0)
    BY DEF IsNet
  <2> QED BY <1>2, <2>1
<1>4. PICK f : IsNet(f, c, ps, m - 1)
  <2>1. m - 1 \in Nat /\ ~(m <= m - 1)
    BY <1>2, <1>3
  <2>2. m - 1 \notin T
    BY <1>1, <2>1
  <2> QED BY <2>1, <2>2
<1> DEFINE g == [n \in 0..m |-> IF n = 0 THEN 0 ELSE f[n - 1] + Income(c, ps[n])]
<1>5. \A n \in 0..(m - 1) : g[n] = f[n]
  <2> SUFFICES ASSUME NEW n \in 0..(m - 1) PROVE g[n] = f[n]
    OBVIOUS
  <2>1. n \in 0..m
    BY <1>2
  <2>2. g[n] = IF n = 0 THEN 0 ELSE f[n - 1] + Income(c, ps[n])
    BY <2>1
  <2> HIDE DEF g
  <2>3. f[n] = IF n = 0 THEN 0 ELSE f[n - 1] + Income(c, ps[n])
    BY <1>4, Zenon DEF IsNet
  <2> QED BY <2>2, <2>3
<1>6. ASSUME NEW n \in 0..m
      PROVE  (IF n = 0 THEN 0 ELSE f[n - 1] + Income(c, ps[n]))
               = IF n = 0 THEN 0 ELSE g[n - 1] + Income(c, ps[n])
  <2> HIDE DEF g
  <2>1. CASE n = 0
    BY <2>1
  <2>2. CASE n # 0
    <3>1. n - 1 \in 0..(m - 1)
      BY <1>2, <2>2
    <3> QED BY <1>5, <3>1
  <2> QED BY <2>1, <2>2
<1>7. g = [n \in 0..m |-> IF n = 0 THEN 0 ELSE g[n - 1] + Income(c, ps[n])]
  BY <1>6, Zenon
<1> QED BY <1>2, <1>7, Zenon DEF IsNet

LEMMA NetTablesAgree ==
  ASSUME NEW c, NEW ps, NEW qs, NEW f, NEW g, NEW a \in Nat, NEW b \in Nat, NEW k \in Nat,
         IsNet(f, c, ps, a), IsNet(g, c, qs, b), k <= a, k <= b,
         \A i \in 1..k : ps[i] = qs[i]
  PROVE  f[k] = g[k]
<1>1. \A n \in 0..a : f[n] = IF n = 0 THEN 0 ELSE f[n - 1] + Income(c, ps[n])
  BY Zenon DEF IsNet
<1>2. \A n \in 0..b : g[n] = IF n = 0 THEN 0 ELSE g[n - 1] + Income(c, qs[n])
  BY Zenon DEF IsNet
<1> DEFINE T == {n \in 0..k : f[n] # g[n]}
<1> SUFFICES ASSUME T # {} PROVE FALSE
  BY k \in 0..k
<1>3. PICK n \in T : \A j \in T : n <= j
  <2>1. T \in SUBSET Nat
    OBVIOUS
  <2> HIDE DEF T
  <2> QED BY <2>1, LeastNumber
<1>4. n \in 0..k /\ f[n] # g[n] /\ n \in 0..a /\ n \in 0..b
  OBVIOUS
<1>5. n # 0
  BY <1>1, <1>2, <1>4
<1>6. n - 1 \in 0..k /\ ~(n <= n - 1) /\ n \in 1..k
  BY <1>4, <1>5
<1>7. f[n - 1] = g[n - 1]
  BY <1>3, <1>6
<1>8. f[n] = f[n - 1] + Income(c, ps[n]) /\ g[n] = g[n - 1] + Income(c, qs[n])
  BY Zenon, <1>1, <1>2, <1>4, <1>5
<1>9. ps[n] = qs[n]
  BY <1>6
<1> QED BY Zenon, <1>4, <1>7, <1>8, <1>9

LEMMA NetOfIsLookup ==
  ASSUME NEW c, NEW ps, NEW k \in Nat
  PROVE  \E f : IsNet(f, c, ps, k) /\ NetOf(c, ps, k) = f[k]
<1> DEFINE net == CHOOSE f : IsNet(f, c, ps, k)
<1>1. IsNet(net, c, ps, k)
  BY Zenon, NetTableExists
<1>2. NetOf(c, ps, k) = net[k]
  BY Zenon DEF NetOf, IsNet
<1> QED BY <1>1, <1>2

(* The net of nothing, and of a period more. *)
LEMMA NetOfGrows ==
  ASSUME NEW c, NEW ps
  PROVE  /\ NetOf(c, ps, 0) = 0
         /\ \A k \in Nat : NetOf(c, ps, k + 1) = NetOf(c, ps, k) + Income(c, ps[k + 1])
<1>1. NetOf(c, ps, 0) = 0
  <2>1. PICK f : IsNet(f, c, ps, 0) /\ NetOf(c, ps, 0) = f[0]
    BY NetOfIsLookup
  <2>2. f[0] = IF 0 = 0 THEN 0 ELSE f[0 - 1] + Income(c, ps[0])
    <3>1. 0 \in 0..0
      OBVIOUS
    <3> QED BY Zenon, <2>1, <3>1 DEF IsNet
  <2> QED BY <2>1, <2>2
<1>2. ASSUME NEW k \in Nat
      PROVE  NetOf(c, ps, k + 1) = NetOf(c, ps, k) + Income(c, ps[k + 1])
  <2>1. PICK f : IsNet(f, c, ps, k) /\ NetOf(c, ps, k) = f[k]
    BY NetOfIsLookup
  <2>2. k + 1 \in Nat /\ k <= k + 1 /\ k <= k /\ k + 1 \in 0..(k + 1) /\ k + 1 # 0 /\ (k + 1) - 1 = k
    OBVIOUS
  <2>3. PICK g : IsNet(g, c, ps, k + 1) /\ NetOf(c, ps, k + 1) = g[k + 1]
    BY <2>2, NetOfIsLookup
  <2>4. f[k] = g[k]
    BY <2>1, <2>2, <2>3, NetTablesAgree
  <2>5. g[k + 1] = IF k + 1 = 0 THEN 0 ELSE g[(k + 1) - 1] + Income(c, ps[k + 1])
    BY Zenon, <2>2, <2>3 DEF IsNet
  <2> QED BY <2>1, <2>2, <2>3, <2>4, <2>5
<1> QED BY <1>1, <1>2

LEMMA NetOfAgrees ==
  ASSUME NEW c, NEW ps, NEW qs, NEW k \in Nat, \A i \in 1..k : ps[i] = qs[i]
  PROVE  NetOf(c, ps, k) = NetOf(c, qs, k)
<1>1. PICK f : IsNet(f, c, ps, k) /\ NetOf(c, ps, k) = f[k]
  BY NetOfIsLookup
<1>2. PICK g : IsNet(g, c, qs, k) /\ NetOf(c, qs, k) = g[k]
  BY NetOfIsLookup
<1>3. f[k] = g[k]
  <2>1. k <= k
    OBVIOUS
  <2> QED BY <1>1, <1>2, <2>1, NetTablesAgree
<1> QED BY <1>1, <1>2, <1>3
-----------------------------------------------------------------------------
(* What is in memory and what is in session.dss describe the periods they  *)
(* are said to be of.  resume plans anew, with the months of this append:  *)
(* the state then describes the periods of the new plan only if those it   *)
(* has counted are the same in both, as they are when all appends are as   *)
(* long as each other or whole fiscal years.                               *)
InYears(months, fy) == months % fy = 0
AppendsAgree ==
  \A c \in Configs : \A m, n \in AppendMonths :
    m = n \/ (InYears(m, c.fiscalYear) /\ InYears(n, c.fiscalYear))

YearOf(first, start, fy, i) ==
  [index |-> first + i - 1, start |-> PeriodStart(start, fy, i), months |-> fy]

LEMMA WholeYears ==
  ASSUME NEW total \in Nat \ {0}, NEW fy \in Nat \ {0}, InYears(total, fy),
         NEW i \in 1..PeriodCount(total, fy)
  PROVE  Before(i, fy) + fy <= total
<1> DEFINE q == total \div fy
<1>1. q \in Int /\ total = fy * q
  <2> DEFINE r == total % fy
  <2>1. q \in Int /\ r \in 0..(fy - 1) /\ total = fy * q + r
    OBVIOUS
  <2> HIDE DEF q
  <2>2. r = 0
    BY DEF InYears
  <2>3. fy * q \in Int
    BY <2>1
  <2> QED BY <2>1, <2>2, <2>3
<1> HIDE DEF q
<1>2. Before(i, fy) \in Nat /\ Before(i, fy) < total /\ i \in Nat \ {0}
  BY PeriodsCoverTotal
<1>3. i - 1 \in Nat /\ (i - 1) * fy = fy * (i - 1) /\ fy * (i - 1) \in Nat
  BY <1>2, ProductOfNats
<1>4. fy * q \in Int
  BY <1>1
<1>5. i - 1 < q
  <2> SUFFICES ASSUME q <= i - 1 PROVE FALSE
    BY <1>1, <1>3
  <2>1. fy * q <= fy * (i - 1)
    <3>1. CASE q = i - 1
      BY <1>4, <3>1
    <3>2. CASE q < i - 1
      <4>1. fy * q + fy <= fy * (i - 1)
        BY <1>1, <1>3, <3>2, ProductGrows
      <4> QED BY <1>3, <1>4, <4>1
    <3> QED BY <1>1, <1>3, <3>1, <3>2
  <2> QED BY <1>1, <1>2, <1>3, <1>4, <2>1 DEF Before
<1>6. fy * (i - 1) + fy <= fy * q
  BY <1>1, <1>3, <1>5, ProductGrows
<1> QED BY <1>1, <1>3, <1>6 DEF Before

LEMMA YearsOnly ==
  ASSUME NEW first \in Nat, NEW start \in Dates, NEW total \in Nat \ {0}, NEW fy \in Nat \ {0},
         InYears(total, fy), NEW i \in 1..PeriodCount(total, fy)
  PROVE  Plan(first, start, total, fy)[i] = YearOf(first, start, fy, i)
<1>1. Plan(first, start, total, fy)[i] = PeriodOf(first, start, total, fy, i)
  BY PlanPeriods
<1>2. MinOf(fy, total - Before(i, fy)) = fy
  <2>1. Before(i, fy) \in Nat
    BY PeriodsCoverTotal
  <2>2. Before(i, fy) + fy <= total
    BY WholeYears
  <2> QED BY <2>1, <2>2 DEF MinOf
<1> QED BY Zenon, <1>1, <1>2 DEF PeriodOf, YearOf

(* Plans that are the same as far as both go. *)
Agree(ps, qs) == \A i \in 1..Len(ps) : i <= Len(qs) => ps[i] = qs[i]

LEMMA YearPlansAgree ==
  ASSUME NEW first \in Nat, NEW start \in Dates, NEW m \in Nat \ {0}, NEW n \in Nat \ {0},
         NEW fy \in Nat \ {0}
  PROVE  InYears(m, fy) /\ InYears(n, fy) => Agree(Plan(first, start, m, fy), Plan(first, start, n, fy))
<1>1. Len(Plan(first, start, m, fy)) = PeriodCount(m, fy)
  BY PlanLength
<1>2. Len(Plan(first, start, n, fy)) = PeriodCount(n, fy)
  BY PlanLength
<1> SUFFICES ASSUME InYears(m, fy), InYears(n, fy)
             PROVE  Agree(Plan(first, start, m, fy), Plan(first, start, n, fy))
  OBVIOUS
<1>3. ASSUME NEW i \in 1..PeriodCount(m, fy)
      PROVE  Plan(first, start, m, fy)[i] = YearOf(first, start, fy, i)
  BY YearsOnly
<1>4. ASSUME NEW i \in 1..PeriodCount(n, fy)
      PROVE  Plan(first, start, n, fy)[i] = YearOf(first, start, fy, i)
  BY YearsOnly
<1>5. ASSUME NEW i \in 1..PeriodCount(m, fy), i <= PeriodCount(n, fy)
      PROVE  Plan(first, start, m, fy)[i] = Plan(first, start, n, fy)[i]
  <2>1. PeriodCount(n, fy) \in Nat /\ PeriodCount(m, fy) \in Nat
    BY PeriodsCoverTotal
  <2>2. i \in 1..PeriodCount(n, fy)
    BY <1>5, <2>1
  <2> QED BY Zenon, <1>3, <1>4, <2>2
<1> QED BY Zenon, <1>1, <1>2, <1>5 DEF Agree

(* Appended periods of two lengths agree, if the lengths do. *)
LEMMA DeltasAgree ==
  ASSUME AppendsAgree, NEW c \in Configs, NEW m \in AppendMonths, NEW n \in AppendMonths
  PROVE  Agree(DeltaPlan(c, m), DeltaPlan(c, n))
<1>1. CASE m = n
  BY <1>1 DEF Agree
<1>2. CASE InYears(m, c.fiscalYear) /\ InYears(n, c.fiscalYear)
  <2> DEFINE b == Len(BasePlan(c))
             st == DeltaStart(c)
             fy == c.fiscalYear
  <2>1. b \in Nat /\ st \in Dates /\ m \in Nat \ {0} /\ n \in Nat \ {0} /\ fy \in Nat \ {0}
    BY DeltaIsPlan
  <2>2. InYears(m, fy) /\ InYears(n, fy)
    BY <1>2
  <2>3. DeltaPlan(c, m) = Plan(b, st, m, fy) /\ DeltaPlan(c, n) = Plan(b, st, n, fy)
    BY DeltaIsPlan
  <2> HIDE DEF b, st, fy
  <2>4. Agree(Plan(b, st, m, fy), Plan(b, st, n, fy))
    BY <2>1, <2>2, YearPlansAgree
  <2> QED BY Zenon, <2>3, <2>4
<1> QED BY <1>1, <1>2 DEF AppendsAgree

LEMMA PlansAgree ==
  ASSUME AppendsAgree, NEW c \in Configs, NEW ps \in Plans(c), NEW qs \in Plans(c)
  PROVE  Agree(ps, qs)
<1> DEFINE base == BasePlan(c)
<1>1. base \in Seq(Periods) /\ Len(base) \in Nat
  BY BasePlanTyped
<1>2. ASSUME NEW m \in AppendMonths
      PROVE  /\ Len(Extended(c, m)) \in Nat /\ Len(base) <= Len(Extended(c, m))
             /\ \A i \in 1..Len(base) : Extended(c, m)[i] = base[i]
  <2>1. /\ Len(Extended(c, m)) = Len(base) + Len(DeltaPlan(c, m))
        /\ \A i \in 1..Len(Extended(c, m)) :
              Extended(c, m)[i] = IF i <= Len(base) THEN base[i] ELSE DeltaPlan(c, m)[i - Len(base)]
    BY ExtendedAt
  <2>2. Len(DeltaPlan(c, m)) \in Nat
    BY DeltaPlanTyped
  <2> HIDE DEF base
  <2> QED BY <1>1, <2>1, <2>2
<1>3. CASE ps = base /\ qs = base
  BY <1>3 DEF Agree
<1>4. ASSUME NEW m \in AppendMonths PROVE Agree(base, Extended(c, m)) /\ Agree(Extended(c, m), base)
  <2> DEFINE ext == Extended(c, m)
  <2>1. Len(ext) \in Nat /\ Len(base) <= Len(ext) /\ \A i \in 1..Len(base) : ext[i] = base[i]
    BY <1>2
  <2> HIDE DEF ext, base
  <2>2. Agree(base, ext)
    BY <1>1, <2>1 DEF Agree
  <2>3. Agree(ext, base)
    <3> SUFFICES ASSUME NEW i \in 1..Len(ext), i <= Len(base) PROVE ext[i] = base[i]
      BY DEF Agree
    <3>1. i \in 1..Len(base)
      BY <1>1, <2>1
    <3> QED BY <2>1, <3>1
  <2> QED BY <2>2, <2>3 DEF ext, base
<1>5. ASSUME NEW m \in AppendMonths, NEW n \in AppendMonths
      PROVE  Agree(Extended(c, m), Extended(c, n))
  <2> SUFFICES ASSUME NEW i \in 1..Len(Extended(c, m)), i <= Len(Extended(c, n))
               PROVE  Extended(c, m)[i] = Extended(c, n)[i]
    BY DEF Agree
  <2>1. CASE i <= Len(base)
    <3>1. i \in 1..Len(base)
      BY <1>1, <1>2, <2>1
    <3> QED BY <1>2, <3>1
  <2>2. CASE ~(i <= Len(base))
    <3>1. /\ Len(Extended(c, m)) = Len(base) + Len(DeltaPlan(c, m))
          /\ Len(Extended(c, n)) = Len(base) + Len(DeltaPlan(c, n))
          /\ Len(DeltaPlan(c, m)) \in Nat /\ Len(DeltaPlan(c, n)) \in Nat
      BY ExtendedAt, DeltaPlanTyped
    <3>2. /\ i \in 1..Len(Extended(c, n))
          /\ i - Len(base) \in 1..Len(DeltaPlan(c, m)) /\ i - Len(base) <= Len(DeltaPlan(c, n))
      BY <1>1, <2>2, <3>1
    <3>3. Extended(c, m)[i] = DeltaPlan(c, m)[i - Len(base)]
      BY <2>2, ExtendedAt
    <3>4. Extended(c, n)[i] = DeltaPlan(c, n)[i - Len(base)]
      BY <2>2, <3>2, ExtendedAt
    <3>5. DeltaPlan(c, m)[i - Len(base)] = DeltaPlan(c, n)[i - Len(base)]
      BY <3>2, DeltasAgree DEF Agree
    <3> QED BY <3>3, <3>4, <3>5
  <2> QED BY <2>1, <2>2
<1> QED BY <1>3, <1>4, <1>5 DEF Plans

DescribesAll(s, c) == \A ps \in Plans(c) : Describes(s, c, ps)
DescribesInv ==
  /\ Active => DescribesAll(state, command.config)
  /\ file = "saved" => DescribesAll(saved.state, saved.config)

LEMMA FreshDescribes ==
  ASSUME NEW c \in Configs PROVE DescribesAll(Fresh, c)
<1> SUFFICES ASSUME NEW ps \in Plans(c) PROVE Describes(Fresh, c, ps)
  BY DEF DescribesAll
<1>1. Fresh.cursor = 0 /\ Fresh.balance = 0 /\ Fresh.nextPo = 0 /\ Fresh.log = <<>>
  BY FreshTyped
<1>2. Len(<<>>) = 0 /\ 0 = 0 * PurchaseOrders
  OBVIOUS
<1>3. <<>> = [i \in 1..0 |-> Label(ps[i])]
  OBVIOUS
<1>4. NetOf(c, ps, 0) = 0
  BY NetOfGrows
<1> QED BY Zenon, <1>1, <1>2, <1>3, <1>4 DEF Describes

(* The log of a period more. *)
LEMMA LogGrows ==
  ASSUME NEW log \in Seq(Nat), NEW k \in Nat, NEW qs, NEW label \in Nat,
         log = [i \in 1..k |-> Label(qs[i])], label = Label(qs[k + 1])
  PROVE  Append(log, label) = [i \in 1..(k + 1) |-> Label(qs[i])]
<1>1. Len(log) = k
  <2>1. DOMAIN log = 1..k
    OBVIOUS
  <2>2. Len(log) \in Nat /\ DOMAIN log = 1..Len(log)
    BY LenProperties
  <2> QED BY <2>1, <2>2
<1>2. \A i \in 1..k : log[i] = Label(qs[i])
  OBVIOUS
<1>3. /\ Append(log, label) \in Seq(Nat) /\ Len(Append(log, label)) = Len(log) + 1
      /\ \A i \in 1..Len(log) : Append(log, label)[i] = log[i]
      /\ Append(log, label)[Len(log) + 1] = label
  BY AppendProperties
<1> DEFINE new == Append(log, label)
<1> HIDE DEF new
<1>4. ASSUME NEW i \in 1..(k + 1) PROVE new[i] = Label(qs[i])
  <2>1. CASE i \in 1..k
    BY <1>1, <1>2, <1>3, <2>1 DEF new
  <2>2. CASE i = k + 1
    BY <1>1, <1>3, <2>2 DEF new
  <2> QED BY <2>1, <2>2
<1>5. DOMAIN new = 1..(k + 1) /\ new \in Seq(Nat)
  BY <1>1, <1>3, LenProperties DEF new
<1>6. new = [i \in DOMAIN new |-> new[i]]
  BY <1>5, SeqDef
<1> QED BY <1>4, <1>5, <1>6 DEF new

LEMMA CarryDescribes ==
  ASSUME AppendsAgree, NEW s \in States, NEW c \in Configs, NEW ps \in Plans(c),
         s.cursor < Len(ps), DescribesAll(s, c)
  PROVE  DescribesAll(CarryForward(s, c, ps[s.cursor + 1]), c)
<1> SUFFICES ASSUME NEW qs \in Plans(c)
             PROVE  Describes(CarryForward(s, c, ps[s.cursor + 1]), c, qs)
  BY DEF DescribesAll
<1> DEFINE k == s.cursor
           p == ps[k + 1]
           t == CarryForward(s, c, p)
<1>1. k \in Nat /\ s.log \in Seq(Nat) /\ s.nextPo \in Nat /\ s.balance \in Nat
  BY DEF States
<1>2. ps \in Seq(Periods) /\ Len(ps) \in Nat /\ Len(qs) \in Nat
  BY PlansTyped
<1>3. k + 1 \in 1..Len(ps)
  BY <1>1, <1>2
<1>4. p \in Periods
  BY <1>2, <1>3, LenProperties
<1>5. /\ t.cursor = k + 1 /\ t.nextPo = s.nextPo + PurchaseOrders
      /\ t.log = Append(s.log, Label(p)) /\ t.balance = s.balance + Income(c, p)
  BY <1>4, CarriedForward
<1>6. Describes(s, c, qs)
  BY DEF DescribesAll
<1> HIDE DEF k, t, p
<1>7. Len(t.log) = t.cursor
  <2>1. Len(s.log) = k
    BY <1>6 DEF Describes, k
  <2>2. Len(Append(s.log, Label(p))) = Len(s.log) + 1
    BY <1>1, <1>4, LabelIsNat, AppendProperties
  <2> QED BY <1>5, <2>1, <2>2
<1>8. t.nextPo = t.cursor * PurchaseOrders
  <2>1. s.nextPo = k * PurchaseOrders
    BY <1>6 DEF Describes, k
  <2>2. (k + 1) * PurchaseOrders = k * PurchaseOrders + 1 * PurchaseOrders
    BY <1>1, ProductOfSum
  <2>3. 1 * PurchaseOrders = PurchaseOrders
    OBVIOUS
  <2> QED BY Zenon, <1>5, <2>1, <2>2, <2>3
<1>9. ASSUME t.cursor <= Len(qs)
      PROVE  /\ t.log = [i \in 1..t.cursor |-> Label(qs[i])]
             /\ t.balance = NetOf(c, qs, t.cursor)
  <2>1. k <= Len(qs) /\ k + 1 <= Len(qs)
    BY <1>1, <1>2, <1>5, <1>9
  <2>2. p = qs[k + 1]
    <3>1. Agree(ps, qs)
      BY PlansAgree
    <3> QED BY <1>3, <2>1, <3>1 DEF Agree, p
  <2>3. s.log = [i \in 1..k |-> Label(qs[i])] /\ s.balance = NetOf(c, qs, k)
    BY <1>6, <2>1 DEF Describes, k
  <2>4. Label(p) \in Nat /\ Label(p) = Label(qs[k + 1])
    BY <1>4, <2>2, LabelIsNat
  <2>5. Append(s.log, Label(p)) = [i \in 1..(k + 1) |-> Label(qs[i])]
    <3> DEFINE log == s.log
               label == Label(p)
    <3>1. log \in Seq(Nat) /\ label \in Nat /\ label = Label(qs[k + 1])
      BY <1>1, <2>4
    <3>2. log = [i \in 1..k |-> Label(qs[i])]
      BY Zenon, <2>3
    <3> HIDE DEF log, label
    <3>3. Append(log, label) = [i \in 1..(k + 1) |-> Label(qs[i])]
      BY <1>1, <3>1, <3>2, LogGrows
    <3> QED BY <3>3 DEF log, label
  <2>6. NetOf(c, qs, k + 1) = NetOf(c, qs, k) + Income(c, qs[k + 1])
    BY <1>1, NetOfGrows
  <2>7. t.balance = NetOf(c, qs, k + 1)
    BY Zenon, <1>5, <2>2, <2>3, <2>6
  <2> QED BY Zenon, <1>5, <2>5, <2>7
<1>10. Describes(t, c, qs)
  BY Zenon, <1>7, <1>8, <1>9 DEF Describes
<1> QED BY <1>10 DEF t, p, k

(* What a session writes into its state and into session.dss. *)
LEMMA PlanInMemory ==
  ASSUME SessionInv, Active
  PROVE  periods \in Plans(command.config) /\ command.config \in Configs /\ state \in States
BY DEF SessionInv, TypeOK, Planned, Plans, Extended

LEMMA EndDescribes ==
  ASSUME DescribesInv, NEW how, End(how), UNCHANGED <<file, saved>>
  PROVE  DescribesInv'
BY DEF DescribesInv, End, Active

LEMMA BeginDescribes ==
  ASSUME DescribesInv, NEW kind, NEW c, NEW plan, NEW s, Start(kind, c, plan, s),
         UNCHANGED <<file, saved>>, DescribesAll(s, c)
  PROVE  DescribesInv'
<1>1. state' = s /\ command'.config = c
  BY DEF Start
<1> QED BY <1>1 DEF DescribesInv

LEMMA DescribesNext ==
  ASSUME AppendsAgree, SessionInv, DescribesInv, [Next]_vars PROVE DescribesInv'
<1>1. ASSUME NEW c \in Configs, Generate(c) PROVE DescribesInv'
  <2>1. CASE c.fiscalYear < c.total
    <3>1. Start("generate", c, BasePlan(c), Fresh) /\ UNCHANGED <<file, saved>>
      BY <1>1, <2>1 DEF Generate
    <3> QED BY <3>1, FreshDescribes, BeginDescribes
  <2>2. CASE ~(c.fiscalYear < c.total)
    BY <1>1, <2>2 DEF Generate, DescribesInv, Active
  <2> QED BY <2>1, <2>2
<1>2. ASSUME NEW c \in Configs, NEW m \in AppendMonths, Resume(c, m) PROVE DescribesInv'
  <2>1. /\ Start("append", c, BasePlan(c) \o DeltaPlan(c, m), saved.state)
        /\ file = "saved" /\ c = saved.config /\ UNCHANGED <<file, saved>>
    BY <1>2 DEF Resume, HashMayMatch
  <2>2. DescribesAll(saved.state, c)
    BY <2>1 DEF DescribesInv
  <2> QED BY <2>1, <2>2, BeginDescribes
<1>3. CASE StandardDone \/ AppendImpossible \/ FailOrDie \/ \E c \in Configs : ConfigRefused(c)
  <2>1. \E how \in Answers : End(how)
    BY <1>3 DEF StandardDone, AppendImpossible, FailOrDie, ConfigRefused, Answers
  <2>2. UNCHANGED <<file, saved>>
    BY <1>3 DEF StandardDone, AppendImpossible, FailOrDie, ConfigRefused
  <2> QED BY <2>1, <2>2, EndDescribes
<1>4. CASE BeginPeriod \/ AllGenerated \/ Truncate
  <2>1. Active /\ UNCHANGED <<command, state>> /\ (file' = "saved" => file = "saved") /\ saved' = saved
    BY <1>4 DEF BeginPeriod, AllGenerated, Truncate, session, Active
  <2> QED BY <2>1 DEF DescribesInv
<1>5. CASE FinishPeriod
  <2>1. /\ pc = "writing" /\ state' = CarryForward(state, command.config, periods[state.cursor + 1])
        /\ UNCHANGED <<command, periods, file, saved>>
    BY <1>5 DEF FinishPeriod, Period
  <2>2. Active /\ state.cursor < Len(periods) /\ DescribesAll(state, command.config)
    BY <2>1 DEF SessionInv, Planned, Active, DescribesInv
  <2>3. periods \in Plans(command.config) /\ command.config \in Configs /\ state \in States
    BY <2>2, PlanInMemory
  <2>4. DescribesAll(state', command.config)
    BY <2>1, <2>2, <2>3, CarryDescribes
  <2> QED BY <2>1, <2>4 DEF DescribesInv
<1>6. CASE Write
  <2>1. /\ pc = "truncated" /\ End("done")
        /\ saved' = [state |-> state, config |-> command.config]
    BY <1>6 DEF Write
  <2>2. Active /\ ~Active'
    BY <2>1 DEF End, Active
  <2>3. saved'.state = state /\ saved'.config = command.config
    BY <2>1
  <2> QED BY <2>2, <2>3 DEF DescribesInv
<1>7. CASE UNCHANGED vars
  BY <1>7 DEF vars, session, DescribesInv, Active
<1> QED BY <1>1, <1>2, <1>3, <1>4, <1>5, <1>6, <1>7 DEF Next, Work

(* Whatever was interrupted or repeated, session.dss and the state in      *)
(* memory describe one run over the first cursor periods, if the appends   *)
(* agree on the periods that both would add.                               *)
THEOREM StateIsOfItsPeriods ==
  ASSUME AppendsAgree PROVE Spec => []StateDescribesPeriods
<1>1. Init => DescribesInv
  BY DEF Init, DescribesInv, Active
<1>2. SessionInv /\ DescribesInv /\ [Next]_vars => DescribesInv'
  BY DescribesNext
<1>3. SessionInv /\ DescribesInv => StateDescribesPeriods
  <2> SUFFICES ASSUME SessionInv, DescribesInv PROVE StateDescribesPeriods
    OBVIOUS
  <2>1. Active => Describes(state, command.config, periods)
    BY PlanInMemory DEF DescribesInv, DescribesAll
  <2>2. file = "saved" => Describes(saved.state, saved.config, BasePlan(saved.config))
    BY DEF DescribesInv, DescribesAll, Plans
  <2> QED BY <2>1, <2>2 DEF StateDescribesPeriods, Active
<1> QED BY <1>1, <1>2, <1>3, SessionInvariant, PTL DEF Spec
-----------------------------------------------------------------------------
(* The directories.  With periods shorter than a year two of them may      *)
(* begin in one year and share a directory; with years they do not, and    *)
(* what a period has written no later one overwrites.                      *)

LEMMA YearsApart ==
  ASSUME NEW m \in Nat, NEW fy \in Nat \ {0}, fy >= 12,
         NEW i \in Nat \ {0}, NEW j \in Nat \ {0}, i < j
  PROVE  (m + Before(i, fy)) \div 12 < (m + Before(j, fy)) \div 12
<1>1. Before(i, fy) \in Nat /\ Before(j, fy) \in Nat
  BY BeforeGrows
<1>2. Before(i, fy) + 12 <= Before(j, fy)
  <2>1. /\ (i - 1) \in Nat /\ (j - 1) \in Nat /\ i - 1 < j - 1
    OBVIOUS
  <2>2. fy * (i - 1) + fy <= fy * (j - 1)
    BY <2>1, ProductGrows
  <2>3. (i - 1) * fy = fy * (i - 1) /\ (j - 1) * fy = fy * (j - 1)
    BY <2>1, ProductOfNats
  <2>4. Before(i, fy) = fy * (i - 1) /\ Before(j, fy) = fy * (j - 1)
    BY Zenon, <2>3 DEF Before
  <2> HIDE DEF Before
  <2> QED BY <1>1, <2>2, <2>4
<1> DEFINE s == m + Before(i, fy)
           t == m + Before(j, fy)
<1>3. s \in Nat /\ t \in Nat /\ s + 12 <= t
  BY <1>1, <1>2
<1> HIDE DEF s, t
<1>4. s \div 12 < t \div 12
  BY <1>3, QuotientGrows
<1> QED BY <1>4 DEF s, t

LabelsRise(ps) == \A i, j \in 1..Len(ps) : i < j => Label(ps[i]) < Label(ps[j])

LEMMA RisingLabelsDiffer ==
  ASSUME NEW ps \in Seq(Periods), LabelsRise(ps) PROVE NamesDiffer(ps)
<1> SUFFICES ASSUME NEW i \in 1..Len(ps), NEW j \in 1..Len(ps), Label(ps[i]) = Label(ps[j]), i # j
             PROVE  FALSE
  BY DEF NamesDiffer
<1>1. ps[i] \in Periods /\ ps[j] \in Periods
  BY LenProperties
<1>2. Label(ps[i]) \in Nat /\ Label(ps[j]) \in Nat
  BY <1>1, LabelIsNat
<1>3. i < j \/ j < i
  OBVIOUS
<1>4. Label(ps[i]) < Label(ps[j]) \/ Label(ps[j]) < Label(ps[i])
  BY <1>3 DEF LabelsRise
<1> QED BY <1>2, <1>4

LEMMA PlanLabel ==
  ASSUME NEW first \in Nat, NEW start \in Dates, NEW total \in Nat \ {0}, NEW fy \in Nat \ {0},
         NEW i \in 1..PeriodCount(total, fy)
  PROVE  Label(Plan(first, start, total, fy)[i]) = (start.month + Before(i, fy)) \div 12
<1>1. Plan(first, start, total, fy)[i] = PeriodOf(first, start, total, fy, i)
  BY PlanPeriods
<1>2. i \in Nat \ {0}
  BY PeriodsCoverTotal
<1>3. PeriodStart(start, fy, i).month = start.month + Before(i, fy)
  BY <1>2, StartsWell DEF Starts
<1>4. Plan(first, start, total, fy)[i].start = PeriodStart(start, fy, i)
  BY <1>1, PeriodOfFields
<1> QED BY Zenon, <1>3, <1>4 DEF Label

LEMMA YearLabelsRise ==
  ASSUME NEW first \in Nat, NEW start \in Dates, NEW total \in Nat \ {0}, NEW fy \in Nat \ {0},
         fy >= 12
  PROVE  LabelsRise(Plan(first, start, total, fy))
<1> DEFINE plan == Plan(first, start, total, fy)
           n == PeriodCount(total, fy)
<1>1. Len(plan) = n
  BY PlanLength
<1>2. n \in Nat
  BY PeriodsCoverTotal
<1>3. \A i \in 1..n : Label(plan[i]) = (start.month + Before(i, fy)) \div 12
  BY PlanLabel
<1>4. start.month \in Nat
  BY DEF Dates
<1> HIDE DEF plan, n
<1>5. ASSUME NEW i \in 1..n, NEW j \in 1..n, i < j PROVE Label(plan[i]) < Label(plan[j])
  <2>1. i \in Nat \ {0} /\ j \in Nat \ {0}
    BY <1>2
  <2>2. (start.month + Before(i, fy)) \div 12 < (start.month + Before(j, fy)) \div 12
    BY <1>4, <1>5, <2>1, YearsApart
  <2> QED BY Zenon, <1>3, <2>2
<1>6. LabelsRise(plan)
  BY <1>1, <1>5 DEF LabelsRise
<1> QED BY <1>6 DEF plan

(* The first period of a config is a fiscal year long, or shorter.         *)
LEMMA YearLongFiscalYear ==
  ASSUME NEW c \in Configs, YearLong(c)
  PROVE  c.fiscalYear >= 12 /\ LastOf(c).months >= 12
<1> DEFINE base == BasePlan(c)
           fy == c.fiscalYear
<1>1. c.start \in Dates /\ c.total \in Nat \ {0} /\ fy \in Nat \ {0} /\ 0 \in Nat
  BY ConfigFields
<1>2. base \in Seq(Periods) /\ Len(base) \in Nat \ {0}
  BY BasePlanTyped
<1>3. DOMAIN base = 1..Len(base) /\ 1 \in 1..Len(base) /\ Len(base) \in 1..Len(base)
  BY <1>2, LenProperties
<1>4. base[1].months >= 12 /\ base[Len(base)].months >= 12
  BY <1>3 DEF YearLong
<1>5. base[1].months = MinOf(fy, c.total - Before(1, fy))
  <2> DEFINE start == c.start
             total == c.total
  <2>1. base = Plan(0, start, total, fy)
    BY DEF BasePlan
  <2>2. start \in Dates /\ total \in Nat \ {0} /\ fy \in Nat \ {0} /\ 0 \in Nat
    BY <1>1
  <2> HIDE DEF start, total, fy, base
  <2>3. Len(Plan(0, start, total, fy)) = PeriodCount(total, fy)
    BY <2>2, PlanLength
  <2>4. 1 \in 1..PeriodCount(total, fy)
    BY <1>3, <2>1, <2>3
  <2>5. Plan(0, start, total, fy)[1] = PeriodOf(0, start, total, fy, 1)
    BY <2>2, <2>4, PlanPeriods
  <2>6. base[1].months = MinOf(fy, total - Before(1, fy))
    BY <2>1, <2>5, PeriodOfFields
  <2> QED BY <2>6 DEF total
<1> HIDE DEF base, fy
<1>6. Before(1, fy) = 0
  BY <1>1, BeforeGrows
<1>7. fy >= 12
  BY <1>1, <1>4, <1>5, <1>6 DEF MinOf
<1> QED BY <1>4, <1>7 DEF base, fy, LastOf

LEMMA BaseLabelsRise ==
  ASSUME NEW c \in Configs, YearLong(c) PROVE LabelsRise(BasePlan(c))
<1>1. /\ c.start \in Dates /\ c.total \in Nat \ {0} /\ c.fiscalYear \in Nat \ {0} /\ 0 \in Nat
      /\ c.fiscalYear >= 12
  BY ConfigFields, YearLongFiscalYear
<1>2. LabelsRise(Plan(0, c.start, c.total, c.fiscalYear))
  BY <1>1, YearLabelsRise
<1> QED BY <1>2 DEF BasePlan

(* An appended plan begins a year or more after the last period did.       *)
LEMMA DeltaLabelsRise ==
  ASSUME NEW c \in Configs, YearLong(c), NEW m \in AppendMonths
  PROVE  /\ LabelsRise(DeltaPlan(c, m))
         /\ Label(LastOf(c)) < Label(DeltaPlan(c, m)[1])
<1> DEFINE b == Len(BasePlan(c))
           st == DeltaStart(c)
           fy == c.fiscalYear
           last == LastOf(c)
<1>1. b \in Nat /\ st \in Dates /\ m \in Nat \ {0} /\ fy \in Nat \ {0} /\ fy >= 12
  BY DeltaIsPlan, YearLongFiscalYear
<1>2. DeltaPlan(c, m) = Plan(b, st, m, fy)
  BY DeltaIsPlan
<1>3. last \in Periods /\ last.months >= 12 /\ st.month >= last.start.month + last.months
  BY DeltaStartTyped, YearLongFiscalYear
<1> HIDE DEF b, st, fy, last
<1>4. LabelsRise(Plan(b, st, m, fy))
  BY <1>1, YearLabelsRise
<1>5. Label(Plan(b, st, m, fy)[1]) = (st.month + Before(1, fy)) \div 12
  <2>1. 1 \in 1..PeriodCount(m, fy)
    <3>1. PeriodCount(m, fy) \in Nat \ {0}
      BY <1>1, PeriodsCoverTotal
    <3> QED BY <3>1
  <2> QED BY <1>1, <2>1, PlanLabel
<1>6. Before(1, fy) = 0
  BY <1>1, BeforeGrows
<1>7. last.start.month \in Nat /\ last.months \in Nat /\ st.month \in Nat
  BY <1>1, <1>3 DEF Periods, Dates
<1>8. last.start.month \div 12 < st.month \div 12
  <2> DEFINE a == last.start.month
             begin == st.month
  <2>1. a \in Nat /\ begin \in Nat /\ a + 12 <= begin
    BY <1>3, <1>7
  <2> HIDE DEF a, begin
  <2>2. a \div 12 < begin \div 12
    BY <2>1, QuotientGrows
  <2> QED BY <2>2 DEF a, begin
<1>9. st.month + Before(1, fy) = st.month
  BY <1>6, <1>7
<1>10. Label(last) < Label(Plan(b, st, m, fy)[1])
  BY Zenon, <1>5, <1>8, <1>9 DEF Label
<1> QED BY <1>2, <1>4, <1>10 DEF last

(* No two periods of a session go by one name. *)
LEMMA SessionLabelsRise ==
  ASSUME NEW c \in Configs, YearLong(c), NEW ps \in Plans(c) PROVE LabelsRise(ps)
<1> DEFINE base == BasePlan(c)
<1>1. LabelsRise(base)
  BY BaseLabelsRise
<1>2. ASSUME NEW m \in AppendMonths PROVE LabelsRise(Extended(c, m))
  <2> DEFINE delta == DeltaPlan(c, m)
             ext == Extended(c, m)
             n == Len(base)
  <2>1. base \in Seq(Periods) /\ delta \in Seq(Periods) /\ n \in Nat \ {0} /\ Len(delta) \in Nat \ {0}
    BY BasePlanTyped, DeltaPlanTyped
  <2>2. /\ Len(ext) = n + Len(delta)
        /\ \A i \in 1..Len(ext) : ext[i] = IF i <= n THEN base[i] ELSE delta[i - n]
    BY ExtendedAt
  <2>3. LabelsRise(delta) /\ Label(base[n]) < Label(delta[1])
    BY DeltaLabelsRise DEF LastOf
  <2> HIDE DEF base, delta, ext, n
  <2>4. ASSUME NEW i \in 1..n PROVE Label(base[i]) \in Nat /\ Label(base[i]) <= Label(base[n])
    <3>1. n \in 1..n
      BY <2>1
    <3>2. base[i] \in Periods /\ base[n] \in Periods
      BY <2>1, <3>1, LenProperties DEF n
    <3>3. Label(base[i]) \in Nat /\ Label(base[n]) \in Nat
      BY <3>2, LabelIsNat
    <3>4. i = n \/ i < n
      BY <2>1
    <3>5. i < n => Label(base[i]) < Label(base[n])
      BY <1>1, <3>1 DEF LabelsRise, n
    <3> QED BY <3>3, <3>4, <3>5
  <2>5. ASSUME NEW j \in 1..Len(delta) PROVE Label(delta[j]) \in Nat /\ Label(delta[1]) <= Label(delta[j])
    <3>1. 1 \in 1..Len(delta)
      BY <2>1
    <3>2. delta[j] \in Periods /\ delta[1] \in Periods
      BY <2>1, <3>1, LenProperties
    <3>3. Label(delta[j]) \in Nat /\ Label(delta[1]) \in Nat
      BY <3>2, LabelIsNat
    <3>4. j = 1 \/ 1 < j
      BY <2>1
    <3>5. 1 < j => Label(delta[1]) < Label(delta[j])
      BY <2>3, <3>1 DEF LabelsRise
    <3> QED BY <3>3, <3>4, <3>5
  <2>6. ASSUME NEW i \in 1..Len(ext), NEW j \in 1..Len(ext), i < j
        PROVE  Label(ext[i]) < Label(ext[j])
    <3>1. CASE j <= n
      <4>1. i \in 1..n /\ j \in 1..n /\ ext[i] = base[i] /\ ext[j] = base[j]
        BY <2>1, <2>2, <2>6, <3>1
      <4> QED BY <1>1, <2>6, <4>1 DEF LabelsRise, n
    <3>2. CASE i <= n /\ ~(j <= n)
      <4>1. i \in 1..n /\ j - n \in 1..Len(delta) /\ ext[i] = base[i] /\ ext[j] = delta[j - n]
        BY <2>1, <2>2, <3>2
      <4>2. n \in 1..n /\ 1 \in 1..Len(delta)
        BY <2>1
      <4>3. /\ Label(base[i]) \in Nat /\ Label(base[i]) <= Label(base[n]) /\ Label(base[n]) \in Nat
            /\ Label(delta[j - n]) \in Nat /\ Label(delta[1]) <= Label(delta[j - n])
            /\ Label(delta[1]) \in Nat
        BY <2>4, <2>5, <4>1, <4>2
      <4>4. Label(base[i]) < Label(delta[j - n])
        BY <2>3, <4>3
      <4> QED BY <4>1, <4>4
    <3>3. CASE ~(i <= n)
      <4>1. /\ i - n \in 1..Len(delta) /\ j - n \in 1..Len(delta) /\ i - n < j - n
            /\ ext[i] = delta[i - n] /\ ext[j] = delta[j - n]
        BY <2>1, <2>2, <2>6, <3>3
      <4> QED BY <2>3, <4>1 DEF LabelsRise
    <3> QED BY <2>1, <3>1, <3>2, <3>3
  <2>7. LabelsRise(ext)
    BY <2>6 DEF LabelsRise
  <2> QED BY <2>7 DEF ext
<1> QED BY <1>1, <1>2 DEF Plans

(* What a command has finished is on disk. *)
OnDisk ==
  Active /\ YearLong(command.config) =>
            \A i \in command.from + 1..state.cursor :
              Directory(periods[i], command.config, TRUE) \in disk

LEMMA PutKeeps ==
  ASSUME NEW dirs, NEW c, NEW p, NEW q, NEW b,
         Directory(p, c, TRUE) \in dirs, Label(p) # Label(q)
  PROVE  Directory(p, c, TRUE) \in Put(dirs, Directory(q, c, b))
<1>1. Directory(p, c, TRUE).label = Label(p) /\ Directory(q, c, b).label = Label(q)
  BY DEF Directory
<1> QED BY <1>1 DEF Put

LEMMA PeriodPut ==
  ASSUME SessionInv, OnDisk, YearLong(command.config), pc \in {"running", "writing"},
         state.cursor < Len(periods), NEW b \in BOOLEAN,
         disk' = Put(disk, Directory(Period, command.config, b)),
         NEW i \in command.from + 1..state.cursor
  PROVE  Directory(periods[i], command.config, TRUE) \in disk'
<1>1. Active /\ command.from \in Nat /\ state.cursor \in Nat /\ Len(periods) \in Nat
      /\ state.cursor + 1 \in 1..Len(periods)
  BY PeriodInPlan DEF SessionInv, TypeOK, Active
<1>2. i \in 1..Len(periods) /\ command.from < i /\ i < state.cursor + 1
  BY <1>1
<1>3. Label(periods[i]) # Label(periods[state.cursor + 1])
  <2>1. periods \in Plans(command.config) /\ command.config \in Configs
    BY <1>1, PlanInMemory
  <2>2. periods \in Seq(Periods)
    BY DEF SessionInv, TypeOK
  <2>3. NamesDiffer(periods)
    BY <2>1, <2>2, SessionLabelsRise, RisingLabelsDiffer
  <2> QED BY <1>1, <1>2, <2>3 DEF NamesDiffer
<1>4. Directory(periods[i], command.config, TRUE) \in disk
  BY <1>1 DEF OnDisk
<1> QED BY <1>3, <1>4, PutKeeps DEF Period

LEMMA OnDiskNext ==
  ASSUME SessionInv, OnDisk, [Next]_vars PROVE OnDisk'
<1>1. ASSUME NEW kind, NEW c, NEW plan, NEW s \in States, Start(kind, c, plan, s) PROVE OnDisk'
  <2>1. command'.from = s.cursor /\ state' = s /\ s.cursor \in Nat
    BY <1>1 DEF Start, States
  <2>2. command'.from + 1..state'.cursor = {}
    BY <2>1
  <2> QED BY <2>2 DEF OnDisk
<1>2. ASSUME NEW how, End(how) PROVE OnDisk'
  BY <1>2 DEF OnDisk, End, Active
<1>3. ASSUME NEW c \in Configs, Generate(c) PROVE OnDisk'
  <2>1. CASE c.fiscalYear < c.total
    <3>1. Start("generate", c, BasePlan(c), Fresh)
      BY <1>3, <2>1 DEF Generate
    <3> QED BY <1>1, <3>1, FreshTyped
  <2>2. CASE ~(c.fiscalYear < c.total)
    BY <1>3, <2>2 DEF Generate, OnDisk, Active
  <2> QED BY <2>1, <2>2
<1>4. ASSUME NEW c \in Configs, NEW m \in AppendMonths, Resume(c, m) PROVE OnDisk'
  <2>1. Start("append", c, BasePlan(c) \o DeltaPlan(c, m), saved.state) /\ saved.state \in States
    BY <1>4 DEF Resume, SessionInv, TypeOK
  <2> QED BY <1>1, <2>1
<1>5. CASE StandardDone \/ AppendImpossible \/ FailOrDie \/ Write \/ \E c \in Configs : ConfigRefused(c)
  BY <1>2, <1>5 DEF StandardDone, AppendImpossible, FailOrDie, Write, ConfigRefused
<1>6. CASE BeginPeriod
  <2>1. /\ pc = "running" /\ state.cursor < Len(periods)
        /\ disk' = Put(disk, Directory(Period, command.config, FALSE))
        /\ UNCHANGED <<command, periods, state>>
    BY <1>6 DEF BeginPeriod, session
  <2>2. ASSUME YearLong(command.config), NEW i \in command.from + 1..state.cursor
        PROVE  Directory(periods[i], command.config, TRUE) \in disk'
    BY <2>1, <2>2, PeriodPut
  <2> QED BY <2>1, <2>2 DEF OnDisk
<1>7. CASE FinishPeriod
  <2>1. /\ pc = "writing"
        /\ disk' = Put(disk, Directory(Period, command.config, TRUE))
        /\ state' = CarryForward(state, command.config, Period)
        /\ UNCHANGED <<command, periods>>
    BY <1>7 DEF FinishPeriod
  <2>2. state.cursor < Len(periods) /\ state \in States /\ command.from \in Nat
    BY <2>1 DEF SessionInv, TypeOK, Planned
  <2>3. Period \in Periods /\ command.config \in Configs /\ state.cursor \in Nat
    BY <2>1, <2>2, PeriodInPlan
  <2>4. state'.cursor = state.cursor + 1
    BY <2>1, <2>2, <2>3, CarriedForward
  <2>5. ASSUME YearLong(command.config), NEW i \in command.from + 1..state.cursor
        PROVE  Directory(periods[i], command.config, TRUE) \in disk'
    BY <2>1, <2>2, <2>5, PeriodPut
  <2>6. Directory(periods[state.cursor + 1], command.config, TRUE) \in disk'
    BY <2>1 DEF Put, Period
  <2>7. \A i \in command.from + 1..state'.cursor : i \in command.from + 1..state.cursor \/ i = state.cursor + 1
    BY <2>2, <2>3, <2>4
  <2> QED BY <2>1, <2>5, <2>6, <2>7 DEF OnDisk
<1>8. CASE AllGenerated \/ Truncate
  BY <1>8 DEF AllGenerated, Truncate, session, OnDisk, Active
<1>9. CASE UNCHANGED vars
  BY <1>9 DEF vars, session, OnDisk, Active
<1> QED BY <1>3, <1>4, <1>5, <1>6, <1>7, <1>8, <1>9 DEF Next, Work

(* When a command is about to save, every period it generated is complete  *)
(* on disk and no two periods of the session share a directory, those that *)
(* an earlier command generated included: for every config whose periods   *)
(* are a year or longer, whatever is appended.                             *)
THEOREM PeriodsAreOnDisk == Spec => []OneDirectoryPerPeriod
<1>1. Init => OnDisk
  BY DEF Init, OnDisk, Active
<1>2. SessionInv /\ OnDisk /\ [Next]_vars => OnDisk'
  BY OnDiskNext
<1>3. SessionInv /\ OnDisk => OneDirectoryPerPeriod
  <2> SUFFICES ASSUME SessionInv, OnDisk, pc = "saving", YearLong(command.config)
               PROVE  /\ NamesDiffer(periods)
                      /\ \A i \in command.from + 1..Len(periods) : CompleteOnDisk(periods[i])
    BY DEF OneDirectoryPerPeriod
  <2>1. /\ command.from \in Nat /\ state.cursor \in Nat /\ Len(periods) \in Nat
        /\ periods \in Seq(Periods)
    BY LenProperties DEF SessionInv, TypeOK, States
  <2>2. NamesDiffer(periods)
    <3>1. periods \in Plans(command.config) /\ command.config \in Configs
      BY PlanInMemory DEF Active
    <3> QED BY <2>1, <3>1, SessionLabelsRise, RisingLabelsDiffer
  <2>3. ASSUME NEW i \in command.from + 1..Len(periods) PROVE CompleteOnDisk(periods[i])
    <3>1. state.cursor >= Len(periods)
      BY DEF SessionInv, Planned
    <3>2. i \in command.from + 1..state.cursor
      BY <2>1, <3>1
    <3> DEFINE d == Directory(periods[i], command.config, TRUE)
    <3>3. d \in disk
      BY <3>2 DEF OnDisk, Active
    <3>4. d.period = periods[i] /\ d.config = command.config /\ d.complete
      BY DEF Directory
    <3> QED BY <3>3, <3>4 DEF CompleteOnDisk
  <2> QED BY <2>2, <2>3
<1> QED BY <1>1, <1>2, <1>3, SessionInvariant, PTL DEF Spec
=============================================================================
