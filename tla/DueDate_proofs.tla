----------------------------- MODULE DueDate_proofs -----------------------------
(***************************************************************************)
(* The due date is right, for every configuration of business days, every  *)
(* time limit and every number of calls: skipping whole weeks loses no     *)
(* day, both loops stop before the bound of the model is met, and what is  *)
(* remembered is what would be counted again.                              *)
(***************************************************************************)
EXTENDS DueDate, FiniteSetTheorems, TLAPS

-----------------------------------------------------------------------------
(* Numbers.                                                                *)

LEMMA LargerNumber == \A x, y \in Nat : \E z \in Nat : x <= z /\ y <= z
<1> TAKE x, y \in Nat
<1>1. CASE x <= y BY <1>1
<1>2. CASE y <= x BY <1>2
<1> QED BY <1>1, <1>2

LEMMA NumbersInOrder == \A x, y, z \in Nat : x <= y /\ y <= z => x <= z
OBVIOUS

\* Every nonempty set of naturals has a least element.
LEMMA LeastNumber ==
  ASSUME NEW T, T \subseteq Nat, T # {}
  PROVE  \E m \in T : \A k \in T : m <= k
<1>1. PICK m \in T : \A k \in T : <<k, m>> \notin OpToRel(<, Nat)
  BY WFMin, NatLessThanWellFounded, Zenon
<1>2. \A k \in T : ~(k < m)
  BY <1>1, Zenon DEF OpToRel
<1> QED BY <1>2

\* A finite set of naturals is bounded.
LEMMA BoundedNumbers ==
  ASSUME NEW S, S \subseteq Nat, IsFiniteSet(S)
  PROVE  \E b \in Nat : \A e \in S : e <= b
<1> DEFINE n == Cardinality(S)
<1>1. n \in Nat /\ ExistsBijection(1 .. n, S) BY FS_CardinalityType
<1> HIDE DEF n
<1>2. PICK f \in [1 .. n -> S] : \A e \in S : \E i \in 1 .. n : f[i] = e
  BY <1>1 DEF ExistsBijection, Bijection, Surjection
<1>3. \A i \in 1 .. n : f[i] \in Nat
  <2>1. \A i \in 1 .. n : f[i] \in S BY <1>2
  <2> QED BY <2>1
<1> DEFINE Below(k, b) == \A i \in 1 .. k : f[i] <= b
           T == {k \in 0 .. n : ~ \E b \in Nat : Below(k, b)}
<1>4. T = {}
  <2> SUFFICES ASSUME T # {} PROVE FALSE OBVIOUS
  <2>1. T \subseteq Nat BY <1>1
  <2>2. PICK k \in T : \A j \in T : k <= j BY <2>1, LeastNumber
  <2>3. k \in Nat /\ k <= n /\ ~ \E b \in Nat : Below(k, b) BY <1>1, <2>2
  <2>4. k # 0
    <3>1. Below(0, 0) OBVIOUS
    <3> QED BY <2>3, <3>1
  <2>5. k - 1 \in 0 .. n /\ ~(k <= k - 1) BY <1>1, <2>3, <2>4
  <2>6. k - 1 \notin T BY <2>2, <2>5
  <2>7. PICK b \in Nat : Below(k - 1, b) BY <2>5, <2>6
  <2>8. k \in 1 .. n BY <1>1, <2>3, <2>4
  <2>9. f[k] \in Nat BY <1>3, <2>8
  <2>10. PICK c \in Nat : b <= c /\ f[k] <= c BY <2>9, LargerNumber
  <2>11. Below(k, c)
    <3> SUFFICES ASSUME NEW i \in 1 .. k PROVE f[i] <= c OBVIOUS
    <3>1. i \in 1 .. n BY <1>1, <2>3
    <3>2. f[i] \in Nat BY <1>3, <3>1
    <3>3. CASE i = k BY <2>10, <3>3
    <3>4. CASE i # k
      <4>1. i \in 1 .. k - 1 BY <3>4, <2>3
      <4>2. f[i] <= b BY <2>7, <4>1
      <4> QED BY <2>10, <3>2, <4>2, NumbersInOrder
    <3> QED BY <3>3, <3>4
  <2> QED BY <2>3, <2>11
<1>5. n \in 0 .. n BY <1>1
<1>6. PICK b \in Nat : Below(n, b) BY <1>4, <1>5
<1> QED BY <1>2, <1>6

\* The bound on offsets is the one of the longest time limit.
LEMMA LongestLimit ==
  /\ MaxOffset \in Nat
  /\ \A d \in Days : 7 * (1 + d) <= MaxOffset
<1> DEFINE Bounds == {b \in Nat : \A e \in Days : e <= b}
<1>1. Bounds # {} BY DueDateAssumption, BoundedNumbers
<1>2. PICK b \in Bounds : \A c \in Bounds : b <= c BY <1>1, LeastNumber
<1>3. b \in Days
  <2> SUFFICES ASSUME b \notin Days PROVE FALSE OBVIOUS
  <2>1. b \in Nat /\ \A e \in Days : e \in Nat /\ e < b BY <1>2, DueDateAssumption
  <2>2. b # 0
    <3>1. PICK e \in Days : TRUE BY DueDateAssumption
    <3> QED BY <2>1, <3>1
  <2>3. b - 1 \in Bounds BY <1>2, <2>1, <2>2
  <2> QED BY <1>2, <2>3
<1>4. PICK d \in Days : d = (CHOOSE m \in Days : \A e \in Days : e <= m) /\ \A e \in Days : e <= d
  BY <1>2, <1>3
<1> HIDE DEF Bounds
<1>5. MaxOffset = 7 * (1 + d) BY <1>4 DEF MaxOffset
<1>6. d \in Nat /\ \A e \in Days : e \in Nat /\ e <= d BY <1>4, DueDateAssumption
<1> QED BY <1>5, <1>6

\* Whole weeks of perWeek days each, and the days that remain.
LEMMA WholeWeeks ==
  ASSUME NEW days \in Nat \ {0}, NEW perWeek \in Nat \ {0}
  PROVE  LET fullWeeks == (days - 1) \div perWeek
         IN  /\ fullWeeks \in Nat /\ fullWeeks <= days - 1
             /\ fullWeeks * perWeek < days /\ days <= fullWeeks * perWeek + perWeek
<1> DEFINE a == days - 1
           q == a \div perWeek
           r == a % perWeek
<1>1. a \in Nat /\ q \in Int /\ r \in 0 .. perWeek - 1 OBVIOUS
<1>2. a = perWeek * q + r OBVIOUS
<1> QED OBVIOUS

-----------------------------------------------------------------------------
(* Business days.                                                          *)

\* The days on which the library is open, however the configuration numbers them.
LEMMA SameBusinessDays ==
  ASSUME NEW c, c \subseteq Weekdays
  PROVE  IsBusinessDay(c) = Configured(c) /\ IsBusinessDay(c) \subseteq Weekdays
BY DEF IsBusinessDay, toDayOfWeekValue, Configured, Weekdays

LEMMA WeekOfDays == IsFiniteSet(Weekdays) /\ Cardinality(Weekdays) = 7
<1>1. 1 \in Int /\ 7 \in Int OBVIOUS
<1>2. IsFiniteSet(1 .. 7) /\ Cardinality(1 .. 7) = IF 1 > 7 THEN 0 ELSE 7 - 1 + 1
  BY <1>1, FS_Interval, Zenon
<1> QED BY <1>2 DEF Weekdays

LEMMA PlusIsWeekday ==
  ASSUME NEW w \in Weekdays, NEW n \in Nat
  PROVE  /\ Plus(w, n) \in Weekdays /\ Plus(w, 0) = w
         /\ Plus(Plus(w, n), 1) = Plus(w, n + 1)
BY DEF Plus, Weekdays

\* What is counted is finite, and grows with the number of days.
LEMMA CountFinite ==
  ASSUME NEW start, NEW n \in Nat, NEW business
  PROVE  /\ IsFiniteSet({k \in 0 .. n - 1 : Plus(start, k) \in business})
         /\ BusinessDaysIn(start, n, business) \in Nat
<1>1. IsFiniteSet(0 .. n - 1) BY FS_Interval
<1>2. IsFiniteSet({k \in 0 .. n - 1 : Plus(start, k) \in business}) BY <1>1, FS_Subset
<1> QED BY <1>2, FS_CardinalityType DEF BusinessDaysIn

LEMMA CountGrows ==
  ASSUME NEW start, NEW m \in Nat, NEW n \in Nat, m <= n, NEW business
  PROVE  BusinessDaysIn(start, m, business) <= BusinessDaysIn(start, n, business)
<1>1. {k \in 0 .. m - 1 : Plus(start, k) \in business}
        \subseteq {k \in 0 .. n - 1 : Plus(start, k) \in business}
  OBVIOUS
<1>2. IsFiniteSet({k \in 0 .. n - 1 : Plus(start, k) \in business}) BY CountFinite
<1> QED BY <1>1, <1>2, FS_Subset DEF BusinessDaysIn

\* One day more.
LEMMA CountNext ==
  ASSUME NEW start, NEW n \in Nat, NEW business
  PROVE  BusinessDaysIn(start, n + 1, business) =
           BusinessDaysIn(start, n, business) + (IF Plus(start, n) \in business THEN 1 ELSE 0)
<1> DEFINE S(i) == {k \in 0 .. i - 1 : Plus(start, k) \in business}
<1>1. IsFiniteSet(S(n)) BY CountFinite
<1>2. n \notin S(n) OBVIOUS
<1>3. CASE Plus(start, n) \in business
  <2>1. S(n + 1) = S(n) \cup {n} BY <1>3
  <2>2. Cardinality(S(n) \cup {n}) = Cardinality(S(n)) + 1
    <3> HIDE DEF S
    <3> QED BY <1>1, <1>2, FS_AddElement
  <2> QED BY <1>3, <2>1, <2>2 DEF BusinessDaysIn
<1>4. CASE Plus(start, n) \notin business
  <2>1. S(n + 1) = S(n) BY <1>4
  <2>2. BusinessDaysIn(start, n, business) \in Nat BY CountFinite
  <2> QED BY <1>4, <2>1, <2>2 DEF BusinessDaysIn
<1> QED BY <1>3, <1>4

\* A whole number of weeks has as many business days as a week, times their
\* number: each is one of the days of one of the weeks.
LEMMA WeeksCounted ==
  ASSUME NEW start \in Weekdays, NEW w \in Nat, NEW business, business \subseteq Weekdays
  PROVE  /\ IsFiniteSet(business)
         /\ BusinessDaysIn(start, 7 * w, business) = w * Cardinality(business)
<1> DEFINE S == {k \in 0 .. 7 * w - 1 : Plus(start, k) \in business}
           T == (0 .. w - 1) \X business
           f == [k \in S |-> <<k \div 7, Plus(start, k)>>]
<1>1. IsFiniteSet(business) BY WeekOfDays, FS_Subset
<1>2. f \in [S -> T]
  <2>1. \A k \in S : k \div 7 \in 0 .. w - 1 OBVIOUS
  <2> QED BY <2>1
<1>3. \A j, k \in S : f[j] = f[k] => j = k
  <2>1. \A j, k \in Nat : j \div 7 = k \div 7 /\ Plus(start, j) = Plus(start, k) => j = k
    BY DEF Plus, Weekdays
  <2> QED BY <2>1
<1>4. \A t \in T : \E k \in S : f[k] = t
  <2> SUFFICES ASSUME NEW t \in T PROVE \E k \in S : f[k] = t
    OBVIOUS
  <2>0. PICK q \in 0 .. w - 1, b \in business : t = <<q, b>> OBVIOUS
  <2> DEFINE k == 7 * q + ((b + 7 - start) % 7)
  <2>1. b \in 1 .. 7 BY DEF Weekdays
  <2>2. k \in 0 .. 7 * w - 1 /\ k \div 7 = q /\ Plus(start, k) = b
    BY <2>1 DEF Plus, Weekdays
  <2> HIDE DEF k
  <2> QED BY <2>0, <2>2
<1>5. ExistsBijection(S, T)
  <2>1. f \in Bijection(S, T)
    <3> HIDE DEF S, T, f
    <3> QED BY <1>2, <1>3, <1>4 DEF Bijection, Injection, Surjection, IsInjective
  <2> QED BY <2>1 DEF ExistsBijection
<1>6. IsFiniteSet(0 .. w - 1) /\ Cardinality(0 .. w - 1) = w BY FS_Interval
<1>7. IsFiniteSet(S)
  <2>1. 7 * w \in Nat OBVIOUS
  <2> QED BY <2>1, CountFinite
<1>8. Cardinality(T) = w * Cardinality(business) BY <1>1, <1>6, FS_Product
<1>9. Cardinality(T) = Cardinality(S)
  <2> HIDE DEF S, T
  <2> QED BY <1>5, <1>7, FS_Bijection
<1> QED BY <1>1, <1>8, <1>9 DEF BusinessDaysIn

LEMMA BusinessDaysOfAWeek ==
  ASSUME NEW business, business \subseteq Weekdays
  PROVE  /\ Cardinality(business) \in 0 .. 7
         /\ Cardinality(business) = 0 <=> business = {}
<1>1. /\ IsFiniteSet(business) /\ Cardinality(business) \in Nat
      /\ Cardinality(business) <= 7
  BY WeekOfDays, FS_Subset, FS_CardinalityType
<1> QED BY <1>1, FS_EmptySet

-----------------------------------------------------------------------------
(* The day a lending is due.                                               *)

Due(start, days, business, i) ==
  /\ BusinessDaysIn(start, i, business) >= days
  /\ Plus(start, i) \in business

\* The first such day is what DaysToAdd chooses.
LEMMA FirstDue ==
  ASSUME NEW start, NEW days, days # 0, NEW business, business # {},
         NEW n \in 0 .. MaxOffset, Due(start, days, business, n),
         \A i \in 0 .. n - 1 : ~Due(start, days, business, i)
  PROVE  DaysToAdd(start, days, business) = n
<1> DEFINE First(m) == /\ Due(start, days, business, m)
                       /\ \A i \in 0 .. m - 1 : ~Due(start, days, business, i)
<1>1. DaysToAdd(start, days, business) = CHOOSE m \in 0 .. MaxOffset : First(m)
  BY DEF DaysToAdd, Due
<1>2. First(n) OBVIOUS
<1>3. \A m \in 0 .. MaxOffset : First(m) => m = n
  <2> SUFFICES ASSUME NEW m \in 0 .. MaxOffset, First(m), m # n PROVE FALSE OBVIOUS
  <2>1. CASE m < n
    <3>1. m \in 0 .. n - 1 BY <2>1
    <3> QED BY <3>1
  <2>2. CASE n < m
    <3>1. n \in 0 .. m - 1 BY <2>2
    <3> QED BY <3>1
  <2> QED BY <2>1, <2>2
<1> HIDE DEF First
<1> QED BY <1>1, <1>2, <1>3

-----------------------------------------------------------------------------
(* The invariant.                                                          *)

Asked == call.days \in Days \ {0} /\ call.config \in Configs
Today == Configured(call.config)

\* What is remembered is what its key stands for.
CacheRight ==
  \A e \in cache :
    /\ e.key.config \in Configs
    /\ e.offset = DaysToAdd(e.key.start, e.key.days, Configured(e.key.config))

\* In the loops: no business day was lost, and no day passed over was the one.
LoopRight ==
  pc = "count" =>
    /\ Asked /\ Today # {}
    /\ weekday = Plus(call.start, offset)
    /\ BusinessDaysIn(call.start, offset, Today) + remaining = call.days
    /\ \A i \in 0 .. offset - 1 : ~Due(call.start, call.days, Today, i)

StoreRight ==
  pc = "store" => /\ Asked /\ offset # 0
                  /\ offset = DaysToAdd(call.start, call.days, Today)

DueDateInv ==
  /\ TypeOK /\ call.days \in Nat /\ call.config \in Configs \cup {{}}
  /\ CacheRight /\ LoopRight /\ StoreRight /\ RightDate

LEMMA ConfigsOpen ==
  ASSUME NEW c \in Configs \cup {{}}
  PROVE  /\ IsBusinessDay(c) = Configured(c) /\ Configured(c) \subseteq Weekdays
BY SameBusinessDays, DueDateAssumption

\* The loops end before the bound: two weeks after those skipped there are more
\* business days than were asked for.
LEMMA LoopsEnd ==
  ASSUME DueDateInv, pc = "count"
  PROVE  offset < MaxOffset
<1> DEFINE perWeek == Cardinality(Today)
           fullWeeks == (call.days - 1) \div perWeek
           end == 7 * (fullWeeks + 2)
<1>1. Today \subseteq Weekdays /\ Today # {} /\ call.days \in Days \ {0} /\ call.start \in Weekdays
  BY ConfigsOpen DEF DueDateInv, LoopRight, Today, Asked, TypeOK
<1>2. perWeek \in Nat \ {0} BY <1>1, BusinessDaysOfAWeek
<1>3. call.days \in Nat \ {0} BY <1>1, DueDateAssumption
<1> HIDE DEF perWeek
<1>4. /\ fullWeeks \in Nat /\ fullWeeks <= call.days - 1
      /\ call.days <= fullWeeks * perWeek + perWeek
  BY <1>2, <1>3, WholeWeeks
<1> HIDE DEF fullWeeks
<1>5. BusinessDaysIn(call.start, end, Today) = (fullWeeks + 2) * perWeek
  <2>1. fullWeeks + 2 \in Nat BY <1>4
  <2> QED BY <1>1, <2>1, WeeksCounted DEF perWeek
<1>6. call.days < (fullWeeks + 2) * perWeek
  <2>1. (fullWeeks + 2) * perWeek = fullWeeks * perWeek + perWeek + perWeek BY <1>2, <1>4
  <2>2. fullWeeks * perWeek \in Nat BY <1>2, <1>4
  <2> QED BY <1>2, <1>3, <1>4, <2>1, <2>2
<1>7. offset \in Nat /\ remaining \in Nat /\ end \in Nat BY <1>4, LongestLimit DEF DueDateInv, TypeOK
<1>8. BusinessDaysIn(call.start, offset, Today) <= call.days
  <2>1. BusinessDaysIn(call.start, offset, Today) \in Nat BY <1>7, CountFinite
  <2> QED BY <1>3, <1>7, <2>1 DEF DueDateInv, LoopRight
<1>9. ~(end <= offset)
  <2> SUFFICES ASSUME end <= offset PROVE FALSE OBVIOUS
  <2>1. BusinessDaysIn(call.start, end, Today) <= BusinessDaysIn(call.start, offset, Today)
    BY <1>7, CountGrows
  <2>2. BusinessDaysIn(call.start, offset, Today) \in Nat BY <1>7, CountFinite
  <2>3. (fullWeeks + 2) * perWeek \in Nat BY <1>2, <1>4
  <2> QED BY <1>3, <1>5, <1>6, <1>8, <2>1, <2>2, <2>3
<1>10. 7 * (1 + call.days) <= MaxOffset /\ MaxOffset \in Nat BY <1>1, LongestLimit
<1> QED BY <1>3, <1>4, <1>7, <1>9, <1>10

-----------------------------------------------------------------------------
(* The steps.                                                              *)

LEMMA DueDateStarts == Init => DueDateInv
<1> SUFFICES ASSUME Init PROVE DueDateInv OBVIOUS
<1>1. IsBusinessDay({}) \subseteq Weekdays BY DEF IsBusinessDay
<1>2. TypeOK
  BY <1>1, LongestLimit, DueDateAssumption DEF Init, TypeOK, Weekdays, Business
<1> QED
  BY <1>2 DEF Init, DueDateInv, CacheRight, LoopRight, StoreRight, RightDate

\* A call that is not counted is answered with what is remembered, or with no days.
LEMMA CallKnownRight ==
  ASSUME DueDateInv, NEW start \in Starts, NEW days \in Days, CallKnown(start, days)
  PROVE  DueDateInv'
<1>1. /\ pc' = "done" /\ calls' \in 0 .. MaxCalls /\ config \in Configs
      /\ call' = [start |-> start, days |-> days, config |-> config]
      /\ UNCHANGED <<config, cache, weekday, remaining>>
  BY DueDateAssumption DEF CallKnown, DueDateInv, TypeOK
<1>2. start \in Weekdays /\ days \in Nat BY DueDateAssumption
<1>3. /\ offset' \in 0 .. MaxOffset
      /\ offset' = DaysToAdd(start, days, Configured(config))
  <2>1. CASE days = 0
    BY <2>1, LongestLimit DEF CallKnown, DaysToAdd
  <2>2. CASE days # 0
    <3>1. PICK e \in Cached(start, days) : offset' = e.offset BY <2>2 DEF CallKnown
    <3>2. e \in cache /\ e.key = Key(start, days, config) BY <3>1 DEF Cached
    <3>3. e.key.start = start /\ e.key.days = days /\ e.key.config = config
      BY <3>2 DEF Key
    <3>4. e.offset \in 1 .. MaxOffset /\ e.offset = DaysToAdd(start, days, Configured(config))
      BY <3>2, <3>3 DEF DueDateInv, TypeOK, CacheRight
    <3> QED BY <3>1, <3>4, LongestLimit
  <2> QED BY <2>1, <2>2
<1>4. IsBusinessDay(config) \subseteq Weekdays BY <1>1, ConfigsOpen
<1>5. TypeOK' BY <1>1, <1>2, <1>3, <1>4 DEF DueDateInv, TypeOK, Business
<1>6. CacheRight' BY <1>1 DEF DueDateInv, CacheRight
<1>7. RightDate' BY <1>1, <1>3 DEF RightDate
<1> QED BY <1>1, <1>2, <1>5, <1>6, <1>7 DEF DueDateInv, LoopRight, StoreRight

\* A call that is counted skips whole weeks: what they hold and what remains
\* make up the limit, and no day in them is the one.
LEMMA CallCountRight ==
  ASSUME DueDateInv, NEW start \in Starts, NEW days \in Days, CallCount(start, days)
  PROVE  DueDateInv'
<1> DEFINE business == Configured(config)
           perWeek == Cardinality(business)
           fullWeeks == (days - 1) \div perWeek
<1>1. /\ calls' \in 0 .. MaxCalls /\ config \in Configs /\ days # 0
      /\ call' = [start |-> start, days |-> days, config |-> config]
      /\ UNCHANGED <<config, cache>>
  BY DueDateAssumption DEF CallCount, DueDateInv, TypeOK
<1>2. start \in Weekdays /\ days \in Nat \ {0} BY <1>1, DueDateAssumption
<1>3. IsBusinessDay(config) = business /\ business \subseteq Weekdays BY <1>1, ConfigsOpen
<1>4. perWeek \in 0 .. 7 /\ (perWeek = 0 <=> business = {}) BY <1>3, BusinessDaysOfAWeek
<1>5. MaxOffset \in Nat /\ 7 * (1 + days) <= MaxOffset BY LongestLimit
<1>6. Asked' /\ call'.days \in Nat /\ CacheRight' /\ Today' = business
  BY <1>1, <1>2 DEF Asked, Today, DueDateInv, CacheRight
<1>7. CASE perWeek = 0
  <2>1. offset' = days /\ pc' = "store" /\ UNCHANGED <<weekday, remaining>>
    BY <1>3, <1>7 DEF CallCount
  <2>2. days \in 0 .. MaxOffset BY <1>2, <1>5
  <2>3. TypeOK' BY <1>1, <1>2, <1>3, <2>1, <2>2 DEF DueDateInv, TypeOK, Business
  <2>4. StoreRight'
    <3>1. DaysToAdd(start, days, business) = days BY <1>1, <1>4, <1>7 DEF DaysToAdd
    <3> QED BY <1>1, <1>6, <2>1, <3>1 DEF StoreRight
  <2> QED BY <1>1, <1>6, <2>1, <2>3, <2>4 DEF DueDateInv, LoopRight, RightDate, Asked
<1>8. CASE perWeek # 0
  <2>1. /\ remaining' = days - fullWeeks * perWeek /\ offset' = 7 * fullWeeks
        /\ weekday' = start /\ pc' = "count"
    BY <1>3, <1>8 DEF CallCount
  <2> HIDE DEF perWeek
  <2>2. /\ fullWeeks \in Nat /\ fullWeeks <= days - 1
        /\ fullWeeks * perWeek < days /\ days <= fullWeeks * perWeek + perWeek
    BY <1>2, <1>4, <1>8, WholeWeeks
  <2> HIDE DEF fullWeeks
  <2>3. fullWeeks * perWeek \in Nat BY <1>4, <2>2
  <2>4. BusinessDaysIn(start, 7 * fullWeeks, business) = fullWeeks * perWeek
    BY <1>2, <1>3, <2>2, WeeksCounted DEF perWeek
  <2>5. remaining' \in 1 .. 7 /\ offset' \in 0 .. MaxOffset
    BY <1>2, <1>4, <1>5, <2>1, <2>2, <2>3
  <2>6. TypeOK' BY <1>1, <1>2, <1>3, <2>1, <2>5 DEF DueDateInv, TypeOK, Business
  <2>7. LoopRight'
    <3>1. weekday' = Plus(start, offset') BY <1>2, <2>1, <2>2 DEF Plus, Weekdays
    <3>2. BusinessDaysIn(start, offset', business) + remaining' = days
      BY <1>2, <2>1, <2>3, <2>4
    <3>0. PICK n \in Nat : n = offset' BY <2>1, <2>2
    <3>3. ASSUME NEW i \in 0 .. n - 1 PROVE ~Due(start, days, business, i)
      <4>1. i \in Nat /\ i <= n OBVIOUS
      <4>2. BusinessDaysIn(start, i, business) <= BusinessDaysIn(start, n, business)
        BY <4>1, CountGrows
      <4>3. BusinessDaysIn(start, i, business) \in Nat BY <4>1, CountFinite
      <4> QED BY <1>2, <2>1, <2>2, <2>3, <2>4, <3>0, <4>2, <4>3 DEF Due
    <3> QED BY <1>1, <1>4, <1>6, <1>8, <3>0, <3>1, <3>2, <3>3 DEF LoopRight
  <2> QED BY <1>1, <1>6, <2>1, <2>6, <2>7 DEF DueDateInv, StoreRight, RightDate, Asked
<1> QED BY <1>7, <1>8

\* The day after the one in hand.
LEMMA NextDayRight ==
  ASSUME DueDateInv, pc = "count", NextDay, remaining' \in 0 .. 7,
         UNCHANGED <<config, cache, pc, call, calls>>,
         BusinessDaysIn(call.start, offset + 1, Today) + remaining' = call.days,
         ~Due(call.start, call.days, Today, offset)
  PROVE  DueDateInv'
<1>1. offset \in 0 .. MaxOffset /\ call.start \in Weekdays BY DEF DueDateInv, TypeOK
<1>2. offset' = offset + 1 /\ offset' \in 0 .. MaxOffset /\ offset \in Nat
  BY <1>1, LongestLimit DEF NextDay
<1>3. weekday' = Plus(call.start, offset + 1) /\ weekday' \in Weekdays
  <2>1. weekday' = Plus(Plus(call.start, offset), 1) BY DEF NextDay, DueDateInv, LoopRight
  <2>2. offset + 1 \in Nat BY <1>2
  <2> QED BY <1>1, <1>2, <2>1, <2>2, PlusIsWeekday
<1>4. TypeOK' BY <1>2, <1>3 DEF DueDateInv, TypeOK, Business
<1>5. LoopRight'
  <2>1. \A i \in 0 .. offset' - 1 : ~Due(call.start, call.days, Today, i)
    <3>1. \A i \in 0 .. offset' - 1 : i \in 0 .. offset - 1 \/ i = offset BY <1>2
    <3> QED BY <3>1 DEF DueDateInv, LoopRight
  <2> QED BY <1>2, <1>3, <2>1 DEF DueDateInv, LoopRight, Asked, Today
<1> QED
  BY <1>4, <1>5 DEF DueDateInv, CacheRight, StoreRight, RightDate

LEMMA CountRight ==
  ASSUME DueDateInv, Count
  PROVE  DueDateInv'
<1> DEFINE counted(n) == BusinessDaysIn(call.start, n, Today)
<1>1. /\ pc = "count" /\ NextDay /\ UNCHANGED <<config, cache, pc, call, calls>>
      /\ remaining \in 1 .. 7 /\ offset \in Nat /\ call.days \in Nat
  BY LongestLimit DEF Count, DueDateInv, TypeOK
<1>2. /\ weekday = Plus(call.start, offset) /\ counted(offset) + remaining = call.days
      /\ Business = Today
  BY <1>1, ConfigsOpen DEF DueDateInv, LoopRight, Business, Today
<1>3. /\ counted(offset) \in Nat
      /\ counted(offset + 1) = counted(offset) + (IF weekday \in Today THEN 1 ELSE 0)
  <2>1. counted(offset) \in Nat BY <1>1, CountFinite
  <2>2. counted(offset + 1) =
          counted(offset) + (IF Plus(call.start, offset) \in Today THEN 1 ELSE 0)
    BY <1>1, CountNext
  <2> QED BY <1>2, <2>1, <2>2
<1>4. remaining' = IF weekday \in Today THEN remaining - 1 ELSE remaining
  BY <1>2 DEF Count
<1> HIDE DEF counted
<1>5. remaining' \in 0 .. 7 /\ counted(offset + 1) + remaining' = call.days
  BY <1>1, <1>2, <1>3, <1>4
<1>6. ~(counted(offset) >= call.days) BY <1>1, <1>2, <1>3
<1> QED BY <1>1, <1>5, <1>6, NextDayRight DEF Due, counted

LEMMA RollForwardRight ==
  ASSUME DueDateInv, RollForward
  PROVE  DueDateInv'
<1> DEFINE counted(n) == BusinessDaysIn(call.start, n, Today)
<1>1. /\ pc = "count" /\ NextDay /\ UNCHANGED <<config, cache, pc, call, calls, remaining>>
      /\ remaining \in 0 .. 7 /\ offset \in Nat
  BY LongestLimit DEF RollForward, DueDateInv, TypeOK
<1>2. /\ weekday = Plus(call.start, offset) /\ counted(offset) + remaining = call.days
      /\ weekday \notin Today
  BY <1>1, ConfigsOpen DEF DueDateInv, LoopRight, Business, Today, RollForward
<1>3. counted(offset + 1) = counted(offset)
  <2>1. counted(offset) \in Nat BY <1>1, CountFinite
  <2>2. counted(offset + 1) =
          counted(offset) + (IF Plus(call.start, offset) \in Today THEN 1 ELSE 0)
    BY <1>1, CountNext
  <2> QED BY <1>2, <2>1, <2>2
<1> QED BY <1>1, <1>2, <1>3, NextDayRight DEF Due

\* When neither loop goes on, the day in hand is the first that is due.
LEMMA CountedRight ==
  ASSUME DueDateInv, Counted
  PROVE  DueDateInv'
<1>1. /\ pc = "count" /\ pc' = "store"
      /\ UNCHANGED <<config, cache, call, weekday, remaining, offset, calls>>
      /\ remaining = 0 /\ offset \in 0 .. MaxOffset /\ call.days \in Nat \ {0}
      /\ call.start \in Weekdays
  BY DueDateAssumption DEF Counted, DueDateInv, TypeOK, LoopRight, Asked
<1>2. /\ Plus(call.start, offset) \in Today /\ Today # {}
      /\ BusinessDaysIn(call.start, offset, Today) + 0 = call.days
      /\ \A i \in 0 .. offset - 1 : ~Due(call.start, call.days, Today, i)
  BY <1>1, ConfigsOpen DEF DueDateInv, LoopRight, Business, Today, Counted
<1>3. BusinessDaysIn(call.start, offset, Today) \in Nat
  <2>1. offset \in Nat BY <1>1, LongestLimit
  <2> QED BY <2>1, CountFinite
<1>4. Due(call.start, call.days, Today, offset) BY <1>1, <1>2, <1>3 DEF Due
<1>5. DaysToAdd(call.start, call.days, Today) = offset BY <1>1, <1>2, <1>4, FirstDue
<1>6. offset # 0
  <2>1. BusinessDaysIn(call.start, 7 * 0, Today) = 0 * Cardinality(Today)
    BY <1>1, WeeksCounted, ConfigsOpen DEF DueDateInv, Today
  <2>2. Cardinality(Today) \in 0 .. 7 BY BusinessDaysOfAWeek, ConfigsOpen DEF DueDateInv, Today
  <2> QED BY <1>1, <1>2, <2>1, <2>2
<1>7. TypeOK' BY <1>1 DEF DueDateInv, TypeOK, Business
<1>8. StoreRight' BY <1>1, <1>5, <1>6 DEF DueDateInv, LoopRight, StoreRight, Asked, Today
<1> QED BY <1>1, <1>7, <1>8 DEF DueDateInv, CacheRight, LoopRight, RightDate

LEMMA StoreStepRight ==
  ASSUME DueDateInv, Store
  PROVE  DueDateInv'
<1> DEFINE new == [key |-> Key(call.start, call.days, call.config), offset |-> offset]
<1>1. /\ pc = "store" /\ pc' = "done" /\ cache' = cache \cup {new}
      /\ UNCHANGED <<config, call, weekday, remaining, offset, calls>>
  BY DEF Store
<1>2. /\ Asked /\ offset \in 1 .. MaxOffset /\ call.start \in Weekdays
      /\ offset = DaysToAdd(call.start, call.days, Today)
  BY <1>1, LongestLimit DEF DueDateInv, StoreRight, TypeOK
<1>3. /\ new.key.start = call.start /\ new.key.days = call.days
      /\ new.key.config = call.config /\ new.offset = offset
  BY DEF Key
<1> HIDE DEF new
<1>4. TypeOK' BY <1>1, <1>2, <1>3 DEF DueDateInv, TypeOK, Business, Asked
<1>5. CacheRight' BY <1>1, <1>2, <1>3 DEF DueDateInv, CacheRight, Asked, Today
<1>6. RightDate' BY <1>1, <1>2 DEF RightDate, Today
<1> QED BY <1>1, <1>4, <1>5, <1>6 DEF DueDateInv, LoopRight, StoreRight

LEMMA BetweenCallsRight ==
  ASSUME DueDateInv, Configure \/ Return \/ UNCHANGED vars
  PROVE  DueDateInv'
<1>1. CASE Configure
  <2>1. TypeOK' BY <1>1 DEF Configure, DueDateInv, TypeOK, Business
  <2> QED
    BY <1>1, <2>1 DEF Configure, DueDateInv, CacheRight, LoopRight, StoreRight, RightDate
<1>2. CASE Return
  <2>1. IsBusinessDay({}) \subseteq Weekdays BY DEF IsBusinessDay
  <2>2. TypeOK' BY <1>2, <2>1, LongestLimit DEF Return, DueDateInv, TypeOK, Business, Weekdays
  <2> QED
    BY <1>2, <2>2 DEF Return, DueDateInv, CacheRight, LoopRight, StoreRight, RightDate
<1>3. CASE UNCHANGED vars
  <2>1. TypeOK' BY <1>3 DEF vars, DueDateInv, TypeOK, Business
  <2> QED
    BY <1>3, <2>1 DEF vars, DueDateInv, CacheRight, LoopRight, StoreRight, RightDate, Asked, Today
<1> QED BY <1>1, <1>2, <1>3

\* The invariant behind the theorems that follow: what is remembered is what its
\* key stands for, and each turn of the loops loses no business day and passes
\* over none that would have been the due date.
THEOREM DatesAreCounted == Spec => []DueDateInv
<1>1. DueDateInv /\ [Next]_vars => DueDateInv'
  BY CallKnownRight, CallCountRight, CountRight, RollForwardRight, CountedRight,
     StoreStepRight, BetweenCallsRight DEF Next, Compute
<1> QED BY <1>1, DueDateStarts, PTL DEF Spec

\* Calls, the cache and the locals of a call are well formed; the days added stay
\* within the bound of the longest time limit.
THEOREM DatesTyped == Spec => []TypeOK
<1>1. DueDateInv => TypeOK BY DEF DueDateInv
<1> QED BY <1>1, DatesAreCounted, PTL

\* calculateExpectedReturnDate answers with the first business day before which
\* the time limit has gone by, counted or remembered, whatever the administrators
\* configure between calls.
THEOREM DatesAreRight == Spec => []RightDate
<1>1. DueDateInv => RightDate BY DEF DueDateInv
<1> QED BY <1>1, DatesAreCounted, PTL

\* calculateDaysToAdd skips whole weeks, and loses no business day by it.
THEOREM NoDayIsLost == Spec => []NoDayLost
<1>1. DueDateInv => NoDayLost BY DEF DueDateInv, LoopRight, NoDayLost, Today
<1> QED BY <1>1, DatesAreCounted, PTL

\* Both loops of calculateDaysToAdd end by themselves, before the bound.
THEOREM LoopsStayBelowBound == Spec => []BoundNotMet
<1>1. DueDateInv => BoundNotMet BY LoopsEnd DEF BoundNotMet
<1> QED BY <1>1, DatesAreCounted, PTL
=============================================================================
