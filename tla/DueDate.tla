-------------------------------- MODULE DueDate --------------------------------
(***************************************************************************)
(* When a lending is due and a reservation expires: CalendarUtils counts   *)
(* business days forward from today, skipping whole weeks at once, and     *)
(* remembers what it counted in a cache that lives as long as the server,  *)
(* while administrators change which weekdays are business days.           *)
(*                                                                         *)
(* Weekdays are 1 (Monday) to 7 (Sunday), as in java.time.DayOfWeek; the   *)
(* configuration numbers them 1 (Sunday) to 7 (Saturday).                  *)
(***************************************************************************)
EXTENDS Integers, FiniteSets

CONSTANTS
  Starts,     \* weekdays on which calls are made
  Days,       \* time limits of user types: natural numbers
  Configs,    \* values of general.business_days, sets of configured weekdays
  MaxCalls    \* bound on calls

Weekdays == 1 .. 7

ASSUME DueDateAssumption ==
  /\ Starts \subseteq Weekdays /\ Days \subseteq Nat /\ IsFiniteSet(Days) /\ Days # {}
  /\ \A c \in Configs : c \subseteq Weekdays
  /\ MaxCalls \in Nat

\* Bound on the days added: each business day is at most a week away.
MaxOffset == 7 * (1 + CHOOSE d \in Days : \A e \in Days : e <= d)

VARIABLES
  config,     \* general.business_days
  cache,      \* CalendarUtils.expectedReturnDateCache: a set of entries [key, offset]
  pc,
  call,       \* arguments of the call in progress, with the configuration it read
  weekday, remaining, offset,   \* dayOfWeek, remainingDays, daysToAdd
  calls

vars == <<config, cache, pc, call, weekday, remaining, offset, calls>>

\* Seeded fault: Sunday is stored at index 0.
SundayFirst(c) == c - 1
toDayOfWeekValue(c) == IF c = 1 THEN 7 ELSE c - 1

IsBusinessDay(c) == {toDayOfWeekValue(w) : w \in c}
Business == IsBusinessDay(call.config)

Plus(w, n) == ((w - 1 + n) % 7) + 1

\* Seeded fault: the business days are not part of the key.
KeyWithoutConfig(start, days, c) == [start |-> start, days |-> days, config |-> {}]
Key(start, days, c) == [start |-> start, days |-> days, config |-> c]

\* What is remembered under the key of a call.
Cached(start, days) == {e \in cache : e.key = Key(start, days, config)}

-----------------------------------------------------------------------------
\* A call reads the configuration once, so that changing it during a call is
\* changing it for the next.
Configure ==
  /\ pc = "idle" /\ calls < MaxCalls
  /\ \E c \in Configs : c # config /\ config' = c
  /\ UNCHANGED <<cache, pc, call, weekday, remaining, offset, calls>>

\* A call that need not count: no days, or an offset that is remembered.
CallKnown(start, days) ==
  /\ pc = "idle" /\ calls < MaxCalls
  /\ \/ days = 0 /\ offset' = 0
     \/ days # 0 /\ \E e \in Cached(start, days) : offset' = e.offset
  /\ pc' = "done"
  /\ calls' = calls + 1
  /\ call' = [start |-> start, days |-> days, config |-> config]
  /\ UNCHANGED <<config, cache, weekday, remaining>>

\* calculateDaysToAdd, up to its loops.  All days but the last week's worth are
\* skipped, keeping one for the loop.
CallCount(start, days) ==
  /\ pc = "idle" /\ calls < MaxCalls
  /\ days # 0 /\ Cached(start, days) = {}
  /\ LET perWeek   == Cardinality(IsBusinessDay(config))
         fullWeeks == (days - 1) \div perWeek
     IN  IF perWeek = 0
         THEN /\ offset' = days /\ pc' = "store"
              /\ UNCHANGED <<weekday, remaining>>
         ELSE /\ remaining' = days - fullWeeks * perWeek
              /\ offset' = 7 * fullWeeks
              /\ weekday' = start
              /\ pc' = "count"
  /\ calls' = calls + 1
  /\ call' = [start |-> start, days |-> days, config |-> config]
  /\ UNCHANGED <<config, cache>>

NextDay ==
  /\ offset < MaxOffset
  /\ offset' = offset + 1 /\ weekday' = Plus(weekday, 1)

\* Seeded fault: weekends count.
CountEveryDay ==
  /\ pc = "count" /\ remaining > 0
  /\ remaining' = remaining - 1
  /\ NextDay
  /\ UNCHANGED <<config, cache, pc, call, calls>>

\* The first loop: count the business days that remain.
Count ==
  /\ pc = "count" /\ remaining > 0
  /\ remaining' = IF weekday \in Business THEN remaining - 1 ELSE remaining
  /\ NextDay
  /\ UNCHANGED <<config, cache, pc, call, calls>>

\* Seeded fault: the weekday does not advance.
RollStuck ==
  /\ pc = "count" /\ remaining <= 0 /\ weekday \notin Business
  /\ offset < MaxOffset
  /\ offset' = offset + 1
  /\ UNCHANGED <<config, cache, pc, call, remaining, weekday, calls>>

\* The second loop: the due date must itself be a business day.
RollForward ==
  /\ pc = "count" /\ remaining <= 0 /\ weekday \notin Business
  /\ NextDay
  /\ UNCHANGED <<config, cache, pc, call, remaining, calls>>

Counted ==
  /\ pc = "count" /\ remaining <= 0 /\ weekday \in Business
  /\ pc' = "store"
  /\ UNCHANGED <<config, cache, call, weekday, remaining, offset, calls>>

\* computeIfAbsent stores what was counted.
Store ==
  /\ pc = "store"
  /\ cache' = cache \cup
       {[key |-> Key(call.start, call.days, call.config), offset |-> offset]}
  /\ pc' = "done"
  /\ UNCHANGED <<config, call, weekday, remaining, offset, calls>>

\* The caller takes the date.  The locals of the call are gone.
Return ==
  /\ pc = "done"
  /\ pc' = "idle"
  /\ call' = [start |-> 1, days |-> 0, config |-> {}]
  /\ offset' = 0 /\ remaining' = 0 /\ weekday' = 1
  /\ UNCHANGED <<config, cache, calls>>

Init ==
  /\ config \in Configs /\ cache = {}
  /\ pc = "idle" /\ calls = 0
  /\ call = [start |-> 1, days |-> 0, config |-> {}]
  /\ weekday = 1 /\ remaining = 0 /\ offset = 0

Compute == Count \/ RollForward \/ Counted \/ Store

Next ==
  \/ Configure
  \/ \E start \in Starts, days \in Days : CallKnown(start, days) \/ CallCount(start, days)
  \/ Compute
  \/ Return

\* The thread that counts is not stopped: the loops make no call and take no lock.
Spec == Init /\ [][Next]_vars /\ WF_vars(Compute)

-----------------------------------------------------------------------------
TypeOK ==
  /\ config \in Configs
  /\ \A e \in cache : e.key.start \in Weekdays /\ e.key.days \in Days \ {0} /\ e.offset \in 1 .. MaxOffset
  /\ pc \in {"idle", "count", "store", "done"}
  /\ call.start \in Weekdays /\ weekday \in Weekdays /\ Business \subseteq Weekdays
  /\ remaining \in 0 .. 7 /\ offset \in 0 .. MaxOffset
  /\ calls \in 0 .. MaxCalls

\* How many of the n days from a weekday on are business days.
BusinessDaysIn(start, n, business) ==
  Cardinality({k \in 0 .. n - 1 : Plus(start, k) \in business})

\* The days to add: nothing for no days, plain days without business days, and
\* otherwise the first business day before which `days` business days went by.
DaysToAdd(start, days, business) ==
  CASE days = 0      -> 0
    [] business = {} -> days
    [] OTHER         ->
         CHOOSE n \in 0 .. MaxOffset :
           LET due(i) == /\ BusinessDaysIn(start, i, business) >= days
                         /\ Plus(start, i) \in business
           IN  due(n) /\ \A i \in 0 .. n - 1 : ~due(i)

\* The days of the week that are business days in a configuration.
Configured(c) == {w \in Weekdays : (w % 7) + 1 \in c}

\* calculateExpectedReturnDate answers with that day for the business days
\* configured when it is called, counted anew or remembered from a call that
\* was made under this or another configuration.
RightDate ==
  pc = "done" => offset = DaysToAdd(call.start, call.days, Configured(call.config))

\* Skipping whole weeks loses no business day: what was counted and what
\* remains make up the limit, at every turn of the loop.
NoDayLost ==
  pc = "count" => BusinessDaysIn(call.start, offset, Configured(call.config)) + remaining = call.days

\* Both loops end within two weeks of the weeks that were skipped: the bound on
\* the days added is never what stops them.
BoundNotMet == pc = "count" => offset < MaxOffset

\* Every call gets its date: the second loop finds a business day.
CallReturns == (pc = "count") ~> (pc = "done")

=============================================================================
