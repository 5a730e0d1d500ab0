--------------------------- MODULE Circulation_proofs ---------------------------
(***************************************************************************)
(* Proofs about Circulation, for every library, policy and number of       *)
(* requests: the tables and jobs are well formed, whatever happens; and    *)
(* under the conditions named there a copy is on one open lending, a       *)
(* lending has one fine and only while it is closed, and return dates stay.*)
(***************************************************************************)
EXTENDS Circulation, TLAPS

USE DEF LendingIds, FineIds, ReservationIds

\* What a row looks like once it is known to be stored.
LEMMA RowShape ==
  ASSUME RowsOK
  PROVE  /\ \A i \in LendingIds : Stored(i) => lendings[i] \in LendingRow
         /\ \A f \in FineIds : fines[f] # NoRow => fines[f] \in FineRow
         /\ \A k \in ReservationIds :
              reservations[k] # NoRow => reservations[k] \in ReservationRow
BY DEF RowsOK, Stored

\* The fine of a late return is a natural number of currency units.
LEMMA LateFineNat ==
  ASSUME RowsOK, NEW i \in LendingIds, Stored(i), NEW t \in Instants
  PROVE  LateFine(i, t) \in Nat
<1>1. lendings[i] \in LendingRow BY RowShape
<1>2. lendings[i].user \in Users /\ lendings[i].due \in Nat BY <1>1 DEF LendingRow
<1>3. DayOf[t] \in Nat BY TimeAssumption
<1>4. DaysLate(i, t) \in Int BY <1>2, <1>3 DEF DaysLate
<1>5. FineRate[lendings[i].user] \in Nat BY <1>2, PolicyAssumption
<1>6. ASSUME NEW d \in Int, NEW c \in Nat PROVE (IF d <= 0 THEN 0 ELSE d * c) \in Nat
  <2>1. CASE d <= 0 BY <2>1
  <2>2. CASE d > 0
    <3>1. d \in Nat BY <2>2
    <3>2. d * c \in Nat BY <3>1
    <3> QED BY <2>2, <3>2
  <2> QED BY <2>1, <2>2
<1> QED BY <1>4, <1>5, <1>6 DEF LateFine, FineValue

\* The empty job is a job.
LEMMA NoJobTyped == NoJob \in Job
BY BoundAssumption DEF NoJob, Job, NoTime

JobSteps == LendSteps \cup LendingSteps \cup ReserveSteps
              \cup {"idle", "adjust.write", "pay.write"}

(* Moving a request on.  A request whose new job fits its new step keeps   *)
(* JobsOK as long as no lending is lost.                                   *)
JobFits(step, j) ==
  /\ step \in LendSteps \cup LendingSteps => j.holding \in Holdings
  /\ step \in LendSteps \cup RenewSteps \cup ReserveSteps => j.user \in Users
  /\ step \in ReserveSteps => j.record \in Records
  /\ step \in {"undo.delete", "adjust.write", "pay.write"} => j.fine \in FineIds
  /\ step \in LendingSteps =>
       /\ j.lending \in LendingIds /\ Stored(j.lending)
       /\ lendings[j.lending].holding = j.holding

LEMMA RunTyped ==
  ASSUME TypeOK, NEW r \in Requests, NEW step \in Labels, NEW j \in Job,
         Run(r, step, j), JobFits(step, j)'
  PROVE  /\ pc' \in [Requests -> Labels] /\ job' \in [Requests -> Job]
         /\ (\A i \in LendingIds : Stored(i) =>
               Stored(i)' /\ lendings'[i].holding = lendings[i].holding)
            => JobsOK'
<1>1. pc' \in [Requests -> Labels] /\ job' \in [Requests -> Job]
  BY DEF TypeOK, RowsOK, Run
<1>2. ASSUME \A i \in LendingIds : Stored(i) =>
               Stored(i)' /\ lendings'[i].holding = lendings[i].holding
      PROVE  JobsOK'
  <2>1. pc'[r] = step /\ job'[r] = j BY DEF TypeOK, RowsOK, Run
  <2>2. \A s \in Requests \ {r} : pc'[s] = pc[s] /\ job'[s] = job[s]
    BY DEF TypeOK, RowsOK, Run
  <2> QED BY <1>2, <2>1, <2>2 DEF TypeOK, JobsOK, JobFits
<1> QED BY <1>1, <1>2

THEOREM InitTyped == Init => TypeOK
<1> SUFFICES ASSUME Init PROVE TypeOK OBVIOUS
<1>1. RowsOK
  BY NoJobTyped, TimeAssumption, BoundAssumption
     DEF Init, RowsOK, Labels, Statuses, Availabilities
<1>2. JobsOK
  BY DEF Init, JobsOK, LendSteps, LendingSteps, RenewSteps, ReturnSteps, UndoSteps, ReserveSteps
<1>3. SequencesOK BY DEF Init, SequencesOK, Stored
<1> QED BY <1>1, <1>2, <1>3 DEF TypeOK

(* Steps that read: the tables stay as they are.                           *)
LEMMA ReadTyped ==
  ASSUME TypeOK, NEW r \in Requests, NEW step \in Labels, NEW j \in Job,
         Run(r, step, j), JobFits(step, j),
         UNCHANGED <<lendings, fines, reservations, nextId, settings>>
  PROVE  TypeOK'
<1>1. JobFits(step, j)' BY DEF JobFits, Stored
<1>2. JobsOK' /\ pc' \in [Requests -> Labels] /\ job' \in [Requests -> Job]
  BY <1>1, RunTyped DEF Stored
<1>3. RowsOK' BY <1>2 DEF TypeOK, RowsOK, settings
<1>4. SequencesOK' BY DEF TypeOK, SequencesOK, Stored
<1> QED BY <1>2, <1>3, <1>4 DEF TypeOK

LEMMA Bounds == MaxLendings \in Nat /\ MaxFines \in Nat /\ MaxReservations \in Nat
BY BoundAssumption

LEMMA IdsInJobs ==
  /\ \A i \in LendingIds : i \in 0 .. MaxLendings
  /\ \A f \in FineIds : f \in 0 .. MaxFines
BY BoundAssumption

USE DEF LendSteps, LendingSteps, RenewSteps, ReturnSteps, UndoSteps, ReserveSteps

\* A request whose step asks nothing of the job, or what it already has.
LEMMA KeepFits ==
  ASSUME TypeOK, NEW r \in Requests
  PROVE  /\ JobFits("idle", NoJob)
         /\ job[r] \in Job /\ pc[r] \in Labels
         /\ JobFits(pc[r], job[r])
BY DEF TypeOK, RowsOK, JobsOK, JobFits

LEMMA ContinueTyped ==
  ASSUME TypeOK, NEW r \in Requests, NEW ok \in BOOLEAN, NEW step \in Labels,
         JobFits(step, job[r]), Continue(r, ok, step),
         UNCHANGED <<lendings, fines, reservations, nextId, settings>>
  PROVE  TypeOK'
<1>1. CASE ok
  <2>1. Run(r, step, job[r]) BY <1>1 DEF Continue, Goto
  <2> QED BY <2>1, KeepFits, ReadTyped
<1>2. CASE ~ok
  <2>1. Run(r, "idle", NoJob) BY <1>2 DEF Continue, Finish
  <2> QED BY <2>1, KeepFits, ReadTyped, NoJobTyped DEF Labels
<1> QED BY <1>1, <1>2

\* Every handler starts with reads, and remembers well-typed values.
LEMMA StartTyped ==
  ASSUME TypeOK, NEW r \in Requests, Start(r)
  PROVE  TypeOK'
<1>1. ASSUME NEW h \in Holdings, NEW u \in Users, LendStart(r, h, u) PROVE TypeOK'
  <2> DEFINE j == [NoJob EXCEPT !.holding = h, !.user = u]
  <2>1. j \in Job BY NoJobTyped DEF NoJob, Job
  <2>2. JobFits("lend.holding", j) BY DEF JobFits, NoJob
  <2> QED BY <1>1, <2>1, <2>2, ReadTyped DEF LendStart, Labels
<1>2. ASSUME NEW i \in LendingIds, RenewStart(r, i) PROVE TypeOK'
  <2> DEFINE j == [NoJob EXCEPT !.lending = i, !.holding = lendings[i].holding,
                                !.user = lendings[i].user]
  <2>1. Stored(i) /\ lendings[i] \in LendingRow BY <1>2, RowShape DEF RenewStart, TypeOK
  <2>2. j \in Job BY <2>1, NoJobTyped, IdsInJobs DEF Job, LendingRow
  <2>3. JobFits("renew.limit", j) BY <2>1 DEF JobFits, NoJob, LendingRow
  <2> QED BY <1>2, <2>2, <2>3, ReadTyped DEF RenewStart, Labels
<1>3. ASSUME NEW i \in LendingIds, NEW v \in Amounts, NEW p \in BOOLEAN,
             ReturnStart(r, i, v, p)
      PROVE  TypeOK'
  <2> DEFINE j == [NoJob EXCEPT !.lending = i, !.holding = lendings[i].holding,
                                !.value = v, !.paid = p]
  <2>1. Stored(i) /\ lendings[i] \in LendingRow BY <1>3, RowShape DEF ReturnStart, TypeOK
  <2>2. v \in Nat BY PolicyAssumption
  <2>3. j \in Job BY <2>1, <2>2, NoJobTyped, IdsInJobs DEF Job, LendingRow
  <2>4. JobFits("return.close", j) BY <2>1 DEF JobFits, NoJob, LendingRow
  <2> QED BY <1>3, <2>3, <2>4, ReadTyped DEF ReturnStart, Labels
<1>4. ASSUME NEW i \in LendingIds, ImmediateStart(r, i) PROVE TypeOK'
  <2> DEFINE j == [NoJob EXCEPT !.lending = i, !.holding = lendings[i].holding]
  <2>1. Stored(i) /\ lendings[i] \in LendingRow
    BY <1>4, RowShape DEF ImmediateStart, Open, Stored, TypeOK
  <2>2. j \in Job BY <2>1, NoJobTyped, IdsInJobs DEF Job, LendingRow
  <2>3. JobFits("immediate.close", j) BY <2>1 DEF JobFits, NoJob, LendingRow
  <2> QED BY <1>4, <2>2, <2>3, ReadTyped DEF ImmediateStart, Labels
<1>5. ASSUME NEW i \in LendingIds, UndoStart(r, i) PROVE TypeOK'
  <2> DEFINE j == [NoJob EXCEPT !.lending = i, !.holding = lendings[i].holding,
                                !.returned = lendings[i].returned]
  <2>1. Stored(i) /\ lendings[i] \in LendingRow
    BY <1>5, RowShape DEF UndoStart, Closed, Stored, TypeOK
  <2>2. j \in Job BY <2>1, NoJobTyped, IdsInJobs DEF Job, LendingRow
  <2>3. JobFits("undo.holding", j) BY <2>1 DEF JobFits, NoJob, LendingRow
  <2> QED BY <1>5, <2>2, <2>3, ReadTyped DEF UndoStart, Labels
<1>6. ASSUME NEW f \in FineIds, NEW v \in Amounts, AdjustStart(r, f, v) PROVE TypeOK'
  <2> DEFINE j == [NoJob EXCEPT !.fine = f, !.value = v]
  <2>1. v \in Nat BY PolicyAssumption
  <2>2. j \in Job BY <2>1, NoJobTyped, IdsInJobs DEF Job
  <2>3. JobFits("adjust.write", j) BY DEF JobFits, NoJob
  <2> QED BY <1>6, <2>2, <2>3, ReadTyped DEF AdjustStart, Labels
<1>7. ASSUME NEW f \in FineIds, NEW e \in BOOLEAN, PayStart(r, f, e) PROVE TypeOK'
  <2> DEFINE j == [NoJob EXCEPT !.fine = f, !.value = IF e THEN 0 ELSE fines[f].value]
  <2>1. fines[f] \in FineRow BY <1>7, RowShape DEF PayStart, TypeOK
  <2>2. j \in Job BY <2>1, NoJobTyped, IdsInJobs DEF Job, FineRow
  <2>3. JobFits("pay.write", j) BY DEF JobFits, NoJob
  <2> QED BY <1>7, <2>2, <2>3, ReadTyped DEF PayStart, Labels
<1>8. ASSUME NEW u \in Users, NEW rec \in Records, ReserveStart(r, u, rec) PROVE TypeOK'
  <2> DEFINE j == [NoJob EXCEPT !.user = u, !.record = rec]
  <2>1. j \in Job BY NoJobTyped DEF NoJob, Job
  <2>2. JobFits("reserve.limit", j) BY DEF JobFits, NoJob
  <2> QED BY <1>8, <2>1, <2>2, ReadTyped DEF ReserveStart, Labels
<1> QED BY <1>1, <1>2, <1>3, <1>4, <1>5, <1>6, <1>7, <1>8 DEF Start

(* Steps that write a table.                                               *)

\* Writing a return date keeps every lending where it is.
LEMMA ReturnDateTyped ==
  ASSUME TypeOK, NEW i \in LendingIds, Stored(i), NEW t \in Instants \cup {NoTime},
         lendings' = [lendings EXCEPT ![i].returned = t]
  PROVE  /\ lendings' \in [LendingIds -> LendingRow \cup {NoRow}]
         /\ \A k \in LendingIds : Stored(k)' <=> Stored(k)
         /\ \A k \in LendingIds : Stored(k) =>
              lendings'[k].holding = lendings[k].holding
<1>1. lendings[i] \in LendingRow BY RowShape DEF TypeOK
<1>2. [lendings[i] EXCEPT !.returned = t] \in LendingRow BY <1>1 DEF LendingRow
<1>3. [lendings[i] EXCEPT !.returned = t] # NoRow BY <1>2, CatalogAssumption
<1>4. [lendings[i] EXCEPT !.returned = t].holding = lendings[i].holding
  BY <1>1 DEF LendingRow
<1> QED BY <1>2, <1>3, <1>4 DEF TypeOK, RowsOK, Stored

\* Inserting a lending: the sequence gives an id no row has.
LEMMA InsertLendingTyped ==
  ASSUME TypeOK, NEW h \in Holdings, NEW u \in Users, NEW p \in 0 .. MaxLendings,
         NEW base \in [LendingIds -> LendingRow \cup {NoRow}],
         \A k \in LendingIds : base[k] # NoRow <=> Stored(k),
         \A k \in LendingIds : Stored(k) => base[k].holding = lendings[k].holding,
         InsertLending(h, u, p, base)
  PROVE  /\ lendings' \in [LendingIds -> LendingRow \cup {NoRow}]
         /\ nextId' \in [lending : 1 .. MaxLendings + 1, fine : 1 .. MaxFines + 1,
                         reservation : 1 .. MaxReservations + 1]
         /\ \A k \in LendingIds : Stored(k)' <=> k < nextId'.lending
         /\ \A k \in LendingIds : Stored(k) =>
              Stored(k)' /\ lendings'[k].holding = lendings[k].holding
         /\ nextId'.fine = nextId.fine
<1> DEFINE n   == nextId.lending
           row == [holding |-> h, user |-> u, previous |-> p,
                   due |-> LendingDue[u][now], returned |-> NoTime]
<1>1. n \in LendingIds /\ lendings' = [base EXCEPT ![n] = row]
      /\ nextId' = [nextId EXCEPT !.lending = n + 1]
  BY DEF InsertLending
<1>2. LendingDue[u][now] \in Nat BY TimeAssumption DEF TypeOK, RowsOK
<1>3. row \in LendingRow BY <1>2 DEF LendingRow
<1>4. row # NoRow BY <1>3, CatalogAssumption
<1>5. ~Stored(n) BY <1>1 DEF TypeOK, SequencesOK
<1>6. lendings' \in [LendingIds -> LendingRow \cup {NoRow}] BY <1>1, <1>3
<1>7. nextId' \in [lending : 1 .. MaxLendings + 1, fine : 1 .. MaxFines + 1,
                   reservation : 1 .. MaxReservations + 1]
      /\ nextId'.lending = n + 1 /\ nextId'.fine = nextId.fine
  <2>1. nextId \in [lending : 1 .. MaxLendings + 1, fine : 1 .. MaxFines + 1,
                    reservation : 1 .. MaxReservations + 1]
    BY DEF TypeOK, RowsOK
  <2>2. n + 1 \in 1 .. MaxLendings + 1 BY <1>1, Bounds
  <2> QED BY <1>1, <2>1, <2>2
<1>8. \A k \in LendingIds : Stored(k) =>
         Stored(k)' /\ lendings'[k].holding = lendings[k].holding
  BY <1>1, <1>5 DEF Stored
<1>9. ASSUME NEW k \in LendingIds PROVE Stored(k)' <=> k < n + 1
  <2>1. CASE k = n BY <2>1, <1>1, <1>4, Bounds DEF Stored
  <2>2. CASE k # n
    <3>1. Stored(k)' <=> Stored(k) BY <2>2, <1>1 DEF Stored
    <3>2. Stored(k) <=> k < n BY DEF TypeOK, SequencesOK
    <3>3. k < n <=> k < n + 1 BY <2>2, <1>1, Bounds
    <3> QED BY <3>1, <3>2, <3>3
  <2> QED BY <2>1, <2>2
<1> QED BY <1>6, <1>7, <1>8, <1>9

\* Inserting a fine for a stored lending.
LEMMA InsertFineTyped ==
  ASSUME TypeOK, NEW i \in LendingIds, Stored(i), NEW v \in Nat, NEW p \in BOOLEAN,
         InsertFine(i, v, p), UNCHANGED lendings
  PROVE  /\ fines' \in [FineIds -> FineRow \cup {NoRow}]
         /\ nextId' \in [lending : 1 .. MaxLendings + 1, fine : 1 .. MaxFines + 1,
                         reservation : 1 .. MaxReservations + 1]
         /\ SequencesOK'
<1> DEFINE n   == nextId.fine
           row == [lending |-> i, value |-> v, paid |-> p]
<1>1. n \in FineIds /\ fines' = [fines EXCEPT ![n] = row]
      /\ nextId' = [nextId EXCEPT !.fine = n + 1]
  BY DEF InsertFine
<1>2. row \in FineRow BY DEF FineRow
<1>3. fines' \in [FineIds -> FineRow \cup {NoRow}] BY <1>1, <1>2 DEF TypeOK, RowsOK
<1>4. nextId' \in [lending : 1 .. MaxLendings + 1, fine : 1 .. MaxFines + 1,
                   reservation : 1 .. MaxReservations + 1]
      /\ nextId'.lending = nextId.lending /\ nextId'.fine = n + 1
  <2>1. nextId \in [lending : 1 .. MaxLendings + 1, fine : 1 .. MaxFines + 1,
                    reservation : 1 .. MaxReservations + 1]
    BY DEF TypeOK, RowsOK
  <2>2. n + 1 \in 1 .. MaxFines + 1 BY <1>1, Bounds
  <2> QED BY <1>1, <2>1, <2>2
<1>5. \A k \in LendingIds : Stored(k)' <=> k < nextId'.lending
  BY <1>4 DEF TypeOK, SequencesOK, Stored
<1>6. ASSUME NEW f \in FineIds, fines'[f] # NoRow
      PROVE  f < nextId'.fine /\ Stored(fines[f].lending)'
  <2>0. lendings' = lendings OBVIOUS
  <2>1. CASE f = n
    <3>1. fines'[f] = row BY <2>1, <1>1 DEF TypeOK, RowsOK
    <3>2. fines'[f].lending = i BY <3>1
    <3>3. f < n + 1 BY <2>1, <1>1, Bounds
    <3> QED BY <3>2, <3>3, <2>0, <1>4 DEF Stored
  <2>2. CASE f # n
    <3>1. fines'[f] = fines[f] BY <2>2, <1>1 DEF TypeOK, RowsOK
    <3>2. f < n /\ Stored(fines[f].lending) BY <3>1, <1>6 DEF TypeOK, SequencesOK
    <3>3. f < n + 1 BY <3>2, <1>1, Bounds
    <3> QED BY <3>1, <3>2, <3>3, <2>0, <1>4 DEF Stored
  <2> QED BY <2>1, <2>2
<1> QED BY <1>3, <1>4, <1>5, <1>6 DEF SequencesOK

LEMMA WriteTyped ==
  ASSUME TypeOK, NEW r \in Requests, NEW step \in Labels, NEW j \in Job,
         Run(r, step, j), JobFits(step, j),
         \A k \in LendingIds : Stored(k) =>
           Stored(k)' /\ lendings'[k].holding = lendings[k].holding
  PROVE  JobsOK' /\ pc' \in [Requests -> Labels] /\ job' \in [Requests -> Job]
<1>1. JobFits(step, j)' BY DEF JobFits
<1> QED BY <1>1, RunTyped

\* The checks between two statements only move the request.
LEMMA CheckTyped ==
  ASSUME TypeOK, NEW r \in Requests,
         \/ LendCheckHolding(r) \/ LendCheckLimit(r) \/ RenewCheckLimit(r)
         \/ UndoCheckHolding(r) \/ ReserveCheckLimit(r)
  PROVE  TypeOK'
<1>0. JobFits(pc[r], job[r]) BY KeepFits
<1>1. ASSUME LendCheckHolding(r) PROVE TypeOK'
  <2>1. JobFits("lend.limit", job[r]) BY <1>0, <1>1 DEF LendCheckHolding, JobFits
  <2> DEFINE ok == ~IsLent(job[r].holding)
  <2>2. ok \in BOOLEAN /\ Continue(r, ok, "lend.limit")
        /\ UNCHANGED <<lendings, fines, reservations, nextId, settings>>
    BY <1>1 DEF LendCheckHolding
  <2> HIDE DEF ok
  <2> QED BY <2>1, <2>2, ContinueTyped DEF Labels
<1>2. ASSUME LendCheckLimit(r) PROVE TypeOK'
  <2>1. JobFits("lend.insert", job[r]) BY <1>0, <1>2 DEF LendCheckLimit, JobFits
  <2> DEFINE ok == (Cardinality(OpenOf(job[r].user)) < LendingLimit[job[r].user])
  <2>2. ok \in BOOLEAN /\ Continue(r, ok, "lend.insert")
        /\ UNCHANGED <<lendings, fines, reservations, nextId, settings>>
    BY <1>2 DEF LendCheckLimit
  <2> HIDE DEF ok
  <2> QED BY <2>1, <2>2, ContinueTyped DEF Labels
<1>3. ASSUME RenewCheckLimit(r) PROVE TypeOK'
  <2>1. JobFits("renew.commit", job[r]) BY <1>0, <1>3 DEF RenewCheckLimit, JobFits
  <2> DEFINE ok == (Cardinality(OpenOf(job[r].user)) <= LendingLimit[job[r].user])
  <2>2. ok \in BOOLEAN /\ Continue(r, ok, "renew.commit")
        /\ UNCHANGED <<lendings, fines, reservations, nextId, settings>>
    BY <1>3 DEF RenewCheckLimit
  <2> HIDE DEF ok
  <2> QED BY <2>1, <2>2, ContinueTyped DEF Labels
<1>4. ASSUME UndoCheckHolding(r) PROVE TypeOK'
  <2>1. JobFits("undo.fine", job[r]) BY <1>0, <1>4 DEF UndoCheckHolding, JobFits
  <2> DEFINE ok == ~IsLent(job[r].holding)
  <2>2. ok \in BOOLEAN /\ Continue(r, ok, "undo.fine")
        /\ UNCHANGED <<lendings, fines, reservations, nextId, settings>>
    BY <1>4 DEF UndoCheckHolding
  <2> HIDE DEF ok
  <2> QED BY <2>1, <2>2, ContinueTyped DEF Labels
<1>5. ASSUME ReserveCheckLimit(r) PROVE TypeOK'
  <2>1. JobFits("reserve.insert", job[r]) BY <1>0, <1>5 DEF ReserveCheckLimit, JobFits
  <2> DEFINE ok == (Cardinality(LiveOf(job[r].user)) < ReservationLimit[job[r].user])
  <2>2. ok \in BOOLEAN /\ Continue(r, ok, "reserve.insert")
        /\ UNCHANGED <<lendings, fines, reservations, nextId, settings>>
    BY <1>5 DEF ReserveCheckLimit
  <2> HIDE DEF ok
  <2> QED BY <2>1, <2>2, ContinueTyped DEF Labels
<1> QED BY <1>1, <1>2, <1>3, <1>4, <1>5

LEMMA LendInsertTyped ==
  ASSUME TypeOK, NEW r \in Requests, LendInsert(r) PROVE TypeOK'
<1>1. JobFits(pc[r], job[r]) /\ job[r] \in Job BY KeepFits
<1>2. job[r].holding \in Holdings /\ job[r].user \in Users BY <1>1 DEF LendInsert, JobFits
<1>3. /\ InsertLending(job[r].holding, job[r].user, 0, lendings)
      /\ Run(r, "lend.dequeue", job[r]) /\ UNCHANGED <<fines, reservations, settings>>
  BY DEF LendInsert, Goto
<1>4. lendings \in [LendingIds -> LendingRow \cup {NoRow}]
      /\ \A k \in LendingIds : lendings[k] # NoRow <=> Stored(k)
  BY DEF TypeOK, RowsOK, Stored
<1>5. 0 \in 0 .. MaxLendings BY Bounds
<1>6. /\ lendings' \in [LendingIds -> LendingRow \cup {NoRow}]
      /\ nextId' \in [lending : 1 .. MaxLendings + 1, fine : 1 .. MaxFines + 1,
                      reservation : 1 .. MaxReservations + 1]
      /\ \A k \in LendingIds : Stored(k)' <=> k < nextId'.lending
      /\ \A k \in LendingIds : Stored(k) =>
           Stored(k)' /\ lendings'[k].holding = lendings[k].holding
      /\ nextId'.fine = nextId.fine
  BY <1>2, <1>3, <1>4, <1>5, InsertLendingTyped
<1>7. JobFits("lend.dequeue", job[r]) BY <1>2 DEF JobFits
<1>8. JobsOK' /\ pc' \in [Requests -> Labels] /\ job' \in [Requests -> Job]
  BY <1>1, <1>3, <1>6, <1>7, WriteTyped DEF Labels
<1>9. RowsOK' BY <1>3, <1>6, <1>8 DEF TypeOK, RowsOK, settings
<1>10. SequencesOK'
  <2>1. fines' = fines BY <1>3
  <2>2. \A f \in FineIds : fines[f] # NoRow => fines[f].lending \in LendingIds
    BY RowShape DEF TypeOK, FineRow
  <2> QED BY <2>1, <2>2, <1>6 DEF TypeOK, SequencesOK
<1> QED BY <1>8, <1>9, <1>10 DEF TypeOK

LEMMA RenewCommitTyped ==
  ASSUME TypeOK, NEW r \in Requests, RenewCommit(r) PROVE TypeOK'
<1> DEFINE i == job[r].lending
<1>1. JobFits(pc[r], job[r]) /\ job[r] \in Job BY KeepFits
<1>2. job[r].holding \in Holdings /\ job[r].user \in Users /\ i \in LendingIds /\ Stored(i)
  BY <1>1 DEF RenewCommit, JobFits
<1>3. /\ InsertLending(job[r].holding, job[r].user, i, Close(i))
      /\ Run(r, "idle", NoJob) /\ UNCHANGED <<fines, reservations, settings>>
  BY DEF RenewCommit, Finish
<1>4. /\ Close(i) \in [LendingIds -> LendingRow \cup {NoRow}]
      /\ \A k \in LendingIds : Close(i)[k] # NoRow <=> Stored(k)
      /\ \A k \in LendingIds : Stored(k) => Close(i)[k].holding = lendings[k].holding
  <2>1. lendings[i] \in LendingRow BY <1>2, RowShape DEF TypeOK
  <2>2. now \in Instants BY DEF TypeOK, RowsOK
  <2>3. [lendings[i] EXCEPT !.returned = now] \in LendingRow BY <2>1, <2>2 DEF LendingRow
  <2>4. [lendings[i] EXCEPT !.returned = now] # NoRow BY <2>3, CatalogAssumption
  <2>5. [lendings[i] EXCEPT !.returned = now].holding = lendings[i].holding
    BY <2>1 DEF LendingRow
  <2> QED BY <1>2, <2>3, <2>4, <2>5 DEF Close, TypeOK, RowsOK, Stored
<1>5. i \in 0 .. MaxLendings BY <1>2, IdsInJobs
<1>6. /\ lendings' \in [LendingIds -> LendingRow \cup {NoRow}]
      /\ nextId' \in [lending : 1 .. MaxLendings + 1, fine : 1 .. MaxFines + 1,
                      reservation : 1 .. MaxReservations + 1]
      /\ \A k \in LendingIds : Stored(k)' <=> k < nextId'.lending
      /\ \A k \in LendingIds : Stored(k) =>
           Stored(k)' /\ lendings'[k].holding = lendings[k].holding
      /\ nextId'.fine = nextId.fine
  BY <1>2, <1>3, <1>4, <1>5, InsertLendingTyped
<1>7. JobsOK' /\ pc' \in [Requests -> Labels] /\ job' \in [Requests -> Job]
  BY <1>3, <1>6, KeepFits, NoJobTyped, WriteTyped DEF Labels
<1>8. RowsOK' BY <1>3, <1>6, <1>7 DEF TypeOK, RowsOK, settings
<1>9. SequencesOK'
  <2>1. fines' = fines BY <1>3
  <2>2. \A f \in FineIds : fines[f] # NoRow => fines[f].lending \in LendingIds
    BY RowShape DEF TypeOK, FineRow
  <2> QED BY <2>1, <2>2, <1>6 DEF TypeOK, SequencesOK
<1> QED BY <1>7, <1>8, <1>9 DEF TypeOK

\* Return and undo write the return date of the lending of the job.
LEMMA DateWriteTyped ==
  ASSUME TypeOK, NEW r \in Requests, NEW t \in Instants \cup {NoTime},
         NEW step \in Labels, NEW j \in Job,
         pc[r] \in LendingSteps,
         lendings' = [lendings EXCEPT ![job[r].lending].returned = t],
         Run(r, step, j), JobFits(step, j),
         UNCHANGED <<fines, reservations, nextId, settings>>
  PROVE  TypeOK'
<1> DEFINE i == job[r].lending
<1>1. i \in LendingIds /\ Stored(i) BY KeepFits DEF JobFits
<1>2. /\ lendings' \in [LendingIds -> LendingRow \cup {NoRow}]
      /\ \A k \in LendingIds : Stored(k)' <=> Stored(k)
      /\ \A k \in LendingIds : Stored(k) => lendings'[k].holding = lendings[k].holding
  BY <1>1, ReturnDateTyped
<1>3. JobsOK' /\ pc' \in [Requests -> Labels] /\ job' \in [Requests -> Job]
  BY <1>2, WriteTyped
<1>4. RowsOK' BY <1>2, <1>3 DEF TypeOK, RowsOK, settings
<1>5. SequencesOK'
  <2>1. \A f \in FineIds : fines[f] # NoRow => fines[f].lending \in LendingIds
    BY RowShape DEF TypeOK, FineRow
  <2> QED BY <2>1, <1>2 DEF TypeOK, SequencesOK
<1> QED BY <1>3, <1>4, <1>5 DEF TypeOK

LEMMA ReturnTyped ==
  ASSUME TypeOK, NEW r \in Requests,
         ReturnClose(r) \/ ImmediateClose(r) \/ UndoReopen(r)
  PROVE  TypeOK'
<1>1. JobFits(pc[r], job[r]) /\ job[r] \in Job BY KeepFits
<1>2. now \in Instants BY DEF TypeOK, RowsOK
<1>3. CASE ReturnClose(r)
  <2>1. JobFits("return.fine", job[r]) BY <1>1, <1>3 DEF ReturnClose, JobFits
  <2>2. lendings' = [lendings EXCEPT ![job[r].lending].returned = now]
    BY <1>3 DEF ReturnClose, Close
  <2>3. \E step \in Labels, j \in Job : Run(r, step, j) /\ JobFits(step, j)
    BY <1>1, <1>3, <2>1, KeepFits, NoJobTyped
       DEF ReturnClose, Continue, Goto, Finish, Labels
  <2> QED BY <1>2, <1>3, <2>2, <2>3, DateWriteTyped DEF ReturnClose
<1>4. CASE ImmediateClose(r)
  <2>1. JobFits("immediate.fine", job[r]) BY <1>1, <1>4 DEF ImmediateClose, JobFits
  <2> QED BY <1>1, <1>2, <1>4, <2>1, DateWriteTyped DEF ImmediateClose, Close, Goto, Labels
<1>5. CASE UndoReopen(r)
  BY <1>5, KeepFits, NoJobTyped, DateWriteTyped DEF UndoReopen, Finish, Labels
<1> QED BY <1>3, <1>4, <1>5

LEMMA FineInsertTyped ==
  ASSUME TypeOK, NEW r \in Requests, ReturnFine(r) \/ ImmediateFine(r)
  PROVE  TypeOK'
<1> DEFINE i == job[r].lending
<1>1. i \in LendingIds /\ Stored(i) /\ job[r] \in Job
  BY KeepFits DEF JobFits, ReturnFine, ImmediateFine
<1>2. Run(r, "idle", NoJob) /\ UNCHANGED <<lendings, reservations, settings>>
  BY DEF ReturnFine, ImmediateFine, Finish
<1>3. JobsOK' /\ pc' \in [Requests -> Labels] /\ job' \in [Requests -> Job]
  BY <1>2, KeepFits, NoJobTyped, WriteTyped DEF Labels, Stored
<1>4. CASE UNCHANGED <<fines, nextId>>
  <2>1. RowsOK' BY <1>2, <1>3, <1>4 DEF TypeOK, RowsOK, settings
  <2>2. SequencesOK' BY <1>2, <1>4 DEF TypeOK, SequencesOK, Stored
  <2> QED BY <2>1, <2>2, <1>3 DEF TypeOK
<1>5. ASSUME NEW v \in Nat, NEW p \in BOOLEAN, InsertFine(i, v, p) PROVE TypeOK'
  <2>1. /\ fines' \in [FineIds -> FineRow \cup {NoRow}]
        /\ nextId' \in [lending : 1 .. MaxLendings + 1, fine : 1 .. MaxFines + 1,
                        reservation : 1 .. MaxReservations + 1]
        /\ SequencesOK'
    BY <1>1, <1>2, <1>5, InsertFineTyped
  <2>2. RowsOK' BY <1>2, <1>3, <2>1 DEF TypeOK, RowsOK, settings
  <2> QED BY <2>1, <2>2, <1>3 DEF TypeOK
<1>6. CASE ReturnFine(r)
  <2>1. job[r].value \in Nat /\ job[r].paid \in BOOLEAN BY <1>1 DEF Job
  <2> QED BY <1>5, <1>6, <2>1 DEF ReturnFine
<1>7. CASE ImmediateFine(r)
  <2>1. now \in Instants BY DEF TypeOK, RowsOK
  <2>2. LateFine(i, now) \in Nat BY <1>1, <2>1, LateFineNat DEF TypeOK
  <2> QED BY <1>4, <1>5, <1>7, <2>2 DEF ImmediateFine
<1> QED BY <1>6, <1>7

\* Statements that rewrite or delete rows of lending_fines or reservations.
LEMMA FinesTyped ==
  ASSUME TypeOK, NEW r \in Requests, NEW step \in Labels, NEW j \in Job,
         Run(r, step, j), JobFits(step, j),
         UNCHANGED <<lendings, reservations, nextId, settings>>,
         fines' \in [FineIds -> FineRow \cup {NoRow}],
         \A f \in FineIds : fines'[f] # NoRow =>
           fines[f] # NoRow /\ fines'[f].lending = fines[f].lending
  PROVE  TypeOK'
<1>1. JobsOK' /\ pc' \in [Requests -> Labels] /\ job' \in [Requests -> Job]
  BY WriteTyped DEF Stored
<1>2. RowsOK' BY <1>1 DEF TypeOK, RowsOK, settings
<1>3. SequencesOK' BY DEF TypeOK, SequencesOK, Stored
<1> QED BY <1>1, <1>2, <1>3 DEF TypeOK

LEMMA FineWriteTyped ==
  ASSUME TypeOK, NEW r \in Requests,
         UndoReadFine(r) \/ UndoDeleteFine(r) \/ AdjustWrite(r) \/ PayWrite(r)
  PROVE  TypeOK'
<1>0. JobFits(pc[r], job[r]) /\ job[r] \in Job BY KeepFits
<1>1. CASE UndoReadFine(r)
  <2>1. PICK step \in {"undo.reopen", "idle", "undo.delete"}, j \in Job :
          Run(r, step, j) /\ JobFits(step, j)
    <3>1. CASE Goto(r, "undo.reopen")
      <4>1. JobFits("undo.reopen", job[r]) BY <1>0, <1>1 DEF UndoReadFine, JobFits
      <4> QED BY <3>1, <4>1, <1>0 DEF Goto
    <3>2. CASE Finish(r) BY <3>2, KeepFits, NoJobTyped DEF Finish
    <3>3. ASSUME NEW f \in FineIds, Run(r, "undo.delete", [job[r] EXCEPT !.fine = f])
          PROVE  \E step \in {"undo.reopen", "idle", "undo.delete"}, j \in Job :
                   Run(r, step, j) /\ JobFits(step, j)
      <4> DEFINE j == [job[r] EXCEPT !.fine = f]
      <4>1. j \in Job BY <1>0, IdsInJobs DEF Job
      <4>2. j.fine = f /\ j.lending = job[r].lending /\ j.holding = job[r].holding
        BY <1>0 DEF Job
      <4> HIDE DEF j
      <4>3. JobFits("undo.delete", j) BY <1>0, <1>1, <4>2 DEF UndoReadFine, JobFits
      <4>4. Run(r, "undo.delete", j) BY <3>3 DEF j
      <4> QED BY <4>1, <4>3, <4>4
    <3> QED BY <1>1, <3>1, <3>2, <3>3 DEF UndoReadFine, FinesOf
  <2>2. step \in Labels BY DEF Labels
  <2> QED BY <1>1, <2>1, <2>2, ReadTyped DEF UndoReadFine
<1>2. CASE UndoDeleteFine(r)
  <2>1. JobFits("undo.reopen", job[r]) BY <1>0, <1>2 DEF UndoDeleteFine, JobFits
  <2>2. Run(r, "undo.reopen", job[r]) BY <1>2 DEF UndoDeleteFine, Goto
  <2>3. fines' \in [FineIds -> FineRow \cup {NoRow}]
        /\ \A f \in FineIds : fines'[f] # NoRow => fines'[f] = fines[f]
    BY <1>2 DEF UndoDeleteFine, TypeOK, RowsOK
  <2> QED BY <1>0, <1>2, <2>1, <2>2, <2>3, FinesTyped DEF UndoDeleteFine, Labels
<1>3. CASE AdjustWrite(r)
  <2> DEFINE f == job[r].fine
             v == job[r].value
  <2>1. f \in FineIds /\ v \in Nat BY <1>0, <1>3 DEF AdjustWrite, JobFits, Job
  <2>2. fines[f] # NoRow => [fines[f] EXCEPT !.value = v] \in FineRow
           /\ [fines[f] EXCEPT !.value = v].lending = fines[f].lending
    BY <2>1, RowShape DEF TypeOK, FineRow
  <2>3. fines' \in [FineIds -> FineRow \cup {NoRow}]
        /\ \A g \in FineIds : fines'[g] # NoRow =>
             fines[g] # NoRow /\ fines'[g].lending = fines[g].lending
    BY <1>3, <2>1, <2>2 DEF AdjustWrite, TypeOK, RowsOK
  <2>4. Run(r, "idle", NoJob) BY <1>3 DEF AdjustWrite, Finish
  <2> QED BY <1>3, <2>3, <2>4, KeepFits, NoJobTyped, FinesTyped DEF AdjustWrite, Labels
<1>4. CASE PayWrite(r)
  <2> DEFINE f == job[r].fine
             v == job[r].value
  <2>1. f \in FineIds /\ v \in Nat BY <1>0, <1>4 DEF PayWrite, JobFits, Job
  <2>2. fines[f] # NoRow => [fines[f] EXCEPT !.paid = TRUE, !.value = v] \in FineRow
           /\ [fines[f] EXCEPT !.paid = TRUE, !.value = v].lending = fines[f].lending
    BY <2>1, RowShape DEF TypeOK, FineRow
  <2>3. fines' \in [FineIds -> FineRow \cup {NoRow}]
        /\ \A g \in FineIds : fines'[g] # NoRow =>
             fines[g] # NoRow /\ fines'[g].lending = fines[g].lending
    BY <1>4, <2>1, <2>2 DEF PayWrite, TypeOK, RowsOK
  <2>4. Run(r, "idle", NoJob) BY <1>4 DEF PayWrite, Finish
  <2> QED BY <1>4, <2>3, <2>4, KeepFits, NoJobTyped, FinesTyped DEF PayWrite, Labels
<1> QED BY <1>1, <1>2, <1>3, <1>4

LEMMA QueueTyped ==
  ASSUME TypeOK, NEW r \in Requests, LendDequeue(r) \/ ReserveInsert(r)
  PROVE  TypeOK'
<1>0. JobFits(pc[r], job[r]) /\ job[r] \in Job BY KeepFits
<1>1. Run(r, "idle", NoJob) /\ UNCHANGED <<lendings, fines, settings>>
  BY DEF LendDequeue, ReserveInsert, Finish
<1>2. JobsOK' /\ pc' \in [Requests -> Labels] /\ job' \in [Requests -> Job]
  BY <1>1, KeepFits, NoJobTyped, WriteTyped DEF Labels, Stored
<1>3. CASE LendDequeue(r)
  <2>1. reservations' \in [ReservationIds -> ReservationRow \cup {NoRow}]
    BY <1>3 DEF LendDequeue, TypeOK, RowsOK
  <2>2. nextId' = nextId BY <1>3 DEF LendDequeue
  <2>3. RowsOK' BY <1>1, <1>2, <2>1, <2>2 DEF TypeOK, RowsOK, settings
  <2>4. SequencesOK' BY <1>1, <2>2 DEF TypeOK, SequencesOK, Stored
  <2> QED BY <1>2, <2>3, <2>4 DEF TypeOK
<1>4. CASE ReserveInsert(r)
  <2> DEFINE n   == nextId.reservation
             row == [user |-> job[r].user, record |-> job[r].record,
                     expires |-> ReservationDue[job[r].user][now]]
  <2>1. n \in ReservationIds /\ reservations' = [reservations EXCEPT ![n] = row]
        /\ nextId' = [nextId EXCEPT !.reservation = n + 1]
    BY <1>4 DEF ReserveInsert
  <2>2. job[r].user \in Users /\ job[r].record \in Records
    BY <1>0, <1>4 DEF ReserveInsert, JobFits
  <2>3. now \in Instants BY DEF TypeOK, RowsOK
  <2>4. ReservationDue[job[r].user][now] \in Nat BY <2>2, <2>3, TimeAssumption
  <2>5. row \in ReservationRow BY <2>2, <2>4 DEF ReservationRow
  <2>6. reservations' \in [ReservationIds -> ReservationRow \cup {NoRow}]
    BY <2>1, <2>5 DEF TypeOK, RowsOK
  <2>7. nextId' \in [lending : 1 .. MaxLendings + 1, fine : 1 .. MaxFines + 1,
                     reservation : 1 .. MaxReservations + 1]
        /\ nextId'.lending = nextId.lending /\ nextId'.fine = nextId.fine
    <3>1. n + 1 \in 1 .. MaxReservations + 1 BY <2>1, Bounds
    <3> QED BY <2>1, <3>1 DEF TypeOK, RowsOK
  <2>8. RowsOK' BY <1>1, <1>2, <2>6, <2>7 DEF TypeOK, RowsOK, settings
  <2>9. SequencesOK' BY <1>1, <2>7 DEF TypeOK, SequencesOK, Stored
  <2> QED BY <1>2, <2>8, <2>9 DEF TypeOK
<1> QED BY <1>3, <1>4

LEMMA WorldTyped ==
  ASSUME TypeOK,
         \/ \E k \in ReservationIds : Cancel(k)
         \/ \E u \in Users, s \in Statuses : SetStatus(u, s)
         \/ \E h \in Holdings, a \in Availabilities : SetAvailability(h, a)
         \/ Tick
  PROVE  TypeOK'
<1>1. UNCHANGED <<lendings, fines, nextId, requests>>
  BY DEF Cancel, SetStatus, SetAvailability, Tick
<1>2. JobsOK' /\ SequencesOK' BY <1>1 DEF TypeOK, JobsOK, SequencesOK, Stored, requests
<1>3. ASSUME NEW k \in ReservationIds, Cancel(k) PROVE RowsOK'
  BY <1>3 DEF Cancel, TypeOK, RowsOK, settings, requests
<1>4. ASSUME NEW u \in Users, NEW s \in Statuses, SetStatus(u, s) PROVE RowsOK'
  BY <1>4 DEF SetStatus, TypeOK, RowsOK, requests
<1>5. ASSUME NEW h \in Holdings, NEW a \in Availabilities, SetAvailability(h, a)
      PROVE  RowsOK'
  BY <1>5 DEF SetAvailability, TypeOK, RowsOK, requests
<1>6. ASSUME Tick PROVE RowsOK'
  BY <1>6 DEF Tick, TypeOK, RowsOK, requests
<1> QED BY <1>2, <1>3, <1>4, <1>5, <1>6 DEF TypeOK

\* Every step of the desk keeps the rows typed and the references good.
LEMMA NextTyped == TypeOK /\ [Next]_vars => TypeOK'
<1> SUFFICES ASSUME TypeOK, [Next]_vars PROVE TypeOK' OBVIOUS
<1>1. ASSUME NEW r \in Requests, Step(r) PROVE TypeOK'
  BY <1>1, CheckTyped, LendInsertTyped, QueueTyped, RenewCommitTyped, ReturnTyped,
     FineInsertTyped, FineWriteTyped DEF Step
<1>2. ASSUME NEW r \in Requests, Fail(r) PROVE TypeOK'
  BY <1>2, KeepFits, NoJobTyped, ReadTyped DEF Fail, Finish, Labels
<1>3. CASE UNCHANGED vars
  BY <1>3 DEF vars, TypeOK, RowsOK, JobsOK, SequencesOK, Stored
<1> QED BY <1>1, <1>2, <1>3, StartTyped, WorldTyped DEF Next

\* Type correctness: whatever the requests do, and wherever they fail, every
\* row has the type of its columns and every reference names a stored lending.
THEOREM TypeCorrect == Spec => []TypeOK
BY InitTyped, NextTyped, PTL DEF Spec

-----------------------------------------------------------------------------
(* One copy, one loan, one fine: as long as a copy is in the hands of one  *)
(* request at a time, and renewals and returns are submitted for lendings  *)
(* that are open.  Requests may still die between any two statements.      *)

HIDE DEF ReservationIds, ReserveSteps


DeskSafe == TypeOK /\ OneOpenLending /\ FineOfClosedLending /\ DeskInv

CopySteps == LendSteps \cup LendingSteps

USE DEF CopySteps

\* What a step may change when it works on the copy h: lendings of h, and the
\* fines of those lendings.
TouchesOnly(h) ==
  /\ \A k \in LendingIds : lendings'[k] # lendings[k] =>
       /\ Stored(k) => lendings[k].holding = h
       /\ Stored(k)' /\ lendings'[k].holding = h
  /\ \A i \in LendingIds : Stored(i) /\ lendings[i].holding # h => FinesOf(i)' = FinesOf(i)

\* A request that works on another copy does not notice.
LEMMA Undisturbed ==
  ASSUME TypeOK, NEW h, TouchesOnly(h),
         NEW s \in Requests, Checked(pc[s], job[s]), pc'[s] = pc[s], job'[s] = job[s],
         OnCopy(s) => job[s].holding # h
  PROVE  Checked(pc[s], job[s])'
<1>1. CASE ~OnCopy(s)
  BY <1>1 DEF OnCopy, Checked
<1>2. CASE OnCopy(s)
  <2> DEFINE g == job[s].holding
             i == job[s].lending
  <2>1. g # h BY <1>2
  <2>2. IsLent(g)' <=> IsLent(g)
    <3>1. \A k \in LendingIds : (Open(k) /\ lendings[k].holding = g)'
                                  <=> (Open(k) /\ lendings[k].holding = g)
      BY <2>1, <1>2 DEF TouchesOnly, Open, Stored
    <3> QED BY <3>1 DEF IsLent, OpenOn
  <2>3. CASE pc[s] \in LendingSteps
    <3>1. i \in LendingIds /\ Stored(i) /\ lendings[i].holding = g
      BY <2>3 DEF TypeOK, JobsOK
    <3>2. lendings'[i] = lendings[i] /\ FinesOf(i)' = FinesOf(i)
      BY <2>1, <3>1 DEF TouchesOnly
    <3>3. (Open(i)' <=> Open(i)) /\ (Closed(i)' <=> Closed(i)) BY <3>2 DEF Open, Closed
    <3> QED BY <2>2, <3>2, <3>3 DEF Checked
  <2>4. CASE pc[s] \in LendSteps
    BY <2>2, <2>4 DEF Checked, LendSteps, LendingSteps, RenewSteps, ReturnSteps, UndoSteps
  <2> QED BY <1>2, <2>3, <2>4 DEF OnCopy
<1> QED BY <1>1, <1>2

\* DeskInv survives a step of r that touches only the copy r has to itself.
LEMMA DeskStep ==
  ASSUME TypeOK, DeskInv, NEW r \in Requests, NEW step, NEW j, Run(r, step, j),
         NEW h, TouchesOnly(h),
         step \in CopySteps => j.holding = h,
         \A s \in Requests \ {r} : OnCopy(s) => job[s].holding # h,
         Checked(step, j)'
  PROVE  DeskInv'
<1>1. pc'[r] = step /\ job'[r] = j BY DEF Run, TypeOK, RowsOK
<1>2. \A s \in Requests \ {r} : pc'[s] = pc[s] /\ job'[s] = job[s]
  BY DEF Run, TypeOK, RowsOK
<1>3. \A s \in Requests \ {r} : Checked(pc[s], job[s])' BY <1>2, Undisturbed DEF DeskInv
<1>5. Checked(pc[r], job[r])' BY <1>1 DEF Checked, IsLent, OpenOn, Open, Closed, FinesOf
<1>4. Exclusive'
  <2>1. \A s \in Requests \ {r} : OnCopy(s)' <=> OnCopy(s) BY <1>2 DEF OnCopy
  <2>2. OnCopy(r)' => job'[r].holding = h BY <1>1 DEF OnCopy
  <2> QED BY <1>2, <2>1, <2>2 DEF DeskInv, Exclusive
<1> QED BY <1>3, <1>4, <1>5 DEF DeskInv

\* The copy a request works on is nobody else's.
LEMMA AloneOnCopy ==
  ASSUME DeskInv, NEW r \in Requests, OnCopy(r)
  PROVE  \A s \in Requests \ {r} : OnCopy(s) => job[s].holding # job[r].holding
BY DEF DeskInv, Exclusive

\* The copy a request starts on is nobody's.
LEMMA AloneAtStart ==
  ASSUME OneDeskPerCopy, NEW r \in Requests, NEW op, NEW h \in Holdings, Begin(r, op, h)
  PROVE  \A s \in Requests : OnCopy(s) => job[s].holding # h
BY CatalogAssumption
   DEF Begin, HoldingInUse, OnCopy, LendSteps, LendingSteps, RenewSteps, ReturnSteps, UndoSteps

(* The tables, one lemma per kind of write.                                *)

\* A new open lending of a copy that is not lent.
LEMMA OpenNew ==
  ASSUME TypeOK, OneOpenLending, FineOfClosedLending,
         NEW n \in LendingIds, ~Stored(n), NEW h, ~IsLent(h),
         NEW row, row.holding = h, row.returned = NoTime, row # NoRow,
         lendings' = [lendings EXCEPT ![n] = row], UNCHANGED fines
  PROVE  /\ OneOpenLending' /\ FineOfClosedLending' /\ TouchesOnly(h)
         /\ OpenOn(h)' = {n}
<1>1. lendings'[n] = row /\ \A k \in LendingIds \ {n} : lendings'[k] = lendings[k]
  BY DEF TypeOK, RowsOK
<1>2. \A k \in LendingIds : lendings[k].holding = h => ~Open(k) BY DEF IsLent, OpenOn
<1>3. OneOpenLending' BY <1>1, <1>2 DEF OneOpenLending, Open
<1>4. \A f \in FineIds : fines[f] # NoRow =>
         fines[f].lending \in LendingIds \ {n} /\ Stored(fines[f].lending)
  BY RowShape DEF TypeOK, SequencesOK, FineRow
<1>5. FineOfClosedLending'
  BY <1>1, <1>4 DEF FineOfClosedLending, Closed, FinesOf
<1>6. TouchesOnly(h) BY <1>1 DEF TouchesOnly, Stored, FinesOf
<1>7. OpenOn(h)' = {n} BY <1>1, <1>2 DEF OpenOn, Open
<1> QED BY <1>3, <1>5, <1>6, <1>7

\* Closing the open lending of a copy: the copy is free, the lending has no fine.
LEMMA CloseOpen ==
  ASSUME TypeOK, OneOpenLending, FineOfClosedLending,
         NEW i \in LendingIds, Open(i), lendings' = Close(i), UNCHANGED fines
  PROVE  /\ OneOpenLending' /\ FineOfClosedLending' /\ TouchesOnly(lendings[i].holding)
         /\ ~IsLent(lendings[i].holding)' /\ Closed(i)'
         /\ FinesOf(i) = {} /\ FinesOf(i)' = {}
<1> DEFINE h == lendings[i].holding
           row == [lendings[i] EXCEPT !.returned = now]
<1>0. lendings[i] \in LendingRow BY RowShape DEF Open, Stored, TypeOK
<1>1. row \in LendingRow /\ row.holding = h /\ row.returned = now
  BY <1>0 DEF LendingRow, TypeOK, RowsOK
<1>2. now # NoTime BY TimeAssumption DEF TypeOK, RowsOK, NoTime
<1>3. lendings'[i] = row /\ \A k \in LendingIds \ {i} : lendings'[k] = lendings[k]
  BY DEF Close, TypeOK, RowsOK
<1>4. row # NoRow BY <1>1, CatalogAssumption
<1> HIDE DEF row
<1>5. ~Open(i)' /\ Closed(i)' BY <1>1, <1>2, <1>3, <1>4 DEF Open, Closed
<1>6. \A k \in LendingIds \ {i} : (Open(k)' <=> Open(k)) /\ (Closed(k)' <=> Closed(k))
  BY <1>3 DEF Open, Closed
<1>7. OneOpenLending' BY <1>3, <1>5, <1>6 DEF OneOpenLending
<1>8. \A f \in FineIds : fines[f] # NoRow => fines[f].lending \in LendingIds
  BY RowShape DEF TypeOK, FineRow
<1>9. FineOfClosedLending' BY <1>5, <1>6, <1>8 DEF FineOfClosedLending, FinesOf
<1>10. TouchesOnly(h) BY <1>1, <1>3, <1>4 DEF TouchesOnly, Stored, FinesOf
<1>11. ~IsLent(h)'
  <2>1. lendings'[i].holding = h BY <1>1, <1>3
  <2>2. \A k \in LendingIds \ {i} : Open(k) => lendings[k].holding # h
    BY DEF OneOpenLending
  <2> QED BY <1>3, <1>5, <1>6, <2>1, <2>2 DEF IsLent, OpenOn
<1>12. FinesOf(i) = {} BY DEF FinesOf, FineOfClosedLending, Open, Closed
<1>13. FinesOf(i)' = {} BY <1>12 DEF FinesOf
<1> QED BY <1>5, <1>7, <1>9, <1>10, <1>11, <1>12, <1>13

\* Reopening a lending without a fine, of a copy that is not lent.
LEMMA Reopen ==
  ASSUME TypeOK, OneOpenLending, FineOfClosedLending,
         NEW i \in LendingIds, Closed(i), FinesOf(i) = {}, ~IsLent(lendings[i].holding),
         lendings' = [lendings EXCEPT ![i].returned = NoTime], UNCHANGED fines
  PROVE  OneOpenLending' /\ FineOfClosedLending' /\ TouchesOnly(lendings[i].holding)
<1> DEFINE h == lendings[i].holding
           row == [lendings[i] EXCEPT !.returned = NoTime]
<1>0. lendings[i] \in LendingRow BY RowShape DEF Closed, Stored, TypeOK
<1>1. row \in LendingRow /\ row.holding = h BY <1>0 DEF LendingRow
<1>2. lendings'[i] = row /\ \A k \in LendingIds \ {i} : lendings'[k] = lendings[k]
  BY DEF TypeOK, RowsOK
<1>3. row # NoRow BY <1>1, CatalogAssumption
<1> HIDE DEF row
<1>4. \A k \in LendingIds \ {i} : (Open(k)' <=> Open(k)) /\ (Closed(k)' <=> Closed(k))
  BY <1>2 DEF Open, Closed
<1>5. \A k \in LendingIds : Open(k) => lendings[k].holding # h BY DEF IsLent, OpenOn
<1>6. OneOpenLending' BY <1>1, <1>2, <1>4, <1>5 DEF OneOpenLending
<1>7. \A f \in FineIds : fines[f] # NoRow => fines[f].lending \in LendingIds \ {i}
  BY RowShape DEF TypeOK, FineRow, FinesOf
<1>8. FineOfClosedLending' BY <1>4, <1>7 DEF FineOfClosedLending, FinesOf
<1>9. TouchesOnly(h) BY <1>1, <1>2, <1>3 DEF TouchesOnly, Stored, FinesOf
<1> QED BY <1>6, <1>8, <1>9

\* The fine of a closed lending that has none.
LEMMA ChargeOnce ==
  ASSUME TypeOK, FineOfClosedLending,
         NEW i \in LendingIds, Closed(i), FinesOf(i) = {},
         NEW v \in Nat, NEW p \in BOOLEAN, InsertFine(i, v, p), UNCHANGED lendings
  PROVE  FineOfClosedLending' /\ TouchesOnly(lendings[i].holding)
<1> DEFINE n   == nextId.fine
           row == [lending |-> i, value |-> v, paid |-> p]
<1>1. n \in FineIds /\ fines' = [fines EXCEPT ![n] = row] BY DEF InsertFine
<1>2. fines'[n] = row /\ \A f \in FineIds \ {n} : fines'[f] = fines[f]
  BY <1>1 DEF TypeOK, RowsOK
<1>3. row \in FineRow /\ row.lending = i BY DEF FineRow
<1>4. row # NoRow BY <1>3, CatalogAssumption
<1> HIDE DEF row
<1>5. fines[n] = NoRow
  <2>1. ~(n < n) BY <1>1, Bounds
  <2> QED BY <1>1, <2>1 DEF TypeOK, SequencesOK
<1>6. \A k \in LendingIds \ {i} : FinesOf(k)' = FinesOf(k)
  BY <1>2, <1>3, <1>5 DEF FinesOf
<1>7. FinesOf(i)' = {n} BY <1>1, <1>2, <1>3, <1>4 DEF FinesOf
<1>8. ASSUME NEW f \in FineIds, fines'[f] # NoRow
      PROVE  Closed(fines[f].lending)' /\ \A g \in FinesOf(fines[f].lending)' : g = f
  <2>1. CASE f = n BY <2>1, <1>2, <1>3, <1>7 DEF Closed
  <2>2. CASE f # n
    <3>1. fines'[f] = fines[f] /\ fines[f] # NoRow BY <1>2, <1>8, <2>2
    <3>2. fines[f].lending \in LendingIds \ {i}
      BY <3>1, RowShape DEF TypeOK, FineRow, FinesOf
    <3>3. Closed(fines[f].lending) /\ \A g \in FinesOf(fines[f].lending) : g = f
      BY <3>1 DEF FineOfClosedLending
    <3>4. FinesOf(fines[f].lending)' = FinesOf(fines[f].lending)
      BY <3>1, <3>2, <1>6
    <3> QED BY <3>1, <3>3, <3>4 DEF Closed
  <2> QED BY <2>1, <2>2
<1>9. FineOfClosedLending' BY <1>8 DEF FineOfClosedLending
<1>10. TouchesOnly(lendings[i].holding) BY <1>6 DEF TouchesOnly
<1> QED BY <1>9, <1>10

\* Deleting a fine, or changing its value or its payment.
LEMMA RewriteFine ==
  ASSUME TypeOK, FineOfClosedLending, UNCHANGED lendings,
         \A f \in FineIds : fines'[f] # NoRow =>
           fines[f] # NoRow /\ fines'[f].lending = fines[f].lending
  PROVE  /\ FineOfClosedLending'
         /\ \A i \in LendingIds : FinesOf(i)' \subseteq FinesOf(i)
<1>1. \A i \in LendingIds : FinesOf(i)' \subseteq FinesOf(i) BY DEF FinesOf
<1>2. FineOfClosedLending' BY DEF FineOfClosedLending, FinesOf, Closed
<1> QED BY <1>1, <1>2

(* The steps of the requests.                                              *)

Moved(r, step, j) ==
  Run(r, step, j) /\ (step \in CopySteps => OnCopy(r) /\ j.holding = job[r].holding)

\* A request that goes on with its own copy leaves the others alone.
LEMMA OwnCopy ==
  ASSUME TypeOK, DeskInv, NEW r \in Requests, NEW step, NEW j, Moved(r, step, j),
         OnCopy(r), TouchesOnly(job[r].holding), Checked(step, j)'
  PROVE  DeskInv'
BY AloneOnCopy, DeskStep DEF Moved

\* A step that leaves the lendings and the fines of every lending.
Untouched == UNCHANGED lendings /\ \A i \in LendingIds : FinesOf(i)' = FinesOf(i)

LEMMA UntouchedAnyCopy == ASSUME Untouched, NEW h PROVE TouchesOnly(h)
BY DEF Untouched, TouchesOnly

\* Such a step may be taken by a request that works on no copy.
LEMMA NoCopy ==
  ASSUME TypeOK, DeskInv, NEW r \in Requests, NEW step, NEW j, Moved(r, step, j),
         Untouched, Checked(step, j)'
  PROVE  DeskInv'
<1>1. CASE OnCopy(r) BY <1>1, UntouchedAnyCopy, OwnCopy
<1>2. CASE ~OnCopy(r)
  <2>1. \A s \in Requests : OnCopy(s) => job[s].holding # None
    BY CatalogAssumption DEF TypeOK, JobsOK, OnCopy
  <2> QED BY <1>2, <2>1, UntouchedAnyCopy, DeskStep DEF Moved
<1> QED BY <1>1, <1>2

\* Reading changes nothing for anyone.
LEMMA ReadSafe ==
  ASSUME OneOpenLending, FineOfClosedLending, UNCHANGED <<lendings, fines>>
  PROVE  OneOpenLending' /\ FineOfClosedLending' /\ Untouched
BY DEF OneOpenLending, FineOfClosedLending, Untouched, Open, Closed, FinesOf

LEMMA StartSafe ==
  ASSUME DeskSafe, OneDeskPerCopy, FreshPages, NEW r \in Requests, Start(r)
  PROVE  DeskSafe'
<1>0. TypeOK' BY NextTyped DEF Next, DeskSafe
<1>1. UNCHANGED <<lendings, fines>>
  BY DEF Start, LendStart, RenewStart, ReturnStart, ImmediateStart, UndoStart, AdjustStart,
         PayStart, ReserveStart
<1>2. OneOpenLending' /\ FineOfClosedLending' /\ Untouched
  BY <1>1, ReadSafe DEF DeskSafe
<1>3. \A i \in LendingIds : Stored(i) => lendings[i].holding \in Holdings
  BY RowShape DEF DeskSafe, TypeOK, LendingRow
<1>4. ASSUME NEW op, NEW h \in Holdings, Begin(r, op, h), NEW step \in CopySteps,
             NEW j, Run(r, step, j), j.holding = h, Checked(step, j)'
      PROVE  DeskInv'
  BY <1>2, <1>4, AloneAtStart, UntouchedAnyCopy, DeskStep DEF DeskSafe
<1>5. ASSUME NEW step, step \notin CopySteps, NEW j, Run(r, step, j)
      PROVE  DeskInv'
  <2>1. Checked(step, j)' BY <1>5 DEF Checked
  <2> QED BY <1>2, <1>5, <2>1, NoCopy DEF DeskSafe, Moved
<1>6. ASSUME NEW h \in Holdings, NEW u \in Users, LendStart(r, h, u) PROVE DeskInv'
  <2> DEFINE j == [NoJob EXCEPT !.holding = h, !.user = u]
  <2>1. Checked("lend.holding", j)' /\ j.holding = h BY DEF Checked, NoJob
  <2> QED BY <1>4, <1>6, <2>1 DEF LendStart
<1>7. ASSUME NEW i \in LendingIds, RenewStart(r, i) PROVE DeskInv'
  <2>1. Open(i) /\ lendings[i].holding \in Holdings BY <1>3, <1>7 DEF RenewStart
  <2>2. PICK j : Run(r, "renew.limit", j) /\ j.lending = i /\ j.holding = lendings[i].holding
    <3> DEFINE w == [NoJob EXCEPT !.lending = i, !.holding = lendings[i].holding,
                                    !.user = lendings[i].user]
    <3>1. Run(r, "renew.limit", w) BY <1>7 DEF RenewStart
    <3>2. w.lending = i /\ w.holding = lendings[i].holding BY DEF NoJob
    <3> HIDE DEF w
    <3> QED BY <3>1, <3>2
  <2>3. Open(i)' BY <1>1, <2>1 DEF Open
  <2>4. Begin(r, "renew", lendings[i].holding) BY <1>7 DEF RenewStart
  <2>5. Checked("renew.limit", j)' BY <2>2, <2>3 DEF Checked
  <2> QED BY <1>4, <2>1, <2>2, <2>4, <2>5
<1>8. ASSUME NEW i \in LendingIds, NEW v, NEW p, ReturnStart(r, i, v, p) PROVE DeskInv'
  <2>1. Open(i) /\ lendings[i].holding \in Holdings BY <1>3, <1>8 DEF ReturnStart
  <2>2. PICK j : Run(r, "return.close", j) /\ j.lending = i /\ j.holding = lendings[i].holding
    <3> DEFINE w == [NoJob EXCEPT !.lending = i, !.holding = lendings[i].holding,
                                    !.value = v, !.paid = p]
    <3>1. Run(r, "return.close", w) BY <1>8 DEF ReturnStart
    <3>2. w.lending = i /\ w.holding = lendings[i].holding BY DEF NoJob
    <3> HIDE DEF w
    <3> QED BY <3>1, <3>2
  <2>3. Open(i)' BY <1>1, <2>1 DEF Open
  <2>4. Begin(r, "return", lendings[i].holding) BY <1>8 DEF ReturnStart
  <2>5. Checked("return.close", j)' BY <2>2, <2>3 DEF Checked
  <2> QED BY <1>4, <2>1, <2>2, <2>4, <2>5
<1>9. ASSUME NEW i \in LendingIds, ImmediateStart(r, i) PROVE DeskInv'
  <2>1. Open(i) /\ lendings[i].holding \in Holdings
    BY <1>3, <1>9 DEF ImmediateStart, Open, Stored
  <2>2. PICK j : Run(r, "immediate.close", j) /\ j.lending = i /\ j.holding = lendings[i].holding
    <3> DEFINE w == [NoJob EXCEPT !.lending = i, !.holding = lendings[i].holding]
    <3>1. Run(r, "immediate.close", w) BY <1>9 DEF ImmediateStart
    <3>2. w.lending = i /\ w.holding = lendings[i].holding BY DEF NoJob
    <3> HIDE DEF w
    <3> QED BY <3>1, <3>2
  <2>3. Open(i)' BY <1>1, <2>1 DEF Open
  <2>4. Begin(r, "returnImmediate", lendings[i].holding) BY <1>9 DEF ImmediateStart
  <2>5. Checked("immediate.close", j)' BY <2>2, <2>3 DEF Checked
  <2> QED BY <1>4, <2>1, <2>2, <2>4, <2>5
<1>10. ASSUME NEW i \in LendingIds, UndoStart(r, i) PROVE DeskInv'
  <2>1. Closed(i) /\ lendings[i].holding \in Holdings
    BY <1>3, <1>10 DEF UndoStart, Closed, Stored
  <2>2. PICK j : Run(r, "undo.holding", j) /\ j.lending = i /\ j.holding = lendings[i].holding
    <3> DEFINE w == [NoJob EXCEPT !.lending = i, !.holding = lendings[i].holding,
                                    !.returned = lendings[i].returned]
    <3>1. Run(r, "undo.holding", w) BY <1>10 DEF UndoStart
    <3>2. w.lending = i /\ w.holding = lendings[i].holding BY DEF NoJob
    <3> HIDE DEF w
    <3> QED BY <3>1, <3>2
  <2>3. Closed(i)' BY <1>1, <2>1 DEF Closed
  <2>4. Begin(r, "undo", lendings[i].holding) BY <1>10 DEF UndoStart
  <2>5. Checked("undo.holding", j)' BY <2>2, <2>3 DEF Checked
  <2> QED BY <1>4, <2>1, <2>2, <2>4, <2>5
<1>11. ASSUME NEW f \in FineIds, NEW v, AdjustStart(r, f, v) PROVE DeskInv'
  BY <1>5, <1>11 DEF AdjustStart
<1>12. ASSUME NEW f \in FineIds, NEW e, PayStart(r, f, e) PROVE DeskInv'
  BY <1>5, <1>12 DEF PayStart
<1>13. ASSUME NEW u, NEW rec, ReserveStart(r, u, rec) PROVE DeskInv'
  BY <1>5, <1>13 DEF ReserveStart
<1>14. DeskInv' BY <1>6, <1>7, <1>8, <1>9, <1>10, <1>11, <1>12, <1>13 DEF Start
<1> QED BY <1>0, <1>2, <1>14 DEF DeskSafe

\* A check between two statements: the request moves on, or ends.
LEMMA ReadMove ==
  ASSUME DeskSafe, TypeOK', NEW r \in Requests, NEW step, NEW j, Moved(r, step, j),
         UNCHANGED <<lendings, fines>>, Checked(step, j)
  PROVE  DeskSafe'
<1>1. OneOpenLending' /\ FineOfClosedLending' /\ Untouched BY ReadSafe DEF DeskSafe
<1>2. Checked(step, j)' BY DEF Checked, IsLent, OpenOn, Open, Closed, FinesOf
<1>3. DeskInv' BY <1>1, <1>2, NoCopy DEF DeskSafe
<1> QED BY <1>1, <1>3 DEF DeskSafe

LEMMA FinishSafe ==
  ASSUME DeskSafe, TypeOK', NEW r \in Requests, Finish(r), UNCHANGED <<lendings, fines>>
  PROVE  DeskSafe'
<1>1. Checked("idle", NoJob) BY DEF Checked
<1>2. Moved(r, "idle", NoJob) BY DEF Moved, Finish
<1> QED BY <1>1, <1>2, ReadMove

LEMMA CheckSafe ==
  ASSUME DeskSafe, NEW r \in Requests,
         \/ LendCheckHolding(r) \/ LendCheckLimit(r) \/ RenewCheckLimit(r)
         \/ UndoCheckHolding(r) \/ ReserveCheckLimit(r) \/ UndoReadFine(r) \/ Fail(r)
  PROVE  DeskSafe'
<1>0. TypeOK' BY NextTyped DEF Next, Step, DeskSafe
<1>1. UNCHANGED <<lendings, fines>>
  BY DEF LendCheckHolding, LendCheckLimit, RenewCheckLimit, UndoCheckHolding,
         ReserveCheckLimit, UndoReadFine, Fail
<1>2. CASE Finish(r) BY <1>0, <1>1, <1>2, FinishSafe
<1>3. ASSUME NEW step, Goto(r, step), step \in CopySteps => OnCopy(r), Checked(step, job[r])
      PROVE  DeskSafe'
  BY <1>0, <1>1, <1>3, ReadMove DEF Moved, Goto
<1>4. Checked(pc[r], job[r]) BY DEF DeskSafe, DeskInv
<1>5. CASE LendCheckHolding(r)
  <2>1. ASSUME ~IsLent(job[r].holding) PROVE Checked("lend.limit", job[r])
    BY <2>1 DEF Checked
  <2> QED BY <1>2, <1>3, <1>5, <2>1 DEF LendCheckHolding, Continue, OnCopy
<1>6. CASE LendCheckLimit(r)
  <2>1. Checked("lend.insert", job[r]) BY <1>4, <1>6 DEF Checked, LendCheckLimit
  <2> QED BY <1>2, <1>3, <1>6, <2>1 DEF LendCheckLimit, Continue, OnCopy
<1>7. CASE RenewCheckLimit(r)
  <2>1. Checked("renew.commit", job[r]) BY <1>4, <1>7 DEF Checked, RenewCheckLimit
  <2> QED BY <1>2, <1>3, <1>7, <2>1 DEF RenewCheckLimit, Continue, OnCopy
<1>8. CASE UndoCheckHolding(r)
  <2>1. ASSUME ~IsLent(job[r].holding) PROVE Checked("undo.fine", job[r])
    BY <1>4, <1>8, <2>1 DEF Checked, UndoCheckHolding
  <2> QED BY <1>2, <1>3, <1>8, <2>1 DEF UndoCheckHolding, Continue, OnCopy
<1>9. CASE ReserveCheckLimit(r)
  <2>1. Checked("reserve.insert", job[r]) BY DEF Checked
  <2> QED BY <1>2, <1>3, <1>9, <2>1 DEF ReserveCheckLimit, Continue
<1>10. CASE UndoReadFine(r)
  <2>1. pc[r] = "undo.fine" /\ OnCopy(r) BY <1>10 DEF UndoReadFine, OnCopy
  <2>2. CASE FinesOf(job[r].lending) = {} /\ Goto(r, "undo.reopen")
    <3>1. Checked("undo.reopen", job[r]) BY <1>4, <2>1, <2>2 DEF Checked
    <3> QED BY <1>3, <2>1, <2>2, <3>1
  <2>3. ASSUME NEW f \in FinesOf(job[r].lending),
               Run(r, "undo.delete", [job[r] EXCEPT !.fine = f])
        PROVE  DeskSafe'
    <3> DEFINE j == [job[r] EXCEPT !.fine = f]
    <3>1. f \in FineIds /\ fines[f] # NoRow /\ fines[f].lending = job[r].lending
      BY DEF FinesOf
    <3>2. FinesOf(job[r].lending) = {f}
      BY <3>1 DEF DeskSafe, FineOfClosedLending
    <3>3. job[r] \in Job BY DEF DeskSafe, TypeOK, RowsOK
    <3>4. j.lending = job[r].lending /\ j.holding = job[r].holding /\ j.fine = f
      BY <3>3 DEF Job
    <3> HIDE DEF j
    <3>5. Checked("undo.delete", j) BY <1>4, <2>1, <3>2, <3>4 DEF Checked
    <3>6. Moved(r, "undo.delete", j) BY <2>1, <2>3, <3>4 DEF Moved, j
    <3> QED BY <1>0, <1>1, <3>5, <3>6, ReadMove
  <2> QED BY <1>2, <1>10, <2>2, <2>3 DEF UndoReadFine
<1> QED BY <1>2, <1>5, <1>6, <1>7, <1>8, <1>9, <1>10 DEF Fail

\* Writing the lendings.
LEMMA LendSafe ==
  ASSUME DeskSafe, NEW r \in Requests, LendInsert(r) PROVE DeskSafe'
<1> DEFINE n   == nextId.lending
           row == [holding |-> job[r].holding, user |-> job[r].user, previous |-> 0,
                   due |-> LendingDue[job[r].user][now], returned |-> NoTime]
<1>0. TypeOK' BY NextTyped DEF Next, Step, DeskSafe
<1>1. n \in LendingIds /\ lendings' = [lendings EXCEPT ![n] = row] /\ UNCHANGED fines
  BY DEF LendInsert, InsertLending
<1>2. ~Stored(n)
  <2>1. ~(n < n) BY <1>1, Bounds
  <2> QED BY <1>1, <2>1 DEF DeskSafe, TypeOK, SequencesOK
<1>3. pc[r] = "lend.insert" /\ OnCopy(r) BY DEF LendInsert, OnCopy
<1>4. ~IsLent(job[r].holding) BY <1>3 DEF DeskSafe, DeskInv, Checked
<1>5. lendings'[n] = row BY <1>1 DEF DeskSafe, TypeOK, RowsOK
<1>6. row.holding = job[r].holding /\ row.returned = NoTime OBVIOUS
<1>7. row # NoRow
  <2>1. job[r].holding \in Holdings /\ job[r].user \in Users
    BY <1>3 DEF DeskSafe, TypeOK, JobsOK
  <2>2. now \in Instants BY DEF DeskSafe, TypeOK, RowsOK
  <2>3. LendingDue[job[r].user][now] \in Nat BY <2>1, <2>2, TimeAssumption
  <2>4. row \in LendingRow BY <2>1, <2>3, Bounds DEF LendingRow
  <2> QED BY <2>4, CatalogAssumption
<1> HIDE DEF row, n
<1>8. OneOpenLending' /\ FineOfClosedLending' /\ TouchesOnly(job[r].holding)
  <2>1. TypeOK /\ OneOpenLending /\ FineOfClosedLending BY DEF DeskSafe
  <2>2. PICK m \in LendingIds : m = n BY <1>1
  <2>3. PICK new : new = row OBVIOUS
  <2> QED BY <1>1, <1>2, <1>4, <1>6, <1>7, <2>1, <2>2, <2>3, OpenNew
<1>9. Moved(r, "lend.dequeue", job[r]) BY <1>3 DEF LendInsert, Goto, Moved
<1>10. \A j : Checked("lend.dequeue", j)' BY DEF Checked
<1>11. DeskInv' BY <1>3, <1>8, <1>9, <1>10, OwnCopy DEF DeskSafe
<1> QED BY <1>0, <1>8, <1>11 DEF DeskSafe

LEMMA ReturnSafe ==
  ASSUME DeskSafe, NEW r \in Requests, ReturnClose(r) \/ ImmediateClose(r) PROVE DeskSafe'
<1>0. TypeOK' BY NextTyped DEF Next, Step, DeskSafe
<1>1. pc[r] \in {"return.close", "immediate.close"} /\ OnCopy(r)
  BY DEF ReturnClose, ImmediateClose, OnCopy
<1>2. PICK i \in LendingIds : i = job[r].lending /\ lendings[i].holding = job[r].holding
  BY <1>1 DEF DeskSafe, TypeOK, JobsOK
<1>3. Open(i) BY <1>1, <1>2 DEF DeskSafe, DeskInv, Checked
<1>4. lendings' = Close(i) /\ UNCHANGED fines BY <1>2 DEF ReturnClose, ImmediateClose
<1>5. /\ OneOpenLending' /\ FineOfClosedLending' /\ TouchesOnly(job[r].holding)
      /\ Closed(i)' /\ FinesOf(i)' = {}
  BY <1>2, <1>3, <1>4, CloseOpen DEF DeskSafe
<1>6. PICK step \in {"return.fine", "immediate.fine", "idle"}, j \in {job[r], NoJob} :
        Run(r, step, j) /\ (step # "idle" => j = job[r])
  BY DEF ReturnClose, ImmediateClose, Continue, Goto, Finish
<1>7. Moved(r, step, j) BY <1>1, <1>6 DEF Moved
<1>8. step # "idle" => j.lending = i BY <1>2, <1>6
<1>9. Checked(step, j)' BY <1>5, <1>8 DEF Checked
<1>10. DeskInv' BY <1>1, <1>5, <1>7, <1>9, OwnCopy DEF DeskSafe
<1> QED BY <1>0, <1>5, <1>10 DEF DeskSafe

LEMMA ReopenSafe ==
  ASSUME DeskSafe, NEW r \in Requests, UndoReopen(r) PROVE DeskSafe'
<1>0. TypeOK' BY NextTyped DEF Next, Step, DeskSafe
<1>1. pc[r] = "undo.reopen" /\ OnCopy(r) BY DEF UndoReopen, OnCopy
<1>2. PICK i \in LendingIds : i = job[r].lending /\ lendings[i].holding = job[r].holding
  BY <1>1 DEF DeskSafe, TypeOK, JobsOK
<1>3. Closed(i) /\ FinesOf(i) = {} /\ ~IsLent(lendings[i].holding)
  BY <1>1, <1>2 DEF DeskSafe, DeskInv, Checked
<1>4. lendings' = [lendings EXCEPT ![i].returned = NoTime] /\ UNCHANGED fines
  BY <1>2 DEF UndoReopen
<1>5. OneOpenLending' /\ FineOfClosedLending' /\ TouchesOnly(job[r].holding)
  BY <1>2, <1>3, <1>4, Reopen DEF DeskSafe
<1>6. Moved(r, "idle", NoJob) BY DEF Moved, UndoReopen, Finish
<1>7. Checked("idle", NoJob)' BY DEF Checked
<1>8. DeskInv' BY <1>1, <1>5, <1>6, <1>7, OwnCopy DEF DeskSafe
<1> QED BY <1>0, <1>5, <1>8 DEF DeskSafe

\* Renewing moves the copy from the old lending to the new one.
LEMMA RenewSafe ==
  ASSUME DeskSafe, NEW r \in Requests, RenewCommit(r) PROVE DeskSafe'
<1>0. TypeOK' BY NextTyped DEF Next, Step, DeskSafe
<1>1. pc[r] = "renew.commit" /\ OnCopy(r) BY DEF RenewCommit, OnCopy
<1>2. PICK i \in LendingIds, h \in Holdings :
        i = job[r].lending /\ h = job[r].holding /\ lendings[i].holding = h
  BY <1>1 DEF DeskSafe, TypeOK, JobsOK
<1>3. Open(i) BY <1>1, <1>2 DEF DeskSafe, DeskInv, Checked
<1>id. PICK n \in LendingIds : n = nextId.lending
  BY DEF RenewCommit, InsertLending
<1>4. PICK row :
        /\ n = nextId.lending /\ lendings' = [Close(i) EXCEPT ![n] = row]
        /\ row.holding = h /\ row.returned = NoTime
  <2> DEFINE new == [holding |-> h, user |-> job[r].user, previous |-> i,
                     due |-> LendingDue[job[r].user][now], returned |-> NoTime]
  <2>1. nextId.lending \in LendingIds /\ lendings' = [Close(i) EXCEPT ![nextId.lending] = new]
    BY <1>2 DEF RenewCommit, InsertLending
  <2>2. new.holding = h /\ new.returned = NoTime OBVIOUS
  <2> HIDE DEF new
  <2> QED BY <1>id, <2>1, <2>2
<1>5. ~Stored(n) /\ n # i
  <2>1. ~(n < n) BY Bounds
  <2> QED BY <1>3, <1>4, <2>1 DEF DeskSafe, TypeOK, SequencesOK, Open, Stored
<1>6. lendings[i] \in LendingRow BY <1>3, RowShape DEF DeskSafe, TypeOK, Open, Stored
<1>7. PICK old \in LendingRow : old = [lendings[i] EXCEPT !.returned = now]
  BY <1>6 DEF DeskSafe, TypeOK, RowsOK, LendingRow
<1>8. old.holding = h /\ old.returned # NoTime /\ old # NoRow
  <2>1. now # NoTime BY TimeAssumption DEF DeskSafe, TypeOK, RowsOK, NoTime
  <2> QED BY <1>2, <1>6, <1>7, <2>1, CatalogAssumption DEF LendingRow
<1>9. /\ lendings'[n] = row /\ lendings'[i] = old
      /\ \A k \in LendingIds \ {i, n} : lendings'[k] = lendings[k]
  BY <1>4, <1>5, <1>7 DEF Close, DeskSafe, TypeOK, RowsOK
<1>10. \A k \in LendingIds : Open(k)' => k = n \/ (Open(k) /\ k # i)
  BY <1>8, <1>9 DEF Open
<1>11. \A k \in LendingIds \ {i} : Open(k) => lendings[k].holding # h
  BY <1>2, <1>3 DEF DeskSafe, OneOpenLending
<1>12. OneOpenLending'
  <2>1. \A k \in LendingIds \ {n} : Open(k)' => Open(k) /\ lendings'[k].holding = lendings[k].holding
                                                /\ lendings[k].holding # h
    BY <1>9, <1>10, <1>11
  <2>2. lendings'[n].holding = h BY <1>4, <1>9
  <2> QED BY <2>1, <2>2 DEF DeskSafe, OneOpenLending
<1>13. \A f \in FineIds : fines[f] # NoRow =>
          fines[f].lending \in LendingIds \ {i, n}
  <2>1. \A f \in FineIds : fines[f] # NoRow =>
          fines[f].lending \in LendingIds /\ Closed(fines[f].lending)
    BY RowShape DEF DeskSafe, TypeOK, FineRow, FineOfClosedLending
  <2> QED BY <1>3, <1>5, <2>1 DEF Open, Closed, Stored
<1>14. fines' = fines BY DEF RenewCommit
<1>15. FineOfClosedLending'
  BY <1>9, <1>13, <1>14 DEF DeskSafe, FineOfClosedLending, Closed, FinesOf
<1>16. TouchesOnly(job[r].holding)
  <2>1. Stored(n)' BY <1>0, <1>4, <1>9 DEF TypeOK, SequencesOK, RenewCommit, InsertLending, RowsOK
  <2> QED BY <1>2, <1>4, <1>5, <1>8, <1>9, <1>14, <2>1 DEF TouchesOnly, Stored, FinesOf
<1>17. Moved(r, "idle", NoJob) BY DEF Moved, RenewCommit, Finish
<1>18. Checked("idle", NoJob)' BY DEF Checked
<1>19. DeskInv' BY <1>1, <1>16, <1>17, <1>18, OwnCopy DEF DeskSafe
<1> QED BY <1>0, <1>12, <1>15, <1>19 DEF DeskSafe

\* Writing the fines.
LEMMA ChargeSafe ==
  ASSUME DeskSafe, NEW r \in Requests, ReturnFine(r) \/ ImmediateFine(r) PROVE DeskSafe'
<1>0. TypeOK' BY NextTyped DEF Next, Step, DeskSafe
<1>1. pc[r] \in {"return.fine", "immediate.fine"} /\ OnCopy(r) /\ job[r] \in Job
  BY DEF ReturnFine, ImmediateFine, OnCopy, DeskSafe, TypeOK, RowsOK
<1>2. PICK i \in LendingIds : i = job[r].lending /\ lendings[i].holding = job[r].holding
  BY <1>1 DEF DeskSafe, TypeOK, JobsOK
<1>3. Closed(i) /\ FinesOf(i) = {} BY <1>1, <1>2 DEF DeskSafe, DeskInv, Checked
<1>4. Finish(r) /\ lendings' = lendings BY DEF ReturnFine, ImmediateFine
<1>5. CASE UNCHANGED fines BY <1>0, <1>4, <1>5, FinishSafe
<1>6. ASSUME NEW v \in Nat, NEW p \in BOOLEAN, InsertFine(i, v, p) PROVE DeskSafe'
  <2>1. FineOfClosedLending' /\ TouchesOnly(job[r].holding)
    BY <1>2, <1>3, <1>4, <1>6, ChargeOnce DEF DeskSafe
  <2>2. OneOpenLending' BY <1>4 DEF DeskSafe, OneOpenLending, Open
  <2>3. Moved(r, "idle", NoJob) BY <1>4 DEF Moved, Finish
  <2>4. Checked("idle", NoJob)' BY DEF Checked
  <2>5. DeskInv' BY <1>1, <2>1, <2>3, <2>4, OwnCopy DEF DeskSafe
  <2> QED BY <1>0, <2>1, <2>2, <2>5 DEF DeskSafe
<1>7. CASE ReturnFine(r)
  <2>1. job[r].value \in Nat /\ job[r].paid \in BOOLEAN BY <1>1 DEF Job
  <2> QED BY <1>2, <1>6, <1>7, <2>1 DEF ReturnFine
<1>8. CASE ImmediateFine(r)
  <2>1. LateFine(i, now) \in Nat
    BY <1>3, LateFineNat DEF DeskSafe, TypeOK, RowsOK, Closed, Stored
  <2> QED BY <1>2, <1>5, <1>6, <1>8, <2>1 DEF ImmediateFine
<1> QED BY <1>7, <1>8

LEMMA DeleteSafe ==
  ASSUME DeskSafe, NEW r \in Requests, UndoDeleteFine(r) PROVE DeskSafe'
<1>0. TypeOK' BY NextTyped DEF Next, Step, DeskSafe
<1>1. pc[r] = "undo.delete" /\ OnCopy(r) BY DEF UndoDeleteFine, OnCopy
<1>2. PICK i \in LendingIds, f \in FineIds :
        i = job[r].lending /\ lendings[i].holding = job[r].holding /\ f = job[r].fine
  BY <1>1 DEF DeskSafe, TypeOK, JobsOK
<1>3. Closed(i) /\ FinesOf(i) = {f} /\ ~IsLent(job[r].holding)
  BY <1>1, <1>2 DEF DeskSafe, DeskInv, Checked
<1>4. fines' = [fines EXCEPT ![f] = NoRow] /\ lendings' = lendings
  BY <1>2 DEF UndoDeleteFine
<1>5. fines'[f] = NoRow /\ \A g \in FineIds \ {f} : fines'[g] = fines[g]
  BY <1>4 DEF DeskSafe, TypeOK, RowsOK
<1>6. FineOfClosedLending' BY <1>4, <1>5, RewriteFine DEF DeskSafe
<1>7. OneOpenLending' BY <1>4 DEF DeskSafe, OneOpenLending, Open
<1>8. \A k \in LendingIds \ {i} : FinesOf(k)' = FinesOf(k)
  <2>1. fines[f].lending = i BY <1>3 DEF FinesOf
  <2> QED BY <1>5, <2>1 DEF FinesOf
<1>9. TouchesOnly(job[r].holding) BY <1>2, <1>4, <1>8 DEF TouchesOnly
<1>10. FinesOf(i)' = {} BY <1>3, <1>5 DEF FinesOf
<1>11. PICK j : j = job[r] OBVIOUS
<1>12. Checked("undo.reopen", j)'
  <2>1. ~IsLent(j.holding)' BY <1>3, <1>4, <1>11 DEF IsLent, OpenOn, Open
  <2>2. Closed(j.lending)' BY <1>2, <1>3, <1>4, <1>11 DEF Closed
  <2>3. FinesOf(j.lending)' = {} BY <1>2, <1>10, <1>11
  <2> QED BY <2>1, <2>2, <2>3 DEF Checked
<1>13. Moved(r, "undo.reopen", j) BY <1>1, <1>11 DEF Moved, UndoDeleteFine, Goto
<1>14. DeskInv' BY <1>1, <1>9, <1>12, <1>13, OwnCopy DEF DeskSafe
<1> QED BY <1>0, <1>6, <1>7, <1>14 DEF DeskSafe

LEMMA SettleSafe ==
  ASSUME DeskSafe, NEW r \in Requests, AdjustWrite(r) \/ PayWrite(r) PROVE DeskSafe'
<1>0. TypeOK' BY NextTyped DEF Next, Step, DeskSafe
<1>1. PICK f \in FineIds : f = job[r].fine
  BY DEF AdjustWrite, PayWrite, DeskSafe, TypeOK, JobsOK
<1>2. lendings' = lendings /\ Finish(r) BY DEF AdjustWrite, PayWrite
<1>3. fines[f] # NoRow => fines[f] \in FineRow BY RowShape DEF DeskSafe, TypeOK
<1>4. \A g \in FineIds \ {f} : fines'[g] = fines[g]
  BY <1>1 DEF AdjustWrite, PayWrite, DeskSafe, TypeOK, RowsOK
<1>5. /\ fines'[f] # NoRow <=> fines[f] # NoRow
      /\ fines[f] # NoRow => fines'[f].lending = fines[f].lending
  <2> DEFINE v        == job[r].value
             adjusted == [fines[f] EXCEPT !.value = v]
             settled  == [fines[f] EXCEPT !.paid = TRUE, !.value = v]
  <2>1. v \in Nat BY DEF DeskSafe, TypeOK, RowsOK, Job
  <2>2. fines[f] # NoRow =>
          /\ adjusted \in FineRow /\ adjusted.lending = fines[f].lending
          /\ settled \in FineRow /\ settled.lending = fines[f].lending
    BY <1>3, <2>1 DEF FineRow
  <2>3. \/ fines' = fines
        \/ fines[f] # NoRow /\ fines' = [fines EXCEPT ![f] = adjusted]
        \/ fines[f] # NoRow /\ fines' = [fines EXCEPT ![f] = settled]
    BY <1>1 DEF AdjustWrite, PayWrite
  <2> HIDE DEF adjusted, settled
  <2>4. fines'[f] = fines[f] \/ (fines[f] # NoRow /\ fines'[f] \in {adjusted, settled})
    BY <2>3 DEF DeskSafe, TypeOK, RowsOK
  <2> QED BY <2>2, <2>4, CatalogAssumption
<1>7. \A k \in LendingIds : FinesOf(k)' = FinesOf(k) BY <1>4, <1>5 DEF FinesOf
<1>8. FineOfClosedLending' BY <1>2, <1>4, <1>5, RewriteFine DEF DeskSafe
<1>9. OneOpenLending' BY <1>2 DEF DeskSafe, OneOpenLending, Open
<1>10. Moved(r, "idle", NoJob) BY <1>2 DEF Moved, Finish
<1>11. Checked("idle", NoJob)' BY DEF Checked
<1>12. DeskInv' BY <1>2, <1>7, <1>10, <1>11, NoCopy DEF DeskSafe, Untouched
<1> QED BY <1>0, <1>8, <1>9, <1>12 DEF DeskSafe

\* The queue, the clock and the administrators leave lendings and fines alone.
LEMMA AsideSafe ==
  ASSUME DeskSafe,
         \/ \E r \in Requests : LendDequeue(r) \/ ReserveInsert(r)
         \/ \E k \in ReservationIds : Cancel(k)
         \/ \E u \in Users, s \in Statuses : SetStatus(u, s)
         \/ \E h \in Holdings, a \in Availabilities : SetAvailability(h, a)
         \/ Tick
  PROVE  DeskSafe'
<1>0. TypeOK' BY NextTyped DEF Next, Step, DeskSafe
<1>1. ASSUME NEW r \in Requests, LendDequeue(r) \/ ReserveInsert(r) PROVE DeskSafe'
  <2>1. Finish(r) /\ UNCHANGED <<lendings, fines>> BY <1>1 DEF LendDequeue, ReserveInsert
  <2> QED BY <1>0, <2>1, FinishSafe
<1>2. ASSUME UNCHANGED <<lendings, fines, requests>> PROVE DeskSafe'
  <2>1. OneOpenLending' /\ FineOfClosedLending' BY <1>2, ReadSafe DEF DeskSafe
  <2>2. Exclusive' BY <1>2 DEF DeskSafe, DeskInv, Exclusive, OnCopy, requests
  <2>3. \A s \in Requests : Checked(pc[s], job[s])'
    BY <1>2 DEF DeskSafe, DeskInv, Checked, IsLent, OpenOn, Open, Closed, FinesOf, requests
  <2> QED BY <1>0, <2>1, <2>2, <2>3 DEF DeskSafe, DeskInv
<1> QED BY <1>1, <1>2 DEF Cancel, SetStatus, SetAvailability, Tick

LEMMA InitSafe == ASSUME Init PROVE DeskSafe
<1>1. OneOpenLending /\ FineOfClosedLending
  BY DEF Init, OneOpenLending, FineOfClosedLending, Open
<1>2. DeskInv BY DEF Init, DeskInv, Exclusive, OnCopy, Checked
<1> QED BY <1>1, <1>2, InitTyped DEF DeskSafe

LEMMA NextSafe ==
  ASSUME DeskSafe, [Next]_vars, OneDeskPerCopy, FreshPages PROVE DeskSafe'
<1>1. CASE UNCHANGED vars
  BY <1>1, NextTyped
     DEF vars, DeskSafe, OneOpenLending, FineOfClosedLending, DeskInv, Exclusive, OnCopy,
         Checked, IsLent, OpenOn, Open, Closed, FinesOf
<1>2. ASSUME NEW r \in Requests, Step(r) PROVE DeskSafe'
  <2>1. CASE LendDequeue(r) \/ ReserveInsert(r) BY <2>1, AsideSafe
  <2> QED BY <1>2, <2>1, CheckSafe, LendSafe, RenewSafe, ReturnSafe, ReopenSafe, ChargeSafe,
             DeleteSafe, SettleSafe DEF Step
<1> QED BY <1>1, <1>2, StartSafe, CheckSafe, AsideSafe DEF Next

\* When one request at a time handles a copy, and renewals and returns are
\* submitted for open lendings, then whatever else interleaves and wherever a
\* request dies, what the requests have checked stays true (DeskInv).
THEOREM DeskIsSafe ==
  ASSUME OneDeskPerCopy, FreshPages
  PROVE  Spec => [](DeskSafe /\ DeskInv)
<1>1. Init => DeskSafe BY InitSafe
<1>2. DeskSafe /\ [Next]_vars => DeskSafe' BY NextSafe
<1>3. DeskSafe => DeskInv BY DEF DeskSafe
<1> QED BY <1>1, <1>2, <1>3, PTL DEF Spec

\* Under the same conditions no copy is ever on two open lendings.
THEOREM CopyLentOnce ==
  ASSUME OneDeskPerCopy, FreshPages
  PROVE  Spec => []OneOpenLending
<1>1. DeskSafe => OneOpenLending BY DEF DeskSafe
<1> QED BY <1>1, DeskIsSafe, PTL

\* Under the same conditions a lending has at most one fine, and only while it
\* is closed: no interleaving of return and undo leaves a fine on an open loan.
THEOREM OneFineWhileClosed ==
  ASSUME OneDeskPerCopy, FreshPages
  PROVE  Spec => []FineOfClosedLending
<1>1. DeskSafe => FineOfClosedLending BY DEF DeskSafe
<1> QED BY <1>1, DeskIsSafe, PTL

\* A return date is never overwritten; only undo clears it, on a free copy.
LEMMA ReturnDateStep ==
  ASSUME DeskSafe, [Next]_vars, NEW i \in LendingIds, Closed(i)
  PROVE  \/ lendings'[i] = lendings[i]
         \/ /\ lendings' = [lendings EXCEPT ![i].returned = NoTime]
            /\ OpenOn(lendings[i].holding) = {}
<1>1. CASE UNCHANGED lendings BY <1>1
<1>2. ASSUME NEW r \in Requests, NEW n, NEW row, NEW base, n = nextId.lending, n \in LendingIds,
             base[i] = lendings[i], base \in [LendingIds -> LendingRow \cup {NoRow}],
             lendings' = [base EXCEPT ![n] = row]
      PROVE  lendings'[i] = lendings[i]
  <2>1. ~(n < n) BY <1>2, Bounds
  <2>2. n # i BY <1>2, <2>1 DEF DeskSafe, TypeOK, SequencesOK, Closed, Stored
  <2> QED BY <1>2, <2>2
<1>3. ASSUME NEW r \in Requests, LendInsert(r) PROVE lendings'[i] = lendings[i]
  BY <1>2, <1>3 DEF LendInsert, InsertLending, DeskSafe, TypeOK, RowsOK
<1>4. ASSUME NEW r \in Requests, NEW k, k = job[r].lending, OnCopy(r),
             pc[r] \in {"renew.commit", "return.close", "immediate.close"}
      PROVE  k \in LendingIds /\ k # i /\ Close(k)[i] = lendings[i]
               /\ Close(k) \in [LendingIds -> LendingRow \cup {NoRow}]
  <2>1. k \in LendingIds /\ Open(k)
    BY <1>4 DEF DeskSafe, TypeOK, JobsOK, DeskInv, Checked
  <2>2. k # i BY <2>1 DEF Open, Closed
  <2>3. lendings[k] \in LendingRow BY <2>1, RowShape DEF DeskSafe, TypeOK, Open, Stored
  <2>4. [lendings[k] EXCEPT !.returned = now] \in LendingRow
    BY <2>3 DEF DeskSafe, TypeOK, RowsOK, LendingRow
  <2> QED BY <2>1, <2>2, <2>4 DEF Close, DeskSafe, TypeOK, RowsOK
<1>5. ASSUME NEW r \in Requests, RenewCommit(r) PROVE lendings'[i] = lendings[i]
  BY <1>2, <1>4, <1>5 DEF RenewCommit, InsertLending, OnCopy
<1>6. ASSUME NEW r \in Requests, ReturnClose(r) \/ ImmediateClose(r)
      PROVE  lendings'[i] = lendings[i]
  BY <1>4, <1>6 DEF ReturnClose, ImmediateClose, OnCopy
<1>7. ASSUME NEW r \in Requests, UndoReopen(r)
      PROVE  \/ lendings'[i] = lendings[i]
             \/ /\ lendings' = [lendings EXCEPT ![i].returned = NoTime]
                /\ OpenOn(lendings[i].holding) = {}
  <2>1. /\ job[r].lending \in LendingIds /\ ~IsLent(job[r].holding)
        /\ lendings[job[r].lending].holding = job[r].holding
    BY <1>7 DEF UndoReopen, DeskSafe, TypeOK, JobsOK, DeskInv, Checked
  <2>2. CASE job[r].lending = i BY <1>7, <2>1, <2>2 DEF UndoReopen, IsLent
  <2>3. CASE job[r].lending # i
    BY <1>7, <2>1, <2>3 DEF UndoReopen, DeskSafe, TypeOK, RowsOK
  <2> QED BY <2>2, <2>3
<1>8. ASSUME NEW r \in Requests, Step(r)
      PROVE  \/ lendings' = lendings \/ LendInsert(r) \/ RenewCommit(r)
             \/ ReturnClose(r) \/ ImmediateClose(r) \/ UndoReopen(r)
  BY <1>8 DEF Step, LendCheckHolding, LendCheckLimit, LendDequeue, RenewCheckLimit, ReturnFine,
     ImmediateFine, UndoCheckHolding, UndoReadFine, UndoDeleteFine, AdjustWrite, PayWrite,
     ReserveCheckLimit, ReserveInsert
<1>9. ASSUME NEW r \in Requests, Start(r) \/ Fail(r) PROVE lendings' = lendings
  BY <1>9 DEF Start, LendStart, RenewStart, ReturnStart, ImmediateStart, UndoStart, AdjustStart,
              PayStart, ReserveStart, Fail
<1> QED BY <1>1, <1>3, <1>5, <1>6, <1>7, <1>8, <1>9
        DEF Next, Cancel, SetStatus, SetAvailability, Tick, vars

THEOREM ReturnDateKept ==
  ASSUME OneDeskPerCopy, FreshPages
  PROVE  Spec => ReturnDateStable
<1>1. DeskSafe /\ [Next]_vars =>
        [\A i \in LendingIds : Closed(i) =>
           \/ lendings'[i] = lendings[i]
           \/ /\ lendings' = [lendings EXCEPT ![i].returned = NoTime]
              /\ OpenOn(lendings[i].holding) = {}]_vars
  BY ReturnDateStep
<1> QED BY <1>1, DeskIsSafe, PTL DEF Spec, ReturnDateStable
=============================================================================
