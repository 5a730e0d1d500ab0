--------------------------- MODULE DeskPromises_proofs ---------------------------
(***************************************************************************)
(* The desk keeps its ledger, its limits and its fines, for every library  *)
(* in which a copy is handled by one request at a time and renewals and    *)
(* returns come from fresh pages.                                          *)
(*                                                                         *)
(* The ledger: each statement is a step of LoanLedger or a stutter.  The   *)
(* limits on lendings and reservations: as long as requests come one at a  *)
(* time and no return is undone.  Either condition matters: two requests   *)
(* count before either inserts, and undo reopens a lending without         *)
(* counting at all.  The fine of a late return: as long as no request dies *)
(* between the return and the fine, and staff do not set the fine.         *)
(***************************************************************************)
EXTENDS Circulation_proofs, FiniteSetTheorems

USE DEF LendingIds, LendSteps, LendingSteps, RenewSteps, ReturnSteps, UndoSteps

\* A renewal is on behalf of the reader who has the copy.
RenewsOwn ==
  \A r \in Requests : pc[r] \in RenewSteps => job[r].user = lendings[job[r].lending].user

LedgerSafe == DeskSafe /\ RenewsOwn

\* Every lending keeps its reader.
SameReaders ==
  \A i \in LendingIds : Stored(i) => Stored(i)' /\ lendings'[i].user = lendings[i].user

TheOne(S) == CHOOSE i \in S : TRUE

-----------------------------------------------------------------------------
(* The statements that write lendings, as changes of the table.            *)

\* Insert, as LendInsert does.
LEMMA Inserted ==
  ASSUME DeskSafe, NEW r \in Requests, LendInsert(r)
  PROVE  \E n \in LendingIds, h \in Holdings, u \in Users :
           /\ u = job[r].user /\ ~Stored(n) /\ OpenOn(h) = {}
           /\ Open(n)' /\ lendings'[n].holding = h /\ lendings'[n].user = u
           /\ \A k \in LendingIds \ {n} : lendings'[k] = lendings[k]
<1>1. PICK n \in LendingIds, h \in Holdings, u \in Users :
        n = nextId.lending /\ h = job[r].holding /\ u = job[r].user /\ OpenOn(h) = {}
  <2>1. pc[r] = "lend.insert" BY DEF LendInsert
  <2>2. job[r].holding \in Holdings /\ job[r].user \in Users /\ OpenOn(job[r].holding) = {}
    BY <2>1 DEF DeskSafe, TypeOK, JobsOK, DeskInv, Checked, IsLent
  <2> QED BY <2>2 DEF LendInsert, InsertLending
<1>2. ~Stored(n)
  <2>1. ~(n < n) BY Bounds
  <2> QED BY <1>1, <2>1 DEF DeskSafe, TypeOK, SequencesOK
<1>3. PICK row \in LendingRow :
        /\ lendings' = [lendings EXCEPT ![n] = row]
        /\ row.holding = h /\ row.user = u /\ row.returned = NoTime
  <2> DEFINE new == [holding |-> h, user |-> u, previous |-> 0,
                     due |-> LendingDue[u][now], returned |-> NoTime]
  <2>1. lendings' = [lendings EXCEPT ![n] = new] BY <1>1 DEF LendInsert, InsertLending
  <2>2. new.holding = h /\ new.user = u /\ new.returned = NoTime OBVIOUS
  <2>3. now \in Instants BY DEF DeskSafe, TypeOK, RowsOK
  <2>4. LendingDue[u][now] \in Nat BY <2>3, TimeAssumption
  <2>5. new \in LendingRow BY <2>4, Bounds DEF LendingRow
  <2> HIDE DEF new
  <2> QED BY <2>1, <2>2, <2>5
<1>4. lendings'[n] = row /\ \A k \in LendingIds \ {n} : lendings'[k] = lendings[k]
  BY <1>3 DEF DeskSafe, TypeOK, RowsOK
<1>5. Open(n)' BY <1>3, <1>4, CatalogAssumption DEF Open
<1> QED BY <1>1, <1>2, <1>3, <1>4, <1>5

\* Close, as both returns do.
LEMMA ClosedOne ==
  ASSUME DeskSafe, NEW r \in Requests, ReturnClose(r) \/ ImmediateClose(r)
  PROVE  \E i \in LendingIds :
           /\ Open(i) /\ Closed(i)' /\ lendings'[i].holding = lendings[i].holding
           /\ lendings'[i].user = lendings[i].user
           /\ \A k \in LendingIds \ {i} : lendings'[k] = lendings[k]
<1>1. pc[r] \in {"return.close", "immediate.close"} BY DEF ReturnClose, ImmediateClose
<1>2. PICK i \in LendingIds : i = job[r].lending
  BY <1>1 DEF DeskSafe, TypeOK, JobsOK
<1>3. Open(i) BY <1>1, <1>2 DEF DeskSafe, DeskInv, Checked
<1>4. lendings' = Close(i) BY <1>2 DEF ReturnClose, ImmediateClose
<1>5. lendings[i] \in LendingRow BY <1>3, RowShape DEF DeskSafe, TypeOK, Open, Stored
<1>6. PICK old \in LendingRow : old = [lendings[i] EXCEPT !.returned = now]
  BY <1>5 DEF DeskSafe, TypeOK, RowsOK, LendingRow
<1>10. old.holding = lendings[i].holding /\ old.user = lendings[i].user /\ old.returned = now
  BY <1>5, <1>6 DEF LendingRow
<1>7. now # NoTime BY TimeAssumption DEF DeskSafe, TypeOK, RowsOK, NoTime
<1>8. lendings'[i] = old /\ \A k \in LendingIds \ {i} : lendings'[k] = lendings[k]
  BY <1>4, <1>6 DEF Close, DeskSafe, TypeOK, RowsOK
<1>9. Closed(i)' BY <1>10, <1>7, <1>8, CatalogAssumption DEF Closed
<1> QED BY <1>3, <1>8, <1>9, <1>10

\* Reopen, as undo does.
LEMMA ReopenedOne ==
  ASSUME DeskSafe, NEW r \in Requests, UndoReopen(r)
  PROVE  \E i \in LendingIds :
           /\ Closed(i) /\ OpenOn(lendings[i].holding) = {}
           /\ Open(i)' /\ lendings'[i].holding = lendings[i].holding
           /\ lendings'[i].user = lendings[i].user
           /\ \A k \in LendingIds \ {i} : lendings'[k] = lendings[k]
<1>1. pc[r] = "undo.reopen" BY DEF UndoReopen
<1>2. PICK i \in LendingIds : i = job[r].lending /\ lendings[i].holding = job[r].holding
  BY <1>1 DEF DeskSafe, TypeOK, JobsOK
<1>3. Closed(i) /\ OpenOn(lendings[i].holding) = {}
  BY <1>1, <1>2 DEF DeskSafe, DeskInv, Checked, IsLent
<1>4. lendings' = [lendings EXCEPT ![i].returned = NoTime] BY <1>2 DEF UndoReopen
<1>5. lendings[i] \in LendingRow BY <1>3, RowShape DEF DeskSafe, TypeOK, Closed, Stored
<1>6. PICK row \in LendingRow : row = [lendings[i] EXCEPT !.returned = NoTime]
  BY <1>5 DEF LendingRow
<1>9. row.holding = lendings[i].holding /\ row.user = lendings[i].user /\ row.returned = NoTime
  BY <1>5, <1>6 DEF LendingRow
<1>7. lendings'[i] = row /\ \A k \in LendingIds \ {i} : lendings'[k] = lendings[k]
  BY <1>4, <1>6 DEF DeskSafe, TypeOK, RowsOK
<1>8. Open(i)' BY <1>7, <1>9, CatalogAssumption DEF Open
<1> QED BY <1>3, <1>7, <1>8, <1>9

\* Close and insert, as renewing does.
LEMMA RenewedOne ==
  ASSUME LedgerSafe, NEW r \in Requests, RenewCommit(r)
  PROVE  \E i, n \in LendingIds :
           /\ i # n /\ Open(i) /\ ~Stored(n)
           /\ Closed(i)' /\ lendings'[i].holding = lendings[i].holding
           /\ lendings'[i].user = lendings[i].user
           /\ Open(n)' /\ lendings'[n].holding = lendings[i].holding
           /\ lendings'[n].user = lendings[i].user
           /\ \A k \in LendingIds \ {i, n} : lendings'[k] = lendings[k]
<1>1. pc[r] = "renew.commit" BY DEF RenewCommit
<1>2. PICK i \in LendingIds, h \in Holdings, u \in Users :
        /\ i = job[r].lending /\ h = job[r].holding /\ lendings[i].holding = h
        /\ u = job[r].user /\ lendings[i].user = u
  BY <1>1 DEF LedgerSafe, RenewsOwn, DeskSafe, TypeOK, JobsOK
<1>3. Open(i) BY <1>1, <1>2 DEF LedgerSafe, DeskSafe, DeskInv, Checked
<1>4. PICK n \in LendingIds : n = nextId.lending
  BY DEF RenewCommit, InsertLending
<1>5. PICK row \in LendingRow :
        /\ lendings' = [Close(i) EXCEPT ![n] = row]
        /\ row.holding = h /\ row.user = u /\ row.returned = NoTime
  <2> DEFINE new == [holding |-> h, user |-> u, previous |-> i,
                     due |-> LendingDue[u][now], returned |-> NoTime]
  <2>1. lendings' = [Close(i) EXCEPT ![n] = new]
    BY <1>2, <1>4 DEF RenewCommit, InsertLending
  <2>2. new.holding = h /\ new.user = u /\ new.returned = NoTime OBVIOUS
  <2>3. now \in Instants BY DEF LedgerSafe, DeskSafe, TypeOK, RowsOK
  <2>4. LendingDue[u][now] \in Nat BY <2>3, TimeAssumption
  <2>5. new \in LendingRow BY <2>4, Bounds DEF LendingRow
  <2> HIDE DEF new
  <2> QED BY <2>1, <2>2, <2>5
<1>6. ~Stored(n) /\ n # i
  <2>1. ~(n < n) BY Bounds
  <2> QED BY <1>3, <1>4, <2>1 DEF LedgerSafe, DeskSafe, TypeOK, SequencesOK, Open, Stored
<1>7. lendings[i] \in LendingRow
  BY <1>3, RowShape DEF LedgerSafe, DeskSafe, TypeOK, Open, Stored
<1>8. PICK old \in LendingRow : old = [lendings[i] EXCEPT !.returned = now]
  BY <1>7 DEF LedgerSafe, DeskSafe, TypeOK, RowsOK, LendingRow
<1>13. old.holding = h /\ old.user = u /\ old.returned = now
  BY <1>2, <1>7, <1>8 DEF LendingRow
<1>9. now # NoTime BY TimeAssumption DEF LedgerSafe, DeskSafe, TypeOK, RowsOK, NoTime
<1>10. /\ lendings'[n] = row /\ lendings'[i] = old
       /\ \A k \in LendingIds \ {i, n} : lendings'[k] = lendings[k]
  BY <1>5, <1>6, <1>8 DEF Close, LedgerSafe, DeskSafe, TypeOK, RowsOK
<1>11. Closed(i)' BY <1>13, <1>9, <1>10, CatalogAssumption DEF Closed
<1>12. Open(n)' BY <1>5, <1>10, CatalogAssumption DEF Open
<1> QED BY <1>2, <1>3, <1>5, <1>6, <1>10, <1>11, <1>12, <1>13

\* The other statements leave the table of lendings alone.
LEMMA LendingWrites ==
  ASSUME [Next]_vars
  PROVE  \/ UNCHANGED lendings
         \/ \E r \in Requests : \/ LendInsert(r) \/ RenewCommit(r) \/ ReturnClose(r)
                                \/ ImmediateClose(r) \/ UndoReopen(r)
<1>1. ASSUME NEW r \in Requests, Step(r)
      PROVE  \/ lendings' = lendings \/ LendInsert(r) \/ RenewCommit(r)
             \/ ReturnClose(r) \/ ImmediateClose(r) \/ UndoReopen(r)
  BY <1>1 DEF Step, LendCheckHolding, LendCheckLimit, LendDequeue, RenewCheckLimit, ReturnFine,
     ImmediateFine, UndoCheckHolding, UndoReadFine, UndoDeleteFine, AdjustWrite, PayWrite,
     ReserveCheckLimit, ReserveInsert
<1>2. ASSUME NEW r \in Requests, Start(r) \/ Fail(r) PROVE lendings' = lendings
  BY <1>2 DEF Start, LendStart, RenewStart, ReturnStart, ImmediateStart, UndoStart, AdjustStart,
              PayStart, ReserveStart, Fail
<1> QED BY <1>1, <1>2 DEF Next, Cancel, SetStatus, SetAvailability, Tick, vars

-----------------------------------------------------------------------------
(* A renewal keeps its reader.                                             *)

LEMMA ReadersKept ==
  ASSUME LedgerSafe, [Next]_vars PROVE SameReaders
<1>1. CASE UNCHANGED lendings BY <1>1 DEF SameReaders, Stored
<1>2. ASSUME NEW r \in Requests, LendInsert(r) PROVE SameReaders
  BY <1>2, Inserted DEF SameReaders, Stored, LedgerSafe
<1>3. ASSUME NEW r \in Requests, ReturnClose(r) \/ ImmediateClose(r) PROVE SameReaders
  BY <1>3, ClosedOne DEF SameReaders, Stored, Closed, LedgerSafe
<1>4. ASSUME NEW r \in Requests, UndoReopen(r) PROVE SameReaders
  BY <1>4, ReopenedOne DEF SameReaders, Stored, Open, LedgerSafe
<1>5. ASSUME NEW r \in Requests, RenewCommit(r) PROVE SameReaders
  BY <1>5, RenewedOne DEF SameReaders, Stored, Closed
<1> QED BY <1>1, <1>2, <1>3, <1>4, <1>5, LendingWrites

\* A step of request r that is not about a renewal.
Aside(r) == /\ pc'[r] \notin RenewSteps
            /\ \A t \in Requests \ {r} : pc'[t] = pc[t] /\ job'[t] = job[t]

LEMMA RunsAside ==
  ASSUME TypeOK, NEW r \in Requests, NEW step, step \notin RenewSteps, NEW j, Run(r, step, j)
  PROVE  Aside(r)
BY DEF Aside, Run, TypeOK, RowsOK

LEMMA StartsAside ==
  ASSUME TypeOK, NEW r \in Requests, Start(r), \A i \in LendingIds : ~RenewStart(r, i)
  PROVE  Aside(r)
<1> USE RunsAside
<1>1. ASSUME NEW h \in Holdings, NEW u \in Users, LendStart(r, h, u) PROVE Aside(r)
  BY <1>1 DEF LendStart
<1>2. ASSUME NEW i \in LendingIds, NEW v, NEW p, ReturnStart(r, i, v, p) PROVE Aside(r)
  BY <1>2 DEF ReturnStart
<1>3. ASSUME NEW i \in LendingIds, ImmediateStart(r, i) PROVE Aside(r)
  BY <1>3 DEF ImmediateStart
<1>4. ASSUME NEW i \in LendingIds, UndoStart(r, i) PROVE Aside(r)
  BY <1>4 DEF UndoStart
<1>5. ASSUME NEW f \in FineIds, NEW v, AdjustStart(r, f, v) PROVE Aside(r)
  BY <1>5 DEF AdjustStart
<1>6. ASSUME NEW f \in FineIds, NEW e, PayStart(r, f, e) PROVE Aside(r)
  BY <1>6 DEF PayStart
<1>7. ASSUME NEW u \in Users, NEW rec, ReserveStart(r, u, rec) PROVE Aside(r)
  BY <1>7 DEF ReserveStart
<1> QED BY <1>1, <1>2, <1>3, <1>4, <1>5, <1>6, <1>7 DEF Start

LEMMA StepsAside ==
  ASSUME TypeOK, NEW r \in Requests, Step(r) \/ Fail(r), ~RenewCheckLimit(r)
  PROVE  Aside(r)
<1>1. ASSUME NEW step, step \notin RenewSteps, Goto(r, step) PROVE Aside(r)
  BY <1>1, RunsAside DEF Goto
<1>2. CASE Finish(r) BY <1>2, RunsAside DEF Finish
<1>3. ASSUME NEW ok, NEW step, step \notin RenewSteps, Continue(r, ok, step) PROVE Aside(r)
  BY <1>1, <1>2, <1>3 DEF Continue
<1>4. CASE LendCheckHolding(r) \/ LendCheckLimit(r) \/ LendInsert(r) \/ LendDequeue(r)
  BY <1>1, <1>2, <1>3, <1>4 DEF LendCheckHolding, LendCheckLimit, LendInsert, LendDequeue
<1>5. CASE RenewCommit(r) \/ ReturnFine(r) \/ ImmediateFine(r)
  BY <1>2, <1>5 DEF RenewCommit, ReturnFine, ImmediateFine
<1>9. CASE ReturnClose(r) \/ ImmediateClose(r)
  BY <1>1, <1>3, <1>9 DEF ReturnClose, ImmediateClose
<1>6. CASE UndoCheckHolding(r) \/ UndoDeleteFine(r) \/ UndoReopen(r) \/ AdjustWrite(r) \/ PayWrite(r)
  BY <1>1, <1>2, <1>3, <1>6
     DEF UndoCheckHolding, UndoDeleteFine, UndoReopen, AdjustWrite, PayWrite
<1>7. CASE UndoReadFine(r)
  BY <1>1, <1>2, <1>7, RunsAside DEF UndoReadFine
<1>8. CASE ReserveCheckLimit(r) \/ ReserveInsert(r) \/ Fail(r)
  BY <1>2, <1>3, <1>8 DEF ReserveCheckLimit, ReserveInsert, Fail
<1> QED BY <1>4, <1>5, <1>6, <1>7, <1>8, <1>9 DEF Step

\* A request renews in the name of the reader it found, or already did.
LEMMA RenewalsBegin ==
  ASSUME TypeOK, [Next]_vars, NEW r \in Requests, pc'[r] \in RenewSteps
  PROVE  \/ pc[r] \in RenewSteps /\ job'[r] = job[r]
         \/ \E i \in LendingIds :
              /\ Stored(i) /\ UNCHANGED lendings
              /\ job'[r].lending = i /\ job'[r].user = lendings[i].user
<1>0. pc \in [Requests -> Labels] /\ job \in [Requests -> Job] BY DEF TypeOK, RowsOK
<1>1. CASE UNCHANGED requests BY <1>1 DEF requests
<1>2. ASSUME NEW s \in Requests, Aside(s)
      PROVE  pc[r] \in RenewSteps /\ job'[r] = job[r]
  BY <1>2 DEF Aside
<1>3. ASSUME NEW s \in Requests, RenewCheckLimit(s)
      PROVE  pc[r] \in RenewSteps /\ job'[r] = job[r]
  BY <1>0, <1>3 DEF RenewCheckLimit, Continue, Goto, Finish, Run
<1>4. ASSUME NEW s \in Requests, NEW i \in LendingIds, RenewStart(s, i)
      PROVE  \/ pc[r] \in RenewSteps /\ job'[r] = job[r]
             \/ /\ Stored(i) /\ UNCHANGED lendings
                /\ job'[r].lending = i /\ job'[r].user = lendings[i].user
  <2>1. CASE s = r BY <1>0, <1>4, <2>1 DEF RenewStart, Run, NoJob
  <2>2. CASE s # r BY <1>0, <1>4, <2>2 DEF RenewStart, Run
  <2> QED BY <2>1, <2>2
<1>5. ASSUME NEW s \in Requests, Start(s), \A i \in LendingIds : ~RenewStart(s, i)
      PROVE  Aside(s)
  BY <1>5, StartsAside
<1>6. ASSUME NEW s \in Requests, Step(s) \/ Fail(s), ~RenewCheckLimit(s) PROVE Aside(s)
  BY <1>6, StepsAside
<1> QED BY <1>1, <1>2, <1>3, <1>4, <1>5, <1>6
        DEF Next, Cancel, SetStatus, SetAvailability, Tick, vars, requests

LEMMA RenewsOwnStep == ASSUME LedgerSafe, [Next]_vars PROVE RenewsOwn'
<1> SUFFICES ASSUME NEW r \in Requests, pc'[r] \in RenewSteps
             PROVE  job'[r].user = lendings'[job'[r].lending].user
  BY DEF RenewsOwn
<1>1. CASE pc[r] \in RenewSteps /\ job'[r] = job[r]
  <2>1. job[r].lending \in LendingIds /\ Stored(job[r].lending)
    BY <1>1 DEF LedgerSafe, DeskSafe, TypeOK, JobsOK
  <2> QED BY <1>1, <2>1, ReadersKept DEF SameReaders, LedgerSafe, RenewsOwn
<1> QED BY <1>1, RenewalsBegin DEF LedgerSafe, DeskSafe

-----------------------------------------------------------------------------
(* The ledger.                                                             *)

LEMMA LedgerStart == Init => Ledger!Init
<1> SUFFICES ASSUME Init PROVE Ledger!Init
  OBVIOUS
<1>1. \A i \in LendingIds : lendings[i] = NoRow BY DEF Init
<1>2. CurrentLoan = [h \in Holdings |-> None] BY <1>1 DEF CurrentLoan, IsLent, OpenOn, Open
<1>3. PastLoans = [h \in Holdings |-> {}] BY <1>1 DEF PastLoans, Closed
<1>4. LoanReader = [i \in LendingIds |-> None] BY <1>1 DEF LoanReader, Stored
<1> QED BY <1>2, <1>3, <1>4 DEF Ledger!Init

\* The ledger, with the choice of the one open lending as an operator.
LEMMA CurrentLoanIs ==
  CurrentLoan = [h \in Holdings |-> IF OpenOn(h) = {} THEN None ELSE TheOne(OpenOn(h))]
BY DEF CurrentLoan, IsLent, TheOne

LEMMA CurrentLoanBecomes ==
  CurrentLoan' = [h \in Holdings |-> IF OpenOn(h)' = {} THEN None ELSE TheOne(OpenOn(h)')]
BY DEF CurrentLoan, IsLent, TheOne

LEMMA TheOneIs == \A i : TheOne({i}) = i
BY DEF TheOne

LEMMA LendKeepsLedger ==
  ASSUME DeskSafe, NEW r \in Requests, LendInsert(r) PROVE Ledger!Next
<1>1. PICK n \in LendingIds, h \in Holdings, u \in Users :
        /\ ~Stored(n) /\ OpenOn(h) = {}
        /\ Open(n)' /\ lendings'[n].holding = h /\ lendings'[n].user = u
        /\ \A k \in LendingIds \ {n} : lendings'[k] = lendings[k]
  BY Inserted
<1>2. /\ OpenOn(h)' = {n} /\ \A g \in Holdings \ {h} : OpenOn(g)' = OpenOn(g)
  BY <1>1 DEF OpenOn, Open, Stored
<1>3. CurrentLoan[h] = None /\ CurrentLoan' = [CurrentLoan EXCEPT ![h] = n]
  BY <1>1, <1>2, CurrentLoanIs, CurrentLoanBecomes, TheOneIs
<1>4. PastLoans' = PastLoans BY <1>1 DEF PastLoans, Closed, Open, Stored
<1>5. LoanReader[n] = None /\ LoanReader' = [LoanReader EXCEPT ![n] = u]
  BY <1>1 DEF LoanReader, Stored, Open
<1> QED BY <1>3, <1>4, <1>5 DEF Ledger!Next, Ledger!Lend, Ledger!New

LEMMA HoldingOf ==
  ASSUME DeskSafe, NEW i \in LendingIds, Stored(i)
  PROVE  lendings[i].holding \in Holdings /\ lendings[i].user \in Users
BY RowShape DEF DeskSafe, TypeOK, LendingRow

LEMMA OnlyOpen ==
  ASSUME DeskSafe, NEW i \in LendingIds, Open(i)
  PROVE  OpenOn(lendings[i].holding) = {i}
BY DEF DeskSafe, OneOpenLending, OpenOn

\* Closing the open lending i adds it to the past loans of its copy.
LEMMA PastWithOneMore ==
  ASSUME NEW i \in LendingIds, NEW h \in Holdings, Open(i), Closed(i)', lendings[i].holding = h,
         lendings'[i].holding = h,
         \A k \in LendingIds \ {i} : Closed(k)' <=> Closed(k),
         \A k \in LendingIds : Closed(k) => lendings'[k].holding = lendings[k].holding
  PROVE  PastLoans' = [PastLoans EXCEPT ![h] = @ \cup {i}]
<1> DEFINE of(g) == {k \in LendingIds : Closed(k) /\ lendings[k].holding = g}
<1>1. of(h)' = of(h) \cup {i} OBVIOUS
<1>2. \A g \in Holdings \ {h} : of(g)' = of(g) BY DEF Open, Closed
<1>3. PastLoans = [g \in Holdings |-> of(g)] /\ PastLoans' = [g \in Holdings |-> of(g)']
  BY DEF PastLoans
<1> HIDE DEF of
<1> QED BY <1>1, <1>2, <1>3

LEMMA ReturnKeepsLedger ==
  ASSUME DeskSafe, NEW r \in Requests, ReturnClose(r) \/ ImmediateClose(r) PROVE Ledger!Next
<1>1. PICK i \in LendingIds :
        /\ Open(i) /\ Closed(i)' /\ lendings'[i].holding = lendings[i].holding
        /\ lendings'[i].user = lendings[i].user
        /\ \A k \in LendingIds \ {i} : lendings'[k] = lendings[k]
  BY ClosedOne
<1>2. PICK h \in Holdings : h = lendings[i].holding BY <1>1, HoldingOf DEF Open, Stored
<1>3. OpenOn(h) = {i} BY <1>1, <1>2, OnlyOpen
<1>4. OpenOn(h)' = {} /\ \A g \in Holdings \ {h} : OpenOn(g)' = OpenOn(g)
  BY <1>1, <1>2, <1>3 DEF OpenOn, Open, Closed
<1>5. CurrentLoan[h] = i /\ i # None /\ CurrentLoan' = [CurrentLoan EXCEPT ![h] = None]
  BY <1>3, <1>4, CurrentLoanIs, CurrentLoanBecomes, TheOneIs, CatalogAssumption
<1>6. PastLoans' = [PastLoans EXCEPT ![h] = @ \cup {i}]
  <2>1. \A k \in LendingIds \ {i} : Closed(k)' <=> Closed(k) BY <1>1 DEF Closed
  <2> QED BY <1>1, <1>2, <2>1, PastWithOneMore
<1>7. LoanReader' = LoanReader BY <1>1 DEF LoanReader, Stored, Open, Closed
<1> QED BY <1>5, <1>6, <1>7 DEF Ledger!Next, Ledger!Return

LEMMA UndoKeepsLedger ==
  ASSUME DeskSafe, NEW r \in Requests, UndoReopen(r) PROVE Ledger!Next
<1>1. PICK i \in LendingIds :
        /\ Closed(i) /\ OpenOn(lendings[i].holding) = {}
        /\ Open(i)' /\ lendings'[i].holding = lendings[i].holding
        /\ lendings'[i].user = lendings[i].user
        /\ \A k \in LendingIds \ {i} : lendings'[k] = lendings[k]
  BY ReopenedOne
<1>2. PICK h \in Holdings : h = lendings[i].holding BY <1>1, HoldingOf DEF Closed, Stored
<1>3. OpenOn(h)' = {i} /\ \A g \in Holdings \ {h} : OpenOn(g)' = OpenOn(g)
  BY <1>1, <1>2 DEF OpenOn, Open, Closed
<1>4. CurrentLoan[h] = None /\ CurrentLoan' = [CurrentLoan EXCEPT ![h] = i]
  BY <1>1, <1>2, <1>3, CurrentLoanIs, CurrentLoanBecomes, TheOneIs
<1>5. i \in PastLoans[h] /\ PastLoans' = [PastLoans EXCEPT ![h] = @ \ {i}]
  <2> DEFINE of(g) == {k \in LendingIds : Closed(k) /\ lendings[k].holding = g}
  <2>1. ~Closed(i)' /\ \A k \in LendingIds \ {i} : Closed(k)' <=> Closed(k)
    BY <1>1 DEF Closed, Open
  <2>2. of(h)' = of(h) \ {i} /\ i \in of(h) BY <1>1, <1>2, <2>1
  <2>3. \A g \in Holdings \ {h} : of(g)' = of(g) BY <1>1, <1>2, <2>1
  <2>4. PastLoans = [g \in Holdings |-> of(g)] /\ PastLoans' = [g \in Holdings |-> of(g)']
    BY DEF PastLoans
  <2> HIDE DEF of
  <2> QED BY <2>2, <2>3, <2>4
<1>6. LoanReader' = LoanReader BY <1>1 DEF LoanReader, Stored, Open, Closed
<1> QED BY <1>4, <1>5, <1>6 DEF Ledger!Next, Ledger!Undo

LEMMA RenewKeepsLedger ==
  ASSUME LedgerSafe, NEW r \in Requests, RenewCommit(r) PROVE Ledger!Next
<1>1. PICK i, n \in LendingIds :
        /\ i # n /\ Open(i) /\ ~Stored(n)
        /\ Closed(i)' /\ lendings'[i].holding = lendings[i].holding
        /\ lendings'[i].user = lendings[i].user
        /\ Open(n)' /\ lendings'[n].holding = lendings[i].holding
        /\ lendings'[n].user = lendings[i].user
        /\ \A k \in LendingIds \ {i, n} : lendings'[k] = lendings[k]
  BY RenewedOne
<1>2. PICK h \in Holdings : h = lendings[i].holding
  BY <1>1, HoldingOf DEF Open, Stored, LedgerSafe
<1>3. OpenOn(h) = {i} BY <1>1, <1>2, OnlyOpen DEF LedgerSafe
<1>4. OpenOn(h)' = {n} /\ \A g \in Holdings \ {h} : OpenOn(g)' = OpenOn(g)
  BY <1>1, <1>2, <1>3 DEF OpenOn, Open, Closed, Stored
<1>5. CurrentLoan[h] = i /\ i # None /\ CurrentLoan' = [CurrentLoan EXCEPT ![h] = n]
  BY <1>3, <1>4, CurrentLoanIs, CurrentLoanBecomes, TheOneIs, CatalogAssumption
<1>6. PastLoans' = [PastLoans EXCEPT ![h] = @ \cup {i}]
  <2>1. \A k \in LendingIds \ {i} : Closed(k)' <=> Closed(k)
    BY <1>1 DEF Closed, Open, Stored
  <2>2. \A k \in LendingIds : Closed(k) => lendings'[k].holding = lendings[k].holding
    BY <1>1 DEF Closed, Stored
  <2> QED BY <1>1, <1>2, <2>1, <2>2, PastWithOneMore
<1>7. LoanReader[n] = None /\ LoanReader' = [LoanReader EXCEPT ![n] = LoanReader[i]]
  BY <1>1 DEF LoanReader, Stored, Open, Closed
<1> QED BY <1>5, <1>6, <1>7 DEF Ledger!Next, Ledger!Renew, Ledger!New

LEMMA LedgerKept == LedgerSafe /\ [Next]_vars => [Ledger!Next]_(Ledger!vars)
<1> SUFFICES ASSUME LedgerSafe, [Next]_vars PROVE [Ledger!Next]_(Ledger!vars)
  OBVIOUS
<1>1. CASE UNCHANGED lendings
  BY <1>1 DEF Ledger!vars, CurrentLoan, PastLoans, LoanReader, IsLent, OpenOn, Open, Closed, Stored
<1> QED BY <1>1, LendingWrites, LendKeepsLedger, ReturnKeepsLedger, UndoKeepsLedger,
           RenewKeepsLedger DEF LedgerSafe

\* The desk keeps the ledger of LoanLedger, statement by statement, even if
\* requests die in between: no loan changes its reader, and only a free copy
\* is lent or given back to a past loan.
THEOREM DeskImplementsLedger ==
  ASSUME OneDeskPerCopy, FreshPages
  PROVE  Spec => ImplementsLedger
<1>1. Init => RenewsOwn BY DEF Init, RenewsOwn
<1>2. DeskSafe /\ RenewsOwn /\ [Next]_vars => RenewsOwn' BY RenewsOwnStep DEF LedgerSafe
<1>3. DeskSafe /\ RenewsOwn /\ [Next]_vars => [Ledger!Next]_(Ledger!vars)
  BY LedgerKept DEF LedgerSafe
<1> QED BY <1>1, <1>2, <1>3, LedgerStart, DeskIsSafe, PTL DEF Spec, ImplementsLedger, Ledger!Spec

-----------------------------------------------------------------------------
(* The limits.                                                             *)

USE DEF ReservationIds

OneAtATime == \A r, s \in Requests : r = s

\* A request about to insert has room for it.
Room ==
  \A r \in Requests :
    /\ pc[r] = "lend.insert" =>
         Cardinality(OpenOf(job[r].user)) < LendingLimit[job[r].user]
    /\ pc[r] = "reserve.insert" =>
         Cardinality(LiveOf(job[r].user)) < ReservationLimit[job[r].user]

NoUndo == \A r \in Requests : pc[r] \notin UndoSteps

LimitInv == LimitPreserved /\ ReservationLimitPreserved /\ Room /\ NoUndo

LimitSafe == DeskSafe /\ RenewsOwn /\ LimitInv

\* No reader gets a lending or a live reservation.
NoneMore == \A u \in Users : OpenOf(u)' \subseteq OpenOf(u) /\ LiveOf(u)' \subseteq LiveOf(u)

-----------------------------------------------------------------------------
(* Counting.                                                               *)

LEMMA FiniteRows ==
  \A u : IsFiniteSet(OpenOf(u)) /\ IsFiniteSet(LiveOf(u))
<1>1. IsFiniteSet(LendingIds) /\ IsFiniteSet(ReservationIds)
  BY Bounds, FS_Interval
<1>2. \A u : OpenOf(u) \in SUBSET LendingIds /\ LiveOf(u) \in SUBSET ReservationIds
  BY DEF OpenOf, LiveOf
<1> QED BY <1>1, <1>2, FS_Subset

LEMMA NotMore ==
  ASSUME NEW S, NEW T, IsFiniteSet(S), T \subseteq S
  PROVE  Cardinality(T) \in Nat /\ Cardinality(S) \in Nat /\ Cardinality(T) <= Cardinality(S)
BY FS_Subset, FS_CardinalityType

LEMMA OneMore ==
  ASSUME NEW S, NEW T, NEW x, IsFiniteSet(S), T \subseteq S \cup {x}
  PROVE  /\ Cardinality(T) \in Nat /\ Cardinality(S) \in Nat
         /\ Cardinality(T) <= Cardinality(S) + 1
<1>0. Cardinality(S) \in Nat BY FS_CardinalityType
<1>3. IsFiniteSet(S \cup {x})
      /\ Cardinality(S \cup {x}) = IF x \in S THEN Cardinality(S) ELSE Cardinality(S) + 1
  BY FS_AddElement
<1>1. IsFiniteSet(S \cup {x}) /\ Cardinality(S \cup {x}) <= Cardinality(S) + 1
  BY <1>0, <1>3
<1>2. /\ Cardinality(T) \in Nat /\ Cardinality(S \cup {x}) \in Nat
      /\ Cardinality(T) <= Cardinality(S \cup {x})
  BY <1>1, NotMore
<1> QED BY <1>0, <1>1, <1>2

LEMMA Replaced ==
  ASSUME NEW S, NEW T, NEW x, NEW y \in S, IsFiniteSet(S), T \subseteq (S \ {y}) \cup {x}
  PROVE  /\ Cardinality(T) \in Nat /\ Cardinality(S) \in Nat
         /\ Cardinality(T) <= Cardinality(S)
<1>1. IsFiniteSet(S \ {y}) /\ Cardinality(S \ {y}) = Cardinality(S) - 1 /\ Cardinality(S) \in Nat
  BY FS_RemoveElement, FS_CardinalityType
<1>2. Cardinality(T) \in Nat /\ Cardinality(T) <= Cardinality(S \ {y}) + 1
  BY <1>1, OneMore
<1> QED BY <1>1, <1>2

LEMMA LimitsTyped == \A u \in Users : LendingLimit[u] \in Nat /\ ReservationLimit[u] \in Nat
BY PolicyAssumption

\* With no reader having more, the limits hold and who had room has it still.
LEMMA NoneMoreKeeps ==
  ASSUME LimitPreserved, ReservationLimitPreserved, NoneMore
  PROVE  /\ LimitPreserved' /\ ReservationLimitPreserved'
         /\ \A u \in Users :
              /\ Cardinality(OpenOf(u)) < LendingLimit[u] => Cardinality(OpenOf(u)') < LendingLimit[u]
              /\ Cardinality(LiveOf(u)) < ReservationLimit[u]
                   => Cardinality(LiveOf(u)') < ReservationLimit[u]
<1> SUFFICES ASSUME NEW u \in Users
             PROVE  /\ Cardinality(OpenOf(u)') <= LendingLimit[u]
                    /\ Cardinality(LiveOf(u)') <= ReservationLimit[u]
                    /\ Cardinality(OpenOf(u)) < LendingLimit[u]
                         => Cardinality(OpenOf(u)') < LendingLimit[u]
                    /\ Cardinality(LiveOf(u)) < ReservationLimit[u]
                         => Cardinality(LiveOf(u)') < ReservationLimit[u]
  BY DEF LimitPreserved, ReservationLimitPreserved
<1>1. /\ Cardinality(OpenOf(u)) \in Nat /\ Cardinality(OpenOf(u)') \in Nat
      /\ Cardinality(OpenOf(u)') <= Cardinality(OpenOf(u))
  BY FiniteRows, NotMore DEF NoneMore
<1>2. /\ Cardinality(LiveOf(u)) \in Nat /\ Cardinality(LiveOf(u)') \in Nat
      /\ Cardinality(LiveOf(u)') <= Cardinality(LiveOf(u))
  BY FiniteRows, NotMore DEF NoneMore
<1> QED BY <1>1, <1>2, LimitsTyped DEF LimitPreserved, ReservationLimitPreserved

-----------------------------------------------------------------------------
(* The steps that give nobody a row.                                       *)

\* Reservations expire and are removed; only ReserveInsert adds one.
LEMMA FewerReservations ==
  ASSUME TypeOK, now' = now \/ (now' \in Instants /\ now <= now'),
         \A k \in ReservationIds : reservations'[k] \in {reservations[k], NoRow}
  PROVE  \A u : LiveOf(u)' \subseteq LiveOf(u)
<1>0. now \in Instants /\ now' \in Instants /\ (now' = now \/ now <= now')
  BY DEF TypeOK, RowsOK
<1>3. DayOf[now] \in Nat /\ DayOf[now'] \in Nat BY <1>0, TimeAssumption
<1>1. DayOf[now] \in Nat /\ DayOf[now'] \in Nat /\ DayOf[now] <= DayOf[now']
  <2>1. CASE now' = now BY <1>3, <2>1
  <2>2. CASE now <= now' BY <1>0, <1>3, <2>2, TimeAssumption
  <2> QED BY <1>0, <2>1, <2>2
<1>2. ASSUME NEW k \in ReservationIds, Live(k)' PROVE Live(k) /\ reservations'[k] = reservations[k]
  <2>1. reservations'[k] = reservations[k] /\ reservations[k] # NoRow BY <1>2 DEF Live
  <2>2. reservations[k].expires \in Nat
    BY <2>1 DEF TypeOK, RowsOK, ReservationRow
  <2> QED BY <1>1, <1>2, <2>1, <2>2 DEF Live, Today
<1> QED BY <1>2 DEF LiveOf

LEMMA SameLendings ==
  ASSUME lendings' = lendings PROVE \A u : OpenOf(u)' = OpenOf(u)
BY DEF OpenOf, Open

LEMMA SameReservations ==
  ASSUME reservations' = reservations, now' = now PROVE \A u : LiveOf(u)' = LiveOf(u)
BY DEF LiveOf, Live, Today

\* Everything but the four steps below and the steps of an undo.
LEMMA NoneMoreSteps ==
  ASSUME DeskSafe, NEW r \in Requests,
         Start(r) \/ Step(r) \/ Fail(r),
         ~LendInsert(r), ~RenewCommit(r), ~ReserveInsert(r), ~UndoReopen(r)
  PROVE  NoneMore
<1>1. CASE ReturnClose(r) \/ ImmediateClose(r)
  <2>1. \E i \in LendingIds : Closed(i)' /\ \A k \in LendingIds \ {i} : lendings'[k] = lendings[k]
    BY <1>1, ClosedOne
  <2>2. \A u : OpenOf(u)' \subseteq OpenOf(u) BY <2>1 DEF OpenOf, Open, Closed
  <2>3. reservations' = reservations /\ now' = now
    BY <1>1 DEF ReturnClose, ImmediateClose, settings
  <2> QED BY <2>2, <2>3, SameReservations DEF NoneMore
<1>2. CASE LendDequeue(r)
  <2>1. lendings' = lendings /\ now' = now BY <1>2 DEF LendDequeue, settings
  <2>2. \A k \in ReservationIds : reservations'[k] \in {reservations[k], NoRow}
    BY <1>2 DEF LendDequeue, DeskSafe, TypeOK, RowsOK
  <2> QED BY <2>1, <2>2, SameLendings, FewerReservations DEF NoneMore, DeskSafe
<1>3. CASE Start(r) \/ Fail(r)
  <2>1. UNCHANGED <<lendings, reservations, now>>
    BY <1>3 DEF Start, LendStart, RenewStart, ReturnStart, ImmediateStart, UndoStart, AdjustStart,
                PayStart, ReserveStart, Fail, settings
  <2> QED BY <2>1, SameLendings, SameReservations DEF NoneMore
<1>4. CASE Step(r) /\ ~ReturnClose(r) /\ ~ImmediateClose(r) /\ ~LendDequeue(r)
  <2>1. UNCHANGED <<lendings, reservations, now>>
    BY <1>4 DEF Step, LendCheckHolding, LendCheckLimit, RenewCheckLimit, ReturnFine,
       ImmediateFine, UndoCheckHolding, UndoReadFine, UndoDeleteFine, AdjustWrite, PayWrite,
       ReserveCheckLimit, settings
  <2> QED BY <2>1, SameLendings, SameReservations DEF NoneMore
<1> QED BY <1>1, <1>2, <1>3, <1>4

LEMMA NoneMoreWorld ==
  ASSUME TypeOK,
         \/ \E k \in ReservationIds : Cancel(k)
         \/ \E u \in Users, s \in Statuses : SetStatus(u, s)
         \/ \E h \in Holdings, a \in Availabilities : SetAvailability(h, a)
         \/ Tick
  PROVE  NoneMore /\ UNCHANGED requests
<1>1. lendings' = lendings /\ UNCHANGED requests
  BY DEF Cancel, SetStatus, SetAvailability, Tick
<1>2. \A k \in ReservationIds : reservations'[k] \in {reservations[k], NoRow}
  BY DEF Cancel, SetStatus, SetAvailability, Tick, TypeOK, RowsOK
<1>3. now' = now \/ (now' \in Instants /\ now <= now')
  BY TimeAssumption DEF Cancel, SetStatus, SetAvailability, Tick, settings, TypeOK, RowsOK
<1> QED BY <1>1, <1>2, <1>3, SameLendings, FewerReservations DEF NoneMore

-----------------------------------------------------------------------------
(* Where a request goes.                                                   *)

Counted == {"lend.insert", "reserve.insert"}
Plain(step) == step \notin UndoSteps \cup Counted

\* A request that is not about to insert, and alone, has nothing to remember.
LEMMA ElsewhereKeeps ==
  ASSUME OneAtATime, TypeOK, NEW r \in Requests, NEW step, NEW j, Run(r, step, j),
         step \notin UndoSteps \cup Counted
  PROVE  Room' /\ NoUndo'
<1>1. pc'[r] = step BY DEF Run, TypeOK, RowsOK
<1>2. \A s \in Requests : s = r BY DEF OneAtATime
<1> QED BY <1>1, <1>2 DEF Room, NoUndo, Counted

LEMMA StartsElsewhere ==
  ASSUME NEW r \in Requests, "undo" \notin Operations, Start(r)
  PROVE  \E step, j : Run(r, step, j) /\ step \notin UndoSteps \cup Counted
<1> DEFINE Fine == \E step, j : Run(r, step, j) /\ step \notin UndoSteps \cup Counted
<1>0. ASSUME NEW step, NEW j, Run(r, step, j), step \notin UndoSteps \cup Counted PROVE Fine
  BY <1>0
<1> HIDE DEF Fine
<1> USE DEF Counted
<1>1. ASSUME NEW h \in Holdings, NEW u \in Users, LendStart(r, h, u) PROVE Fine
  BY <1>0, <1>1 DEF LendStart
<1>2. ASSUME NEW i \in LendingIds, NEW v, NEW p, ReturnStart(r, i, v, p) PROVE Fine
  BY <1>0, <1>2 DEF ReturnStart
<1>3. ASSUME NEW i \in LendingIds, ImmediateStart(r, i) PROVE Fine
  BY <1>0, <1>3 DEF ImmediateStart
<1>4. ASSUME NEW i \in LendingIds, RenewStart(r, i) PROVE Fine
  BY <1>0, <1>4 DEF RenewStart
<1>5. ASSUME NEW f \in FineIds, NEW v, AdjustStart(r, f, v) PROVE Fine
  BY <1>0, <1>5 DEF AdjustStart
<1>6. ASSUME NEW f \in FineIds, NEW e, PayStart(r, f, e) PROVE Fine
  BY <1>0, <1>6 DEF PayStart
<1>7. ASSUME NEW u \in Users, NEW rec, ReserveStart(r, u, rec) PROVE Fine
  BY <1>0, <1>7 DEF ReserveStart
<1>8. \A i : ~UndoStart(r, i) BY DEF UndoStart, Begin
<1>9. Fine BY <1>1, <1>2, <1>3, <1>4, <1>5, <1>6, <1>7, <1>8 DEF Start
<1> QED BY <1>9 DEF Fine

\* A request that goes on to a step which neither counts nor belongs to an undo.
GoesOn(r) == \E step, j : Run(r, step, j) /\ step \notin UndoSteps \cup Counted

LEMMA PlainGoesOn ==
  ASSUME NEW r \in Requests
  PROVE  /\ \A step : Goto(r, step) /\ Plain(step) => GoesOn(r)
         /\ Finish(r) => GoesOn(r)
BY DEF GoesOn, Goto, Finish, Plain, Counted

LEMMA StepsElsewhere ==
  ASSUME NEW r \in Requests, NoUndo, Step(r) \/ Fail(r), ~LendCheckLimit(r), ~ReserveCheckLimit(r)
  PROVE  GoesOn(r)
<1>0. /\ Plain("lend.limit") /\ Plain("lend.dequeue") /\ Plain("renew.commit")
      /\ Plain("return.fine") /\ Plain("immediate.fine")
  BY DEF Plain, Counted
<1>4. CASE LendCheckHolding(r)
  <2>1. Goto(r, "lend.limit") \/ Finish(r) BY <1>4 DEF LendCheckHolding, Continue
  <2> QED BY <1>0, <2>1, PlainGoesOn
<1>5. CASE RenewCheckLimit(r)
  <2>1. Goto(r, "renew.commit") \/ Finish(r) BY <1>5 DEF RenewCheckLimit, Continue
  <2> QED BY <1>0, <2>1, PlainGoesOn
<1>6. CASE ReturnClose(r)
  <2>1. Goto(r, "return.fine") \/ Finish(r) BY <1>6 DEF ReturnClose, Continue
  <2> QED BY <1>0, <2>1, PlainGoesOn
<1>7. CASE LendInsert(r) \/ ImmediateClose(r)
  <2>1. Goto(r, "lend.dequeue") \/ Goto(r, "immediate.fine") BY <1>7 DEF LendInsert, ImmediateClose
  <2> QED BY <1>0, <2>1, PlainGoesOn
<1>8. CASE \/ LendDequeue(r) \/ RenewCommit(r) \/ ReturnFine(r) \/ ImmediateFine(r)
           \/ ReserveInsert(r) \/ AdjustWrite(r) \/ PayWrite(r) \/ Fail(r)
  <2>1. Finish(r)
    BY <1>8 DEF LendDequeue, RenewCommit, ReturnFine, ImmediateFine, ReserveInsert,
                AdjustWrite, PayWrite, Fail
  <2> QED BY <2>1, PlainGoesOn
<1>9. ~UndoCheckHolding(r) /\ ~UndoReadFine(r) /\ ~UndoDeleteFine(r) /\ ~UndoReopen(r)
  BY DEF NoUndo, UndoCheckHolding, UndoReadFine, UndoDeleteFine, UndoReopen
<1> QED BY <1>4, <1>5, <1>6, <1>7, <1>8, <1>9 DEF Step

-----------------------------------------------------------------------------
(* The steps that count, and those that insert.                            *)

LEMMA CheckKeeps ==
  ASSUME OneAtATime, DeskSafe, LimitInv, NEW r \in Requests,
         LendCheckLimit(r) \/ ReserveCheckLimit(r)
  PROVE  Room' /\ NoUndo'
<1>0. /\ \A s \in Requests : s = r
      /\ UNCHANGED <<lendings, reservations, now>>
  BY DEF OneAtATime, LendCheckLimit, ReserveCheckLimit, settings
<1>1. \A u : OpenOf(u)' = OpenOf(u) /\ LiveOf(u)' = LiveOf(u)
  BY <1>0, SameLendings, SameReservations
<1>2. CASE Finish(r) BY <1>2, ElsewhereKeeps DEF Finish, Counted, DeskSafe
<1>3. ASSUME NEW step \in Counted, Goto(r, step)
      PROVE  pc'[r] = step /\ job'[r] = job[r]
  BY <1>3 DEF Goto, Run, DeskSafe, TypeOK, RowsOK
<1>4. CASE LendCheckLimit(r) /\ ~Finish(r)
  <2>1. Goto(r, "lend.insert")
        /\ Cardinality(OpenOf(job[r].user)) < LendingLimit[job[r].user]
    BY <1>4 DEF LendCheckLimit, Continue
  <2>2. pc'[r] = "lend.insert" /\ job'[r] = job[r] BY <2>1, <1>3 DEF Counted
  <2> QED BY <1>0, <1>1, <2>1, <2>2 DEF Room, NoUndo
<1>5. CASE ReserveCheckLimit(r) /\ ~Finish(r)
  <2>1. Goto(r, "reserve.insert")
        /\ Cardinality(LiveOf(job[r].user)) < ReservationLimit[job[r].user]
    BY <1>5 DEF ReserveCheckLimit, Continue
  <2>2. pc'[r] = "reserve.insert" /\ job'[r] = job[r] BY <2>1, <1>3 DEF Counted
  <2> QED BY <1>0, <1>1, <2>1, <2>2 DEF Room, NoUndo
<1> QED BY <1>2, <1>4, <1>5

LEMMA LendWithinLimit ==
  ASSUME DeskSafe, LimitInv, NEW r \in Requests, LendInsert(r)
  PROVE  LimitPreserved' /\ ReservationLimitPreserved'
<1>1. PICK n \in LendingIds, u \in Users :
        /\ u = job[r].user /\ lendings'[n].user = u
        /\ \A k \in LendingIds \ {n} : lendings'[k] = lendings[k]
  BY Inserted
<1>2. Cardinality(OpenOf(u)) < LendingLimit[u]
  BY <1>1 DEF LimitInv, Room, LendInsert
<1>3. OpenOf(u)' \subseteq OpenOf(u) \cup {n} BY <1>1 DEF OpenOf, Open
<1>4. Cardinality(OpenOf(u)') <= LendingLimit[u]
  <2>1. /\ Cardinality(OpenOf(u)') \in Nat /\ Cardinality(OpenOf(u)) \in Nat
        /\ Cardinality(OpenOf(u)') <= Cardinality(OpenOf(u)) + 1
    BY <1>3, FiniteRows, OneMore
  <2> QED BY <1>2, <2>1, LimitsTyped
<1>5. \A w \in Users \ {u} : OpenOf(w)' \subseteq OpenOf(w) BY <1>1 DEF OpenOf, Open
<1>6. ASSUME NEW w \in Users \ {u} PROVE Cardinality(OpenOf(w)') <= LendingLimit[w]
  <2>1. /\ Cardinality(OpenOf(w)') \in Nat /\ Cardinality(OpenOf(w)) \in Nat
        /\ Cardinality(OpenOf(w)') <= Cardinality(OpenOf(w))
    BY <1>5, FiniteRows, NotMore
  <2> QED BY <2>1, LimitsTyped DEF LimitInv, LimitPreserved
<1>7. \A w : LiveOf(w)' = LiveOf(w) BY SameReservations DEF LendInsert, settings
<1> QED BY <1>4, <1>6, <1>7 DEF LimitInv, LimitPreserved, ReservationLimitPreserved

LEMMA RenewWithinLimit ==
  ASSUME LimitSafe, NEW r \in Requests, RenewCommit(r)
  PROVE  LimitPreserved' /\ ReservationLimitPreserved'
<1>1. PICK i, n \in LendingIds :
        /\ i # n /\ Open(i) /\ Closed(i)' /\ lendings'[n].user = lendings[i].user
        /\ \A k \in LendingIds \ {i, n} : lendings'[k] = lendings[k]
  BY RenewedOne DEF LimitSafe, LedgerSafe
<1>2. PICK u \in Users : u = lendings[i].user
  BY <1>1, HoldingOf DEF LimitSafe, Open, Stored
<1>3. i \in OpenOf(u) /\ OpenOf(u)' \subseteq (OpenOf(u) \ {i}) \cup {n}
  BY <1>1, <1>2 DEF OpenOf, Open, Closed
<1>4. ASSUME NEW w \in Users PROVE Cardinality(OpenOf(w)') <= LendingLimit[w]
  <2>1. CASE w = u
    <3>1. /\ Cardinality(OpenOf(u)') \in Nat /\ Cardinality(OpenOf(u)) \in Nat
          /\ Cardinality(OpenOf(u)') <= Cardinality(OpenOf(u))
      BY <1>3, FiniteRows, Replaced
    <3> QED BY <2>1, <3>1, LimitsTyped DEF LimitSafe, LimitInv, LimitPreserved
  <2>2. CASE w # u
    <3>1. OpenOf(w)' \subseteq OpenOf(w) BY <1>1, <1>2, <2>2 DEF OpenOf, Open, Closed
    <3>2. /\ Cardinality(OpenOf(w)') \in Nat /\ Cardinality(OpenOf(w)) \in Nat
          /\ Cardinality(OpenOf(w)') <= Cardinality(OpenOf(w))
      BY <3>1, FiniteRows, NotMore
    <3> QED BY <3>2, LimitsTyped DEF LimitSafe, LimitInv, LimitPreserved
  <2> QED BY <2>1, <2>2
<1>5. \A w : LiveOf(w)' = LiveOf(w) BY SameReservations DEF RenewCommit, settings
<1> QED BY <1>4, <1>5 DEF LimitSafe, LimitInv, LimitPreserved, ReservationLimitPreserved

LEMMA ReserveWithinLimit ==
  ASSUME DeskSafe, LimitInv, NEW r \in Requests, ReserveInsert(r)
  PROVE  LimitPreserved' /\ ReservationLimitPreserved'
<1>1. PICK n \in ReservationIds, u \in Users :
        /\ n = nextId.reservation /\ u = job[r].user
        /\ Cardinality(LiveOf(u)) < ReservationLimit[u]
  <2>1. pc[r] = "reserve.insert" /\ nextId.reservation \in ReservationIds BY DEF ReserveInsert
  <2>2. job[r].user \in Users BY <2>1 DEF DeskSafe, TypeOK, JobsOK, ReserveSteps
  <2> QED BY <2>1, <2>2 DEF LimitInv, Room
<1>2. PICK row : row.user = u /\ reservations' = [reservations EXCEPT ![n] = row]
  <2> DEFINE new == [user |-> u, record |-> job[r].record, expires |-> ReservationDue[u][now]]
  <2>1. new.user = u /\ reservations' = [reservations EXCEPT ![n] = new]
    BY <1>1 DEF ReserveInsert
  <2> HIDE DEF new
  <2> QED BY <2>1
<1>3. /\ reservations'[n].user = u /\ lendings' = lendings /\ now' = now
      /\ \A k \in ReservationIds \ {n} : reservations'[k] = reservations[k]
  BY <1>2 DEF ReserveInsert, settings, DeskSafe, TypeOK, RowsOK
<1>4. LiveOf(u)' \subseteq LiveOf(u) \cup {n} BY <1>3 DEF LiveOf, Live, Today
<1>5. Cardinality(LiveOf(u)') <= ReservationLimit[u]
  <2>1. /\ Cardinality(LiveOf(u)') \in Nat /\ Cardinality(LiveOf(u)) \in Nat
        /\ Cardinality(LiveOf(u)') <= Cardinality(LiveOf(u)) + 1
    BY <1>4, FiniteRows, OneMore
  <2> QED BY <1>1, <2>1, LimitsTyped
<1>6. ASSUME NEW w \in Users \ {u} PROVE Cardinality(LiveOf(w)') <= ReservationLimit[w]
  <2>1. LiveOf(w)' \subseteq LiveOf(w) BY <1>3 DEF LiveOf, Live, Today
  <2>2. /\ Cardinality(LiveOf(w)') \in Nat /\ Cardinality(LiveOf(w)) \in Nat
        /\ Cardinality(LiveOf(w)') <= Cardinality(LiveOf(w))
    BY <2>1, FiniteRows, NotMore
  <2> QED BY <2>2, LimitsTyped DEF LimitInv, ReservationLimitPreserved
<1>7. \A w : OpenOf(w)' = OpenOf(w) BY <1>3, SameLendings
<1> QED BY <1>5, <1>6, <1>7 DEF LimitInv, LimitPreserved, ReservationLimitPreserved

-----------------------------------------------------------------------------
LEMMA LimitInit == Init => LimitInv
<1> SUFFICES ASSUME Init PROVE LimitInv
  OBVIOUS
<1>1. \A u \in Users : OpenOf(u) = {} /\ LiveOf(u) = {}
  BY DEF Init, OpenOf, Open, LiveOf, Live
<1>2. LimitPreserved /\ ReservationLimitPreserved
  BY <1>1, FS_EmptySet, LimitsTyped DEF LimitPreserved, ReservationLimitPreserved
<1>3. Room /\ NoUndo BY DEF Init, Room, NoUndo
<1> QED BY <1>2, <1>3 DEF LimitInv

LEMMA LimitStep ==
  ASSUME OneAtATime, "undo" \notin Operations, LimitSafe, [Next]_vars
  PROVE  LimitInv'
<1> USE DEF LimitSafe
<1>1. ASSUME NEW r \in Requests, Start(r) \/ Step(r) \/ Fail(r)
      PROVE  LimitInv'
  <2>1. Room' /\ NoUndo'
    <3>1. CASE LendCheckLimit(r) \/ ReserveCheckLimit(r) BY <3>1, CheckKeeps
    <3>2. CASE Start(r) BY <3>2, StartsElsewhere, ElsewhereKeeps DEF DeskSafe
    <3>3. CASE (Step(r) \/ Fail(r)) /\ ~LendCheckLimit(r) /\ ~ReserveCheckLimit(r)
      BY <3>3, StepsElsewhere, ElsewhereKeeps DEF DeskSafe, LimitInv, GoesOn
    <3> QED BY <1>1, <3>1, <3>2, <3>3
  <2>2. LimitPreserved' /\ ReservationLimitPreserved'
    <3>1. ~UndoReopen(r) BY DEF UndoReopen, LimitInv, NoUndo
    <3>2. CASE ~LendInsert(r) /\ ~RenewCommit(r) /\ ~ReserveInsert(r)
      BY <1>1, <3>1, <3>2, NoneMoreSteps, NoneMoreKeeps DEF LimitInv
    <3> QED BY <3>2, LendWithinLimit, RenewWithinLimit, ReserveWithinLimit
  <2> QED BY <2>1, <2>2 DEF LimitInv
<1>2. ASSUME NoneMore, UNCHANGED requests PROVE LimitInv'
  <2>1. LimitPreserved' /\ ReservationLimitPreserved' BY <1>2, NoneMoreKeeps DEF LimitInv
  <2>2. NoUndo' BY <1>2 DEF LimitInv, NoUndo, requests
  <2>3. \A r \in Requests : pc[r] \in Counted => job[r].user \in Users
    BY DEF DeskSafe, TypeOK, JobsOK, Counted, ReserveSteps
  <2>4. Room' BY <1>2, <2>3, NoneMoreKeeps DEF LimitInv, Room, requests, Counted
  <2> QED BY <2>1, <2>2, <2>4 DEF LimitInv
<1>3. CASE UNCHANGED vars
  <2>1. NoneMore BY <1>3, SameLendings, SameReservations DEF vars, NoneMore
  <2> QED BY <1>2, <1>3, <2>1 DEF vars, requests
<1>4. CASE \/ \E k \in ReservationIds : Cancel(k)
           \/ \E u \in Users, s \in Statuses : SetStatus(u, s)
           \/ \E h \in Holdings, a \in Availabilities : SetAvailability(h, a)
           \/ Tick
  BY <1>2, <1>4, NoneMoreWorld DEF DeskSafe
<1> QED BY <1>1, <1>3, <1>4 DEF Next

\* No reader exceeds a limit (isUserLendingsBeyondLimit and its like), while
\* requests come one at a time, from fresh pages, and no return is undone.
THEOREM LimitsAreKept ==
  ASSUME OneDeskPerCopy, FreshPages, OneAtATime, "undo" \notin Operations
  PROVE  Spec => []LimitPreserved
<1>1. Init => RenewsOwn /\ LimitInv BY LimitInit DEF Init, RenewsOwn
<1>2. DeskSafe /\ RenewsOwn /\ LimitInv /\ [Next]_vars => RenewsOwn' /\ LimitInv'
  BY RenewsOwnStep, LimitStep DEF LedgerSafe, LimitSafe
<1>3. LimitInv => LimitPreserved BY DEF LimitInv
<1> QED BY <1>1, <1>2, <1>3, DeskIsSafe, PTL DEF Spec

\* The same for the live reservations of a reader (checkReservation).
THEOREM ReservationLimitsAreKept ==
  ASSUME OneDeskPerCopy, FreshPages, OneAtATime, "undo" \notin Operations
  PROVE  Spec => []ReservationLimitPreserved
<1>1. Init => RenewsOwn /\ LimitInv BY LimitInit DEF Init, RenewsOwn
<1>2. DeskSafe /\ RenewsOwn /\ LimitInv /\ [Next]_vars => RenewsOwn' /\ LimitInv'
  BY RenewsOwnStep, LimitStep DEF LedgerSafe, LimitSafe
<1>3. LimitInv => ReservationLimitPreserved BY DEF LimitInv
<1> QED BY <1>1, <1>2, <1>3, DeskIsSafe, PTL DEF Spec

-----------------------------------------------------------------------------
(* Late returns are charged: when returns come from the new page, which      *)
(* works out the fine itself, and no request dies between its statements.    *)

\* A statement is to come that will charge the lending, or open it again.
ToSettle == {"immediate.fine", "undo.reopen"}
Unsettled(i) == \E r \in Requests : pc[r] \in ToSettle /\ job[r].lending = i

\* An undo that is given up has left the fine, so that it is there while the
\* undo is under way as well, until the statement that deletes it.
Charged ==
  \A i \in LendingIds :
    Closed(i) /\ ~Renewed(i) /\ ~Unsettled(i) /\ LateFine(i, lendings[i].returned) > 0
      => FinesOf(i) # {}

\* Nothing is returned in the future: the fine is worked out from a clock that
\* is read after the return.
PastReturns ==
  \A i \in LendingIds : Closed(i) => lendings[i].returned \in Instants /\ lendings[i].returned <= now

NoStaffReturn == \A r \in Requests : pc[r] \notin {"return.close", "return.fine"}

FineInv == Charged /\ PastReturns /\ NoStaffReturn

\* Lendings that the step changes neither close nor lose what they need.
LEMMA ChargedStep ==
  ASSUME Charged,
         \A i \in LendingIds : Renewed(i) => Renewed(i)',
         \A i \in LendingIds : Closed(i)' /\ ~Renewed(i)' /\ ~Unsettled(i)' =>
           /\ lendings'[i] = lendings[i]
           /\ LateFine(i, lendings[i].returned) > 0 =>
                \/ ~Unsettled(i) /\ (FinesOf(i) # {} => FinesOf(i)' # {})
                \/ FinesOf(i)' # {}
  PROVE  Charged'
<1> SUFFICES ASSUME NEW i \in LendingIds, Closed(i)', ~Renewed(i)', ~Unsettled(i)',
                    LateFine(i, lendings[i].returned)' > 0
             PROVE  FinesOf(i)' # {}
  BY DEF Charged
<1>1. lendings'[i] = lendings[i]
  OBVIOUS
<1>2. LateFine(i, lendings[i].returned) > 0
  BY <1>1 DEF LateFine, DaysLate
<1>3. Closed(i) /\ ~Renewed(i)
  BY <1>1 DEF Closed
<1> QED  BY <1>2, <1>3 DEF Charged

LEMMA RenewalsStay ==
  ASSUME \A k \in LendingIds : Stored(k) => Stored(k)' /\ lendings'[k].previous = lendings[k].previous
  PROVE  \A i \in LendingIds : Renewed(i) => Renewed(i)'
BY DEF Renewed

\* The other requests go on with what they were doing.
LEMMA OthersSettle ==
  ASSUME TypeOK, NEW r \in Requests, NEW step, NEW j, Run(r, step, j),
         NEW i, Unsettled(i), pc[r] \notin ToSettle \/ job[r].lending # i
  PROVE  Unsettled(i)'
<1>1. PICK s \in Requests : pc[s] \in ToSettle /\ job[s].lending = i
  BY DEF Unsettled
<1>2. pc'[s] = pc[s] /\ job'[s] = job[s]
  BY <1>1 DEF Run, TypeOK, RowsOK
<1> QED  BY <1>1, <1>2 DEF Unsettled

\* A request moves on, and has taken a fine from a lending only to open it.
LEMMA MoveCharges ==
  ASSUME TypeOK, FineInv, NEW r \in Requests, NEW step, NEW j, Run(r, step, j),
         step \notin {"return.close", "return.fine"}, pc[r] \notin ToSettle,
         UNCHANGED <<lendings, now>>,
         \A i \in LendingIds : FinesOf(i) # {} =>
           FinesOf(i)' # {} \/ (step = "undo.reopen" /\ j.lending = i)
  PROVE  FineInv'
<1>1. pc'[r] = step /\ job'[r] = j /\ \A s \in Requests \ {r} : pc'[s] = pc[s]
  BY DEF Run, TypeOK, RowsOK
<1>2. \A i \in LendingIds : Unsettled(i) => Unsettled(i)'
  BY OthersSettle
<1>3. step = "undo.reopen" => Unsettled(j.lending)'
  BY <1>1 DEF Unsettled, ToSettle
<1>4. \A i \in LendingIds : Renewed(i) => Renewed(i)'
  BY RenewalsStay DEF Stored
<1>5. Charged'
  BY <1>2, <1>3, <1>4, ChargedStep DEF FineInv
<1>6. PastReturns'
  BY DEF FineInv, PastReturns, Closed
<1>7. NoStaffReturn'
  BY <1>1 DEF FineInv, NoStaffReturn
<1> QED  BY <1>5, <1>6, <1>7 DEF FineInv

LEMMA StartCharges ==
  ASSUME "return" \notin Operations, TypeOK, FineInv, NEW r \in Requests, Start(r)
  PROVE  FineInv'
<1>1. ASSUME NEW step, NEW j, Run(r, step, j), step \notin {"return.close", "return.fine"},
             pc[r] = "idle", UNCHANGED <<lendings, fines, settings>>
      PROVE  FineInv'
  <2>1. \A i \in LendingIds : FinesOf(i)' = FinesOf(i)
    BY <1>1 DEF FinesOf
  <2> QED  BY <1>1, <2>1, MoveCharges DEF settings, ToSettle
<1>2. ASSUME NEW h \in Holdings, NEW u \in Users, LendStart(r, h, u) PROVE FineInv'
  BY <1>1, <1>2 DEF LendStart, Begin
<1>3. ASSUME NEW i \in LendingIds, RenewStart(r, i) PROVE FineInv'
  BY <1>1, <1>3 DEF RenewStart, Begin
<1>4. ASSUME NEW i \in LendingIds, NEW v, NEW q, ReturnStart(r, i, v, q) PROVE FineInv'
  BY <1>4 DEF ReturnStart, Begin
<1>5. ASSUME NEW i \in LendingIds, ImmediateStart(r, i) PROVE FineInv'
  BY <1>1, <1>5 DEF ImmediateStart, Begin
<1>6. ASSUME NEW i \in LendingIds, UndoStart(r, i) PROVE FineInv'
  BY <1>1, <1>6 DEF UndoStart, Begin
<1>7. ASSUME NEW f \in FineIds, NEW v, AdjustStart(r, f, v) PROVE FineInv'
  BY <1>1, <1>7 DEF AdjustStart, Begin
<1>8. ASSUME NEW f \in FineIds, NEW e, PayStart(r, f, e) PROVE FineInv'
  BY <1>1, <1>8 DEF PayStart, Begin
<1>9. ASSUME NEW u \in Users, NEW rec, ReserveStart(r, u, rec) PROVE FineInv'
  BY <1>1, <1>9 DEF ReserveStart, Begin
<1> QED  BY <1>2, <1>3, <1>4, <1>5, <1>6, <1>7, <1>8, <1>9 DEF Start

\* Checks, reservations, and the writes of fines that keep the row.
LEMMA CheckCharges ==
  ASSUME TypeOK, FineInv, NEW r \in Requests,
         \/ LendCheckHolding(r) \/ LendCheckLimit(r) \/ LendDequeue(r) \/ RenewCheckLimit(r)
         \/ UndoCheckHolding(r) \/ UndoReadFine(r) \/ ReserveCheckLimit(r) \/ ReserveInsert(r)
  PROVE  FineInv'
<1>0. pc[r] \notin ToSettle /\ UNCHANGED <<lendings, fines, now>>
  BY DEF LendCheckHolding, LendCheckLimit, LendDequeue, RenewCheckLimit, UndoCheckHolding,
         UndoReadFine, ReserveCheckLimit, ReserveInsert, settings, ToSettle
<1>1. ASSUME NEW step, NEW j, Run(r, step, j), step \notin {"return.close", "return.fine"}
      PROVE  FineInv'
  <2>1. \A i \in LendingIds : FinesOf(i)' = FinesOf(i)
    BY <1>0 DEF FinesOf
  <2> QED  BY <1>0, <1>1, <2>1, MoveCharges
<1>2. CASE Finish(r)
  BY <1>1, <1>2 DEF Finish
<1>3. ASSUME NEW step, step \notin {"return.close", "return.fine"}, Goto(r, step)
      PROVE  FineInv'
  BY <1>1, <1>3 DEF Goto
<1>4. CASE \/ LendCheckHolding(r) \/ LendCheckLimit(r) \/ RenewCheckLimit(r)
           \/ UndoCheckHolding(r) \/ ReserveCheckLimit(r)
  BY <1>2, <1>3, <1>4 DEF LendCheckHolding, LendCheckLimit, RenewCheckLimit, UndoCheckHolding,
       ReserveCheckLimit, Continue
<1>5. CASE LendDequeue(r) \/ ReserveInsert(r)
  BY <1>2, <1>5 DEF LendDequeue, ReserveInsert
<1>6. CASE UndoReadFine(r)
  <2>1. CASE Goto(r, "undo.reopen")
    BY <1>3, <2>1
  <2>2. ASSUME NEW f, Run(r, "undo.delete", [job[r] EXCEPT !.fine = f])
        PROVE  FineInv'
    BY <1>1, <2>2
  <2> QED  BY <1>2, <1>6, <2>1, <2>2 DEF UndoReadFine
<1> QED  BY <1>4, <1>5, <1>6

LEMMA SettleCharges ==
  ASSUME DeskSafe, FineInv, NEW r \in Requests, UndoDeleteFine(r) \/ AdjustWrite(r) \/ PayWrite(r)
  PROVE  FineInv'
<1>0. pc[r] \notin ToSettle /\ UNCHANGED <<lendings, now>> /\ TypeOK
  BY DEF UndoDeleteFine, AdjustWrite, PayWrite, settings, ToSettle, DeskSafe
<1>1. CASE UndoDeleteFine(r)
  <2>1. pc[r] = "undo.delete" /\ FinesOf(job[r].lending) = {job[r].fine}
    BY <1>1 DEF UndoDeleteFine, DeskSafe, DeskInv, Checked
  <2>2. fines' = [fines EXCEPT ![job[r].fine] = NoRow] /\ Run(r, "undo.reopen", job[r])
    BY <1>1 DEF UndoDeleteFine, Goto
  <2>3. ASSUME NEW i \in LendingIds, FinesOf(i) # {}, job[r].lending # i
        PROVE  FinesOf(i)' # {}
    <3>1. PICK f \in FineIds : fines[f] # NoRow /\ fines[f].lending = i
      BY <2>3 DEF FinesOf
    <3>2. job[r].fine \in FineIds /\ fines[job[r].fine].lending = job[r].lending
      BY <2>1 DEF FinesOf
    <3>3. fines'[f] = fines[f]
      BY <2>2, <2>3, <3>1, <3>2 DEF DeskSafe, TypeOK, RowsOK
    <3> QED  BY <3>1, <3>3 DEF FinesOf
  <2> QED  BY <1>0, <2>2, <2>3, MoveCharges
<1>2. CASE AdjustWrite(r) \/ PayWrite(r)
  <2>1. Run(r, "idle", NoJob)
    BY <1>2 DEF AdjustWrite, PayWrite, Finish
  <2>2. job[r].fine \in FineIds
    BY <1>2 DEF AdjustWrite, PayWrite, DeskSafe, TypeOK, JobsOK
  <2>3. ASSUME NEW f \in FineIds, fines[f] # NoRow
        PROVE  fines'[f] # NoRow /\ fines'[f].lending = fines[f].lending
    <3>1. fines[f] \in FineRow /\ job[r].value \in Nat
      BY <2>3, RowShape DEF DeskSafe, TypeOK, RowsOK, Job
    <3>2. /\ [fines[f] EXCEPT !.value = job[r].value] \in FineRow
          /\ [fines[f] EXCEPT !.value = job[r].value].lending = fines[f].lending
          /\ [fines[f] EXCEPT !.paid = TRUE, !.value = job[r].value] \in FineRow
          /\ [fines[f] EXCEPT !.paid = TRUE, !.value = job[r].value].lending = fines[f].lending
      BY <3>1 DEF FineRow
    <3>3. \/ fines'[f] = fines[f] \/ fines'[f] = [fines[f] EXCEPT !.value = job[r].value]
          \/ fines'[f] = [fines[f] EXCEPT !.paid = TRUE, !.value = job[r].value]
      BY <1>2, <2>2 DEF AdjustWrite, PayWrite, DeskSafe, TypeOK, RowsOK
    <3>4. NoRow \notin FineRow
      BY CatalogAssumption
    <3> QED  BY <2>3, <3>2, <3>3, <3>4
  <2>4. \A i \in LendingIds : FinesOf(i) # {} => FinesOf(i)' # {}
    BY <2>3 DEF FinesOf
  <2> QED  BY <1>0, <2>1, <2>4, MoveCharges
<1> QED  BY <1>1, <1>2

\* The lending that a statement closes or opens is the only one it changes.
LEMMA OthersCharged ==
  ASSUME DeskSafe, FineInv, NEW r \in Requests, NEW step, NEW j, Run(r, step, j),
         step \notin {"return.close", "return.fine"}, UNCHANGED <<fines, now>>,
         NEW i \in LendingIds, pc[r] \in ToSettle => job[r].lending = i,
         \A k \in LendingIds : Stored(k) => Stored(k)' /\ lendings'[k].previous = lendings[k].previous,
         Closed(i)' => /\ Renewed(i)' \/ (step \in ToSettle /\ j.lending = i)
                       /\ lendings'[i].returned = now,
         \A k \in LendingIds \ {i} : lendings'[k] = lendings[k] \/ ~Closed(k)'
  PROVE  FineInv'
<1>1. /\ pc'[r] = step /\ job'[r] = j /\ TypeOK /\ now \in Instants /\ now <= now
      /\ \A s \in Requests \ {r} : pc'[s] = pc[s]
  BY TimeAssumption DEF Run, DeskSafe, TypeOK, RowsOK
<1>2. \A k \in LendingIds \ {i} : Unsettled(k) => Unsettled(k)'
  BY <1>1, OthersSettle
<1>3. Closed(i)' => Renewed(i)' \/ Unsettled(i)'
  BY <1>1 DEF Unsettled
<1>4. \A k \in LendingIds : FinesOf(k)' = FinesOf(k)
  BY DEF FinesOf
<1>5. Charged'
  BY <1>2, <1>3, <1>4, RenewalsStay, ChargedStep DEF FineInv
<1>6. PastReturns'
  <2> SUFFICES ASSUME NEW k \in LendingIds, Closed(k)'
               PROVE  lendings'[k].returned \in Instants /\ lendings'[k].returned <= now
    BY DEF PastReturns
  <2>1. CASE k = i
    BY <1>1, <2>1
  <2>2. CASE k # i
    <3>1. lendings'[k] = lendings[k]
      BY <2>2
    <3> QED  BY <3>1 DEF FineInv, PastReturns, Closed
  <2> QED  BY <2>1, <2>2
<1>7. NoStaffReturn'
  BY <1>1 DEF FineInv, NoStaffReturn
<1> QED  BY <1>5, <1>6, <1>7 DEF FineInv

\* Writing the return date of a lending, or none, keeps its row otherwise.
LEMMA DateWritten ==
  ASSUME TypeOK, NEW i \in LendingIds, Stored(i), NEW t \in Instants \cup {NoTime}
  PROVE  /\ [lendings[i] EXCEPT !.returned = t] # NoRow
         /\ [lendings[i] EXCEPT !.returned = t].returned = t
         /\ [lendings[i] EXCEPT !.returned = t].previous = lendings[i].previous
<1>1. lendings[i] \in LendingRow
  BY RowShape DEF TypeOK
<1>2. /\ [lendings[i] EXCEPT !.returned = t] \in LendingRow
      /\ [lendings[i] EXCEPT !.returned = t].returned = t
      /\ [lendings[i] EXCEPT !.returned = t].previous = lendings[i].previous
  BY <1>1 DEF LendingRow
<1> QED  BY <1>2, CatalogAssumption

LEMMA CloseCharges ==
  ASSUME DeskSafe, FineInv, NEW r \in Requests, ImmediateClose(r) \/ UndoReopen(r)
  PROVE  FineInv'
<1>1. /\ pc[r] \in {"immediate.close", "undo.reopen"} /\ UNCHANGED <<fines, now>> /\ TypeOK
      /\ now \in Instants \cup {NoTime}
  BY DEF ImmediateClose, UndoReopen, settings, DeskSafe, TypeOK, RowsOK
<1>2. PICK i \in LendingIds : i = job[r].lending /\ Stored(i)
  BY <1>1 DEF TypeOK, JobsOK
<1>3. CASE ImmediateClose(r)
  <2>1. lendings' = [lendings EXCEPT ![i].returned = now] /\ Run(r, "immediate.fine", job[r])
    BY <1>2, <1>3 DEF ImmediateClose, Close, Goto
  <2>2. PICK row : row = [lendings[i] EXCEPT !.returned = now]
    OBVIOUS
  <2>3. row # NoRow /\ row.returned = now /\ row.previous = lendings[i].previous
    BY <1>1, <1>2, <2>2, DateWritten
  <2>4. lendings'[i] = row /\ \A k \in LendingIds \ {i} : lendings'[k] = lendings[k]
    BY <1>1, <2>1, <2>2 DEF TypeOK, RowsOK
  <2>5. \A k \in LendingIds : Stored(k) => Stored(k)' /\ lendings'[k].previous = lendings[k].previous
    BY <2>3, <2>4 DEF Stored
  <2> QED  BY <1>1, <1>2, <2>1, <2>3, <2>4, <2>5, OthersCharged DEF ToSettle
<1>4. CASE UndoReopen(r)
  <2>1. lendings' = [lendings EXCEPT ![i].returned = NoTime] /\ Run(r, "idle", NoJob)
    BY <1>2, <1>4 DEF UndoReopen, Finish
  <2>2. PICK row : row = [lendings[i] EXCEPT !.returned = NoTime]
    OBVIOUS
  <2>3. row # NoRow /\ row.returned = NoTime /\ row.previous = lendings[i].previous
    BY <1>1, <1>2, <2>2, DateWritten
  <2>4. lendings'[i] = row /\ \A k \in LendingIds \ {i} : lendings'[k] = lendings[k]
    BY <1>1, <2>1, <2>2 DEF TypeOK, RowsOK
  <2>5. \A k \in LendingIds : Stored(k) => Stored(k)' /\ lendings'[k].previous = lendings[k].previous
    BY <2>3, <2>4 DEF Stored
  <2> QED  BY <1>1, <1>2, <2>1, <2>3, <2>4, <2>5, OthersCharged DEF Closed
<1> QED  BY <1>3, <1>4

LEMMA LendCharges ==
  ASSUME DeskSafe, FineInv, NEW r \in Requests, LendInsert(r)
  PROVE  FineInv'
<1> DEFINE row == [holding |-> job[r].holding, user |-> job[r].user, previous |-> 0,
                   due |-> LendingDue[job[r].user][now], returned |-> NoTime]
<1>1. PICK n \in LendingIds : n = nextId.lending /\ lendings' = [lendings EXCEPT ![n] = row]
  BY DEF LendInsert, InsertLending
<1>2. /\ pc[r] = "lend.insert" /\ Run(r, "lend.dequeue", job[r]) /\ UNCHANGED <<fines, now>>
  BY DEF LendInsert, Goto, settings
<1>3. ~Stored(n)
  BY <1>1, Bounds DEF DeskSafe, TypeOK, SequencesOK
<1>4. lendings'[n].returned = NoTime /\ \A k \in LendingIds \ {n} : lendings'[k] = lendings[k]
  BY <1>1 DEF DeskSafe, TypeOK, RowsOK
<1>5. \A k \in LendingIds : Stored(k) => Stored(k)' /\ lendings'[k].previous = lendings[k].previous
  BY <1>3, <1>4 DEF Stored
<1> QED  BY <1>2, <1>4, <1>5, OthersCharged DEF Closed, ToSettle

LEMMA RenewCharges ==
  ASSUME DeskSafe, FineInv, NEW r \in Requests, RenewCommit(r)
  PROVE  FineInv'
<1> DEFINE row == [holding |-> job[r].holding, user |-> job[r].user, previous |-> job[r].lending,
                   due |-> LendingDue[job[r].user][now], returned |-> NoTime]
<1>1. /\ pc[r] = "renew.commit" /\ Run(r, "idle", NoJob) /\ UNCHANGED <<fines, now>> /\ TypeOK
      /\ now \in Instants \cup {NoTime}
  BY DEF RenewCommit, Finish, settings, DeskSafe, TypeOK, RowsOK
<1>2. PICK i \in LendingIds : i = job[r].lending /\ Stored(i)
  BY <1>1 DEF TypeOK, JobsOK
<1>3. PICK n \in LendingIds : n = nextId.lending /\ lendings' = [Close(i) EXCEPT ![n] = row]
  BY <1>2 DEF RenewCommit, InsertLending
<1>4. ~Stored(n)
  BY <1>3, Bounds DEF DeskSafe, TypeOK, SequencesOK
<1>5. /\ Close(i)[i].returned = now
      /\ \A k \in LendingIds : Stored(k) => Close(i)[k] # NoRow /\ Close(i)[k].previous = lendings[k].previous
      /\ \A k \in LendingIds \ {i} : Close(i)[k] = lendings[k]
  <2>1. PICK new : new = [lendings[i] EXCEPT !.returned = now]
    OBVIOUS
  <2>2. new # NoRow /\ new.returned = now /\ new.previous = lendings[i].previous
    BY <1>1, <1>2, <2>1, DateWritten
  <2>3. Close(i)[i] = new /\ \A k \in LendingIds \ {i} : Close(i)[k] = lendings[k]
    BY <1>1, <2>1 DEF Close, TypeOK, RowsOK
  <2> QED  BY <2>2, <2>3 DEF Stored
<1>6. DOMAIN Close(i) = LendingIds
  BY DEF Close, DeskSafe, TypeOK, RowsOK
<1>7. lendings'[n] = row /\ \A k \in LendingIds \ {n} : lendings'[k] = Close(i)[k]
  BY <1>3, <1>6
<1>8. Renewed(i)'
  <2>1. row.previous = i
    BY <1>2
  <2>2. lendings'[n] # NoRow
    <3>1. TypeOK'
      BY NextTyped DEF Next, Step, DeskSafe
    <3>2. n < nextId'.lending
      BY <1>3, Bounds DEF RenewCommit, InsertLending, DeskSafe, TypeOK, RowsOK
    <3> QED  BY <3>1, <3>2 DEF TypeOK, SequencesOK, Stored
  <2> QED  BY <1>7, <2>1, <2>2 DEF Renewed, Stored
<1>9. \A k \in LendingIds : Stored(k) => Stored(k)' /\ lendings'[k].previous = lendings[k].previous
  BY <1>4, <1>5, <1>7 DEF Stored
<1>10. i # n /\ lendings'[i].returned = now
  BY <1>2, <1>4, <1>5, <1>7
<1>11. \A k \in LendingIds \ {i} : lendings'[k] = lendings[k] \/ ~Closed(k)'
  BY <1>5, <1>7 DEF Closed
<1> QED  BY <1>1, <1>8, <1>9, <1>10, <1>11, OthersCharged DEF ToSettle

\* A fine that was due at the return is due at any later instant.
LEMMA FineStaysDue ==
  ASSUME TypeOK, NEW i \in LendingIds, Stored(i), NEW t \in Instants, NEW later \in Instants,
         t <= later, LateFine(i, t) > 0
  PROVE  LateFine(i, later) > 0
<1>1. lendings[i].user \in Users /\ lendings[i].due \in Nat
  BY RowShape DEF TypeOK, LendingRow
<1>2. PICK c \in Nat : c = FineRate[lendings[i].user]
  BY <1>1, PolicyAssumption
<1>3. DayOf[t] \in Nat /\ DayOf[later] \in Nat /\ DayOf[t] <= DayOf[later]
  BY TimeAssumption
<1>4. PICK d \in Int, e \in Int : d = DaysLate(i, t) /\ e = DaysLate(i, later) /\ d <= e
  BY <1>1, <1>3 DEF DaysLate
<1>5. (IF d <= 0 THEN 0 ELSE d * c) > 0
  BY <1>2, <1>4 DEF LateFine, FineValue
<1>6. d > 0 /\ d * c > 0
  BY <1>5
<1>7. c > 0
  BY <1>6
<1>8. e > 0 /\ e * c > 0
  BY <1>4, <1>6, <1>7
<1> QED  BY <1>2, <1>4, <1>8 DEF LateFine, FineValue

LEMMA FineCharges ==
  ASSUME DeskSafe, FineInv, NEW r \in Requests, ImmediateFine(r)
  PROVE  FineInv'
<1>1. /\ pc[r] = "immediate.fine" /\ Run(r, "idle", NoJob) /\ UNCHANGED <<lendings, now>> /\ TypeOK
      /\ now \in Instants
  BY DEF ImmediateFine, Finish, settings, DeskSafe, TypeOK, RowsOK
<1>2. PICK i \in LendingIds : i = job[r].lending /\ Stored(i) /\ Closed(i)
  BY <1>1 DEF DeskSafe, TypeOK, JobsOK, DeskInv, Checked
<1>3. pc'[r] = "idle" /\ \A s \in Requests \ {r} : pc'[s] = pc[s]
  BY <1>1 DEF Run, TypeOK, RowsOK
<1>4. \A k \in LendingIds : Renewed(k) => Renewed(k)'
  BY <1>1, RenewalsStay DEF Stored
<1>5. \A k \in LendingIds \ {i} : Unsettled(k) => Unsettled(k)'
  BY <1>1, <1>2, OthersSettle
<1>6. \A f \in FineIds : fines[f] # NoRow => fines'[f] = fines[f]
  <2>1. CASE UNCHANGED fines
    BY <2>1
  <2>2. ASSUME NEW v, InsertFine(i, v, FALSE)
        PROVE  \A f \in FineIds : fines[f] # NoRow => fines'[f] = fines[f]
    <3>1. PICK n \in FineIds :
            n = nextId.fine
            /\ fines' = [fines EXCEPT ![n] = [lending |-> i, value |-> v, paid |-> FALSE]]
      BY <2>2 DEF InsertFine
    <3>2. fines[n] = NoRow
      <4>1. fines[n] # NoRow => n < n
        <5>1. fines[n] # NoRow => n < nextId.fine
          BY <1>1 DEF TypeOK, SequencesOK
        <5> QED  BY <3>1, <5>1
      <4>2. ~(n < n)
        BY Bounds DEF FineIds
      <4> QED  BY <4>1, <4>2
    <3> QED  BY <1>1, <3>1, <3>2 DEF TypeOK, RowsOK
  <2> QED  BY <1>2, <2>1, <2>2 DEF ImmediateFine
<1>7. \A k \in LendingIds : FinesOf(k) # {} => FinesOf(k)' # {}
  BY <1>6 DEF FinesOf
<1>8. LateFine(i, lendings[i].returned) > 0 => FinesOf(i)' # {}
  <2> SUFFICES ASSUME LateFine(i, lendings[i].returned) > 0 PROVE FinesOf(i)' # {}
    OBVIOUS
  <2>1. LateFine(i, now) > 0
    BY <1>1, <1>2, FineStaysDue DEF FineInv, PastReturns
  <2>2. PICK v \in Nat : v = LateFine(i, now)
    BY <1>1, <1>2, LateFineNat DEF TypeOK
  <2>3. PICK row : row = [lending |-> i, value |-> v, paid |-> FALSE]
    OBVIOUS
  <2>4. row # NoRow /\ row.lending = i
    <3>1. row \in FineRow
      BY <2>2, <2>3 DEF FineRow
    <3> QED  BY <2>3, <3>1, CatalogAssumption
  <2>5. PICK n \in FineIds : fines' = [fines EXCEPT ![n] = row]
    BY <1>2, <2>1, <2>2, <2>3 DEF ImmediateFine, InsertFine
  <2>6. fines'[n] = row
    BY <1>1, <2>5 DEF TypeOK, RowsOK
  <2> QED  BY <2>4, <2>6 DEF FinesOf
<1>9. Charged'
  BY <1>1, <1>4, <1>5, <1>7, <1>8, ChargedStep DEF FineInv
<1>10. PastReturns' /\ NoStaffReturn'
  BY <1>1, <1>3 DEF FineInv, PastReturns, NoStaffReturn, Closed
<1> QED  BY <1>9, <1>10 DEF FineInv

LEMMA WorldCharges ==
  ASSUME TypeOK, FineInv, UNCHANGED <<lendings, fines, requests>>,
         now' \in Instants, now <= now'
  PROVE  FineInv'
<1>1. \A k \in LendingIds : /\ Renewed(k) => Renewed(k)'
                            /\ Unsettled(k) => Unsettled(k)'
                            /\ FinesOf(k)' = FinesOf(k)
  BY RenewalsStay DEF Stored, Unsettled, requests, FinesOf
<1>2. Charged'
  BY <1>1, ChargedStep DEF FineInv
<1>3. PastReturns'
  <2> SUFFICES ASSUME NEW i \in LendingIds, Closed(i)
               PROVE  lendings[i].returned \in Instants /\ lendings[i].returned <= now'
    BY DEF PastReturns, Closed
  <2>1. lendings[i].returned \in Instants /\ lendings[i].returned <= now
    BY DEF FineInv, PastReturns
  <2>2. lendings[i].returned \in Nat /\ now \in Nat /\ now' \in Nat
    BY <2>1, TimeAssumption DEF TypeOK, RowsOK
  <2> QED  BY <2>1, <2>2
<1>4. NoStaffReturn'
  BY DEF FineInv, NoStaffReturn, requests
<1> QED  BY <1>2, <1>3, <1>4 DEF FineInv

LEMMA ChargedNext ==
  ASSUME ~Failures, "return" \notin Operations, DeskSafe, FineInv, [Next]_vars
  PROVE  FineInv'
<1>0. TypeOK /\ now \in Nat /\ now \in Instants
  BY TimeAssumption DEF DeskSafe, TypeOK, RowsOK
<1>1. ASSUME NEW r \in Requests, Step(r) PROVE FineInv'
  <2>1. ~ReturnClose(r) /\ ~ReturnFine(r)
    BY DEF ReturnClose, ReturnFine, FineInv, NoStaffReturn
  <2> QED  BY <1>0, <1>1, <2>1, CheckCharges, SettleCharges, CloseCharges, LendCharges, RenewCharges,
              FineCharges DEF Step
<1>2. ASSUME NEW r \in Requests, Start(r) PROVE FineInv'
  BY <1>0, <1>2, StartCharges
<1>3. \A r \in Requests : ~Fail(r)
  BY DEF Fail
<1>4. CASE UNCHANGED <<lendings, fines, requests, now>>
  BY <1>0, <1>4, WorldCharges
<1>5. CASE Tick
  BY <1>0, <1>5, WorldCharges DEF Tick
<1>6. CASE \/ \E k \in ReservationIds : Cancel(k)
           \/ \E u \in Users, s \in Statuses : SetStatus(u, s)
           \/ \E h \in Holdings, a \in Availabilities : SetAvailability(h, a)
  BY <1>4, <1>6 DEF Cancel, SetStatus, SetAvailability, settings
<1> QED  BY <1>1, <1>2, <1>3, <1>4, <1>5, <1>6 DEF Next, vars, requests

\* A late return always leaves its fine (ADR-0001, returnLendingImmediately):
\* whatever renewals, undos, adjustments and payments come between its two
\* statements, as long as no request dies there and staff do not use the page
\* on which they choose the fine themselves.
THEOREM LateReturnsAreFined ==
  ASSUME OneDeskPerCopy, FreshPages, ~Failures, "return" \notin Operations
  PROVE  Spec => []LateReturnFined
<1>1. Init => FineInv
  BY DEF Init, FineInv, Charged, PastReturns, NoStaffReturn, Closed
<1>2. DeskSafe /\ FineInv /\ [Next]_vars => FineInv'
  BY ChargedNext
<1>3. FineInv => LateReturnFined
  <2>1. \A i \in LendingIds : Unsettled(i) => Busy(i)
    BY DEF Unsettled, Busy, ToSettle
  <2> QED  BY <2>1 DEF FineInv, Charged, LateReturnFined
<1> QED  BY <1>1, <1>2, <1>3, DeskIsSafe, PTL DEF Spec
=============================================================================
