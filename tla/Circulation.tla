------------------------------ MODULE Circulation ------------------------------
(***************************************************************************)
(* The circulation desk: lend, renew, return, undo, fines and reservations *)
(* (biblivre.circulation.lending and biblivre.circulation.reservation).    *)
(*                                                                         *)
(* Every DAO call opens its own auto-committed connection, so a handler is *)
(* a sequence of separately committed SQL statements and two servlet       *)
(* threads interleave between them.  A request is a process: it reads,     *)
(* remembers what it read in its job, and writes later.  One action is one *)
(* statement together with the Java that runs before the next one.         *)
(***************************************************************************)
EXTENDS Integers, FiniteSets

CONSTANTS
  Holdings, Users, Records, Requests,
  RecordOf,        \* the bibliographic record of each holding
  LendingLimit,    \* user_types.lending_limit, by user
  ReservationLimit,\* user_types.reservation_limit, by user
  FineRate,        \* user_types.fine_value per day late, by user
  LendingDue,      \* calculateExpectedReturnDate over lending_time_limit, by user and instant
  ReservationDue,  \* the same over reservation_time_limit
  Amounts,         \* amounts staff type in when they charge or adjust a fine
  Instants,        \* 0 .. the last instant of the run (a bound)
  DayOf,           \* calendar day of an instant
  UndoWindow,      \* returnUndoWindowSeconds, in instants
  MaxLendings, MaxFines, MaxReservations,   \* bounds on inserted rows
  Operations,      \* the handlers the requests of this instance call
  OneDeskPerCopy,  \* a physical copy is handled by one request at a time
  FreshPages,      \* renew and return are submitted for lendings shown open
  Failures,        \* a request may die between two statements
  NoRow, None

OperationNames ==
  {"lend", "renew", "return", "returnImmediate", "undo", "adjust", "pay",
   "reserve", "cancel", "block", "unblock", "disable", "availability"}

Labels ==
  {"idle", "lend.holding", "lend.limit", "lend.insert", "lend.dequeue",
   "renew.limit", "renew.commit", "return.close", "return.fine",
   "immediate.close", "immediate.fine",
   "undo.holding", "undo.fine", "undo.delete", "undo.reopen",
   "adjust.write", "pay.write", "reserve.limit", "reserve.insert"}

LendingIds     == 1 .. MaxLendings
FineIds        == 1 .. MaxFines
ReservationIds == 1 .. MaxReservations
NoTime         == -1
\* PENDING_ISSUES is left out: no handler tells it from ACTIVE.
Statuses       == {"ACTIVE", "BLOCKED", "INACTIVE"}
Availabilities == {"AVAILABLE", "UNAVAILABLE"}

LendingRow     == [holding : Holdings, user : Users, previous : 0 .. MaxLendings,
                   due : Nat, returned : Instants \cup {NoTime}]
FineRow        == [lending : LendingIds, value : Nat, paid : BOOLEAN]
ReservationRow == [user : Users, record : Records, expires : Nat]
Job            == [lending : 0 .. MaxLendings, holding : Holdings \cup {None},
                   user : Users \cup {None}, record : Records \cup {None}, fine : 0 .. MaxFines, value : Nat,
                   paid : BOOLEAN, returned : Instants \cup {NoTime}]

ASSUME CatalogAssumption ==
  /\ RecordOf \in [Holdings -> Records]
  /\ None \notin Holdings \cup Users \cup Records \cup LendingIds
  /\ NoRow \notin LendingRow \cup FineRow \cup ReservationRow

ASSUME PolicyAssumption ==
  /\ LendingLimit \in [Users -> Nat] /\ ReservationLimit \in [Users -> Nat]
  /\ FineRate \in [Users -> Nat] /\ Amounts \subseteq Nat
  /\ UndoWindow \in Nat

ASSUME TimeAssumption ==
  /\ Instants \subseteq Nat /\ 0 \in Instants
  /\ DayOf \in [Instants -> Nat]
  /\ \A s, t \in Instants : s <= t => DayOf[s] <= DayOf[t]
  /\ LendingDue \in [Users -> [Instants -> Nat]]
  /\ ReservationDue \in [Users -> [Instants -> Nat]]

ASSUME BoundAssumption ==
  /\ MaxLendings \in Nat /\ MaxFines \in Nat /\ MaxReservations \in Nat
  /\ Operations \subseteq OperationNames
  /\ {OneDeskPerCopy, FreshPages, Failures} \subseteq BOOLEAN

VARIABLES
  lendings,      \* table lendings
  fines,         \* table lending_fines
  reservations,  \* table reservations
  nextId,        \* the id sequences of the three tables
  status,        \* users.status
  availability,  \* biblio_holdings.availability
  pc, job,       \* per request: the next statement, and what it has read
  now

settings == <<status, availability, now>>
requests == <<pc, job>>
vars   == <<lendings, fines, reservations, nextId, status, availability, pc, job, now>>

-----------------------------------------------------------------------------
(* Queries.                                                                *)

Stored(i)   == lendings[i] # NoRow
Open(i)     == lendings[i] # NoRow /\ lendings[i].returned = NoTime
Closed(i)   == lendings[i] # NoRow /\ lendings[i].returned # NoTime
OpenOn(h)   == {i \in LendingIds : Open(i) /\ lendings[i].holding = h}
OpenOf(u)   == {i \in LendingIds : Open(i) /\ lendings[i].user = u}
FinesOf(i)  == {f \in FineIds : fines[f] # NoRow /\ fines[f].lending = i}
IsLent(h)   == OpenOn(h) # {}
Today       == DayOf[now]

\* Reservations not yet expired: expires is the start of a day.
Live(k)     == reservations[k] # NoRow /\ reservations[k].expires > Today
LiveOf(u)   == {k \in ReservationIds : Live(k) /\ reservations[k].user = u}

MayBorrow(u) == status[u] \notin {"BLOCKED", "INACTIVE"}

DaysLate(i, t)  == DayOf[t] - lendings[i].due
FineValue(u, d) == IF d <= 0 THEN 0 ELSE d * FineRate[u]
LateFine(i, t)  == FineValue(lendings[i].user, DaysLate(i, t))

-----------------------------------------------------------------------------
(* Requests.                                                               *)

NoJob == [lending |-> 0, holding |-> None, user |-> None, record |-> None,
          fine |-> 0, value |-> 0, paid |-> FALSE, returned |-> NoTime]

HoldingInUse(h) == h # None /\ \E r \in Requests : pc[r] # "idle" /\ job[r].holding = h

Begin(r, op, h) ==
  /\ pc[r] = "idle"
  /\ op \in Operations
  /\ OneDeskPerCopy => ~HoldingInUse(h)

Run(r, step, j) == pc' = [pc EXCEPT ![r] = step] /\ job' = [job EXCEPT ![r] = j]
Goto(r, step)   == Run(r, step, job[r])
Finish(r)       == Run(r, "idle", NoJob)
Continue(r, ok, step) == IF ok THEN Goto(r, step) ELSE Finish(r)

InsertLending(h, u, previous, closing) ==
  /\ nextId.lending \in LendingIds
  /\ lendings' = [closing EXCEPT ![nextId.lending] =
                    [holding |-> h, user |-> u, previous |-> previous,
                     due |-> LendingDue[u][now], returned |-> NoTime]]
  /\ nextId' = [nextId EXCEPT !.lending = @ + 1]

Close(i) == [lendings EXCEPT ![i].returned = now]

\* Seeded fault: the id sequence does not advance.
InsertFineAgain(i, value, paid) ==
  /\ nextId.fine \in FineIds
  /\ fines' = [fines EXCEPT ![nextId.fine] =
                 [lending |-> i, value |-> value, paid |-> paid]]
  /\ UNCHANGED nextId

InsertFine(i, value, paid) ==
  /\ nextId.fine \in FineIds
  /\ fines' = [fines EXCEPT ![nextId.fine] =
                 [lending |-> i, value |-> value, paid |-> paid]]
  /\ nextId' = [nextId EXCEPT !.fine = @ + 1]

-----------------------------------------------------------------------------
(* Lend: Handler.lend reads the copy and the reader, LendingBO.doLend      *)
(* checks and inserts, then clears the reader's reservation.               *)

LendStart(r, h, u) ==
  /\ Begin(r, "lend", h)
  /\ MayBorrow(u) /\ availability[h] = "AVAILABLE"
  /\ Run(r, "lend.holding", [NoJob EXCEPT !.holding = h, !.user = u])
  /\ UNCHANGED <<lendings, fines, reservations, nextId, settings>>

\* Seeded fault: the copy is not looked up.
LendUnchecked(r) ==
  /\ pc[r] = "lend.holding"
  /\ Goto(r, "lend.limit")
  /\ UNCHANGED <<lendings, fines, reservations, nextId, settings>>

LendCheckHolding(r) ==
  /\ pc[r] = "lend.holding"
  /\ Continue(r, ~IsLent(job[r].holding), "lend.limit")
  /\ UNCHANGED <<lendings, fines, reservations, nextId, settings>>

\* Seeded fault: the limit is compared with <= instead of <.
LendOneTooMany(r) ==
  /\ pc[r] = "lend.limit"
  /\ Continue(r, Cardinality(OpenOf(job[r].user)) <= LendingLimit[job[r].user], "lend.insert")
  /\ UNCHANGED <<lendings, fines, reservations, nextId, settings>>

LendCheckLimit(r) ==
  /\ pc[r] = "lend.limit"
  /\ Continue(r, Cardinality(OpenOf(job[r].user)) < LendingLimit[job[r].user], "lend.insert")
  /\ UNCHANGED <<lendings, fines, reservations, nextId, settings>>

LendInsert(r) ==
  /\ pc[r] = "lend.insert"
  /\ InsertLending(job[r].holding, job[r].user, 0, lendings)
  /\ Goto(r, "lend.dequeue")
  /\ UNCHANGED <<fines, reservations, settings>>

\* DELETE the reader's live reservation of the title that expires first.
Oldest(u, rec) ==
  {k \in LiveOf(u) :
     /\ reservations[k].record = rec
     /\ \A m \in LiveOf(u) :
          reservations[m].record = rec => reservations[k].expires <= reservations[m].expires}

LendDequeue(r) ==
  /\ pc[r] = "lend.dequeue"
  /\ LET queue == Oldest(job[r].user, RecordOf[job[r].holding])
     IN  IF queue = {} THEN reservations' = reservations
         ELSE \E k \in queue : reservations' = [reservations EXCEPT ![k] = NoRow]
  /\ Finish(r)
  /\ UNCHANGED <<lendings, fines, nextId, settings>>

-----------------------------------------------------------------------------
(* Renew: close the lending and insert its successor, in one transaction.  *)

RenewStart(r, i) ==
  /\ Stored(i)
  /\ Begin(r, "renew", lendings[i].holding)
  /\ FreshPages => Open(i)
  /\ MayBorrow(lendings[i].user) /\ availability[lendings[i].holding] = "AVAILABLE"
  /\ Run(r, "renew.limit", [NoJob EXCEPT !.lending = i, !.holding = lendings[i].holding,
                                         !.user = lendings[i].user])
  /\ UNCHANGED <<lendings, fines, reservations, nextId, settings>>

RenewCheckLimit(r) ==
  /\ pc[r] = "renew.limit"
  /\ Continue(r, Cardinality(OpenOf(job[r].user)) <= LendingLimit[job[r].user], "renew.commit")
  /\ UNCHANGED <<lendings, fines, reservations, nextId, settings>>

\* Seeded fault: the renewed lending stays open.
RenewWithoutClosing(r) ==
  /\ pc[r] = "renew.commit"
  /\ InsertLending(job[r].holding, job[r].user, job[r].lending, lendings)
  /\ Finish(r)
  /\ UNCHANGED <<fines, reservations, settings>>

RenewCommit(r) ==
  /\ pc[r] = "renew.commit"
  /\ InsertLending(job[r].holding, job[r].user, job[r].lending, Close(job[r].lending))
  /\ Finish(r)
  /\ UNCHANGED <<fines, reservations, settings>>

-----------------------------------------------------------------------------
(* Return, in the legacy page: staff decide the fine before the UPDATE.    *)

ReturnStart(r, i, value, paid) ==
  /\ Stored(i)
  /\ Begin(r, "return", lendings[i].holding)
  /\ FreshPages => Open(i)
  /\ Run(r, "return.close", [NoJob EXCEPT !.lending = i, !.holding = lendings[i].holding,
                                          !.value = value, !.paid = paid])
  /\ UNCHANGED <<lendings, fines, reservations, nextId, settings>>

ReturnClose(r) ==
  /\ pc[r] = "return.close"
  /\ lendings' = Close(job[r].lending)
  /\ Continue(r, job[r].value > 0, "return.fine")
  /\ UNCHANGED <<fines, reservations, nextId, settings>>

ReturnFine(r) ==
  /\ pc[r] = "return.fine"
  /\ InsertFine(job[r].lending, job[r].value, job[r].paid)
  /\ Finish(r)
  /\ UNCHANGED <<lendings, reservations, settings>>

(* Immediate return (ADR-0001): the fine follows from the clock read after *)
(* the UPDATE, and is not created when it would be zero.                   *)

\* Seeded fault: a lending that is closed by now is taken as well.
ImmediateReread(r, i) ==
  /\ Stored(i)
  /\ Begin(r, "returnImmediate", lendings[i].holding)
  /\ Run(r, "immediate.close", [NoJob EXCEPT !.lending = i, !.holding = lendings[i].holding])
  /\ UNCHANGED <<lendings, fines, reservations, nextId, settings>>

ImmediateStart(r, i) ==
  /\ Open(i)
  /\ Begin(r, "returnImmediate", lendings[i].holding)
  /\ Run(r, "immediate.close", [NoJob EXCEPT !.lending = i, !.holding = lendings[i].holding])
  /\ UNCHANGED <<lendings, fines, reservations, nextId, settings>>

\* Seeded fault: the fine is forgotten.
ImmediateCloseOnly(r) ==
  /\ pc[r] = "immediate.close"
  /\ lendings' = Close(job[r].lending)
  /\ Finish(r)
  /\ UNCHANGED <<fines, reservations, nextId, settings>>

ImmediateClose(r) ==
  /\ pc[r] = "immediate.close"
  /\ lendings' = Close(job[r].lending)
  /\ Goto(r, "immediate.fine")
  /\ UNCHANGED <<fines, reservations, nextId, settings>>

ImmediateFine(r) ==
  /\ pc[r] = "immediate.fine"
  /\ LET value == LateFine(job[r].lending, now)
     IN  IF value > 0 THEN InsertFine(job[r].lending, value, FALSE)
                      ELSE UNCHANGED <<fines, nextId>>
  /\ Finish(r)
  /\ UNCHANGED <<lendings, reservations, settings>>

-----------------------------------------------------------------------------
(* Undo of a return: five statements, the fine deleted before the reopen.  *)

UndoStart(r, i) ==
  /\ Closed(i)
  /\ Begin(r, "undo", lendings[i].holding)
  /\ now <= lendings[i].returned + UndoWindow
  /\ Run(r, "undo.holding", [NoJob EXCEPT !.lending = i, !.holding = lendings[i].holding,
                                          !.returned = lendings[i].returned])
  /\ UNCHANGED <<lendings, fines, reservations, nextId, settings>>

\* Seeded fault: the copy may be lent again.
UndoUnchecked(r) ==
  /\ pc[r] = "undo.holding"
  /\ Goto(r, "undo.fine")
  /\ UNCHANGED <<lendings, fines, reservations, nextId, settings>>

UndoCheckHolding(r) ==
  /\ pc[r] = "undo.holding"
  /\ Continue(r, ~IsLent(job[r].holding), "undo.fine")
  /\ UNCHANGED <<lendings, fines, reservations, nextId, settings>>

Altered(i, f, returned) == fines[f].value # LateFine(i, returned)

UndoReadFine(r) ==
  /\ pc[r] = "undo.fine"
  /\ LET i == job[r].lending
     IN  \/ FinesOf(i) = {} /\ Goto(r, "undo.reopen")
         \/ \E f \in FinesOf(i) :
              IF fines[f].paid \/ Altered(i, f, job[r].returned) THEN Finish(r)
              ELSE Run(r, "undo.delete", [job[r] EXCEPT !.fine = f])
  /\ UNCHANGED <<lendings, fines, reservations, nextId, settings>>

\* Seeded fault: the fine survives the undo.
UndoKeepFine(r) ==
  /\ pc[r] = "undo.delete"
  /\ Goto(r, "undo.reopen")
  /\ UNCHANGED <<lendings, fines, reservations, nextId, settings>>

UndoDeleteFine(r) ==
  /\ pc[r] = "undo.delete"
  /\ fines' = [fines EXCEPT ![job[r].fine] = NoRow]
  /\ Goto(r, "undo.reopen")
  /\ UNCHANGED <<lendings, reservations, nextId, settings>>

\* UPDATE ... SET return_date = NULL WHERE id = ? AND return_date IS NOT NULL
UndoReopen(r) ==
  /\ pc[r] = "undo.reopen"
  /\ lendings' = [lendings EXCEPT ![job[r].lending].returned = NoTime]
  /\ Finish(r)
  /\ UNCHANGED <<fines, reservations, nextId, settings>>

-----------------------------------------------------------------------------
(* Fines after the return: adjust while unpaid; pay or waive.              *)

AdjustStart(r, f, value) ==
  /\ Begin(r, "adjust", None)
  /\ fines[f] # NoRow /\ ~fines[f].paid
  /\ Run(r, "adjust.write", [NoJob EXCEPT !.fine = f, !.value = value])
  /\ UNCHANGED <<lendings, fines, reservations, nextId, settings>>

AdjustWrite(r) ==
  /\ pc[r] = "adjust.write"
  /\ LET f == job[r].fine
     IN  IF fines[f] # NoRow /\ ~fines[f].paid
         THEN fines' = [fines EXCEPT ![f].value = job[r].value]
         ELSE fines' = fines
  /\ Finish(r)
  /\ UNCHANGED <<lendings, reservations, nextId, settings>>

PayStart(r, f, exempt) ==
  /\ Begin(r, "pay", None)
  /\ fines[f] # NoRow
  /\ FreshPages => ~fines[f].paid
  /\ Run(r, "pay.write", [NoJob EXCEPT !.fine = f,
                                       !.value = IF exempt THEN 0 ELSE fines[f].value])
  /\ UNCHANGED <<lendings, fines, reservations, nextId, settings>>

PayWrite(r) ==
  /\ pc[r] = "pay.write"
  /\ LET f == job[r].fine
     IN  IF fines[f] # NoRow
         THEN fines' = [fines EXCEPT ![f].paid = TRUE, ![f].value = job[r].value]
         ELSE fines' = fines
  /\ Finish(r)
  /\ UNCHANGED <<lendings, reservations, nextId, settings>>

-----------------------------------------------------------------------------
(* Reservations of a title.                                                *)

ReserveStart(r, u, rec) ==
  /\ Begin(r, "reserve", None)
  /\ MayBorrow(u)
  /\ \E h \in Holdings : RecordOf[h] = rec
  /\ Run(r, "reserve.limit", [NoJob EXCEPT !.user = u, !.record = rec])
  /\ UNCHANGED <<lendings, fines, reservations, nextId, settings>>

\* Seeded fault: the limit is compared with <= instead of <.
ReserveOneTooMany(r) ==
  /\ pc[r] = "reserve.limit"
  /\ Continue(r, Cardinality(LiveOf(job[r].user)) <= ReservationLimit[job[r].user],
              "reserve.insert")
  /\ UNCHANGED <<lendings, fines, reservations, nextId, settings>>

ReserveCheckLimit(r) ==
  /\ pc[r] = "reserve.limit"
  /\ Continue(r, Cardinality(LiveOf(job[r].user)) < ReservationLimit[job[r].user],
              "reserve.insert")
  /\ UNCHANGED <<lendings, fines, reservations, nextId, settings>>

ReserveInsert(r) ==
  /\ pc[r] = "reserve.insert"
  /\ nextId.reservation \in ReservationIds
  /\ reservations' = [reservations EXCEPT ![nextId.reservation] =
                        [user |-> job[r].user, record |-> job[r].record,
                         expires |-> ReservationDue[job[r].user][now]]]
  /\ nextId' = [nextId EXCEPT !.reservation = @ + 1]
  /\ Finish(r)
  /\ UNCHANGED <<lendings, fines, settings>>

Cancel(k) ==
  /\ "cancel" \in Operations
  /\ reservations[k] # NoRow
  /\ reservations' = [reservations EXCEPT ![k] = NoRow]
  /\ UNCHANGED <<lendings, fines, nextId, settings, requests>>

-----------------------------------------------------------------------------
(* What the rest of the application and the world do meanwhile.            *)

SetStatus(u, s) ==
  /\ \/ s = "BLOCKED"  /\ "block" \in Operations
     \/ s = "ACTIVE"   /\ "unblock" \in Operations
     \/ s = "INACTIVE" /\ "disable" \in Operations /\ status[u] # "INACTIVE"
  /\ status' = [status EXCEPT ![u] = s]
  /\ UNCHANGED <<lendings, fines, reservations, nextId, availability, now, requests>>

SetAvailability(h, a) ==
  /\ "availability" \in Operations
  /\ availability' = [availability EXCEPT ![h] = a]
  /\ UNCHANGED <<lendings, fines, reservations, nextId, status, now, requests>>

Tick ==
  /\ now + 1 \in Instants
  /\ now' = now + 1
  /\ UNCHANGED <<lendings, fines, reservations, nextId, status, availability, requests>>

\* A lost connection or a stopped server: what was committed stays.
Fail(r) ==
  /\ Failures /\ pc[r] # "idle"
  /\ Finish(r)
  /\ UNCHANGED <<lendings, fines, reservations, nextId, settings>>

-----------------------------------------------------------------------------
Init ==
  /\ lendings = [i \in LendingIds |-> NoRow]
  /\ fines = [f \in FineIds |-> NoRow]
  /\ reservations = [k \in ReservationIds |-> NoRow]
  /\ nextId = [lending |-> 1, fine |-> 1, reservation |-> 1]
  /\ status = [u \in Users |-> "ACTIVE"]
  /\ availability = [h \in Holdings |-> "AVAILABLE"]
  /\ pc = [r \in Requests |-> "idle"]
  /\ job = [r \in Requests |-> NoJob]
  /\ now = 0

Start(r) ==
  \/ \E h \in Holdings, u \in Users : LendStart(r, h, u)
  \/ \E i \in LendingIds :
       \/ RenewStart(r, i)
       \/ \E v \in Amounts, p \in BOOLEAN : ReturnStart(r, i, v, p)
       \/ ImmediateStart(r, i)
       \/ UndoStart(r, i)
  \/ \E f \in FineIds :
       \/ \E v \in Amounts : AdjustStart(r, f, v)
       \/ \E e \in BOOLEAN : PayStart(r, f, e)
  \/ \E u \in Users, rec \in Records : ReserveStart(r, u, rec)

Step(r) ==
  \/ LendCheckHolding(r) \/ LendCheckLimit(r) \/ LendInsert(r) \/ LendDequeue(r)
  \/ RenewCheckLimit(r) \/ RenewCommit(r)
  \/ ReturnClose(r) \/ ReturnFine(r) \/ ImmediateClose(r) \/ ImmediateFine(r)
  \/ UndoCheckHolding(r) \/ UndoReadFine(r) \/ UndoDeleteFine(r) \/ UndoReopen(r)
  \/ AdjustWrite(r) \/ PayWrite(r)
  \/ ReserveCheckLimit(r) \/ ReserveInsert(r)

Next ==
  \/ \E r \in Requests : Start(r) \/ Step(r) \/ Fail(r)
  \/ \E k \in ReservationIds : Cancel(k)
  \/ \E u \in Users, s \in Statuses : SetStatus(u, s)
  \/ \E h \in Holdings, a \in Availabilities : SetAvailability(h, a)
  \/ Tick

Spec == Init /\ [][Next]_vars

-----------------------------------------------------------------------------
(* Properties.                                                             *)

LendSteps    == {"lend.holding", "lend.limit", "lend.insert", "lend.dequeue"}
RenewSteps   == {"renew.limit", "renew.commit"}
ReserveSteps == {"reserve.limit", "reserve.insert"}
UndoSteps    == {"undo.holding", "undo.fine", "undo.delete", "undo.reopen"}
ReturnSteps  == {"return.close", "return.fine", "immediate.close", "immediate.fine"}
LendingSteps == RenewSteps \cup ReturnSteps \cup UndoSteps

RowsOK ==
  /\ lendings \in [LendingIds -> LendingRow \cup {NoRow}]
  /\ fines \in [FineIds -> FineRow \cup {NoRow}]
  /\ reservations \in [ReservationIds -> ReservationRow \cup {NoRow}]
  /\ nextId \in [lending : 1 .. MaxLendings + 1, fine : 1 .. MaxFines + 1,
                 reservation : 1 .. MaxReservations + 1]
  /\ status \in [Users -> Statuses]
  /\ availability \in [Holdings -> Availabilities]
  /\ pc \in [Requests -> Labels]
  /\ job \in [Requests -> Job]
  /\ now \in Instants

\* What a request remembers is what its next statement needs.
JobsOK ==
  \A r \in Requests :
    /\ pc[r] \in LendSteps \cup LendingSteps => job[r].holding \in Holdings
    /\ pc[r] \in LendSteps \cup RenewSteps \cup ReserveSteps => job[r].user \in Users
    /\ pc[r] \in ReserveSteps => job[r].record \in Records
    /\ pc[r] \in {"undo.delete", "adjust.write", "pay.write"} => job[r].fine \in FineIds
    /\ pc[r] \in LendingSteps =>
         /\ job[r].lending \in LendingIds /\ Stored(job[r].lending)
         /\ lendings[job[r].lending].holding = job[r].holding

\* An id is given out once: rows exist only below the sequence.
SequencesOK ==
  /\ \A i \in LendingIds : Stored(i) <=> i < nextId.lending
  /\ \A f \in FineIds : fines[f] # NoRow => f < nextId.fine /\ Stored(fines[f].lending)

\* Every table row, job and clock value has the type its columns allow, and
\* every row or job that names a lending names one that exists.
TypeOK == RowsOK /\ JobsOK /\ SequencesOK

\* A copy is on at most one open lending, whatever its desk does with it
\* (checkLending, "The material can't be already lent").
OneOpenLending ==
  \A i, j \in LendingIds :
    Open(i) /\ Open(j) /\ lendings[i].holding = lendings[j].holding => i = j

\* A reader never holds more open lendings than the limit of the user type
\* (isUserLendingsBeyondLimit).
LimitPreserved == \A u \in Users : Cardinality(OpenOf(u)) <= LendingLimit[u]

\* A lending has at most one fine, and only while it is closed: undo removes
\* the fine before it reopens, and no return charges a lending twice.
FineOfClosedLending ==
  \A f \in FineIds : fines[f] # NoRow =>
    /\ Closed(fines[f].lending)
    /\ \A g \in FinesOf(fines[f].lending) : g = f

OnCopy(r) == pc[r] \in LendSteps \cup LendingSteps

\* No two requests work on one copy.
Exclusive ==
  \A r, s \in Requests : OnCopy(r) /\ OnCopy(s) /\ job[r].holding = job[s].holding => r = s

\* What a request has checked before a step about its copy, lending and fine.
Checked(step, j) ==
  /\ step \in {"lend.limit", "lend.insert", "undo.fine", "undo.delete", "undo.reopen"}
       => ~IsLent(j.holding)
  /\ step \in RenewSteps \cup {"return.close", "immediate.close"} => Open(j.lending)
  /\ step \in UndoSteps \cup {"return.fine", "immediate.fine"} => Closed(j.lending)
  /\ step \in {"return.fine", "immediate.fine", "undo.reopen"} => FinesOf(j.lending) = {}
  /\ step = "undo.delete" => FinesOf(j.lending) = {j.fine}

\* Under OneDeskPerCopy, no two requests work on one copy, and what a request
\* has checked about its copy and its lending is still true when it writes.
DeskInv == Exclusive /\ \A r \in Requests : Checked(pc[r], job[r])

Busy(i)    == \E r \in Requests : pc[r] # "idle" /\ job[r].lending = i
Renewed(i) == \E j \in LendingIds : Stored(j) /\ lendings[j].previous = i

\* A late return always implies a fine row (ADR-0001): once no request is
\* working on it, a lending returned after its due day has its fine.
LateReturnFined ==
  \A i \in LendingIds :
    Closed(i) /\ ~Renewed(i) /\ ~Busy(i) /\ LateFine(i, lendings[i].returned) > 0
      => FinesOf(i) # {}

\* A return date, once written, is never overwritten: undo may clear it, and
\* only while no other lending of the copy is open.
ReturnDateStable ==
  [][\A i \in LendingIds : Closed(i) =>
       \/ lendings'[i] = lendings[i]
       \/ /\ lendings' = [lendings EXCEPT ![i].returned = NoTime]
          /\ OpenOn(lendings[i].holding) = {}]_vars

\* Undo reverses the fine only if it is still unpaid: a paid fine is kept.
PaidFineKept ==
  [][\A f \in FineIds : fines[f] # NoRow /\ fines[f].paid =>
       fines'[f] # NoRow /\ fines'[f].paid]_vars

\* The limit on live reservations is preserved (checkReservation).
ReservationLimitPreserved ==
  \A u \in Users : Cardinality(LiveOf(u)) <= ReservationLimit[u]

-----------------------------------------------------------------------------
(* The ledger the desk implements.                                         *)

CurrentLoan == [h \in Holdings |-> IF IsLent(h) THEN CHOOSE i \in OpenOn(h) : TRUE ELSE None]
PastLoans   == [h \in Holdings |-> {i \in LendingIds : Closed(i) /\ lendings[i].holding = h}]
LoanReader  == [i \in LendingIds |-> IF Stored(i) THEN lendings[i].user ELSE None]

Ledger == INSTANCE LoanLedger WITH
            Loans <- LendingIds, Free <- None,
            loan <- CurrentLoan, past <- PastLoans, reader <- LoanReader

\* The desk keeps the ledger of LoanLedger: each copy free or on one loan.
ImplementsLedger == Ledger!Spec

=============================================================================
