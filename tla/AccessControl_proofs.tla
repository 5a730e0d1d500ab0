-------------------------- MODULE AccessControl_proofs --------------------------
(***************************************************************************)
(* Proofs about AccessControl, for every set of cards, readers and         *)
(* requests: the tables stay well formed, and nobody is handed a second    *)
(* card nor a card somebody has, as long as no two requests at once are    *)
(* for one card or one reader.  Administrators may change, cancel and      *)
(* delete any card at any time, and requests may die between statements.   *)
(* Where they do neither, the tables of cards and of visits agree whenever *)
(* no request is in flight, and no request lifts a block.                  *)
(***************************************************************************)
EXTENDS AccessControl, TLAPS

USE DEF VisitIds

LEMMA NoJobTyped == NoJob \in Job
BY CardAssumption DEF NoJob, Job

\* A request that moves on leaves the other requests where they are.
LEMMA RunTyped ==
  ASSUME TypeOK, NEW r \in Requests, NEW step \in Labels, NEW j \in Job, Run(r, step, j),
         step \notin {"idle", "walkout"} => j.card \in Cards,
         step \in Binding => j.user \in Users
  PROVE  /\ pc' \in [Requests -> Labels] /\ job' \in [Requests -> Job]
         /\ \A q \in Requests :
              /\ pc'[q] \notin {"idle", "walkout"} => job'[q].card \in Cards
              /\ pc'[q] \in Binding => job'[q].user \in Users
BY DEF TypeOK, Run

\* A bind starts with a card and a reader of the library, and so does an unbind.
LEMMA StartJob ==
  ASSUME NEW c \in Cards \cup {None}, NEW u \in Users \cup {None}
  PROVE  [NoJob EXCEPT !.card = c, !.user = u] \in Job
         /\ [NoJob EXCEPT !.card = c, !.user = u].card = c
         /\ [NoJob EXCEPT !.card = c, !.user = u].user = u
BY NoJobTyped DEF NoJob, Job

\* Setting a status neither makes nor removes a card.
LEMMA StatusTyped ==
  ASSUME cards \in [Cards -> Statuses \cup {NoRow}], NEW c \in Cards, NEW s \in Statuses,
         SetStatus(c, s)
  PROVE  /\ cards' \in [Cards -> Statuses \cup {NoRow}]
         /\ \A d \in Cards : Exists(d)' <=> Exists(d)
BY CardAssumption DEF SetStatus, Exists

LEMMA RowsFollow ==
  ASSUME TypeOK, visits' = visits, nextVisit' = nextVisit,
         \A d \in Cards : Exists(d) => Exists(d)'
  PROVE  /\ visits' \in [VisitIds -> Visit \cup {NoRow}] /\ nextVisit' \in 1 .. MaxVisits + 1
         /\ \A v \in VisitIds : visits'[v] # NoRow => v < nextVisit' /\ Exists(visits[v].card)'
<1>1. \A v \in VisitIds : visits[v] # NoRow => visits[v].card \in Cards
  BY DEF TypeOK, Visit
<1> QED BY <1>1 DEF TypeOK

LEMMA TypeInit == Init => TypeOK
BY NoJobTyped, CardAssumption DEF Init, TypeOK, Labels, Binding

LEMMA TypeStep == TypeOK /\ [Next]_vars => TypeOK'
<1> SUFFICES ASSUME TypeOK, [Next]_vars PROVE TypeOK'
  OBVIOUS
<1> USE DEF tables
<1>1. ASSUME NEW r \in Requests, NEW c \in Cards, NEW u \in Users,
             BindStart(r, c, u) \/ UnbindStart(r, c, u)
      PROVE  TypeOK'
  <2> DEFINE j == [NoJob EXCEPT !.card = c, !.user = u]
  <2>1. j \in Job /\ j.card = c /\ j.user = u BY StartJob
  <2>2. \E step \in {"bind.card", "unbind.card"} : Run(r, step, j)
    BY <1>1 DEF BindStart, UnbindStart
  <2> HIDE DEF j
  <2>3. PICK step \in {"bind.card", "unbind.card"} : Run(r, step, j) BY <2>2
  <2>4. step \in Labels BY DEF Labels
  <2>5. /\ pc' \in [Requests -> Labels] /\ job' \in [Requests -> Job]
        /\ \A q \in Requests :
             /\ pc'[q] \notin {"idle", "walkout"} => job'[q].card \in Cards
             /\ pc'[q] \in Binding => job'[q].user \in Users
    BY <2>1, <2>3, <2>4, RunTyped
  <2>6. UNCHANGED tables BY <1>1 DEF BindStart, UnbindStart
  <2> QED BY <2>5, <2>6 DEF TypeOK, Exists
<1>2. ASSUME NEW r \in Requests, NEW u \in Users, WalkoutStart(r, u) PROVE TypeOK'
  <2> DEFINE j == [NoJob EXCEPT !.user = u]
  <2>1. j \in Job BY NoJobTyped DEF NoJob, Job
  <2>2. Run(r, "walkout", j) BY <1>2 DEF WalkoutStart
  <2> HIDE DEF j
  <2> QED BY <1>2, <2>1, <2>2, RunTyped DEF WalkoutStart, TypeOK, Labels, Binding, Exists
<1>3. ASSUME NEW r \in Requests, NEW c \in Cards, RemoveStart(r, c) PROVE TypeOK'
  <2> DEFINE j == [NoJob EXCEPT !.card = c]
             step == IF cards[c] = "CANCELLED" THEN "remove.delete" ELSE "remove.cancel"
  <2>1. j \in Job /\ j.card = c BY NoJobTyped DEF NoJob, Job
  <2>2. Run(r, step, j) BY <1>3 DEF RemoveStart
  <2>3. step \in Labels \ (Binding \cup {"idle", "walkout"}) BY DEF Labels, Binding
  <2> HIDE DEF j, step
  <2> QED BY <1>3, <2>1, <2>2, <2>3, RunTyped DEF RemoveStart, TypeOK, Exists
<1>4. ASSUME NEW r \in Requests, Finish(r), UNCHANGED tables PROVE TypeOK'
  BY <1>4, NoJobTyped, RunTyped DEF Finish, TypeOK, Labels, Binding, Exists
<1>5. ASSUME NEW r \in Requests, BindCheckCard(r) \/ BindCheckUser(r) PROVE TypeOK'
  <2>1. job[r] \in Job /\ job[r].card \in Cards /\ job[r].user \in Users
    BY <1>5 DEF BindCheckCard, BindCheckUser, TypeOK, Binding
  <2>2. CASE Finish(r)
    BY <1>4, <1>5, <2>2 DEF BindCheckCard, BindCheckUser
  <2>3. CASE Goto(r, "bind.user") \/ Goto(r, "bind.update")
    BY <1>5, <2>1, <2>3, RunTyped
       DEF BindCheckCard, BindCheckUser, Goto, TypeOK, Labels, Exists
  <2> QED BY <1>5, <2>2, <2>3 DEF BindCheckCard, BindCheckUser
<1>6. ASSUME NEW r \in Requests, BindUpdate(r) PROVE TypeOK'
  <2>1. job[r] \in Job /\ job[r].card \in Cards /\ job[r].user \in Users
    BY <1>6 DEF BindUpdate, TypeOK, Binding
  <2>2. /\ cards' \in [Cards -> Statuses \cup {NoRow}]
        /\ \A d \in Cards : Exists(d) => Exists(d)'
    BY <1>6, <2>1, StatusTyped DEF BindUpdate, TypeOK, Statuses, Held
  <2> QED BY <1>6, <2>1, <2>2, RunTyped, RowsFollow DEF BindUpdate, Goto, TypeOK, Labels
<1>7. ASSUME NEW r \in Requests, BindInsert(r) PROVE TypeOK'
  <2>1. job[r].card \in Cards /\ job[r].user \in Users
    BY <1>7 DEF BindInsert, TypeOK, Binding
  <2>2. CASE ~Exists(job[r].card)
    BY <1>4, <1>7, <2>2 DEF BindInsert
  <2>3. CASE Exists(job[r].card)
    <3> DEFINE row == [card |-> job[r].card, user |-> job[r].user, left |-> FALSE]
    <3>1. row \in Visit /\ row.card = job[r].card BY <2>1 DEF Visit
    <3>2. /\ nextVisit \in VisitIds /\ visits' = [visits EXCEPT ![nextVisit] = row]
          /\ nextVisit' = nextVisit + 1 /\ cards' = cards /\ deleted' = deleted
      BY <1>7, <2>3 DEF BindInsert
    <3> HIDE DEF row
    <3>3. /\ visits' \in [VisitIds -> Visit \cup {NoRow}] /\ nextVisit' \in 1 .. MaxVisits + 1
          /\ \A v \in VisitIds : visits'[v] # NoRow => v < nextVisit' /\ cards[visits'[v].card] # NoRow
      BY <2>3, <3>1, <3>2, CardAssumption DEF TypeOK, Exists
    <3>4. Finish(r) BY <1>7 DEF BindInsert
    <3> QED BY <3>2, <3>3, <3>4, NoJobTyped, RunTyped DEF Finish, TypeOK, Labels, Binding, Exists
  <2> QED BY <2>2, <2>3
<1>8. ASSUME NEW r \in Requests, UnbindFindByCard(r) \/ UnbindFindByUser(r) PROVE TypeOK'
  <2>1. job[r] \in Job /\ job[r].card \in Cards
    BY <1>8 DEF UnbindFindByCard, UnbindFindByUser, TypeOK
  <2>2. CASE Finish(r)
    BY <1>4, <1>8, <2>2 DEF UnbindFindByCard, UnbindFindByUser
  <2>3. CASE Goto(r, "unbind.user")
    BY <1>8, <2>1, <2>3, RunTyped
       DEF UnbindFindByCard, UnbindFindByUser, Goto, TypeOK, Labels, Binding, Exists
  <2>4. CASE \E v \in VisitIds : Inside(v) /\ Found(r, v)
    <3>1. PICK v \in VisitIds : Inside(v) /\ Found(r, v) BY <2>4
    <3> DEFINE j == [job[r] EXCEPT !.visit = v, !.card = visits[v].card]
    <3>2. visits[v].card \in Cards BY <3>1 DEF Inside, TypeOK, Visit
    <3> HIDE DEF VisitIds
    <3>3. v \in 0 .. MaxVisits BY CardAssumption DEF VisitIds
    <3>4. j \in Job /\ j.card \in Cards BY <2>1, <3>2, <3>3 DEF Job
    <3>5. Run(r, "unbind.update", j) BY <3>1 DEF Found
    <3> HIDE DEF j
    <3> QED BY <1>8, <3>4, <3>5, RunTyped
            DEF UnbindFindByCard, UnbindFindByUser, TypeOK, Labels, Binding, Exists
  <2> QED BY <1>8, <2>2, <2>3, <2>4 DEF UnbindFindByCard, UnbindFindByUser, VisitsOn, VisitsBy
<1>9. ASSUME NEW r \in Requests, UnbindUpdate(r) \/ RemoveCancel(r) PROVE TypeOK'
  <2>1. job[r] \in Job /\ job[r].card \in Cards
    BY <1>9 DEF UnbindUpdate, RemoveCancel, TypeOK
  <2>2. /\ cards' \in [Cards -> Statuses \cup {NoRow}]
        /\ \A d \in Cards : Exists(d) => Exists(d)'
    BY <1>9, <2>1, StatusTyped DEF UnbindUpdate, RemoveCancel, TypeOK, Statuses
  <2>3. \/ Run(r, "idle", NoJob)
        \/ Run(r, "unbind.close", job[r])
    BY <1>9 DEF UnbindUpdate, RemoveCancel, Finish, Goto
  <2> QED BY <1>9, <2>1, <2>2, <2>3, NoJobTyped, RunTyped, RowsFollow
          DEF UnbindUpdate, RemoveCancel, TypeOK, Labels, Binding
<1>10. ASSUME NEW r \in Requests, UnbindClose(r) PROVE TypeOK'
  <2>1. /\ visits' \in [VisitIds -> Visit \cup {NoRow}]
        /\ \A v \in VisitIds : visits'[v] # NoRow =>
             visits[v] # NoRow /\ visits'[v].card = visits[v].card
    BY <1>10, CardAssumption DEF UnbindClose, TypeOK, Visit
  <2>2. cards' = cards /\ deleted' = deleted /\ nextVisit' = nextVisit /\ Finish(r)
    BY <1>10 DEF UnbindClose
  <2> QED BY <2>1, <2>2, NoJobTyped, RunTyped DEF Finish, TypeOK, Labels, Binding, Exists
<1>11. ASSUME NEW r \in Requests, RemoveDelete(r) PROVE TypeOK'
  <2>1. job[r].card \in Cards BY <1>11 DEF RemoveDelete, TypeOK
  <2>2. /\ cards' \in [Cards -> Statuses \cup {NoRow}] /\ deleted' \subseteq Cards
        /\ visits' \in [VisitIds -> Visit \cup {NoRow}] /\ nextVisit' = nextVisit
    BY <1>11, <2>1 DEF RemoveDelete, TypeOK
  <2>3. \A v \in VisitIds : visits'[v] # NoRow =>
          visits'[v] = visits[v] /\ visits[v].card \in Cards /\ visits[v].card # job[r].card
    BY <1>11 DEF RemoveDelete, TypeOK, Visit
  <2>4. \A c \in Cards : c # job[r].card => cards'[c] = cards[c]
    BY <1>11 DEF RemoveDelete, TypeOK
  <2>5. \A v \in VisitIds : visits'[v] # NoRow => v < nextVisit' /\ Exists(visits[v].card)'
    BY <2>2, <2>3, <2>4 DEF TypeOK, Exists
  <2>6. Finish(r) BY <1>11 DEF RemoveDelete
  <2> QED BY <2>2, <2>3, <2>5, <2>6, NoJobTyped, RunTyped
          DEF Finish, TypeOK, Labels, Binding, Exists
<1>12. ASSUME NEW c \in Cards, NEW s \in Statuses,
              (s \in CreateAs /\ Create(c, s)) \/ ChangeStatus(c, s)
       PROVE  TypeOK'
  <2>1. /\ cards' \in [Cards -> Statuses \cup {NoRow}]
        /\ \A d \in Cards : Exists(d) => Exists(d)'
    BY <1>12, StatusTyped, CardAssumption DEF Create, ChangeStatus, TypeOK, Exists
  <2> QED BY <1>12, <2>1, RowsFollow DEF Create, ChangeStatus, TypeOK
<1>13. CASE UNCHANGED vars
  BY <1>13 DEF vars, TypeOK, Exists
<1> QED
  BY <1>1, <1>2, <1>3, <1>4, <1>5, <1>6, <1>7, <1>8, <1>9, <1>10, <1>11, <1>12, <1>13, CardAssumption
     DEF Next, Start, Step, WalkoutEnd, Fail

\* Type correctness: the rows that lendCard, returnCard and the card page leave
\* in access_cards and access_control refer to each other.
THEOREM CardsTyped == Spec => []TypeOK
<1> QED BY TypeInit, TypeStep, PTL DEF Spec

-----------------------------------------------------------------------------
(* One holder.  Visits are only added by BindInsert; every other step      *)
(* closes or deletes them, and so keeps what the binds in flight checked.  *)

\* No visit is opened, moved to another card or given to another reader.
FewerVisits ==
  \A v \in VisitIds : Inside(v)' => /\ Inside(v)
                                    /\ visits'[v].card = visits[v].card
                                    /\ visits'[v].user = visits[v].user

LEMMA FewerVisitsKeep ==
  ASSUME FewerVisits, NEW c
  PROVE  /\ VisitsOn(c) = {} => VisitsOn(c)' = {}
         /\ VisitsBy(c) = {} => VisitsBy(c)' = {}
         /\ OneHolder => OneHolder'
BY DEF FewerVisits, VisitsOn, VisitsBy, OneHolder

\* What is known of a bind that is at a step with a card and a reader.
BindChecked(step, j) ==
  /\ step \in Binding \ {"bind.card"} => VisitsOn(j.card) = {}
  /\ step \in {"bind.update", "bind.insert"} => VisitsBy(j.user) = {}

\* A request that leaves the visits alone, or closes some, keeps the invariant
\* if it binds on with the card and reader it has, or no longer binds.
LEMMA HolderKept ==
  ASSUME TypeOK, HolderInv, FewerVisits, NEW r \in Requests, NEW step, NEW j, Run(r, step, j),
         step \in Binding => pc[r] \in Binding /\ j = job[r] /\ BindChecked(step, j)
  PROVE  HolderInv'
<1>1. OneHolder' BY FewerVisitsKeep DEF HolderInv
<1>2. pc' = [pc EXCEPT ![r] = step] /\ job' = [job EXCEPT ![r] = j] BY DEF Run
<1>3. ASSUME NEW q \in Requests PROVE BindChecked(pc[q], job[q])'
  <2>1. PICK c : c = job'[q].card OBVIOUS
  <2>2. PICK u : u = job'[q].user OBVIOUS
  <2>3. PICK s : s = pc'[q] OBVIOUS
  <2>4. /\ s \in Binding \ {"bind.card"} => VisitsOn(c) = {}
        /\ s \in {"bind.update", "bind.insert"} => VisitsBy(u) = {}
    <3>1. CASE q = r BY <1>2, <2>1, <2>2, <2>3, <3>1 DEF BindChecked, Binding, TypeOK
    <3>2. CASE q # r BY <1>2, <2>1, <2>2, <2>3, <3>2 DEF HolderInv, TypeOK
    <3> QED BY <3>1, <3>2
  <2>5. (VisitsOn(c) = {} => VisitsOn(c)' = {}) /\ (VisitsBy(u) = {} => VisitsBy(u)' = {})
    BY FewerVisitsKeep
  <2> QED BY <2>1, <2>2, <2>3, <2>4, <2>5 DEF BindChecked, VisitsOn, VisitsBy
<1>4. \A q, p \in Requests :
        q # p /\ pc'[q] \in Binding /\ pc'[p] \in Binding =>
          job'[q].card # job'[p].card /\ job'[q].user # job'[p].user
  BY <1>2 DEF HolderInv, TypeOK
<1> QED BY <1>1, <1>3, <1>4 DEF HolderInv, BindChecked

LEMMA HolderInit == Init => HolderInv
BY DEF Init, HolderInv, OneHolder, Inside, Binding

LEMMA HolderStep ==
  ASSUME OneDesk, TypeOK, HolderInv, [Next]_vars
  PROVE  HolderInv'
<1> USE DEF tables
<1>1. visits' = visits => FewerVisits
  BY DEF FewerVisits, Inside
<1>2. ASSUME NEW r \in Requests, NEW step, NEW j, Run(r, step, j), visits' = visits,
             step \notin Binding
      PROVE  HolderInv'
  BY <1>1, <1>2, HolderKept
<1>3. ASSUME NEW r \in Requests, Finish(r), FewerVisits PROVE HolderInv'
  BY <1>3, HolderKept DEF Finish, Binding
<1>4. ASSUME NEW r \in Requests, NEW c \in Cards, NEW u \in Users, BindStart(r, c, u)
      PROVE  HolderInv'
  <2> DEFINE j == [NoJob EXCEPT !.card = c, !.user = u]
  <2>1. j.card = c /\ j.user = u BY StartJob
  <2>2. /\ pc' = [pc EXCEPT ![r] = "bind.card"] /\ job' = [job EXCEPT ![r] = j]
        /\ visits' = visits /\ MayStart(r, c, u)
    BY <1>4 DEF BindStart, Run
  <2> HIDE DEF j
  <2>3. \A q \in Requests : q # r /\ pc[q] \in Binding => job[q].card # c /\ job[q].user # u
    BY <2>2 DEF MayStart, Binding
  <2>4. OneHolder' BY <1>1, <2>2, FewerVisitsKeep DEF HolderInv
  <2>5. \A q \in Requests :
          /\ pc'[q] \in Binding \ {"bind.card"} => VisitsOn(job[q].card)' = {} /\ job'[q] = job[q]
          /\ pc'[q] \in {"bind.update", "bind.insert"} => VisitsBy(job[q].user)' = {} /\ job'[q] = job[q]
    BY <2>2 DEF HolderInv, TypeOK, VisitsOn, VisitsBy, Inside, Binding
  <2> QED BY <2>1, <2>2, <2>3, <2>4, <2>5 DEF HolderInv, TypeOK, VisitsOn, VisitsBy
<1>5. ASSUME NEW r \in Requests, BindCheckCard(r) \/ BindCheckUser(r) \/ BindUpdate(r)
      PROVE  HolderInv'
  <2>1. visits' = visits /\ FewerVisits
    BY <1>1, <1>5 DEF BindCheckCard, BindCheckUser, BindUpdate
  <2>2. \/ Finish(r)
        \/ \E step \in Binding : Run(r, step, job[r]) /\ BindChecked(step, job[r])
    BY <1>5 DEF BindCheckCard, BindCheckUser, BindUpdate, Goto, BindChecked, HolderInv, Binding
  <2>3. pc[r] \in Binding BY <1>5 DEF BindCheckCard, BindCheckUser, BindUpdate, Binding
  <2> QED BY <1>3, <2>1, <2>2, <2>3, HolderKept
<1>6. ASSUME NEW r \in Requests, BindInsert(r) PROVE HolderInv'
  <2>1. Finish(r) BY <1>6 DEF BindInsert
  <2>2. CASE ~Exists(job[r].card) BY <1>1, <1>3, <1>6, <2>1, <2>2 DEF BindInsert
  <2>3. CASE Exists(job[r].card)
    <3>1. PICK c : c = job[r].card OBVIOUS
    <3>2. PICK u : u = job[r].user OBVIOUS
    <3>3. VisitsOn(c) = {} /\ VisitsBy(u) = {}
      BY <1>6, <3>1, <3>2 DEF BindInsert, HolderInv, Binding
    <3>4. /\ nextVisit \in VisitIds
          /\ visits' = [visits EXCEPT ![nextVisit] = [card |-> c, user |-> u, left |-> FALSE]]
      BY <1>6, <2>3, <3>1, <3>2 DEF BindInsert
    <3>5. \A v \in VisitIds : visits'[v] = IF v = nextVisit THEN [card |-> c, user |-> u, left |-> FALSE]
                                                          ELSE visits[v]
      BY <3>4 DEF TypeOK
    <3>6. OneHolder'
      BY <3>3, <3>5 DEF HolderInv, OneHolder, VisitsOn, VisitsBy, Inside
    <3>7. ASSUME NEW q \in Requests, pc'[q] \in Binding
          PROVE  q # r /\ pc'[q] = pc[q] /\ job'[q] = job[q] /\ job[q].card # c /\ job[q].user # u
      <4>1. q # r /\ pc'[q] = pc[q] /\ job'[q] = job[q]
        BY <2>1, <3>7 DEF Finish, Run, TypeOK, Binding
      <4> QED BY <1>6, <3>1, <3>2, <3>7, <4>1 DEF BindInsert, HolderInv, Binding
    <3>8. ASSUME NEW q \in Requests, NEW d, NEW w, d # c, w # u
          PROVE  (VisitsOn(d) = {} => VisitsOn(d)' = {}) /\ (VisitsBy(w) = {} => VisitsBy(w)' = {})
      BY <3>5, <3>8 DEF VisitsOn, VisitsBy, Inside
    <3>9. \A q \in Requests : BindChecked(pc[q], job[q])'
      <4> SUFFICES ASSUME NEW q \in Requests, pc'[q] \in Binding PROVE BindChecked(pc[q], job[q])'
        BY DEF BindChecked, Binding
      <4>1. PICK d : d = job'[q].card OBVIOUS
      <4>2. PICK w : w = job'[q].user OBVIOUS
      <4>3. PICK s : s = pc'[q] OBVIOUS
      <4>4. /\ s \in Binding \ {"bind.card"} => VisitsOn(d) = {}
            /\ s \in {"bind.update", "bind.insert"} => VisitsBy(w) = {}
        BY <3>7, <4>1, <4>2, <4>3 DEF HolderInv
      <4>5. (VisitsOn(d) = {} => VisitsOn(d)' = {}) /\ (VisitsBy(w) = {} => VisitsBy(w)' = {})
        BY <3>7, <3>8, <4>1, <4>2
      <4> QED BY <4>1, <4>2, <4>3, <4>4, <4>5 DEF BindChecked, VisitsOn, VisitsBy
    <3> QED BY <3>6, <3>7, <3>9 DEF HolderInv, BindChecked
  <2> QED BY <2>2, <2>3
<1>7. ASSUME NEW r \in Requests, NEW c \in Cards, NEW u \in Users, UnbindStart(r, c, u)
      PROVE  HolderInv'
  BY <1>2, <1>7 DEF UnbindStart, Binding
<1>8. ASSUME NEW r \in Requests, \/ \E u \in Users : WalkoutStart(r, u)
                                \/ \E c \in Cards : RemoveStart(r, c)
      PROVE  HolderInv'
  BY <1>2, <1>8 DEF WalkoutStart, RemoveStart, Binding
<1>9. ASSUME NEW r \in Requests, \/ UnbindFindByCard(r) \/ UnbindFindByUser(r) \/ UnbindUpdate(r)
                                \/ WalkoutEnd(r) \/ RemoveCancel(r) \/ Fail(r)
      PROVE  HolderInv'
  <2>1. visits' = visits
    BY <1>9 DEF UnbindFindByCard, UnbindFindByUser, UnbindUpdate, WalkoutEnd, RemoveCancel, Fail
  <2>2. \E step \in Labels \ Binding : \E j : Run(r, step, j)
    BY <1>9 DEF UnbindFindByCard, UnbindFindByUser, UnbindUpdate, WalkoutEnd, RemoveCancel, Fail,
                Finish, Goto, Found, Labels, Binding
  <2> QED BY <1>2, <2>1, <2>2
<1>10. ASSUME NEW r \in Requests, UnbindClose(r) \/ RemoveDelete(r) PROVE HolderInv'
  <2>1. FewerVisits
    BY <1>10, CardAssumption DEF UnbindClose, RemoveDelete, FewerVisits, Inside, TypeOK, Visit
  <2> QED BY <1>3, <1>10, <2>1 DEF UnbindClose, RemoveDelete
<1>11. ASSUME visits' = visits, pc' = pc, job' = job PROVE HolderInv'
  BY <1>11 DEF HolderInv, OneHolder, VisitsOn, VisitsBy, Inside
<1> QED
  BY <1>4, <1>5, <1>6, <1>7, <1>8, <1>9, <1>10, <1>11
     DEF Next, Start, Step, Create, ChangeStatus, vars

\* What a bind in flight has found out, that its card and its reader have no
\* visit, stays true until it inserts one, while no two requests at once are
\* for one card or one reader.
THEOREM BindsInFlight ==
  ASSUME OneDesk
  PROVE  Spec => []HolderInv
<1>1. TypeOK /\ HolderInv /\ [Next]_vars => HolderInv' BY HolderStep
<1> QED BY <1>1, HolderInit, CardsTyped, PTL DEF Spec

\* lendCard hands out one card per reader and one reader per card, under the
\* same condition.
THEOREM CardWithOneReader ==
  ASSUME OneDesk
  PROVE  Spec => []OneHolder
<1>1. HolderInv => OneHolder BY DEF HolderInv
<1> QED BY <1>1, BindsInFlight, PTL

-----------------------------------------------------------------------------
(* The two tables agree.  A request in flight is the only one about its     *)
(* card, and at each step the status and the visits of that card are known; *)
(* every other card is as CardMatchesVisit wants it.                        *)

\* The world in which they do.
GoodDesk ==
  /\ OneDesk /\ FreshPages /\ QuietAdmin /\ ~Failures
  /\ CreateAs \subseteq {"AVAILABLE"}
  /\ AdminMoves \subseteq BlockMoves \cup UnblockMoves \cup CancelMoves

\* A status and a set of visits that agree.
Fits(s, V) == /\ s \in Held => V # {}
              /\ s \in {"AVAILABLE", "BLOCKED"} => V = {}

\* The steps between the two statements of a bind and of an unbind.
Between == {"bind.insert", "unbind.close"}

\* Status and visits of the card in hand, by the step of its request.
Hand(step, v, s, V) ==
  /\ step \in {"bind.card", "bind.user", "bind.update"} => s = "AVAILABLE" /\ V = {}
  /\ step = "bind.insert" => s = "IN_USE" /\ V = {}
  /\ step = "unbind.card" => s = "IN_USE" /\ V # {}
  /\ step = "unbind.update" => s = "IN_USE" /\ v \in V
  /\ step = "unbind.close" => s = "AVAILABLE" /\ v \in V
  /\ step = "remove.delete" => s = "CANCELLED"
  /\ step \notin {"unbind.user", "remove.cancel"}

\* No two requests are about one card.
Apart ==
  \A q, r \in Requests :
    q # r /\ pc[q] # "idle" /\ pc[r] # "idle" => job[q].card # job[r].card

TablesInv ==
  /\ Apart
  /\ \A r \in Requests : Hand(pc[r], job[r].visit, cards[job[r].card], VisitsOn(job[r].card))
  /\ \A c \in Cards : (\A r \in Requests : pc[r] \in Between => job[r].card # c)
                        => Fits(cards[c], VisitsOn(c))

LEMMA TablesInit == Init => TablesInv
BY CardAssumption
   DEF Init, TablesInv, Apart, Hand, Between, Fits, Held, Blocked, Statuses

\* A step that leaves the visits alone leaves those of each card alone.
LEMMA SameVisits == visits' = visits => \A c : VisitsOn(c)' = VisitsOn(c)
BY DEF VisitsOn, Inside

\* A request that writes nothing but its own card keeps the invariant if it
\* leaves that card as its next step has it.
LEMMA HandKept ==
  ASSUME TypeOK, TablesInv, NEW r \in Requests, pc[r] # "idle", NEW c, c = job[r].card,
         NEW step, NEW j, Run(r, step, j), step # "idle" => j.card = c,
         \A d \in Cards : d # c => cards'[d] = cards[d] /\ VisitsOn(d)' = VisitsOn(d),
         step # "idle" => Hand(step, j.visit, cards'[c], VisitsOn(c)'),
         step \notin Between /\ c \in Cards => Fits(cards'[c], VisitsOn(c)')
  PROVE  TablesInv'
<1>1. /\ pc'[r] = step /\ job'[r] = j
      /\ \A q \in Requests : q # r => pc'[q] = pc[q] /\ job'[q] = job[q]
  BY DEF Run, TypeOK
<1>2. \A q \in Requests : q # r /\ pc[q] # "idle" => job[q].card # c
  BY DEF TablesInv, Apart
<1>3. Apart'
  BY <1>1, <1>2 DEF TablesInv, Apart
<1>4. ASSUME NEW q \in Requests, NEW d, d = job'[q].card
      PROVE  Hand(pc'[q], job'[q].visit, cards'[d], VisitsOn(d)')
  <2>1. CASE q = r
    BY <1>1, <1>4, <2>1 DEF Hand
  <2>2. CASE q # r /\ pc[q] \in {"idle", "walkout"}
    BY <1>1, <2>2 DEF Hand
  <2>3. CASE q # r /\ pc[q] \notin {"idle", "walkout"}
    <3>1. d \in Cards /\ d # c /\ d = job[q].card
      BY <1>1, <1>2, <1>4, <2>3 DEF TypeOK
    <3>2. Hand(pc[q], job[q].visit, cards[d], VisitsOn(d))
      BY <3>1 DEF TablesInv
    <3> QED BY <1>1, <2>3, <3>1, <3>2
  <2> QED BY <2>1, <2>2, <2>3
<1>5. ASSUME NEW d \in Cards, \A q \in Requests : pc'[q] \in Between => job'[q].card # d
      PROVE  Fits(cards'[d], VisitsOn(d)')
  <2>1. CASE d = c
    <3>1. step \notin Between BY <1>1, <1>5, <2>1 DEF Between
    <3> QED BY <2>1, <3>1
  <2>2. CASE d # c
    <3>1. \A q \in Requests : pc[q] \in Between => job[q].card # d
      BY <1>1, <1>5, <2>2
    <3>2. Fits(cards[d], VisitsOn(d)) BY <3>1 DEF TablesInv
    <3> QED BY <2>2, <3>2
  <2> QED BY <2>1, <2>2
<1>6. \A q \in Requests : Hand(pc[q], job[q].visit, cards[job[q].card], VisitsOn(job[q].card))'
  <2> SUFFICES ASSUME NEW q \in Requests
               PROVE  Hand(pc[q], job[q].visit, cards[job[q].card], VisitsOn(job[q].card))'
    OBVIOUS
  <2>1. PICK d : d = job'[q].card OBVIOUS
  <2>2. VisitsOn(job[q].card)' = VisitsOn(d)' BY <2>1 DEF VisitsOn, Inside
  <2> QED BY <1>4, <2>1, <2>2
<1> QED BY <1>3, <1>5, <1>6 DEF TablesInv

\* A request that starts finds its card with nobody.
LEMMA HandStarts ==
  ASSUME TypeOK, TablesInv, NEW r \in Requests, pc[r] = "idle", NEW c,
         \A q \in Requests : pc[q] # "idle" => job[q].card # c,
         NEW step, NEW j, Run(r, step, j), j.card = c, cards' = cards, visits' = visits,
         step \notin Between, Hand(step, j.visit, cards[c], VisitsOn(c))
  PROVE  TablesInv'
<1>1. /\ pc'[r] = step /\ job'[r] = j
      /\ \A q \in Requests : q # r => pc'[q] = pc[q] /\ job'[q] = job[q]
  BY DEF Run, TypeOK
<1>2. Apart'
  BY <1>1 DEF TablesInv, Apart
<1>3. \A q \in Requests : Hand(pc[q], job[q].visit, cards[job[q].card], VisitsOn(job[q].card))'
  <2> SUFFICES ASSUME NEW q \in Requests
               PROVE  Hand(pc[q], job[q].visit, cards[job[q].card], VisitsOn(job[q].card))'
    OBVIOUS
  <2>1. PICK d : d = job'[q].card OBVIOUS
  <2>2. VisitsOn(job[q].card)' = VisitsOn(d) BY <2>1, SameVisits DEF VisitsOn, Inside
  <2>3. Hand(pc'[q], job'[q].visit, cards[d], VisitsOn(d))
    <3>1. CASE q = r BY <1>1, <2>1, <3>1
    <3>2. CASE q # r BY <1>1, <2>1, <3>2 DEF TablesInv
    <3> QED BY <3>1, <3>2
  <2> QED BY <2>1, <2>2, <2>3
<1>4. ASSUME NEW d \in Cards, \A q \in Requests : pc'[q] \in Between => job'[q].card # d
      PROVE  Fits(cards'[d], VisitsOn(d)')
  <2>1. \A q \in Requests : pc[q] \in Between => job[q].card # d
    BY <1>1, <1>4 DEF Between
  <2> QED BY <2>1, SameVisits DEF TablesInv
<1> QED BY <1>2, <1>3, <1>4 DEF TablesInv

LEMMA StartKeepsTables ==
  ASSUME GoodDesk, TypeOK, TablesInv, NEW r \in Requests, Start(r)
  PROVE  TablesInv'
<1> USE DEF tables, GoodDesk
<1>1. ASSUME NEW c \in Cards, NEW u \in Users, BindStart(r, c, u) \/ UnbindStart(r, c, u)
      PROVE  TablesInv'
  <2> DEFINE j == [NoJob EXCEPT !.card = c, !.user = u]
  <2>1. j.card = c BY StartJob
  <2>2. /\ pc[r] = "idle" /\ cards' = cards /\ visits' = visits
        /\ \A q \in Requests : pc[q] # "idle" => job[q].card # c
    BY <1>1 DEF BindStart, UnbindStart, MayStart
  <2>3. Fits(cards[c], VisitsOn(c))
    BY <2>2 DEF TablesInv, Between
  <2>4. \/ Run(r, "bind.card", j) /\ Hand("bind.card", j.visit, cards[c], VisitsOn(c))
        \/ Run(r, "unbind.card", j) /\ Hand("unbind.card", j.visit, cards[c], VisitsOn(c))
    BY <1>1, <2>3 DEF BindStart, UnbindStart, Hand, Fits
  <2> HIDE DEF j
  <2> QED BY <2>1, <2>2, <2>4, HandStarts DEF Between
<1>2. ASSUME NEW u \in Users, WalkoutStart(r, u) PROVE TablesInv'
  <2> DEFINE j == [NoJob EXCEPT !.user = u]
  <2>1. j.card = None BY DEF NoJob
  <2>2. /\ pc[r] = "idle" /\ cards' = cards /\ visits' = visits /\ Run(r, "walkout", j)
        /\ \A q \in Requests : pc[q] # "idle" => job[q].card # None
    BY <1>2 DEF WalkoutStart, MayStart
  <2>3. Hand("walkout", j.visit, cards[None], VisitsOn(None)) BY DEF Hand
  <2> HIDE DEF j
  <2> QED BY <2>1, <2>2, <2>3, HandStarts DEF Between
<1>3. ASSUME NEW c \in Cards, RemoveStart(r, c) PROVE TablesInv'
  <2> DEFINE j == [NoJob EXCEPT !.card = c]
  <2>1. j.card = c BY DEF NoJob
  <2>2. /\ pc[r] = "idle" /\ cards' = cards /\ visits' = visits /\ Run(r, "remove.delete", j)
        /\ cards[c] = "CANCELLED" /\ \A q \in Requests : pc[q] = "idle"
    BY <1>3 DEF RemoveStart, MayAdminister, Quiet
  <2>3. Hand("remove.delete", j.visit, cards[c], VisitsOn(c)) BY <2>2 DEF Hand
  <2> HIDE DEF j
  <2> QED BY <2>1, <2>2, <2>3, HandStarts DEF Between
<1> QED BY <1>1, <1>2, <1>3 DEF Start

LEMMA StepKeepsTables ==
  ASSUME TypeOK, HolderInv, TablesInv, NEW r \in Requests, Step(r)
  PROVE  TablesInv'
<1> USE DEF tables
<1>1. PICK c : c = job[r].card OBVIOUS
<1>2. /\ Hand(pc[r], job[r].visit, cards[c], VisitsOn(c))
      /\ pc[r] # "idle" /\ (pc[r] # "walkout" => c \in Cards)
  BY <1>1 DEF TablesInv, TypeOK, Step, BindCheckCard, BindCheckUser, BindUpdate, BindInsert,
              UnbindFindByCard, UnbindFindByUser, UnbindUpdate, UnbindClose, WalkoutEnd,
              RemoveCancel, RemoveDelete
<1>3. ASSUME NEW step, NEW j, Run(r, step, j), step # "idle" => j.card = c,
             cards' = cards, visits' = visits,
             step # "idle" => Hand(step, j.visit, cards[c], VisitsOn(c)),
             step \notin Between /\ c \in Cards => Fits(cards[c], VisitsOn(c))
      PROVE  TablesInv'
  BY <1>1, <1>2, <1>3, SameVisits, HandKept
<1>4. CASE BindCheckCard(r) \/ BindCheckUser(r)
  <2>1. cards[c] = "AVAILABLE" /\ VisitsOn(c) = {} BY <1>2, <1>4 DEF Hand, BindCheckCard, BindCheckUser
  <2>2. \/ Run(r, "idle", NoJob)
        \/ \E step \in {"bind.user", "bind.update"} : Run(r, step, job[r])
    BY <1>4 DEF BindCheckCard, BindCheckUser, Goto, Finish
  <2>3. cards' = cards /\ visits' = visits BY <1>4 DEF BindCheckCard, BindCheckUser
  <2> QED BY <1>1, <1>3, <2>1, <2>2, <2>3 DEF Hand, Fits, Held, Between
<1>5. CASE BindUpdate(r)
  <2>1. cards[c] = "AVAILABLE" /\ VisitsOn(c) = {} /\ c \in Cards
    BY <1>2, <1>5 DEF Hand, BindUpdate
  <2>2. /\ Run(r, "bind.insert", job[r]) /\ visits' = visits
        /\ cards' = [cards EXCEPT ![c] = "IN_USE"]
    BY <1>1, <1>5, <2>1, CardAssumption DEF BindUpdate, Goto, SetStatus, Exists, Statuses
  <2>3. cards'[c] = "IN_USE" /\ \A d \in Cards : d # c => cards'[d] = cards[d]
    BY <2>1, <2>2 DEF TypeOK
  <2>4. Hand("bind.insert", job[r].visit, cards'[c], VisitsOn(c)')
    BY <2>1, <2>2, <2>3, SameVisits DEF Hand
  <2> QED BY <1>1, <1>2, <2>2, <2>3, <2>4, SameVisits, HandKept DEF Between
<1>6. CASE BindInsert(r)
  <2>1. cards[c] = "IN_USE" /\ c \in Cards BY <1>2, <1>6 DEF Hand, BindInsert
  <2>2. PICK u : u = job[r].user OBVIOUS
  <2>3. /\ nextVisit \in VisitIds /\ cards' = cards /\ Run(r, "idle", NoJob)
        /\ visits' = [visits EXCEPT ![nextVisit] = [card |-> c, user |-> u, left |-> FALSE]]
    BY <1>1, <1>6, <2>1, <2>2, CardAssumption DEF BindInsert, Finish, Exists, Statuses, Held
  <2>4. \A v \in VisitIds : visits'[v] = IF v = nextVisit THEN [card |-> c, user |-> u, left |-> FALSE]
                                                        ELSE visits[v]
    BY <2>3 DEF TypeOK
  <2>5. visits[nextVisit] = NoRow BY <2>3 DEF TypeOK
  <2>6. [card |-> c, user |-> u, left |-> FALSE] # NoRow
    <3>1. pc[r] \in Binding BY <1>6 DEF BindInsert, Binding
    <3>2. u \in Users BY <2>2, <3>1 DEF TypeOK
    <3>3. [card |-> c, user |-> u, left |-> FALSE] \in Visit BY <2>1, <3>2 DEF Visit
    <3> QED BY <3>3, CardAssumption
  <2>7. nextVisit \in VisitsOn(c)' BY <2>3, <2>4, <2>6 DEF VisitsOn, Inside
  <2>8. \A d \in Cards : d # c => VisitsOn(d)' = VisitsOn(d)
    BY <2>4, <2>5 DEF VisitsOn, Inside
  <2>9. Fits(cards'[c], VisitsOn(c)') BY <2>1, <2>3, <2>7 DEF Fits
  <2> QED BY <1>1, <1>2, <2>3, <2>8, <2>9, HandKept
<1>7. CASE UnbindFindByCard(r)
  <2>1. cards[c] = "IN_USE" /\ VisitsOn(c) # {} BY <1>2, <1>7 DEF Hand, UnbindFindByCard
  <2>2. PICK v \in VisitsOn(c) : Found(r, v) BY <1>1, <1>7, <2>1 DEF UnbindFindByCard
  <2> DEFINE j == [job[r] EXCEPT !.visit = v, !.card = visits[v].card]
  <2>3. Run(r, "unbind.update", j) BY <2>2 DEF Found
  <2>4. j.card = c /\ j.visit = v BY <2>2 DEF VisitsOn, TypeOK, Job
  <2>5. cards' = cards /\ visits' = visits BY <1>7 DEF UnbindFindByCard
  <2> HIDE DEF j
  <2>6. Hand("unbind.update", j.visit, cards[c], VisitsOn(c)) BY <2>1, <2>2, <2>4 DEF Hand
  <2>7. Fits(cards[c], VisitsOn(c)) BY <2>1 DEF Fits
  <2> QED BY <1>3, <2>3, <2>4, <2>5, <2>6, <2>7
<1>8. CASE UnbindUpdate(r)
  <2>1. cards[c] = "IN_USE" /\ job[r].visit \in VisitsOn(c) /\ c \in Cards
    BY <1>2, <1>8 DEF Hand, UnbindUpdate
  <2>2. /\ Run(r, "unbind.close", job[r]) /\ visits' = visits
        /\ cards' = [cards EXCEPT ![c] = "AVAILABLE"]
    BY <1>1, <1>8, <2>1, CardAssumption DEF UnbindUpdate, Goto, SetStatus, Exists, Statuses, Held
  <2>3. cards'[c] = "AVAILABLE" /\ \A d \in Cards : d # c => cards'[d] = cards[d]
    BY <2>1, <2>2 DEF TypeOK
  <2>4. Hand("unbind.close", job[r].visit, cards'[c], VisitsOn(c)')
    BY <2>1, <2>2, <2>3, SameVisits DEF Hand
  <2> QED BY <1>1, <1>2, <2>2, <2>3, <2>4, SameVisits, HandKept DEF Between
<1>9. CASE UnbindClose(r)
  <2>1. PICK v : v = job[r].visit OBVIOUS
  <2>2. cards[c] = "AVAILABLE" /\ v \in VisitsOn(c) BY <1>2, <1>9, <2>1 DEF Hand, UnbindClose
  <2>3. /\ cards' = cards /\ Run(r, "idle", NoJob)
        /\ visits' = [visits EXCEPT ![v].left = TRUE]
    BY <1>9, <2>1, <2>2 DEF UnbindClose, Finish, VisitsOn, Inside
  <2>4. /\ visits'[v].left = TRUE /\ v \in VisitIds
        /\ \A w \in VisitIds : w # v => visits'[w] = visits[w]
        /\ visits'[v].card = c
    BY <2>2, <2>3 DEF TypeOK, Visit, VisitsOn, Inside
  <2>5. VisitsOn(c) \subseteq {v} BY <2>2 DEF HolderInv, OneHolder, VisitsOn
  <2>6. VisitsOn(c)' = {} BY <2>4, <2>5 DEF VisitsOn, Inside
  <2>7. \A d \in Cards : d # c => VisitsOn(d)' = VisitsOn(d)
    BY <2>2, <2>4 DEF VisitsOn, Inside
  <2>8. Fits(cards'[c], VisitsOn(c)') BY <2>2, <2>3, <2>6 DEF Fits, Held
  <2> QED BY <1>1, <1>2, <2>3, <2>7, <2>8, HandKept
<1>10. CASE WalkoutEnd(r)
  <2>1. cards' = cards /\ visits' = visits /\ Run(r, "idle", NoJob) /\ pc[r] = "walkout"
    BY <1>10 DEF WalkoutEnd, Finish
  <2>2. \A q \in Requests : pc[q] \in Between => job[q].card # c
    BY <1>1, <2>1 DEF TablesInv, Apart, Between
  <2>3. c \in Cards => Fits(cards[c], VisitsOn(c)) BY <2>2 DEF TablesInv
  <2> QED BY <1>3, <2>1, <2>3
<1>11. CASE RemoveDelete(r)
  <2>1. c \in Cards BY <1>2, <1>11 DEF RemoveDelete
  <2>2. /\ Run(r, "idle", NoJob) /\ cards' = [cards EXCEPT ![c] = NoRow]
        /\ visits' = [v \in VisitIds |->
                        IF visits[v] # NoRow /\ visits[v].card = c THEN NoRow ELSE visits[v]]
    BY <1>1, <1>11 DEF RemoveDelete, Finish
  <2>3. cards'[c] = NoRow /\ \A d \in Cards : d # c => cards'[d] = cards[d]
    BY <2>1, <2>2 DEF TypeOK
  <2>4. \A d \in Cards : d # c => VisitsOn(d)' = VisitsOn(d)
    BY <2>2 DEF VisitsOn, Inside
  <2>5. Fits(cards'[c], VisitsOn(c)')
    BY <2>3, CardAssumption DEF Fits, Held, Blocked, Statuses
  <2> QED BY <1>1, <1>2, <2>2, <2>3, <2>4, <2>5, HandKept
<1>12. ~UnbindFindByUser(r) /\ ~RemoveCancel(r)
  BY <1>2 DEF Hand, UnbindFindByUser, RemoveCancel
<1> QED BY <1>4, <1>5, <1>6, <1>7, <1>8, <1>9, <1>10, <1>11, <1>12 DEF Step

\* Administrators find no request in flight, and change a status for one that
\* the visits of the card fit as well.
LEMMA AdminKeepsTables ==
  ASSUME GoodDesk, TypeOK, TablesInv, NEW c \in Cards,
         (\E s \in CreateAs : Create(c, s)) \/ \E s \in Statuses : ChangeStatus(c, s)
  PROVE  TablesInv'
<1> USE DEF GoodDesk
<1>1. /\ \A r \in Requests : pc[r] = "idle"
      /\ pc' = pc /\ job' = job /\ visits' = visits
  BY DEF Create, ChangeStatus, MayAdminister, Quiet
<1>2. Fits(cards[c], VisitsOn(c)) BY <1>1 DEF TablesInv, Between
<1>3. cards[c] = NoRow => VisitsOn(c) = {} BY DEF VisitsOn, Inside, TypeOK, Exists
<1>4. PICK s \in Statuses : /\ cards' = [cards EXCEPT ![c] = s] \/ cards' = cards
                            /\ Fits(s, VisitsOn(c))
  <2>1. ASSUME NEW s \in CreateAs, Create(c, s)
        PROVE  s \in Statuses /\ cards' = [cards EXCEPT ![c] = s] /\ Fits(s, VisitsOn(c))
    BY <1>3, <2>1 DEF Create, Fits, Held, Statuses
  <2>2. ASSUME NEW s \in Statuses, ChangeStatus(c, s)
        PROVE  /\ cards' = [cards EXCEPT ![c] = s] \/ cards' = cards
               /\ Fits(s, VisitsOn(c))
    <3>1. <<cards[c], s>> \in BlockMoves \cup UnblockMoves \cup CancelMoves
      BY <2>2 DEF ChangeStatus
    <3>2. Fits(s, VisitsOn(c))
      BY <1>2, <3>1 DEF BlockMoves, UnblockMoves, CancelMoves, Fits, Held
    <3> QED BY <2>2, <3>2 DEF ChangeStatus, SetStatus
  <2> QED BY <2>1, <2>2
<1>5. cards' \in [Cards -> Statuses \cup {NoRow}]
      /\ (\A d \in Cards : d # c => cards'[d] = cards[d]) /\ cards'[c] \in {s, cards[c]}
  BY <1>4 DEF TypeOK
<1>6. \A d \in Cards : Fits(cards'[d], VisitsOn(d)')
  <2>1. \A d \in Cards : Fits(cards[d], VisitsOn(d)) BY <1>1 DEF TablesInv, Between
  <2> QED BY <1>1, <1>2, <1>4, <1>5, <2>1, SameVisits
<1>7. Apart' BY <1>1 DEF Apart
<1>8. \A r \in Requests : Hand(pc[r], job[r].visit, cards[job[r].card], VisitsOn(job[r].card))'
  BY <1>1 DEF Hand
<1> QED BY <1>6, <1>7, <1>8 DEF TablesInv

LEMMA TablesStep ==
  ASSUME GoodDesk, TypeOK, HolderInv, TablesInv, [Next]_vars
  PROVE  TablesInv'
<1>1. ASSUME NEW r \in Requests, Fail(r) PROVE FALSE BY <1>1 DEF Fail, GoodDesk
<1>2. CASE UNCHANGED vars
  BY <1>2 DEF vars, TablesInv, Apart, VisitsOn, Inside
<1> QED BY <1>1, <1>2, StartKeepsTables, StepKeepsTables, AdminKeepsTables DEF Next

\* What is in hand and what is not agree, at every step, as long as pages are
\* fresh, administrators wait for the desks, and no request dies.
THEOREM TablesAgree ==
  ASSUME GoodDesk
  PROVE  Spec => [](TypeOK /\ HolderInv /\ TablesInv)
<1>1. OneDesk BY DEF GoodDesk
<1>2. TypeOK /\ HolderInv /\ TablesInv /\ [Next]_vars => TablesInv' BY TablesStep
<1> QED BY <1>1, <1>2, TablesInit, CardsTyped, BindsInFlight, PTL DEF Spec

\* Then the two tables that lendCard and returnCard write one after the other
\* agree whenever no request is in flight.
THEOREM CardsMatchVisits ==
  ASSUME GoodDesk
  PROVE  Spec => []CardMatchesVisit
<1>1. TablesInv => CardMatchesVisit
  BY DEF TablesInv, CardMatchesVisit, Quiet, Between, Fits
<1> QED BY <1>1, TablesAgree, PTL

\* And no request lifts a block: a card that is bound or unbound was not blocked
\* when its request tested it, and is not until it writes.
THEOREM BlocksAreKept ==
  ASSUME GoodDesk
  PROVE  Spec => BlockKept
<1>1. ASSUME TypeOK, TablesInv, [Next]_vars, NEW c \in Cards, cards[c] \in Blocked, pc' # pc
      PROVE  cards'[c] = cards[c]
  <2> USE DEF tables
  <2>1. ASSUME NEW r \in Requests, Start(r) \/ Fail(r) PROVE cards' = cards
    BY <2>1 DEF Start, BindStart, UnbindStart, WalkoutStart, RemoveStart, Fail
  <2>2. ASSUME NEW r \in Requests, Step(r) PROVE cards'[c] = cards[c]
    <3>1. PICK d : d = job[r].card OBVIOUS
    <3>2. Hand(pc[r], job[r].visit, cards[d], VisitsOn(d)) BY <1>1, <3>1 DEF TablesInv
    <3>3. CASE BindUpdate(r) \/ UnbindUpdate(r) \/ RemoveDelete(r)
      <4>1. d \in Cards /\ cards[d] \notin Blocked
        BY <1>1, <3>1, <3>2, <3>3
           DEF BindUpdate, UnbindUpdate, RemoveDelete, Hand, Blocked, TypeOK
      <4>2. \E s : cards' = [cards EXCEPT ![d] = s] \/ cards' = cards
        BY <3>1, <3>3 DEF BindUpdate, UnbindUpdate, RemoveDelete, SetStatus
      <4> QED BY <1>1, <4>1, <4>2 DEF TypeOK
    <3>4. ~RemoveCancel(r) BY <3>2 DEF Hand, RemoveCancel
    <3>5. BindUpdate(r) \/ UnbindUpdate(r) \/ RemoveDelete(r) \/ RemoveCancel(r) \/ cards' = cards
      BY <2>2 DEF Step, BindCheckCard, BindCheckUser, BindInsert, UnbindFindByCard,
                  UnbindFindByUser, UnbindClose, WalkoutEnd
    <3> QED BY <3>3, <3>4, <3>5
  <2> QED BY <1>1, <2>1, <2>2 DEF Next, Create, ChangeStatus, vars
<1>2. TypeOK /\ TablesInv /\ [Next]_vars =>
        [\A c \in Cards : cards[c] \in Blocked /\ pc' # pc => cards'[c] = cards[c]]_vars
  BY <1>1
<1> QED BY <1>2, TablesAgree, PTL DEF Spec, BlockKept
=============================================================================
