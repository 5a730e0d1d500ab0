-------------------------------- MODULE UsersPage --------------------------------
(***************************************************************************)
(* The readers page of the single-page front end: the hook                 *)
(* useCirculationUsersControlsAndTable and the components it feeds, with   *)
(* the handlers of circulation.user behind it.                             *)
(*                                                                         *)
(* Five mutations (search, paginate, block, unblock, delete) and the save  *)
(* of the form run side by side.  A mutation's observer follows its latest *)
(* call only: a call that a later one of the same kind overtakes, or whose *)
(* component is unmounted, still reaches the server, and its answer is     *)
(* dropped.  The table is never read again after a change; it shows the    *)
(* rows of the last search with what the page believes it changed on top.  *)
(***************************************************************************)
EXTENDS Integers, FiniteSets

CONSTANTS
  Readers,      \* readers, those not created yet included
  Registered,   \* readers that exist when the page is opened
  PageOf,       \* page of the listing a reader is on, 1 or 2
  FormStatuses, \* statuses staff choose in the form besides the reader's own
  MaxInFlight,  \* bound on the requests under way at one time
  MaxChanges,   \* bound on the changes asked for, here and elsewhere
  Losses,       \* requests or their answers may be lost
  OtherDesks,   \* readers are changed from other desks
  None

Statuses == {"active", "blocked", "inactive"}

ASSUME UsersPageAssumption ==
  /\ Registered \subseteq Readers /\ None \notin Readers
  /\ PageOf \in [Readers -> {1, 2}] /\ FormStatuses \subseteq Statuses
  /\ {MaxInFlight, MaxChanges} \subseteq Nat \ {0} /\ {Losses, OtherDesks} \subseteq BOOLEAN
  /\ LET answers == [ok : BOOLEAN, data : {None} \cup [user : Readers, status : Statuses \cup {"gone"}]]
         calls   == [kind : {"block", "unblock", "delete", "save"}, user : Readers \cup {None},
                     status : Statuses \cup {None}, answer : answers]
     IN  None \notin answers /\ None \notin calls

VARIABLES
  status,      \* server: status of each reader, "unborn" or "gone"
  found,       \* page: rows of the last search, a function, or None
  paged,       \* page: rows of the last change of page, or None
  usePaged,    \* page: which of the two the table shows
  overrides,   \* page: statuses laid over the rows
  created,     \* page: readers saved from the form since the last search
  removed,     \* page: readers taken out of the table
  selected,    \* page: the reader of the details flyout, or None
  confirming,  \* page: the reader of the confirmation dialog, or None
  form,        \* page: what the form was opened on, or None
  asks,        \* latest call of each kind, or None
  strays,      \* calls nobody listens to any more, not served yet
  changes,     \* changes asked for so far (bound)
  unknown      \* readers whose status the page was not told

pageState == <<found, paged, usePaged, overrides, created, removed, selected,
               confirming, form>>
usersVars == <<status, found, paged, usePaged, overrides, created, removed, selected,
               confirming, form, asks, strays, changes, unknown>>

Kinds   == {"search", "paginate", "block", "unblock", "delete", "save"}
Changes == {"block", "unblock", "delete", "save"}
Exists(u) == status[u] \in Statuses
Put(f, u, s) == [x \in DOMAIN f \cup {u} |-> IF x = u THEN s ELSE f[x]]
Nobody == [u \in {} |-> "active"]
Row(u, s) == [user |-> u, status |-> s]
Call(kind, u, s) == [kind |-> kind, user |-> u, status |-> s, answer |-> None]

Flying(kind) == asks[kind] # None
InFlight == Cardinality({k \in Kinds : Flying(k)}) + Cardinality(strays)

-----------------------------------------------------------------------------
(* What the page shows.                                                    *)

GetUsers == IF usePaged /\ paged # None THEN paged ELSE found

Shown == IF GetUsers = None THEN {} ELSE (DOMAIN GetUsers \cup DOMAIN created) \ removed

ShownStatus(u) == IF u \in DOMAIN overrides THEN overrides[u]
                  ELSE IF u \in DOMAIN GetUsers THEN GetUsers[u] ELSE created[u]

StatusChangeUser ==
  LET first == IF Flying("block") THEN "block"
               ELSE IF Flying("unblock") THEN "unblock" ELSE "delete"
  IN  IF Flying(first) THEN asks[first].user ELSE None

\* A dialog and the two flyouts mask the table.
TableReachable == selected = None /\ confirming = None /\ form = None

-----------------------------------------------------------------------------
(* Calls.                                                                  *)

\* The mutation forgets its call under way, if there is one.
Overtaken(kind) == {a \in {asks[kind]} : a # None /\ kind \in Changes}
Drop(kind) ==
  /\ strays'  = strays \cup {a \in Overtaken(kind) : a.answer = None}
  /\ unknown' = unknown \cup {a.answer.data.user :
                    a \in {b \in Overtaken(kind) : b.answer # None /\ b.answer.ok}}

Mutate(call) ==
  /\ InFlight < MaxInFlight
  /\ call.kind \in Changes => changes < MaxChanges
  /\ changes' = changes + (IF call.kind \in Changes THEN 1 ELSE 0)
  /\ asks' = [asks EXCEPT ![call.kind] = call]
  /\ Drop(call.kind)

\* Whoever is not being changed when the search starts is known again.
Changing == {asks[k].user : k \in {c \in Changes : Flying(c)}} \cup {a.user : a \in strays}

\* Seeded fault: the statuses of the last search stay over the new rows.
OnSearchUsersKeepOverrides ==
  /\ TableReachable /\ InFlight < MaxInFlight
  /\ asks' = [asks EXCEPT !["search"] = Call("search", None, None)]
  /\ unknown' = unknown \cap Changing
  /\ found' = None /\ usePaged' = FALSE
  /\ created' = Nobody /\ removed' = {}
  /\ UNCHANGED <<status, paged, overrides, selected, confirming, form, strays, changes>>

OnSearchUsers ==
  /\ TableReachable /\ InFlight < MaxInFlight
  /\ asks' = [asks EXCEPT !["search"] = Call("search", None, None)]
  /\ unknown' = unknown \cap Changing
  /\ found' = None /\ usePaged' = FALSE
  /\ overrides' = Nobody /\ created' = Nobody /\ removed' = {}
  /\ UNCHANGED <<status, paged, selected, confirming, form, strays, changes>>

OnPaginateUsers(n) ==
  /\ TableReachable /\ GetUsers # None
  /\ found # None /\ (usePaged => paged # None)     \* else no pagination is drawn
  /\ Mutate(Call("paginate", None, n))
  /\ paged' = None /\ usePaged' = TRUE
  /\ UNCHANGED <<status, found, overrides, created, removed, selected, confirming, form>>

Actionable(u) == TableReachable /\ u \in Shown /\ StatusChangeUser # u

OnBlockUser(u) ==
  /\ Actionable(u) /\ ShownStatus(u) # "blocked"
  /\ Mutate(Call("block", u, None))
  /\ UNCHANGED <<status, pageState>>

OnUnblockUser(u) ==
  /\ Actionable(u) /\ ShownStatus(u) = "blocked"
  /\ Mutate(Call("unblock", u, None))
  /\ UNCHANGED <<status, pageState>>

OnDeactivateOrDeleteUser(u) ==
  /\ Actionable(u)
  /\ confirming' = Row(u, ShownStatus(u))
  /\ UNCHANGED <<status, found, paged, usePaged, overrides, created, removed, selected,
                 form, asks, strays, changes, unknown>>

OnCancelDelete ==
  /\ confirming # None
  /\ confirming' = None
  /\ UNCHANGED <<status, found, paged, usePaged, overrides, created, removed, selected,
                 form, asks, strays, changes, unknown>>

OnConfirmDeactivateOrDeleteUser ==
  /\ confirming # None /\ ~Flying("delete")
  /\ Mutate(Call("delete", confirming.user, confirming.status))
  /\ UNCHANGED <<status, pageState>>

Look(row) ==
  /\ selected' = row
  /\ UNCHANGED <<status, found, paged, usePaged, overrides, created, removed,
                 confirming, form, asks, strays, changes, unknown>>

\* Opened from the table, moved along the rows, or closed.
OnDetails ==
  \/ \E u \in Shown : (TableReachable \/ selected # None) /\ Look(Row(u, ShownStatus(u)))
  \/ selected # None /\ Look(None)

OpenForm(row) ==
  /\ form' = row /\ selected' = None
  /\ UNCHANGED <<status, found, paged, usePaged, overrides, created, removed,
                 confirming, asks, strays, changes, unknown>>

OnEditUserClick ==
  \/ \E u \in Shown : TableReachable /\ OpenForm(Row(u, ShownStatus(u)))
  \/ selected # None /\ form = None /\ confirming = None /\ OpenForm(selected)

OnCreateUserClick == TableReachable /\ OpenForm(Row(None, "active"))

\* Closing the form unmounts it: a save under way is not listened to any more.
OnCloseUserForm ==
  /\ form # None
  /\ form' = None
  /\ Drop("save") /\ asks' = [asks EXCEPT !["save"] = None]
  /\ UNCHANGED <<status, found, paged, usePaged, overrides, created, removed, selected,
                 confirming, changes>>

SubmitForm ==
  /\ form # None /\ ~Flying("save")
  /\ \E s \in FormStatuses \cup {form.status}, u \in {form.user, None} :
       Mutate(Call("save", u, s))
  /\ UNCHANGED <<status, pageState>>

-----------------------------------------------------------------------------
(* The handlers of circulation.user.                                       *)

\* Status updates report success even when no row has the reader's id.
StatusAfter(call) ==
  LET now == status[call.user] IN
  IF ~Exists(call.user) THEN now
  ELSE CASE call.kind = "block"   -> "blocked"
         [] call.kind = "unblock" -> "active"
         [] call.kind = "save"    -> call.status
         [] call.kind = "delete"  -> IF now = "inactive" THEN "gone" ELSE "inactive"

Accepted(call) == Exists(call.user) \/ call.kind \in {"block", "unblock"}

\* Saving with no id inserts a reader.
TargetOf(call) ==
  IF call.kind = "save" /\ call.user = None THEN {u \in Readers : status[u] = "unborn"}
  ELSE {call.user}

\* Another change of the same reader is under way: the two may cross.
Crossing(call) ==
  {a \in {asks[k] : k \in Changes} \cup strays : a # None /\ a # call /\ a.user = call.user}

Perform(call, u) ==
  /\ status' = [status EXCEPT ![u] =
                  IF call.user = None THEN call.status ELSE StatusAfter(call)]
  /\ unknown' = IF \/ call \in strays \/ Crossing(call) # {}
                   \/ call.kind = "save" /\ status'[u] # status[u] /\ status[u] # "unborn"
                   \/ call.kind = "delete" /\ (call.status = "inactive") # (status'[u] = "gone")
                THEN unknown \cup {u} ELSE unknown

Answer(kind, ok, data) == asks' = [asks EXCEPT ![kind].answer = [ok |-> ok, data |-> data]]

\* A search lists inactive readers only when it is an advanced one.
ServeList(kind) ==
  LET listed == {u \in Readers : Exists(u) /\ PageOf[u] = IF kind = "search" THEN 1
                                                        ELSE asks[kind].status}
  IN  /\ \E rows \in {listed, {u \in listed : status[u] # "inactive"}} :
           Answer(kind, TRUE, [u \in rows |-> status[u]])
      /\ UNCHANGED <<status, strays, unknown>>

ServeChange(kind) ==
  LET call == asks[kind] IN
  /\ IF call.user # None /\ ~Accepted(call)
     THEN Answer(kind, FALSE, None) /\ UNCHANGED <<status, unknown>>
     ELSE \E u \in TargetOf(call) :
            Perform(call, u) /\ Answer(kind, TRUE, Row(u, status'[u]))
  /\ UNCHANGED strays

Serve(kind) ==
  /\ Flying(kind) /\ asks[kind].answer = None
  /\ IF kind \in Changes THEN ServeChange(kind) ELSE ServeList(kind)
  /\ UNCHANGED <<pageState, changes>>

ServeStray(call) ==
  /\ \E u \in TargetOf(call) : Perform(call, u)
  /\ strays' = strays \ {call}
  /\ UNCHANGED <<pageState, asks, changes>>

-----------------------------------------------------------------------------
(* Answers.                                                                *)

ApplyUserStatusChange(u, s) ==
  /\ overrides' = Put(overrides, u, s)
  /\ selected' = IF selected # None /\ selected.user = u THEN Row(u, s) ELSE selected
  /\ UNCHANGED removed

NothingApplied == UNCHANGED <<overrides, selected, removed>>

ReceiveList(kind, answer) ==
  /\ IF kind = "search" THEN found' = answer.data /\ UNCHANGED paged
                        ELSE paged' = answer.data /\ UNCHANGED found
  /\ NothingApplied /\ UNCHANGED <<created, confirming, form>>

ReceiveStatus(kind, answer) ==
  /\ IF answer.ok
     THEN ApplyUserStatusChange(asks[kind].user, IF kind = "block" THEN "blocked" ELSE "active")
     ELSE NothingApplied
  /\ UNCHANGED <<found, paged, created, confirming, form>>

\* What the confirmation said decides what is shown.
ReceiveDelete(answer) ==
  LET u == asks["delete"].user IN
  /\ confirming' = None
  /\ IF ~answer.ok THEN NothingApplied
     ELSE IF asks["delete"].status = "inactive"
     THEN /\ removed' = removed \cup {u}
          /\ selected' = IF selected # None /\ selected.user = u THEN None ELSE selected
          /\ UNCHANGED overrides
     ELSE ApplyUserStatusChange(u, "inactive")
  /\ UNCHANGED <<found, paged, created, form>>

\* Seeded fault: a new reader is listed under the blank id the form was opened on.
OnUserSavedAsEdited(answer) ==
  /\ IF answer.ok
     THEN /\ created' = Put(created, asks["save"].user, answer.data.status)
          /\ selected' = answer.data /\ form' = None
     ELSE UNCHANGED <<created, selected, form>>
  /\ UNCHANGED <<found, paged, confirming, overrides, removed>>

OnUserSaved(answer) ==
  /\ IF answer.ok
     THEN /\ created' = Put(created, answer.data.user, answer.data.status)
          /\ selected' = answer.data /\ form' = None
     ELSE UNCHANGED <<created, selected, form>>
  /\ UNCHANGED <<found, paged, confirming, overrides, removed>>

Receive(kind) ==
  /\ Flying(kind) /\ asks[kind].answer # None
  /\ asks' = [asks EXCEPT ![kind] = None]
  /\ LET answer == asks[kind].answer IN
     CASE kind \in {"search", "paginate"} -> ReceiveList(kind, answer)
       [] kind \in {"block", "unblock"}   -> ReceiveStatus(kind, answer)
       [] kind = "delete"                 -> ReceiveDelete(answer)
       [] kind = "save"                   -> OnUserSaved(answer)
  /\ UNCHANGED <<status, usePaged, strays, changes, unknown>>

\* A request that fails on its way, or whose answer does: only delete has an onError.
Fail(kind) ==
  /\ Losses /\ Flying(kind)
  /\ asks' = [asks EXCEPT ![kind] = None]
  /\ confirming' = IF kind = "delete" THEN None ELSE confirming
  /\ unknown' = IF kind \in Changes /\ asks[kind].answer # None
                   /\ asks[kind].answer.ok
                THEN unknown \cup {asks[kind].answer.data.user} ELSE unknown
  /\ UNCHANGED <<status, found, paged, usePaged, overrides, created, removed, selected,
                 form, strays, changes>>

Elsewhere ==
  /\ OtherDesks /\ changes < MaxChanges
  /\ changes' = changes + 1
  /\ \E u \in Readers, s \in Statuses :
       /\ Exists(u) /\ s # status[u]
       /\ status' = [status EXCEPT ![u] = s]
       /\ unknown' = unknown \cup {u}
  /\ UNCHANGED <<pageState, asks, strays>>

-----------------------------------------------------------------------------
UsersInit ==
  /\ status \in [Readers -> Statuses \cup {"unborn"}]
  /\ \A u \in Readers : u \in Registered <=> Exists(u)
  /\ found = None /\ paged = None /\ usePaged = FALSE
  /\ overrides = Nobody /\ created = Nobody /\ removed = {}
  /\ selected = None /\ confirming = None /\ form = None
  /\ asks = [k \in Kinds |-> None] /\ strays = {} /\ changes = 0 /\ unknown = {}

UsersStaff ==
  \/ OnSearchUsers \/ \E n \in {PageOf[u] : u \in Readers} : OnPaginateUsers(n)
  \/ \E u \in Readers : OnBlockUser(u) \/ OnUnblockUser(u) \/ OnDeactivateOrDeleteUser(u)
  \/ OnCancelDelete \/ OnConfirmDeactivateOrDeleteUser
  \/ OnDetails \/ OnEditUserClick \/ OnCreateUserClick \/ OnCloseUserForm \/ SubmitForm

UsersNext ==
  \/ UsersStaff \/ Elsewhere
  \/ \E k \in Kinds : Serve(k) \/ Receive(k) \/ Fail(k)
  \/ \E call \in strays : ServeStray(call)

UsersSpec == UsersInit /\ [][UsersNext]_usersVars

-----------------------------------------------------------------------------
(* Properties.                                                             *)

\* The state of the hook: rows, dialogs and calls are of readers of the library.
UsersTypeOK ==
  /\ status \in [Readers -> Statuses \cup {"unborn", "gone"}]
  /\ DOMAIN overrides \cup DOMAIN created \cup removed \cup unknown \subseteq Readers
  /\ \A u \in Shown : ShownStatus(u) \in Statuses
  /\ \A row \in {selected, confirming} \ {None} : row \in [user : Readers, status : Statuses]
  /\ \A k \in Kinds : Flying(k) => asks[k].kind = k
  /\ \A call \in strays : call.kind \in Changes /\ call.answer = None

\* The readers whose change is answered and not yet shown.
BeingTold(u) == \E k \in Changes : /\ Flying(k) /\ asks[k].answer # None
                                   /\ asks[k].answer.ok /\ asks[k].answer.data.user = u

\* The table and the details show the status a reader really has, and drop
\* no reader that still exists, except for a reader whose change the page was
\* not told of: overtaken, lost, crossed by another one, made elsewhere or by
\* the form (usersWithStatusOverrides, applyUserStatusChange).
ShownStatusTrue ==
  \A u \in Readers \ unknown : ~BeingTold(u) =>
    /\ u \in Shown => ShownStatus(u) = status[u]
    /\ selected # None /\ selected.user = u => selected.status = status[u]
    /\ u \in removed => status[u] = "gone"

\* A reader is deleted for ever only when the dialog staff answered said so;
\* "mark as inactive" never does (CirculationUserDeleteConfirmModal).
DeletedKnowingly ==
  [][\A u \in Readers : status[u] # "gone" /\ status'[u] = "gone" =>
       \E call \in {asks["delete"]} \cup strays :
         call # None /\ call.kind = "delete" /\ call.user = u /\ call.status = "inactive"]_usersVars
=============================================================================
