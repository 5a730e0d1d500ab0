----------------------------- MODULE AccessControl -----------------------------
(***************************************************************************)
(* Access cards: a reader who enters takes a card, and gives it back when  *)
(* leaving (biblivre.circulation.accesscontrol), while administrators      *)
(* block, cancel and delete cards (biblivre.administration.accesscards).   *)
(*                                                                         *)
(* The status of a card and the visit it is on are two tables that the     *)
(* handlers write in two auto-committed statements; nothing else ties      *)
(* them.  A request is a process, one action per statement.                *)
(***************************************************************************)
EXTENDS Integers, FiniteSets

CONSTANTS
  Cards, Users, Requests,
  MaxVisits,    \* bound on rows of access_control
  CreateAs,     \* statuses a card is created with: the form lists all of them
  AdminMoves,   \* status changes administrators make, as pairs <<from, to>>
  QuietAdmin,   \* administrators act only while no card is being bound or unbound
  OneDesk,      \* no two requests at once are for one card or for one reader
  FreshPages,   \* the pages that requests come from show the current tables
  Failures,     \* a request may die between two statements
  NoRow, None

Held     == {"IN_USE", "IN_USE_AND_BLOCKED"}
Blocked  == {"BLOCKED", "IN_USE_AND_BLOCKED"}
Statuses == {"AVAILABLE", "CANCELLED"} \cup Held \cup Blocked

\* The buttons of the card page.  A page that shows an old status sends a pair
\* whose first member is not the one shown: the handler never compares.
BlockMoves    == {<<"AVAILABLE", "BLOCKED">>, <<"IN_USE", "IN_USE_AND_BLOCKED">>}
UnblockMoves  == {<<"BLOCKED", "AVAILABLE">>, <<"IN_USE_AND_BLOCKED", "IN_USE">>}
CancelMoves   == (Statuses \ {"CANCELLED"}) \X {"CANCELLED"}
UncancelMoves == {<<"CANCELLED", "AVAILABLE">>}

VisitIds == 1 .. MaxVisits
Visit    == [card : Cards, user : Users, left : BOOLEAN]
Job      == [card : Cards \cup {None}, user : Users \cup {None}, visit : 0 .. MaxVisits]
Labels   == {"idle", "bind.card", "bind.user", "bind.update", "bind.insert",
             "unbind.card", "unbind.user", "unbind.update", "unbind.close",
             "walkout", "remove.cancel", "remove.delete"}

Binding  == {"bind.card", "bind.user", "bind.update", "bind.insert"}

ASSUME CardAssumption ==
  /\ MaxVisits \in Nat /\ NoRow \notin Visit /\ NoRow \notin Statuses
  /\ CreateAs \subseteq Statuses /\ AdminMoves \subseteq Statuses \X Statuses
  /\ {QuietAdmin, OneDesk, FreshPages, Failures} \subseteq BOOLEAN

VARIABLES
  cards,    \* access_cards.status by card, NoRow before the card exists and once deleted
  deleted,  \* cards that were deleted: their id is not used again
  visits,   \* table access_control
  nextVisit,
  pc, job   \* per request: its next statement, and what it has read

tables == <<cards, deleted, visits, nextVisit>>
vars   == <<cards, deleted, visits, nextVisit, pc, job>>

Exists(c)  == cards[c] # NoRow
Inside(v)  == visits[v] # NoRow /\ ~visits[v].left
VisitsOn(c) == {v \in VisitIds : Inside(v) /\ visits[v].card = c}
VisitsBy(u) == {v \in VisitIds : Inside(v) /\ visits[v].user = u}
Quiet == \A r \in Requests : pc[r] = "idle"

\* r is idle and may take up card c and reader u.
MayStart(r, c, u) ==
  /\ pc[r] = "idle"
  /\ OneDesk => \A q \in Requests :
       pc[q] # "idle" => job[q].card # c /\ job[q].user # u

NoJob == [card |-> None, user |-> None, visit |-> 0]
Run(r, step, j) == pc' = [pc EXCEPT ![r] = step] /\ job' = [job EXCEPT ![r] = j]
Goto(r, step)   == Run(r, step, job[r])
Finish(r)       == Run(r, "idle", NoJob)

\* UPDATE access_cards SET status = ? WHERE id = ?: no row, no effect.
SetStatus(c, s) == cards' = IF Exists(c) THEN [cards EXCEPT ![c] = s] ELSE cards

-----------------------------------------------------------------------------
(* Binding a card to a reader who enters (lendCard).                       *)

\* Seeded fault: the status of the card is not tested.
BindAnyCard(r, c, u) ==
  /\ MayStart(r, c, u) /\ Exists(c)
  /\ Run(r, "bind.card", [NoJob EXCEPT !.card = c, !.user = u])
  /\ UNCHANGED tables

BindStart(r, c, u) ==
  /\ MayStart(r, c, u) /\ cards[c] = "AVAILABLE"
  /\ Run(r, "bind.card", [NoJob EXCEPT !.card = c, !.user = u])
  /\ UNCHANGED tables

BindCheckCard(r) ==
  /\ pc[r] = "bind.card"
  /\ IF VisitsOn(job[r].card) = {} THEN Goto(r, "bind.user") ELSE Finish(r)
  /\ UNCHANGED tables

\* Seeded fault: the reader may have a card.
BindSecondCard(r) ==
  /\ pc[r] = "bind.user"
  /\ Goto(r, "bind.update")
  /\ UNCHANGED tables

BindCheckUser(r) ==
  /\ pc[r] = "bind.user"
  /\ IF VisitsBy(job[r].user) = {} THEN Goto(r, "bind.update") ELSE Finish(r)
  /\ UNCHANGED tables

BindUpdate(r) ==
  /\ pc[r] = "bind.update"
  /\ SetStatus(job[r].card, "IN_USE")
  /\ Goto(r, "bind.insert")
  /\ UNCHANGED <<deleted, visits, nextVisit>>

\* The foreign key rejects the visit of a card deleted meanwhile.
BindInsert(r) ==
  /\ pc[r] = "bind.insert"
  /\ IF Exists(job[r].card)
     THEN /\ nextVisit \in VisitIds
          /\ visits' = [visits EXCEPT ![nextVisit] =
                          [card |-> job[r].card, user |-> job[r].user, left |-> FALSE]]
          /\ nextVisit' = nextVisit + 1
     ELSE UNCHANGED <<visits, nextVisit>>
  /\ Finish(r)
  /\ UNCHANGED <<cards, deleted>>

-----------------------------------------------------------------------------
(* Unbinding (returnCard).  The page offers it for a card in use, and names *)
(* the reader it is with.  Failing a visit of the card, the reader's is     *)
(* closed, and the card of that visit freed.                                *)

UnbindStart(r, c, u) ==
  /\ MayStart(r, c, u) /\ cards[c] \notin {NoRow, "AVAILABLE"}
  /\ FreshPages => cards[c] = "IN_USE" /\ \E v \in VisitsOn(c) : visits[v].user = u
  /\ Run(r, "unbind.card", [NoJob EXCEPT !.card = c, !.user = u])
  /\ UNCHANGED tables

Found(r, v) == Run(r, "unbind.update", [job[r] EXCEPT !.visit = v, !.card = visits[v].card])

UnbindFindByCard(r) ==
  /\ pc[r] = "unbind.card"
  /\ \/ VisitsOn(job[r].card) = {} /\ Goto(r, "unbind.user")
     \/ \E v \in VisitsOn(job[r].card) : Found(r, v)
  /\ UNCHANGED tables

UnbindFindByUser(r) ==
  /\ pc[r] = "unbind.user"
  /\ \/ VisitsBy(job[r].user) = {} /\ Finish(r)
     \/ \E v \in VisitsBy(job[r].user) : Found(r, v)
  /\ UNCHANGED tables

\* Seeded fault: the visit stays open.
UnbindCardOnly(r) ==
  /\ pc[r] = "unbind.update"
  /\ SetStatus(job[r].card, "AVAILABLE")
  /\ Finish(r)
  /\ UNCHANGED <<deleted, visits, nextVisit>>

UnbindUpdate(r) ==
  /\ pc[r] = "unbind.update"
  /\ SetStatus(job[r].card, "AVAILABLE")
  /\ IF Exists(job[r].card) THEN Goto(r, "unbind.close") ELSE Finish(r)
  /\ UNCHANGED <<deleted, visits, nextVisit>>

UnbindClose(r) ==
  /\ pc[r] = "unbind.close"
  /\ LET v == job[r].visit
     IN  visits' = IF visits[v] # NoRow THEN [visits EXCEPT ![v].left = TRUE] ELSE visits
  /\ Finish(r)
  /\ UNCHANGED <<cards, deleted, nextVisit>>

\* A reader left with the card: unbind without a card id.  No visit is looked
\* up for card 0, so nothing is updated.
WalkoutStart(r, u) ==
  /\ MayStart(r, None, u) /\ VisitsBy(u) # {}
  /\ Run(r, "walkout", [NoJob EXCEPT !.user = u])
  /\ UNCHANGED tables

WalkoutEnd(r) ==
  /\ pc[r] = "walkout"
  /\ Finish(r)
  /\ UNCHANGED tables

-----------------------------------------------------------------------------
(* The administrator's card page.                                          *)

MayAdminister == QuietAdmin => Quiet

Create(c, s) ==
  /\ MayAdminister
  /\ cards[c] = NoRow /\ c \notin deleted
  /\ cards' = [cards EXCEPT ![c] = s]
  /\ UNCHANGED <<deleted, visits, nextVisit, pc, job>>

ChangeStatus(c, s) ==
  /\ MayAdminister
  /\ <<cards[c], s>> \in AdminMoves
  /\ SetStatus(c, s)
  /\ UNCHANGED <<deleted, visits, nextVisit, pc, job>>

\* removeCard: delete a cancelled card, cancel any other.  The page offers it
\* for cancelled cards.
RemoveStart(r, c) ==
  /\ MayAdminister
  /\ pc[r] = "idle" /\ Exists(c)
  /\ FreshPages => cards[c] = "CANCELLED"
  /\ Run(r, IF cards[c] = "CANCELLED" THEN "remove.delete" ELSE "remove.cancel",
          [NoJob EXCEPT !.card = c])
  /\ UNCHANGED tables

RemoveCancel(r) ==
  /\ pc[r] = "remove.cancel"
  /\ SetStatus(job[r].card, "CANCELLED")
  /\ Finish(r)
  /\ UNCHANGED <<deleted, visits, nextVisit>>

\* Seeded fault: no ON DELETE CASCADE.
RemoveKeepVisits(r) ==
  /\ pc[r] = "remove.delete"
  /\ cards' = [cards EXCEPT ![job[r].card] = NoRow]
  /\ deleted' = deleted \cup {job[r].card}
  /\ Finish(r)
  /\ UNCHANGED <<visits, nextVisit>>

\* The visits of the card go with it (ON DELETE CASCADE).
RemoveDelete(r) ==
  /\ pc[r] = "remove.delete"
  /\ LET c == job[r].card
     IN  /\ cards' = [cards EXCEPT ![c] = NoRow]
         /\ deleted' = deleted \cup {c}
         /\ visits' = [v \in VisitIds |->
                         IF visits[v] # NoRow /\ visits[v].card = c THEN NoRow ELSE visits[v]]
  /\ Finish(r)
  /\ UNCHANGED nextVisit

Fail(r) ==
  /\ Failures /\ pc[r] # "idle"
  /\ Finish(r)
  /\ UNCHANGED tables

-----------------------------------------------------------------------------
Init ==
  /\ cards = [c \in Cards |-> NoRow] /\ deleted = {}
  /\ visits = [v \in VisitIds |-> NoRow] /\ nextVisit = 1
  /\ pc = [r \in Requests |-> "idle"] /\ job = [r \in Requests |-> NoJob]

Start(r) ==
  \/ \E c \in Cards, u \in Users : BindStart(r, c, u) \/ UnbindStart(r, c, u)
  \/ \E u \in Users : WalkoutStart(r, u)
  \/ \E c \in Cards : RemoveStart(r, c)

Step(r) ==
  \/ BindCheckCard(r) \/ BindCheckUser(r) \/ BindUpdate(r) \/ BindInsert(r)
  \/ UnbindFindByCard(r) \/ UnbindFindByUser(r) \/ UnbindUpdate(r) \/ UnbindClose(r)
  \/ WalkoutEnd(r) \/ RemoveCancel(r) \/ RemoveDelete(r)

Next ==
  \/ \E r \in Requests : Start(r) \/ Step(r) \/ Fail(r)
  \/ \E c \in Cards : (\E s \in CreateAs : Create(c, s)) \/ \E s \in Statuses : ChangeStatus(c, s)

Spec == Init /\ [][Next]_vars

-----------------------------------------------------------------------------
\* Cards have a known status, requests remember cards, readers and visits, a
\* visit row is one whose id the sequence has given out, and its card exists.
TypeOK ==
  /\ cards \in [Cards -> Statuses \cup {NoRow}] /\ deleted \subseteq Cards
  /\ visits \in [VisitIds -> Visit \cup {NoRow}]
  /\ nextVisit \in 1 .. MaxVisits + 1
  /\ pc \in [Requests -> Labels] /\ job \in [Requests -> Job]
  /\ \A r \in Requests :
       /\ pc[r] \notin {"idle", "walkout"} => job[r].card \in Cards
       /\ pc[r] \in Binding => job[r].user \in Users
  /\ \A v \in VisitIds : visits[v] # NoRow => v < nextVisit /\ Exists(visits[v].card)

\* A card is with one reader at a time and a reader has one card at a time
\* (lendCard's card_in_use and user_has_card), whatever administrators do to
\* cards meanwhile and wherever a request dies.
OneHolder ==
  \A v, w \in VisitIds :
    Inside(v) /\ Inside(w) /\ (visits[v].card = visits[w].card \/ visits[v].user = visits[w].user)
      => v = w

\* Why OneHolder is kept when no two requests are for one card or one reader:
\* what a bind has checked in the visits stays true until it inserts its own.
HolderInv ==
  /\ OneHolder
  /\ \A r \in Requests :
       /\ pc[r] \in Binding \ {"bind.card"} => VisitsOn(job[r].card) = {}
       /\ pc[r] \in {"bind.update", "bind.insert"} => VisitsBy(job[r].user) = {}
  /\ \A q, r \in Requests :
       q # r /\ pc[q] \in Binding /\ pc[r] \in Binding =>
         job[q].card # job[r].card /\ job[q].user # job[r].user

\* Between requests the two tables that lendCard and returnCard write one after
\* the other agree: a card shown in use has a visit that can be closed, and the
\* card of an open visit is not offered to anyone else.
CardMatchesVisit ==
  Quiet => \A c \in Cards :
    /\ cards[c] \in Held => VisitsOn(c) # {}
    /\ cards[c] \in {"AVAILABLE", "BLOCKED"} => VisitsOn(c) = {}

\* A request for a card (lendCard, returnCard) never lifts the block that an
\* administrator put on one.
BlockKept ==
  [][\A c \in Cards : cards[c] \in Blocked /\ pc' # pc => cards'[c] = cards[c]]_vars

\* When a reader left without returning the card, it is blocked (returnCard).
WalkoutBlocksCard ==
  [][\A r \in Requests : pc[r] = "walkout" /\ pc'[r] = "idle" =>
       \A v \in VisitsBy(job[r].user) : cards'[visits[v].card] = "IN_USE_AND_BLOCKED"]_vars

=============================================================================
