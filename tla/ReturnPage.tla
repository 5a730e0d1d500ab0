------------------------------- MODULE ReturnPage -------------------------------
(***************************************************************************)
(* The Return page of the single-page front end (circulation/return): the  *)
(* hook useCirculationReturn, its panels, and the requests they send.      *)
(*                                                                         *)
(* Every control of the page is disabled while a request is in flight, so  *)
(* a page has one request at a time: sent, served, and received or lost.   *)
(* The server serves a request in one step here; Circulation interleaves   *)
(* its statements.  Other desks work on the same lendings meanwhile.       *)
(***************************************************************************)
EXTENDS Integers, FiniteSets

CONSTANTS
  Copies,      \* holdings
  Lendings,    \* ids of lendings, in the order they are made
  CopyOf,      \* the holding of each lending
  Late,        \* lendings that are late when they are returned
  LateFee,     \* what a late lending is charged
  NewValues,   \* amounts staff type in to adjust a fine
  Queries,     \* what is typed or scanned into the search field
  Accession,   \* accession number of each copy, a query
  HoldingId,   \* id of each copy, a query
  Hits,        \* copies the server finds for a query
  NoFine, Nothing

Fines    == [value : Nat, paid : BOOLEAN]
Replies  == [ok : BOOLEAN, data : Fines \cup {NoFine}]
LoanOps  == {"return", "undo", "pay", "exempt", "adjust"}

ASSUME ReturnPageAssumption ==
  /\ Lendings \subseteq Nat \ {0} /\ Late \subseteq Lendings
  /\ CopyOf \in [Lendings -> Copies]
  /\ LateFee \in Nat \ {0} /\ NewValues \subseteq Nat
  /\ Accession \in [Copies -> Queries] /\ HoldingId \in [Copies -> Queries]
  /\ Hits \in [Queries -> SUBSET Copies]
  /\ NoFine \notin Fines /\ Nothing \notin Replies /\ Nothing \notin Lendings
  /\ Nothing \notin [op : LoanOps, id : Lendings, value : Nat,
                     answer : Replies \cup {Nothing}]

VARIABLES
  loan,        \* server: "none", "open" or "returned", by lending
  undoable,    \* server: lendings whose undo window is not over
  fine,        \* server: the fine of each lending
  results,     \* page: lendings whose card has a return button
  slip,        \* page: how often each lending is on the return slip
  last,        \* page: the last return, or Nothing
  adjusting,   \* page: the lending whose fine is being edited, or 0
  offered,     \* page: the panel rendered last shows the undo button
  pending,     \* the request in flight, or Nothing
  untold       \* lendings changed behind the page's back since it returned them

serverVars  == <<loan, undoable, fine>>
pageVars    == <<results, slip, last, adjusting, offered>>
returnVars  == <<loan, undoable, fine, results, slip, last, adjusting, offered,
                 pending, untold>>

LastReturns == [lending : Lendings, fine : Fines \cup {NoFine}]
Request(op, id, value) == [op |-> op, id |-> id, value |-> value, answer |-> Nothing]
Answered(answer) == pending' = [pending EXCEPT !.answer = answer]
NoSlip == [i \in Lendings |-> 0]

OpenOnCopy(c) == {i \in Lendings : CopyOf[i] = c /\ loan[i] = "open"}

-----------------------------------------------------------------------------
(* The page's handlers, up to the request.                                 *)

Busy == pending # Nothing

\* Computed when the page is rendered, which no timer does.
UndoStillAvailable == last # Nothing /\ last.lending \in undoable
Render == offered' = UndoStillAvailable'

Submit(request) ==
  /\ ~Busy
  /\ pending' = request
  /\ UNCHANGED <<serverVars, results, slip, last, adjusting, untold>> /\ Render

OnSearch(q) == Submit(Request("search", q, 0))

OnReturn(i) == i \in results /\ Submit(Request("return", i, 0))

OnUndo == offered /\ Submit(Request("undo", last.lending, 0))

UnpaidFine == last # Nothing /\ last.fine # NoFine /\ ~last.fine.paid

OnPayFine(exempt) ==
  UnpaidFine /\ Submit(Request(IF exempt THEN "exempt" ELSE "pay", last.lending, 0))

EditFine ==
  /\ ~Busy /\ UnpaidFine
  /\ adjusting' = last.lending
  /\ UNCHANGED <<serverVars, results, slip, last, pending, untold>> /\ Render

OnAdjustFine(v) ==
  /\ UnpaidFine /\ adjusting = last.lending
  /\ Submit(Request("adjust", last.lending, v))

OnPrintSlip == slip # NoSlip /\ Submit(Request("print", 0, 0))

OnClearSlip ==
  /\ ~Busy /\ slip # NoSlip
  /\ slip' = NoSlip
  /\ UNCHANGED <<serverVars, results, last, adjusting, pending, untold>> /\ Render

\* Any other key stroke renders the page again.
Type ==
  /\ ~Busy /\ offered # UndoStillAvailable
  /\ UNCHANGED <<serverVars, results, slip, last, adjusting, pending, untold>> /\ Render

-----------------------------------------------------------------------------
(* The server.                                                             *)

CloseLending(i) ==
  /\ loan[i] = "open"
  /\ loan' = [loan EXCEPT ![i] = "returned"]
  /\ undoable' = undoable \cup {i}
  /\ fine' = [fine EXCEPT ![i] = IF i \in Late THEN [value |-> LateFee, paid |-> FALSE]
                                               ELSE NoFine]

\* Seeded fault: the copy may be lent again by now.
MayReopenLent(i) ==
  /\ loan[i] = "returned"
  /\ i \in undoable
  /\ fine[i] # NoFine => ~fine[i].paid /\ fine[i].value = LateFee

MayReopen(i) ==
  /\ loan[i] = "returned"
  /\ i \in undoable
  /\ OpenOnCopy(CopyOf[i]) = {}
  /\ fine[i] # NoFine => ~fine[i].paid /\ fine[i].value = LateFee

\* Seeded fault: the lending is open again and still counts as just returned.
ReopenInWindow(i) ==
  /\ MayReopen(i)
  /\ loan' = [loan EXCEPT ![i] = "open"]
  /\ fine' = [fine EXCEPT ![i] = NoFine]
  /\ UNCHANGED undoable

Reopen(i) ==
  /\ MayReopen(i)
  /\ loan' = [loan EXCEPT ![i] = "open"]
  /\ fine' = [fine EXCEPT ![i] = NoFine]
  /\ undoable' = undoable \ {i}

Pay(i, exempt) ==
  /\ fine[i] # NoFine
  /\ fine' = [fine EXCEPT ![i] = [value |-> IF exempt THEN 0 ELSE @.value, paid |-> TRUE]]
  /\ UNCHANGED <<loan, undoable>>

Adjust(i, v) ==
  /\ fine[i] # NoFine /\ ~fine[i].paid
  /\ fine' = [fine EXCEPT ![i].value = v]
  /\ UNCHANGED <<loan, undoable>>

EffectOf(request) ==
  LET i == request.id IN
  CASE request.op = "return" -> CloseLending(i)
    [] request.op = "undo"   -> Reopen(i)
    [] request.op = "pay"    -> Pay(i, FALSE)
    [] request.op = "exempt" -> Pay(i, TRUE)
    [] request.op = "adjust" -> Adjust(i, request.value)

\* What refuses each request: the guards of the handlers above.
Accepts(request) ==
  LET i == request.id IN
  CASE request.op = "return" -> loan[i] = "open"
    [] request.op = "undo"   -> MayReopen(i)
    [] request.op \in {"pay", "exempt"} -> fine[i] # NoFine
    [] request.op = "adjust" -> fine[i] # NoFine /\ ~fine[i].paid

Found(q) == [c \in Hits[q] |-> OpenOnCopy(c)]

ServeRequest ==
  /\ Busy /\ pending.answer = Nothing
  /\ CASE pending.op = "search" ->
            /\ Answered([ok |-> Hits[pending.id] # {}, data |-> Found(pending.id)])
            /\ UNCHANGED serverVars
       [] pending.op = "print" ->
            Answered([ok |-> TRUE, data |-> NoFine]) /\ UNCHANGED serverVars
       [] OTHER ->
            IF Accepts(pending)
            THEN /\ EffectOf(pending)
                 /\ Answered([ok |-> TRUE, data |-> fine'[pending.id]])
            ELSE /\ Answered([ok |-> FALSE, data |-> NoFine])
                 /\ UNCHANGED serverVars
  /\ untold' = IF pending.op = "return" /\ Accepts(pending) THEN untold \ {pending.id}
               ELSE untold
  /\ UNCHANGED pageVars

-----------------------------------------------------------------------------
(* The page's handlers, from the answer on.                                *)

\* Only an accession number, or a holding id, that names one copy of the result.
UniqueHolding(q, found) ==
  LET byAccession == {c \in DOMAIN found : Accession[c] = q}
      byId        == {c \in DOMAIN found : HoldingId[c] = q}
  IN  IF Cardinality(byAccession) = 1 THEN byAccession
      ELSE IF Cardinality(byId) = 1 THEN byId ELSE {}

ReceiveSearch ==
  LET answer == pending.answer
      scanned == UNION {answer.data[c] : c \in UniqueHolding(pending.id, answer.data)}
  IN  /\ pending.op = "search"
      /\ results' = UNION {answer.data[c] : c \in DOMAIN answer.data}
      /\ IF scanned = {} THEN pending' = Nothing
         ELSE \E i \in scanned : pending' = Request("return", i, 0)
      /\ UNCHANGED <<slip, last, adjusting, untold>>

\* Seeded fault: the controls stay disabled after a refusal.
RefusedBusy ==
  /\ pending.op # "search" /\ ~pending.answer.ok
  /\ UNCHANGED <<pending, results, slip, last, adjusting, untold>>

Refused ==
  /\ pending.op # "search" /\ ~pending.answer.ok
  /\ pending' = Nothing
  /\ UNCHANGED <<results, slip, last, adjusting, untold>>

ReceiveReturn ==
  /\ pending.op = "return" /\ pending.answer.ok
  /\ last' = [lending |-> pending.id, fine |-> pending.answer.data]
  /\ slip' = [slip EXCEPT ![pending.id] = 1]
  /\ results' = {}
  /\ pending' = Nothing
  /\ UNCHANGED <<adjusting, untold>>

\* Seeded fault: an undone return stays on the slip.
ReceiveUndoOnSlip ==
  /\ pending.op = "undo" /\ pending.answer.ok
  /\ last' = Nothing
  /\ pending' = Nothing
  /\ UNCHANGED <<results, slip, adjusting, untold>>

ReceiveUndo ==
  /\ pending.op = "undo" /\ pending.answer.ok
  /\ slip' = [slip EXCEPT ![pending.id] = 0]
  /\ last' = Nothing
  /\ pending' = Nothing
  /\ UNCHANGED <<results, adjusting, untold>>

\* Seeded fault: an exempted fine keeps its value on the panel.
ReceivePayInFull ==
  /\ pending.op \in {"pay", "exempt"} /\ pending.answer.ok
  /\ last' = IF last = Nothing \/ last.fine = NoFine THEN last
             ELSE [last EXCEPT !.fine.paid = TRUE]
  /\ pending' = Nothing
  /\ UNCHANGED <<results, slip, adjusting, untold>>

ReceivePay ==
  /\ pending.op \in {"pay", "exempt"} /\ pending.answer.ok
  /\ last' = IF last = Nothing \/ last.fine = NoFine THEN last
             ELSE [last EXCEPT !.fine =
                     [value |-> IF pending.op = "exempt" THEN 0 ELSE @.value, paid |-> TRUE]]
  /\ pending' = Nothing
  /\ UNCHANGED <<results, slip, adjusting, untold>>

ReceiveAdjust ==
  /\ pending.op = "adjust" /\ pending.answer.ok
  /\ last' = IF last = Nothing \/ last.fine = NoFine THEN last
             ELSE [last EXCEPT !.fine.value = pending.value]
  /\ adjusting' = 0
  /\ pending' = Nothing
  /\ UNCHANGED <<results, slip, untold>>

ReceivePrint ==
  /\ pending.op = "print" /\ pending.answer.ok
  /\ pending' = Nothing
  /\ UNCHANGED <<results, slip, last, adjusting, untold>>

ReceiveAnswer ==
  /\ Busy /\ pending.answer # Nothing
  /\ \/ ReceiveSearch \/ Refused \/ ReceiveReturn \/ ReceiveUndo
     \/ ReceivePay \/ ReceiveAdjust \/ ReceivePrint
  /\ UNCHANGED serverVars /\ Render

\* A request that fails on its way, or whose answer does: the await throws.
RequestFails ==
  /\ Busy
  /\ untold' = IF /\ pending.op \in LoanOps
                  /\ pending.answer # Nothing /\ pending.answer.ok
               THEN untold \cup {pending.id} ELSE untold
  /\ pending' = Nothing
  /\ UNCHANGED <<serverVars, results, slip, last, adjusting>> /\ Render

\* Leaving the page, or loading it again: whatever the hook kept is gone.
Reload ==
  /\ results' = {} /\ slip' = NoSlip /\ last' = Nothing /\ adjusting' = 0
  /\ pending' = Nothing /\ untold' = {}
  /\ UNCHANGED serverVars /\ Render

-----------------------------------------------------------------------------
(* What goes on elsewhere.                                                 *)

LendElsewhere(i) ==
  /\ loan[i] = "none" /\ OpenOnCopy(CopyOf[i]) = {}
  /\ loan' = [loan EXCEPT ![i] = "open"]
  /\ UNCHANGED <<undoable, fine>>

\* What the page shows of a lending it returned, or is about to show.
OnPage(i) == \/ slip[i] > 0
             \/ last # Nothing /\ last.lending = i
             \/ Busy /\ pending.op = "return" /\ pending.id = i /\ pending.answer # Nothing

OtherDesk ==
  /\ \E i \in Lendings :
       \/ LendElsewhere(i) /\ UNCHANGED untold
       \/ /\ untold' = IF OnPage(i) THEN untold \cup {i} ELSE untold
          /\ CloseLending(i) \/ Reopen(i) \/ Pay(i, FALSE) \/ \E v \in NewValues : Adjust(i, v)
  /\ UNCHANGED <<pageVars, pending>>

\* The undo window of a lending comes to its end, unseen by the page.
WindowEnds(i) ==
  /\ i \in undoable
  /\ undoable' = undoable \ {i}
  /\ UNCHANGED <<loan, fine, pageVars, pending, untold>>

ReturnInit ==
  /\ loan = [i \in Lendings |-> "none"]
  /\ undoable = {}
  /\ fine = [i \in Lendings |-> NoFine]
  /\ offered = FALSE
  /\ results = {} /\ slip = NoSlip /\ last = Nothing /\ adjusting = 0
  /\ pending = Nothing /\ untold = {}

Staff ==
  \/ \E q \in Queries : OnSearch(q)
  \/ \E i \in Lendings : OnReturn(i)
  \/ OnUndo \/ \E exempt \in BOOLEAN : OnPayFine(exempt)
  \/ EditFine \/ \E v \in NewValues : OnAdjustFine(v)
  \/ OnPrintSlip \/ OnClearSlip \/ Type \/ Reload

ReturnNext == Staff \/ ServeRequest \/ ReceiveAnswer \/ RequestFails \/ OtherDesk \/ \E i \in Lendings : WindowEnds(i)

\* The server answers, and the event loop runs the continuation of the await:
\* one comes after the other, so that one condition is enough for both.
ReturnFairness == WF_returnVars(ServeRequest \/ ReceiveAnswer)

ReturnSpec == ReturnInit /\ [][ReturnNext]_returnVars /\ ReturnFairness

-----------------------------------------------------------------------------
(* Properties.                                                             *)

UndoAnswered(i) == Busy /\ pending.op = "undo" /\ pending.id = i
                     /\ pending.answer # Nothing /\ pending.answer.ok

\* The page is about to hear of a change of the lending.
BeingAnswered(i) == Busy /\ pending.op \in LoanOps /\ pending.id = i
                     /\ pending.answer # Nothing /\ pending.answer.ok

\* The hook's state: what is shown is of lendings, one request is in flight.
ReturnTypeOK ==
  /\ loan \in [Lendings -> {"none", "open", "returned"}]
  /\ undoable \subseteq {i \in Lendings : loan[i] = "returned"}
  /\ fine \in [Lendings -> Fines \cup {NoFine}]
  /\ results \subseteq Lendings /\ untold \subseteq Lendings
  /\ slip \in [Lendings -> Nat]
  /\ last \in LastReturns \cup {Nothing} /\ offered \in BOOLEAN /\ (offered => last # Nothing)
  /\ adjusting \in Lendings \cup {0}

\* Each lending is on the return slip once at most, and only while it is
\* returned: the page takes it off as soon as it hears of the undo, whatever
\* was scanned, lost, printed or settled in between (onReturn and onUndo).
SlipOfReturns ==
  \A i \in Lendings :
    /\ slip[i] <= 1
    /\ slip[i] = 1 => loan[i] = "returned" \/ i \in untold \/ UndoAnswered(i)

\* The panel of the last return shows the fine the library has, although it
\* is computed from the answers and never read again (onPayFine, onAdjustFine).
LastFineTrue ==
  last # Nothing =>
    \/ last.fine = fine[last.lending]
    \/ last.lending \in untold \/ BeingAnswered(last.lending)

\* The ledger the rows amount to.
TheOne(S)   == CHOOSE i \in S : TRUE
CurrentLoan == [c \in Copies |-> IF OpenOnCopy(c) = {} THEN Nothing ELSE TheOne(OpenOnCopy(c))]
PastLoans   == [c \in Copies |-> {i \in Lendings : CopyOf[i] = c /\ loan[i] = "returned"}]
LentTo      == [i \in Lendings |-> IF loan[i] = "none" THEN Nothing ELSE "reader"]

\* The page and its server move lendings only as the desk's ledger allows.
Ledger == INSTANCE LoanLedger WITH
  Holdings <- Copies, Users <- {"reader"}, Loans <- Lendings, Free <- Nothing,
  loan <- CurrentLoan, past <- PastLoans, reader <- LentTo
ReturnImplementsLedger == Ledger!Spec
=============================================================================
