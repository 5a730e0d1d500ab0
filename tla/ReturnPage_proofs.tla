---------------------------- MODULE ReturnPage_proofs ----------------------------
(***************************************************************************)
(* Proofs about ReturnPage, for every library, with requests refused or    *)
(* lost and other desks at work at any time.                               *)
(***************************************************************************)
EXTENDS ReturnPage, TLAPS

\* What a search may answer.
Finds == [ok : BOOLEAN, data : UNION {[S -> SUBSET Lendings] : S \in SUBSET Copies}]

\* The request in flight is about lendings, and what it was asked from is still
\* on the panel.
PendingInv ==
  Busy =>
    /\ \/ pending \in [op : LoanOps, id : Lendings, value : Nat, answer : Replies \cup {Nothing}]
       \/ pending \in [op : {"search"}, id : Queries, value : {0}, answer : Finds \cup {Nothing}]
       \/ pending \in [op : {"print"}, id : {0}, value : {0}, answer : Replies \cup {Nothing}]
    /\ pending.op \in LoanOps \ {"return"} => last # Nothing /\ last.lending = pending.id
    /\ pending.op \in {"pay", "exempt", "adjust"} => last.fine # NoFine

\* The fine the panel will show once it has heard of the request.
ToBeShown ==
  CASE pending.op = "return" -> pending.answer.data
    [] pending.op = "pay"    -> [value |-> last.fine.value, paid |-> TRUE]
    [] pending.op = "exempt" -> [value |-> 0, paid |-> TRUE]
    [] pending.op = "adjust" -> [last.fine EXCEPT !.value = pending.value]

\* An answer under way is true when it arrives, unless somebody else has
\* changed the lending meanwhile.
AnswerInv ==
  Busy /\ pending.op \in LoanOps /\ BeingAnswered(pending.id) /\ pending.id \notin untold =>
    /\ pending.op = "return" => loan[pending.id] = "returned"
    /\ pending.op # "undo" => fine[pending.id] = ToBeShown

\* A copy is on one open lending at most.
OneOpenPerCopy ==
  \A i, j \in Lendings : loan[i] = "open" /\ loan[j] = "open" /\ CopyOf[i] = CopyOf[j] => i = j

ReturnSafe ==
  ReturnTypeOK /\ PendingInv /\ AnswerInv /\ SlipOfReturns /\ LastFineTrue /\ OneOpenPerCopy

-----------------------------------------------------------------------------
(* The server's steps on one lending.                                      *)

LEMMA LateFeeTyped == [value |-> LateFee, paid |-> FALSE] \in Fines
BY ReturnPageAssumption DEF Fines

ServerOK ==
  /\ loan \in [Lendings -> {"none", "open", "returned"}]
  /\ undoable \subseteq {i \in Lendings : loan[i] = "returned"}
  /\ fine \in [Lendings -> Fines \cup {NoFine}]
  /\ OneOpenPerCopy

\* A step of the server on lending i leaves the rows of the others alone, and
\* opens i only if nothing else is open on its copy.
LEMMA ServerStep ==
  ASSUME ServerOK, NEW i \in Lendings,
         \/ CloseLending(i) \/ Reopen(i) \/ LendElsewhere(i)
         \/ Pay(i, FALSE) \/ Pay(i, TRUE) \/ \E v \in Nat : Adjust(i, v)
  PROVE  ServerOK' /\ \A j \in Lendings \ {i} : loan'[j] = loan[j] /\ fine'[j] = fine[j]
<1> USE DEF ServerOK, OneOpenPerCopy, OpenOnCopy
<1>1. CASE CloseLending(i)
  BY <1>1, LateFeeTyped DEF CloseLending
<1>2. CASE Reopen(i)
  BY <1>2 DEF Reopen, MayReopen
<1>3. CASE LendElsewhere(i)
  BY <1>3 DEF LendElsewhere
<1>4. ASSUME NEW exempt \in BOOLEAN, Pay(i, exempt)
      PROVE  ServerOK' /\ \A j \in Lendings \ {i} : loan'[j] = loan[j] /\ fine'[j] = fine[j]
  <2>1. fine[i] \in Fines BY <1>4 DEF Pay
  <2>2. [value |-> IF exempt THEN 0 ELSE fine[i].value, paid |-> TRUE] \in Fines
    BY <2>1 DEF Fines
  <2> QED BY <1>4, <2>2 DEF Pay
<1>5. ASSUME NEW v \in Nat, Adjust(i, v)
      PROVE  ServerOK' /\ \A j \in Lendings \ {i} : loan'[j] = loan[j] /\ fine'[j] = fine[j]
  <2>1. fine[i] \in Fines BY <1>5 DEF Adjust
  <2>2. [fine[i] EXCEPT !.value = v] \in Fines BY <2>1 DEF Fines
  <2> QED BY <1>5, <2>2 DEF Adjust
<1> QED BY <1>1, <1>2, <1>3, <1>4, <1>5

LEMMA ServerTyped == ReturnSafe => ServerOK
BY DEF ReturnSafe, ReturnTypeOK, ServerOK

-----------------------------------------------------------------------------
LEMMA NothingShown == NoSlip \in [Lendings -> Nat] /\ \A i \in Lendings : NoSlip[i] = 0
BY DEF NoSlip

LEMMA ReturnSafeInit == ReturnInit => ReturnSafe
<1> SUFFICES ASSUME ReturnInit PROVE ReturnSafe
  OBVIOUS
<1>1. ReturnTypeOK
  BY NothingShown DEF ReturnInit, ReturnTypeOK
<1>2. PendingInv /\ AnswerInv /\ LastFineTrue /\ OneOpenPerCopy
  BY DEF ReturnInit, PendingInv, AnswerInv, LastFineTrue, OneOpenPerCopy, Busy
<1>3. SlipOfReturns
  BY NothingShown DEF ReturnInit, SlipOfReturns
<1> QED BY <1>1, <1>2, <1>3 DEF ReturnSafe

\* Sending a request changes nothing yet.
LEMMA SubmitSafe ==
  ASSUME ReturnSafe, NEW op \in LoanOps \cup {"search", "print"}, NEW id, NEW value \in Nat,
         Submit(Request(op, id, value)),
         op \in LoanOps => id \in Lendings,
         op = "search" => id \in Queries /\ value = 0,
         op = "print" => id = 0 /\ value = 0,
         op \in LoanOps \ {"return"} => last # Nothing /\ last.lending = id,
         op \in {"pay", "exempt", "adjust"} => last.fine # NoFine
  PROVE  ReturnSafe'
<1> DEFINE request == [op |-> op, id |-> id, value |-> value, answer |-> Nothing]
<1>1. /\ ~Busy /\ pending' = request
      /\ UNCHANGED <<loan, undoable, fine, results, slip, last, adjusting, untold>>
      /\ offered' = (last' # Nothing /\ last'.lending \in undoable')
  BY DEF Submit, Request, Render, UndoStillAvailable, serverVars
<1>2. request.op = op /\ request.id = id /\ request.value = value /\ request.answer = Nothing
  OBVIOUS
<1> HIDE DEF request
<1>3. ReturnTypeOK'
  BY <1>1 DEF ReturnSafe, ReturnTypeOK
<1>4. PendingInv'
  <2>1. \/ request \in [op : LoanOps, id : Lendings, value : Nat, answer : Replies \cup {Nothing}]
        \/ request \in [op : {"search"}, id : Queries, value : {0}, answer : Finds \cup {Nothing}]
        \/ request \in [op : {"print"}, id : {0}, value : {0}, answer : Replies \cup {Nothing}]
    BY DEF request
  <2> QED BY <1>1, <1>2, <2>1 DEF PendingInv, Busy
<1>5. \A i : ~UndoAnswered(i)' /\ ~BeingAnswered(i)' /\ ~UndoAnswered(i) /\ ~BeingAnswered(i)
  BY <1>1, <1>2 DEF UndoAnswered, BeingAnswered, Busy
<1>6. AnswerInv' BY <1>5 DEF AnswerInv
<1>7. SlipOfReturns' /\ LastFineTrue' /\ OneOpenPerCopy'
  BY <1>1, <1>5 DEF ReturnSafe, SlipOfReturns, LastFineTrue, OneOpenPerCopy
<1> QED BY <1>3, <1>4, <1>6, <1>7 DEF ReturnSafe

\* The controls that only change what is shown.
LEMMA ShownSafe ==
  ASSUME ReturnSafe, EditFine \/ OnClearSlip \/ Type
  PROVE  ReturnSafe'
<1>1. /\ ~Busy /\ UNCHANGED <<loan, undoable, fine, results, last, pending, untold>>
      /\ slip' \in {slip, NoSlip} /\ adjusting' \in {adjusting, last.lending}
      /\ adjusting' = last.lending => last # Nothing \/ adjusting' = adjusting
      /\ offered' = (last' # Nothing /\ last'.lending \in undoable')
  BY DEF EditFine, OnClearSlip, Type, Render, UndoStillAvailable, serverVars, UnpaidFine
<1>2. ReturnTypeOK'
  BY <1>1 DEF ReturnSafe, ReturnTypeOK, NoSlip, LastReturns
<1>3. PendingInv' /\ AnswerInv' /\ LastFineTrue' /\ OneOpenPerCopy'
  BY <1>1 DEF ReturnSafe, PendingInv, AnswerInv, LastFineTrue, OneOpenPerCopy, Busy, BeingAnswered
<1>4. SlipOfReturns'
  BY <1>1 DEF ReturnSafe, SlipOfReturns, UndoAnswered, Busy, NoSlip
<1> QED BY <1>2, <1>3, <1>4 DEF ReturnSafe

LEMMA ReloadSafe == ASSUME ReturnSafe, Reload PROVE ReturnSafe'
<1>1. /\ pending' = Nothing /\ last' = Nothing /\ slip' = NoSlip
      /\ results' = {} /\ adjusting' = 0 /\ untold' = {}
      /\ offered' = FALSE
      /\ UNCHANGED <<loan, undoable, fine>>
  BY DEF Reload, serverVars, Render, UndoStillAvailable
<1>2. ReturnTypeOK'
  BY <1>1, NothingShown DEF ReturnSafe, ReturnTypeOK
<1>3. PendingInv' /\ AnswerInv' /\ LastFineTrue' /\ OneOpenPerCopy'
  BY <1>1 DEF ReturnSafe, PendingInv, AnswerInv, LastFineTrue, OneOpenPerCopy, Busy
<1>4. SlipOfReturns'
  BY <1>1, NothingShown DEF SlipOfReturns
<1> QED BY <1>2, <1>3, <1>4 DEF ReturnSafe

\* A request that fails leaves behind what the page does not know.
LEMMA FailSafe == ASSUME ReturnSafe, RequestFails PROVE ReturnSafe'
<1>1. /\ Busy /\ pending' = Nothing
      /\ UNCHANGED <<loan, undoable, fine, results, slip, last, adjusting>>
      /\ offered' = (last' # Nothing /\ last'.lending \in undoable')
      /\ untold \subseteq untold' /\ untold' \subseteq untold \cup {pending.id}
      /\ pending.op \notin LoanOps => untold' = untold
      /\ \A i : BeingAnswered(i) \/ UndoAnswered(i) => i \in untold'
  BY DEF RequestFails, serverVars, Render, UndoStillAvailable, BeingAnswered, UndoAnswered, LoanOps
<1>2. pending.op \in LoanOps => pending.id \in Lendings
  BY <1>1 DEF ReturnSafe, PendingInv, LoanOps
<1>3. ReturnTypeOK'
  BY <1>1, <1>2 DEF ReturnSafe, ReturnTypeOK
<1>4. PendingInv' /\ AnswerInv' /\ OneOpenPerCopy'
  BY <1>1 DEF ReturnSafe, PendingInv, AnswerInv, OneOpenPerCopy, Busy
<1>5. SlipOfReturns' /\ LastFineTrue'
  BY <1>1 DEF ReturnSafe, SlipOfReturns, LastFineTrue
<1> QED BY <1>3, <1>4, <1>5 DEF ReturnSafe

LEMMA WindowSafe == ASSUME ReturnSafe, NEW i \in Lendings, WindowEnds(i) PROVE ReturnSafe'
BY DEF ReturnSafe, WindowEnds, pageVars, ReturnTypeOK, PendingInv, AnswerInv, ToBeShown,
       SlipOfReturns, LastFineTrue, OneOpenPerCopy, Busy, BeingAnswered, UndoAnswered

-----------------------------------------------------------------------------
(* The request is served.                                                  *)

LEMMA SearchServed ==
  ASSUME ReturnSafe, ServeRequest, pending.op \in {"search", "print"}
  PROVE  ReturnSafe'
<1>1. /\ Busy /\ pending.answer = Nothing
      /\ UNCHANGED <<loan, undoable, fine, results, slip, last, adjusting, offered, untold>>
  BY DEF ServeRequest, serverVars, pageVars
<1>2. PendingInv'
  <2>1. CASE pending.op = "search"
    <3>1. /\ pending \in [op : {"search"}, id : Queries, value : {0}, answer : Finds \cup {Nothing}]
          /\ pending' = [pending EXCEPT !.answer = [ok |-> Hits[pending.id] # {},
                                                    data |-> Found(pending.id)]]
      BY <1>1, <2>1 DEF ReturnSafe, PendingInv, ServeRequest, Answered, LoanOps
    <3>2. Hits[pending.id] \in SUBSET Copies BY <3>1, ReturnPageAssumption
    <3>3. Found(pending.id) \in [Hits[pending.id] -> SUBSET Lendings]
      BY DEF Found, OpenOnCopy
    <3>4. [ok |-> Hits[pending.id] # {}, data |-> Found(pending.id)] \in Finds
      BY <3>2, <3>3 DEF Finds
    <3> QED BY <3>1, <3>4, <2>1 DEF PendingInv, LoanOps
  <2>2. CASE pending.op = "print"
    <3>1. /\ pending \in [op : {"print"}, id : {0}, value : {0}, answer : Replies \cup {Nothing}]
          /\ pending' = [pending EXCEPT !.answer = [ok |-> TRUE, data |-> NoFine]]
      BY <1>1, <2>2 DEF ReturnSafe, PendingInv, ServeRequest, Answered, LoanOps
    <3> QED BY <3>1, <2>2 DEF PendingInv, LoanOps, Replies
  <2> QED BY <2>1, <2>2
<1>3. pending'.op = pending.op /\ pending.op \notin LoanOps \cup {"undo"}
  BY <1>1 DEF ReturnSafe, PendingInv, ServeRequest, Answered, LoanOps
<1>4. ReturnTypeOK'
  BY <1>1 DEF ReturnSafe, ReturnTypeOK
<1>5. AnswerInv' BY <1>3 DEF AnswerInv
<1>6. SlipOfReturns' /\ LastFineTrue' /\ OneOpenPerCopy'
  BY <1>1, <1>3 DEF ReturnSafe, SlipOfReturns, LastFineTrue, OneOpenPerCopy, UndoAnswered,
                    BeingAnswered, LoanOps
<1> QED BY <1>2, <1>4, <1>5, <1>6 DEF ReturnSafe

\* Refused: the server changes nothing, and the page has nothing to learn.
LEMMA RefusalServed ==
  ASSUME ReturnSafe, ServeRequest, pending.op \in LoanOps, ~Accepts(pending)
  PROVE  ReturnSafe'
<1>1. /\ Busy /\ pending.answer = Nothing
      /\ UNCHANGED <<loan, undoable, fine, results, slip, last, adjusting, offered, untold>>
      /\ pending' = [pending EXCEPT !.answer = [ok |-> FALSE, data |-> NoFine]]
  BY DEF ServeRequest, serverVars, pageVars, LoanOps, Answered
<1>2. pending \in [op : LoanOps, id : Lendings, value : Nat, answer : Replies \cup {Nothing}]
  BY <1>1 DEF ReturnSafe, PendingInv, LoanOps
<1>3. PendingInv'
  BY <1>1, <1>2 DEF ReturnSafe, PendingInv, Replies
<1>4. pending'.answer.ok = FALSE BY <1>1, <1>2
<1>5. ReturnTypeOK' /\ OneOpenPerCopy'
  BY <1>1 DEF ReturnSafe, ReturnTypeOK, OneOpenPerCopy
<1>6. AnswerInv' BY <1>4 DEF AnswerInv, BeingAnswered
<1>7. SlipOfReturns' /\ LastFineTrue'
  BY <1>1 DEF ReturnSafe, SlipOfReturns, LastFineTrue, UndoAnswered, BeingAnswered
<1> QED BY <1>3, <1>5, <1>6, <1>7 DEF ReturnSafe

\* Accepted: the page is about to hear of it, and of the fine that results.
LEMMA AcceptedServed ==
  ASSUME ReturnSafe, ServeRequest, pending.op \in LoanOps, Accepts(pending)
  PROVE  ReturnSafe'
<1> DEFINE i == pending.id
<1>1. /\ Busy /\ pending.answer = Nothing /\ EffectOf(pending)
      /\ UNCHANGED <<results, slip, last, adjusting, offered>>
      /\ pending' = [pending EXCEPT !.answer = [ok |-> TRUE, data |-> fine'[i]]]
      /\ untold' = IF pending.op = "return" THEN untold \ {i} ELSE untold
  BY DEF ServeRequest, pageVars, LoanOps, Answered
<1>2. pending \in [op : LoanOps, id : Lendings, value : Nat, answer : Replies \cup {Nothing}]
  BY <1>1 DEF ReturnSafe, PendingInv, LoanOps
<1>3. i \in Lendings /\ pending.value \in Nat BY <1>2
<1>4. ServerOK' /\ \A j \in Lendings \ {i} : loan'[j] = loan[j] /\ fine'[j] = fine[j]
  <2>1. \/ CloseLending(i) \/ Reopen(i) \/ Pay(i, FALSE) \/ Pay(i, TRUE) \/ Adjust(i, pending.value)
    BY <1>1 DEF EffectOf, LoanOps
  <2> QED BY <1>3, <2>1, ServerStep, ServerTyped
<1>5. fine'[i] \in Fines \cup {NoFine} BY <1>3, <1>4 DEF ServerOK
<1>6. /\ pending'.op = pending.op /\ pending'.id = i /\ pending'.value = pending.value
      /\ pending'.answer = [ok |-> TRUE, data |-> fine'[i]]
      /\ pending' \in [op : LoanOps, id : Lendings, value : Nat, answer : Replies \cup {Nothing}]
  BY <1>1, <1>2, <1>5 DEF Replies
<1>7. ReturnTypeOK'
  BY <1>1, <1>3, <1>4 DEF ReturnSafe, ReturnTypeOK, ServerOK
<1>8. PendingInv'
  BY <1>1, <1>6 DEF ReturnSafe, PendingInv
<1>9. BeingAnswered(i)' /\ (pending.op = "undo" => UndoAnswered(i)')
  <2>1. Busy' BY <1>6, ReturnPageAssumption DEF Busy
  <2>2. pending'.answer \in Replies BY <1>5, <1>6 DEF Replies
  <2>3. pending'.answer # Nothing BY <2>2, ReturnPageAssumption
  <2> QED BY <2>1, <2>3, <1>6 DEF BeingAnswered, UndoAnswered
<1>10. \A j : ~BeingAnswered(j) /\ ~UndoAnswered(j) BY <1>1 DEF BeingAnswered, UndoAnswered
<1>11. SlipOfReturns'
  <2> SUFFICES ASSUME NEW j \in Lendings
               PROVE  slip'[j] <= 1
                      /\ (slip'[j] = 1 => loan'[j] = "returned" \/ j \in untold' \/ UndoAnswered(j)')
    BY DEF SlipOfReturns
  <2>1. slip[j] <= 1 /\ (slip[j] = 1 => loan[j] = "returned" \/ j \in untold)
    BY <1>10 DEF ReturnSafe, SlipOfReturns
  <2>2. CASE j # i BY <2>1, <2>2, <1>1, <1>4
  <2>3. CASE j = i
    <3>1. CASE pending.op = "undo" BY <2>1, <2>3, <3>1, <1>1, <1>9
    <3>2. CASE pending.op = "return"
      BY <2>1, <2>3, <3>2, <1>1, <1>3 DEF EffectOf, CloseLending, ReturnSafe, ReturnTypeOK
    <3>3. CASE pending.op \notin {"undo", "return"}
      BY <2>1, <2>3, <3>3, <1>1 DEF EffectOf, Pay, Adjust, LoanOps
    <3> QED BY <3>1, <3>2, <3>3
  <2> QED BY <2>2, <2>3
<1>12. LastFineTrue'
  BY <1>1, <1>4, <1>9, <1>10 DEF ReturnSafe, LastFineTrue, ReturnTypeOK, LastReturns
<1>13. AnswerInv'
  <2> SUFFICES ASSUME i \notin untold'
               PROVE  /\ pending.op = "return" => loan'[i] = "returned"
                      /\ pending.op # "undo" => fine'[i] = ToBeShown'
    BY <1>6 DEF AnswerInv
  <2>1. CASE pending.op = "return"
    <3>1. loan'[i] = "returned"
      BY <2>1, <1>1, <1>3 DEF EffectOf, CloseLending, ReturnSafe, ReturnTypeOK
    <3>2. ToBeShown' = fine'[i] BY <2>1, <1>6 DEF ToBeShown
    <3> QED BY <2>1, <3>1, <3>2
  <2>2. ASSUME pending.op \in {"pay", "exempt", "adjust"} PROVE fine'[i] = ToBeShown'
    <3>1. /\ last # Nothing /\ last.lending = i /\ last.fine = fine[i] /\ last' = last
          /\ fine[i] \in Fines
      BY <2>2, <1>1, <1>3, <1>10 DEF ReturnSafe, PendingInv, LastFineTrue, ReturnTypeOK, LoanOps
    <3>2. CASE pending.op = "pay"
      BY <3>1, <3>2, <1>1, <1>3, <1>6 DEF ToBeShown, EffectOf, Pay, ReturnSafe, ReturnTypeOK
    <3>3. CASE pending.op = "exempt"
      BY <3>1, <3>3, <1>1, <1>3, <1>6 DEF ToBeShown, EffectOf, Pay, ReturnSafe, ReturnTypeOK
    <3>4. CASE pending.op = "adjust"
      BY <3>1, <3>4, <1>1, <1>3, <1>6 DEF ToBeShown, EffectOf, Adjust, ReturnSafe, ReturnTypeOK
    <3> QED BY <2>2, <3>2, <3>3, <3>4
  <2>3. CASE pending.op = "undo" BY <2>3
  <2> QED BY <2>1, <2>2, <2>3 DEF LoanOps
<1> QED BY <1>4, <1>7, <1>8, <1>11, <1>12, <1>13 DEF ReturnSafe, ServerOK

LEMMA ServeSafe == ASSUME ReturnSafe, ServeRequest PROVE ReturnSafe'
<1>1. pending.op \in LoanOps \cup {"search", "print"}
  BY DEF ServeRequest, ReturnSafe, PendingInv
<1> QED BY <1>1, SearchServed, RefusalServed, AcceptedServed


-----------------------------------------------------------------------------
(* The answer is received.                                                 *)

\* What the request in flight is, once its answer is there.
LEMMA AnswerTyped ==
  ASSUME ReturnSafe, ReceiveAnswer, pending.op \in LoanOps
  PROVE  /\ pending \in [op : LoanOps, id : Lendings, value : Nat, answer : Replies]
         /\ pending.answer.ok => BeingAnswered(pending.id)
BY DEF ReceiveAnswer, ReturnSafe, PendingInv, BeingAnswered, LoanOps

\* Once it is received, nothing is left to hear.
LEMMA NothingLeft ==
  ASSUME pending' = Nothing
  PROVE  /\ PendingInv' /\ AnswerInv'
         /\ \A i : ~BeingAnswered(i)' /\ ~UndoAnswered(i)'
BY DEF PendingInv, AnswerInv, BeingAnswered, UndoAnswered, Busy

LEMMA SearchReceived ==
  ASSUME ReturnSafe, ReceiveAnswer, ReceiveSearch
  PROVE  ReturnSafe'
<1>1. /\ Busy /\ pending.op = "search" /\ pending.answer # Nothing
      /\ UNCHANGED <<loan, undoable, fine, slip, last, adjusting, untold>>
      /\ offered' = (last' # Nothing /\ last'.lending \in undoable')
  BY DEF ReceiveAnswer, ReceiveSearch, serverVars, Render, UndoStillAvailable
<1> DEFINE found == pending.answer.data
<1>2. \A c \in DOMAIN found : found[c] \subseteq Lendings
  <2>1. pending.answer \in Finds
    BY <1>1 DEF ReturnSafe, PendingInv, LoanOps
  <2> QED BY <2>1 DEF Finds
<1>3. results' \subseteq Lendings
  BY <1>2 DEF ReceiveSearch
<1>4. UNION {found[c] : c \in UniqueHolding(pending.id, found)} \subseteq Lendings
  <2>1. UniqueHolding(pending.id, found) \subseteq DOMAIN found
    BY DEF UniqueHolding
  <2> QED BY <1>2, <2>1
<1>5. PendingInv' /\ AnswerInv' /\ \A i : ~BeingAnswered(i)' /\ ~UndoAnswered(i)'
  <2>1. CASE pending' = Nothing BY <2>1, NothingLeft
  <2>2. ASSUME NEW i \in Lendings, pending' = Request("return", i, 0)
        PROVE  PendingInv' /\ AnswerInv' /\ \A j : ~BeingAnswered(j)' /\ ~UndoAnswered(j)'
    <3>1. /\ pending'.op = "return" /\ pending'.answer = Nothing
          /\ pending' \in [op : LoanOps, id : Lendings, value : Nat, answer : Replies \cup {Nothing}]
      BY <2>2 DEF Request, LoanOps
    <3>2. PendingInv' BY <3>1 DEF PendingInv
    <3>3. \A j : ~BeingAnswered(j)' /\ ~UndoAnswered(j)' BY <3>1 DEF BeingAnswered, UndoAnswered
    <3>4. AnswerInv' BY <3>3 DEF AnswerInv
    <3> QED BY <3>2, <3>3, <3>4
  <2> QED BY <1>4, <2>1, <2>2 DEF ReceiveSearch
<1>6. \A i : ~BeingAnswered(i) /\ ~UndoAnswered(i)
  BY <1>1 DEF BeingAnswered, UndoAnswered, LoanOps
<1>7. ReturnTypeOK'
  BY <1>1, <1>3 DEF ReturnSafe, ReturnTypeOK
<1>8. SlipOfReturns' /\ LastFineTrue' /\ OneOpenPerCopy'
  BY <1>1, <1>5, <1>6 DEF ReturnSafe, SlipOfReturns, LastFineTrue, OneOpenPerCopy
<1> QED BY <1>5, <1>7, <1>8 DEF ReturnSafe

\* A refusal, and a printed slip, only end the request.
LEMMA EndReceived ==
  ASSUME ReturnSafe, ReceiveAnswer, Refused \/ ReceivePrint
  PROVE  ReturnSafe'
<1>1. /\ pending' = Nothing /\ \A i : ~BeingAnswered(i) /\ ~UndoAnswered(i)
      /\ UNCHANGED <<loan, undoable, fine, results, slip, last, adjusting, untold>>
      /\ offered' = (last' # Nothing /\ last'.lending \in undoable')
  BY DEF ReceiveAnswer, Refused, ReceivePrint, serverVars, Render, UndoStillAvailable,
         BeingAnswered, UndoAnswered, LoanOps
<1>2. ReturnTypeOK' BY <1>1 DEF ReturnSafe, ReturnTypeOK
<1>3. SlipOfReturns' /\ LastFineTrue' /\ OneOpenPerCopy'
  BY <1>1 DEF ReturnSafe, SlipOfReturns, LastFineTrue, OneOpenPerCopy
<1> QED BY <1>1, <1>2, <1>3, NothingLeft DEF ReturnSafe

LEMMA ReturnReceived ==
  ASSUME ReturnSafe, ReceiveAnswer, ReceiveReturn
  PROVE  ReturnSafe'
<1> DEFINE i == pending.id
<1>1. /\ pending.op = "return" /\ pending.answer.ok /\ pending' = Nothing
      /\ UNCHANGED <<loan, undoable, fine, adjusting, untold>>
      /\ last' = [lending |-> i, fine |-> pending.answer.data]
      /\ slip' = [slip EXCEPT ![i] = 1] /\ results' = {}
      /\ offered' = (last' # Nothing /\ last'.lending \in undoable')
  BY DEF ReceiveAnswer, ReceiveReturn, serverVars, Render, UndoStillAvailable
<1>2. /\ i \in Lendings /\ pending.answer.data \in Fines \cup {NoFine} /\ BeingAnswered(i)
      /\ \A j \in Lendings : ~UndoAnswered(j)
  BY <1>1, AnswerTyped DEF LoanOps, Replies, UndoAnswered
<1>3. i \notin untold => loan[i] = "returned" /\ fine[i] = pending.answer.data
  BY <1>1, <1>2 DEF ReturnSafe, AnswerInv, ToBeShown, BeingAnswered
<1>4. ReturnTypeOK'
  BY <1>1, <1>2 DEF ReturnSafe, ReturnTypeOK, LastReturns
<1>5. SlipOfReturns'
  BY <1>1, <1>2, <1>3 DEF ReturnSafe, ReturnTypeOK, SlipOfReturns
<1>6. LastFineTrue' BY <1>1, <1>3 DEF LastFineTrue
<1>7. OneOpenPerCopy' BY <1>1 DEF ReturnSafe, OneOpenPerCopy
<1> QED BY <1>1, <1>4, <1>5, <1>6, <1>7, NothingLeft DEF ReturnSafe

LEMMA UndoReceived ==
  ASSUME ReturnSafe, ReceiveAnswer, ReceiveUndo
  PROVE  ReturnSafe'
<1> DEFINE i == pending.id
<1>1. /\ pending.op = "undo" /\ pending.answer.ok /\ pending' = Nothing
      /\ UNCHANGED <<loan, undoable, fine, results, adjusting, untold>>
      /\ last' = Nothing /\ slip' = [slip EXCEPT ![i] = 0] /\ offered' = FALSE
  BY DEF ReceiveAnswer, ReceiveUndo, serverVars, Render, UndoStillAvailable
<1>2. i \in Lendings /\ \A j \in Lendings \ {i} : ~UndoAnswered(j)
  BY <1>1, AnswerTyped DEF LoanOps, UndoAnswered
<1>3. ReturnTypeOK'
  BY <1>1, <1>2 DEF ReturnSafe, ReturnTypeOK
<1>4. SlipOfReturns'
  BY <1>1, <1>2 DEF ReturnSafe, ReturnTypeOK, SlipOfReturns
<1>5. LastFineTrue' BY <1>1 DEF LastFineTrue
<1>6. OneOpenPerCopy' BY <1>1 DEF ReturnSafe, OneOpenPerCopy
<1> QED BY <1>1, <1>3, <1>4, <1>5, <1>6, NothingLeft DEF ReturnSafe

\* The panel computes from the request what the library's fine has become.
LEMMA FineReceived ==
  ASSUME ReturnSafe, ReceiveAnswer, ReceivePay \/ ReceiveAdjust
  PROVE  ReturnSafe'
<1> DEFINE i == pending.id
<1>1. /\ pending.op \in {"pay", "exempt", "adjust"} /\ pending.answer.ok /\ pending' = Nothing
      /\ UNCHANGED <<loan, undoable, fine, results, slip, untold>>
      /\ adjusting' \in {adjusting, 0}
      /\ offered' = (last' # Nothing /\ last'.lending \in undoable')
  BY DEF ReceiveAnswer, ReceivePay, ReceiveAdjust, serverVars, Render, UndoStillAvailable
<1>2. /\ i \in Lendings /\ pending.value \in Nat /\ BeingAnswered(i)
      /\ last # Nothing /\ last \in LastReturns
      /\ last.lending = i /\ last.fine \in Fines /\ last.fine # NoFine
      /\ \A j \in Lendings : ~UndoAnswered(j)
  BY <1>1, AnswerTyped
     DEF LoanOps, UndoAnswered, ReturnSafe, PendingInv, ReturnTypeOK, LastReturns, ReceiveAnswer
<1>3. last' = [last EXCEPT !.fine = ToBeShown] /\ ToBeShown \in Fines
  <2>1. CASE pending.op \in {"pay", "exempt"}
    <3>1. last' = [last EXCEPT !.fine =
                     [value |-> IF pending.op = "exempt" THEN 0 ELSE last.fine.value, paid |-> TRUE]]
      BY <1>1, <1>2, <2>1 DEF ReceivePay, ReceiveAdjust
    <3>2. ToBeShown = [value |-> IF pending.op = "exempt" THEN 0 ELSE last.fine.value, paid |-> TRUE]
      BY <2>1 DEF ToBeShown
    <3> QED BY <1>2, <3>1, <3>2 DEF Fines
  <2>2. CASE pending.op = "adjust"
    <3>1. last' = [last EXCEPT !.fine.value = pending.value]
      BY <1>1, <1>2, <2>2 DEF ReceivePay, ReceiveAdjust
    <3>2. ToBeShown = [last.fine EXCEPT !.value = pending.value]
      BY <2>2 DEF ToBeShown
    <3> QED BY <1>2, <3>1, <3>2 DEF Fines, LastReturns
  <2> QED BY <1>1, <2>1, <2>2
<1>4. last' \in LastReturns /\ last'.lending = i /\ last'.fine = ToBeShown
  BY <1>2, <1>3 DEF LastReturns
<1>5. ReturnTypeOK'
  BY <1>1, <1>4 DEF ReturnSafe, ReturnTypeOK
<1>6. SlipOfReturns'
  BY <1>1, <1>2 DEF ReturnSafe, ReturnTypeOK, SlipOfReturns
<1>7. LastFineTrue'
  BY <1>1, <1>2, <1>4 DEF LastFineTrue, ReturnSafe, AnswerInv, BeingAnswered
<1>8. OneOpenPerCopy' BY <1>1 DEF ReturnSafe, OneOpenPerCopy
<1> QED BY <1>1, <1>5, <1>6, <1>7, <1>8, NothingLeft DEF ReturnSafe

LEMMA ReceiveSafe == ASSUME ReturnSafe, ReceiveAnswer PROVE ReturnSafe'
BY SearchReceived, EndReceived, ReturnReceived, UndoReceived, FineReceived DEF ReceiveAnswer

-----------------------------------------------------------------------------
(* Another desk.                                                           *)

LEMMA OtherDeskSafe == ASSUME ReturnSafe, OtherDesk PROVE ReturnSafe'
<1>1. PICK i \in Lendings :
        \/ LendElsewhere(i) /\ UNCHANGED untold
        \/ /\ untold' = IF OnPage(i) THEN untold \cup {i} ELSE untold
           /\ CloseLending(i) \/ Reopen(i) \/ Pay(i, FALSE) \/ \E v \in NewValues : Adjust(i, v)
  BY DEF OtherDesk
<1>2. UNCHANGED <<results, slip, last, adjusting, offered, pending>>
  BY DEF OtherDesk, pageVars
<1>3. ServerOK' /\ \A j \in Lendings \ {i} : loan'[j] = loan[j] /\ fine'[j] = fine[j]
  BY <1>1, ServerStep, ServerTyped, ReturnPageAssumption
<1>4. \/ loan[i] = "none" /\ fine' = fine /\ untold' = untold
      \/ OnPage(i) /\ untold' = untold \cup {i}
      \/ ~OnPage(i) /\ untold' = untold
  BY <1>1 DEF LendElsewhere
<1>5. \A j : /\ UndoAnswered(j)' = UndoAnswered(j) /\ BeingAnswered(j)' = BeingAnswered(j)
  BY <1>2 DEF UndoAnswered, BeingAnswered, Busy
<1>6. ReturnTypeOK'
  BY <1>2, <1>3, <1>4 DEF ReturnSafe, ReturnTypeOK, ServerOK
<1>7. PendingInv' BY <1>2 DEF ReturnSafe, PendingInv, Busy
<1>8. SlipOfReturns'
  <2> SUFFICES ASSUME NEW j \in Lendings
               PROVE  slip'[j] <= 1
                      /\ (slip'[j] = 1 => loan'[j] = "returned" \/ j \in untold' \/ UndoAnswered(j)')
    BY DEF SlipOfReturns
  <2>1. slip[j] <= 1 /\ (slip[j] = 1 => loan[j] = "returned" \/ j \in untold \/ UndoAnswered(j))
    BY DEF ReturnSafe, SlipOfReturns
  <2>2. slip[i] = 1 => OnPage(i) BY DEF OnPage
  <2> QED BY <2>1, <2>2, <1>2, <1>3, <1>4, <1>5
<1>9. LastFineTrue'
  <2>1. last # Nothing /\ last.lending = i => OnPage(i) BY DEF OnPage
  <2>2. last # Nothing => last.lending \in Lendings
    BY DEF ReturnSafe, ReturnTypeOK, LastReturns
  <2> QED BY <2>1, <2>2, <1>2, <1>3, <1>4, <1>5 DEF ReturnSafe, LastFineTrue
<1>10. AnswerInv'
  <2> SUFFICES ASSUME Busy, pending.op \in LoanOps, BeingAnswered(pending.id), pending.id \notin untold'
               PROVE  /\ pending.op = "return" => loan'[pending.id] = "returned"
                      /\ pending.op # "undo" => fine'[pending.id] = ToBeShown
    BY <1>2, <1>5 DEF AnswerInv, ToBeShown, Busy
  <2>1. pending.id \notin untold BY <1>4
  <2>2. /\ pending.op = "return" => loan[pending.id] = "returned"
        /\ pending.op # "undo" => fine[pending.id] = ToBeShown
    BY <2>1 DEF ReturnSafe, AnswerInv
  <2>3. pending.id \in Lendings BY DEF ReturnSafe, PendingInv, LoanOps
  <2>4. CASE pending.id # i BY <2>2, <2>3, <2>4, <1>3
  <2>5. CASE pending.id = i /\ pending.op # "undo"
    <3>1. OnPage(i) BY <2>5 DEF OnPage, BeingAnswered, ReturnSafe, PendingInv, LoanOps
    <3>2. loan[i] = "none" /\ fine' = fine /\ untold' = untold BY <3>1, <2>5, <1>4
    <3>3. pending.op # "return" BY <2>2, <2>5, <3>2
    <3> QED BY <2>2, <2>5, <3>2, <3>3
  <2>6. CASE pending.op = "undo" BY <2>6
  <2> QED BY <2>4, <2>5, <2>6
<1> QED BY <1>3, <1>6, <1>7, <1>8, <1>9, <1>10 DEF ReturnSafe, ServerOK

-----------------------------------------------------------------------------
LEMMA StaffSafe == ASSUME ReturnSafe, Staff PROVE ReturnSafe'
<1>1. last # Nothing => last.lending \in Lendings
  BY DEF ReturnSafe, ReturnTypeOK, LastReturns
<1>2. ASSUME NEW q \in Queries, OnSearch(q) PROVE ReturnSafe'
  BY <1>2, SubmitSafe DEF OnSearch, LoanOps
<1>3. ASSUME NEW i \in Lendings, OnReturn(i) PROVE ReturnSafe'
  BY <1>3, SubmitSafe DEF OnReturn, LoanOps
<1>4. CASE OnUndo
  <2>1. last # Nothing BY <1>4 DEF OnUndo, ReturnSafe, ReturnTypeOK
  <2> QED BY <1>1, <1>4, <2>1, SubmitSafe DEF OnUndo, LoanOps
<1>5. ASSUME NEW exempt \in BOOLEAN, OnPayFine(exempt) PROVE ReturnSafe'
  BY <1>1, <1>5, SubmitSafe DEF OnPayFine, UnpaidFine, LoanOps
<1>6. ASSUME NEW v \in NewValues, OnAdjustFine(v) PROVE ReturnSafe'
  BY <1>1, <1>6, SubmitSafe, ReturnPageAssumption DEF OnAdjustFine, UnpaidFine, LoanOps
<1>7. CASE OnPrintSlip BY <1>7, SubmitSafe DEF OnPrintSlip, LoanOps
<1>8. CASE EditFine \/ OnClearSlip \/ Type BY <1>8, ShownSafe
<1>9. CASE Reload BY <1>9, ReloadSafe
<1> QED BY <1>2, <1>3, <1>4, <1>5, <1>6, <1>7, <1>8, <1>9 DEF Staff

LEMMA ReturnSafeStep == ReturnSafe /\ [ReturnNext]_returnVars => ReturnSafe'
<1> SUFFICES ASSUME ReturnSafe, [ReturnNext]_returnVars PROVE ReturnSafe'
  OBVIOUS
<1>1. CASE UNCHANGED returnVars
  BY <1>1 DEF returnVars, ReturnSafe, ReturnTypeOK, PendingInv, AnswerInv, ToBeShown, SlipOfReturns,
              LastFineTrue, OneOpenPerCopy, Busy, BeingAnswered, UndoAnswered
<1>2. CASE ReturnNext
  BY <1>2, StaffSafe, ServeSafe, ReceiveSafe, FailSafe, OtherDeskSafe, WindowSafe DEF ReturnNext
<1> QED BY <1>1, <1>2

\* The page and what it knows stay true together: the inductive invariant.
THEOREM PageIsSafe == ReturnSpec => []ReturnSafe
BY ReturnSafeInit, ReturnSafeStep, PTL DEF ReturnSpec

\* The hook keeps its types.
THEOREM PageTyped == ReturnSpec => []ReturnTypeOK
<1>1. ReturnSafe => ReturnTypeOK BY DEF ReturnSafe
<1> QED BY <1>1, PageIsSafe, PTL

\* A lending is on the return slip once at most, and only while it is returned
\* or somebody else has reopened it (onReturn, onUndo).
THEOREM SlipIsOfReturns == ReturnSpec => []SlipOfReturns
<1>1. ReturnSafe => SlipOfReturns BY DEF ReturnSafe
<1> QED BY <1>1, PageIsSafe, PTL

\* The fine on the panel is the library's, unless somebody else has settled it
\* since (onPayFine, onAdjustFine).
THEOREM FineIsTrue == ReturnSpec => []LastFineTrue
<1>1. ReturnSafe => LastFineTrue BY DEF ReturnSafe
<1> QED BY <1>1, PageIsSafe, PTL

-----------------------------------------------------------------------------
(* The ledger of the desk.                                                 *)

LEMMA LedgerInit == ReturnInit => Ledger!Init
<1> SUFFICES ASSUME ReturnInit PROVE Ledger!Init
  OBVIOUS
<1>1. \A c \in Copies : OpenOnCopy(c) = {} BY DEF ReturnInit, OpenOnCopy
<1>2. CurrentLoan = [c \in Copies |-> Nothing] BY <1>1 DEF CurrentLoan
<1>3. PastLoans = [c \in Copies |-> {}] BY DEF ReturnInit, PastLoans
<1>4. LentTo = [i \in Lendings |-> Nothing] BY DEF ReturnInit, LentTo
<1> QED BY <1>2, <1>3, <1>4 DEF Ledger!Init

LEMMA LedgerStep ==
  ASSUME ServerOK, NEW i \in Lendings, CloseLending(i) \/ Reopen(i) \/ LendElsewhere(i)
  PROVE  Ledger!Next
<1> DEFINE c == CopyOf[i]
<1>1. c \in Copies /\ Nothing # i BY ReturnPageAssumption
<1>2. loan \in [Lendings -> {"none", "open", "returned"}] BY DEF ServerOK
<1>3. \A d \in Copies \ {c} : OpenOnCopy(d)' = OpenOnCopy(d)
  BY <1>2 DEF OpenOnCopy, CloseLending, Reopen, LendElsewhere
<1>4. TheOne({i}) = i /\ {i} # {} BY DEF TheOne
<1>5. CASE CloseLending(i)
  <2>1. OpenOnCopy(c) = {i} /\ OpenOnCopy(c)' = {}
    BY <1>2, <1>5 DEF OpenOnCopy, CloseLending, ServerOK, OneOpenPerCopy
  <2>2. CurrentLoan[c] = i /\ CurrentLoan' = [CurrentLoan EXCEPT ![c] = Nothing]
    BY <1>1, <1>3, <1>4, <2>1 DEF CurrentLoan
  <2>3. PastLoans' = [PastLoans EXCEPT ![c] = @ \cup {i}]
    BY <1>1, <1>2, <1>5 DEF PastLoans, CloseLending
  <2>4. LentTo' = LentTo BY <1>2, <1>5 DEF LentTo, CloseLending
  <2> QED BY <1>1, <2>2, <2>3, <2>4 DEF Ledger!Next, Ledger!Return
<1>6. CASE Reopen(i)
  <2>1. OpenOnCopy(c) = {} /\ OpenOnCopy(c)' = {i}
    BY <1>2, <1>6 DEF OpenOnCopy, Reopen, MayReopen
  <2>2. CurrentLoan[c] = Nothing /\ CurrentLoan' = [CurrentLoan EXCEPT ![c] = i]
    BY <1>1, <1>3, <1>4, <2>1 DEF CurrentLoan
  <2>3. i \in PastLoans[c] /\ PastLoans' = [PastLoans EXCEPT ![c] = @ \ {i}]
    BY <1>1, <1>2, <1>6 DEF PastLoans, Reopen, MayReopen
  <2>4. LentTo' = LentTo BY <1>2, <1>6 DEF LentTo, Reopen, MayReopen
  <2> QED BY <1>1, <2>2, <2>3, <2>4 DEF Ledger!Next, Ledger!Undo
<1>7. CASE LendElsewhere(i)
  <2>1. OpenOnCopy(c) = {} /\ OpenOnCopy(c)' = {i}
    BY <1>2, <1>7 DEF OpenOnCopy, LendElsewhere
  <2>2. CurrentLoan[c] = Nothing /\ CurrentLoan' = [CurrentLoan EXCEPT ![c] = i]
    BY <1>1, <1>3, <1>4, <2>1 DEF CurrentLoan
  <2>3. PastLoans' = PastLoans BY <1>2, <1>7 DEF PastLoans, LendElsewhere
  <2>4. LentTo[i] = Nothing /\ LentTo' = [LentTo EXCEPT ![i] = "reader"]
    BY <1>2, <1>7 DEF LentTo, LendElsewhere
  <2> QED BY <1>1, <2>2, <2>3, <2>4 DEF Ledger!Next, Ledger!Lend, Ledger!New
<1> QED BY <1>5, <1>6, <1>7

LEMMA LedgerStutter == UNCHANGED loan => UNCHANGED Ledger!vars
BY DEF Ledger!vars, CurrentLoan, PastLoans, LentTo, OpenOnCopy

LEMMA LedgerNext ==
  ReturnSafe /\ [ReturnNext]_returnVars => [Ledger!Next]_(Ledger!vars)
<1> SUFFICES ASSUME ReturnSafe, [ReturnNext]_returnVars, ~UNCHANGED loan
             PROVE  Ledger!Next
  BY LedgerStutter
<1>1. \E i \in Lendings : CloseLending(i) \/ Reopen(i) \/ LendElsewhere(i)
  <2>1. CASE UNCHANGED returnVars BY <2>1 DEF returnVars
  <2>2. CASE Staff
    BY <2>2 DEF Staff, OnSearch, OnReturn, OnUndo, OnPayFine, EditFine, OnAdjustFine, OnPrintSlip,
                OnClearSlip, Type, Reload, Submit, serverVars
  <2>3. CASE ServeRequest
    <3>1. /\ Busy /\ pending.op \notin {"search", "print"} /\ EffectOf(pending)
      BY <2>3 DEF ServeRequest, serverVars
    <3>2. pending.op \in LoanOps /\ pending.id \in Lendings
      BY <3>1 DEF ReturnSafe, PendingInv
    <3> QED BY <3>1, <3>2 DEF EffectOf, LoanOps, Pay, Adjust
  <2>4. CASE ReceiveAnswer BY <2>4 DEF ReceiveAnswer, serverVars
  <2>5. CASE RequestFails BY <2>5 DEF RequestFails, serverVars
  <2>6. CASE OtherDesk BY <2>6 DEF OtherDesk, Pay, Adjust
  <2>7. CASE \E i \in Lendings : WindowEnds(i) BY <2>7 DEF WindowEnds
  <2> QED BY <2>1, <2>2, <2>3, <2>4, <2>5, <2>6, <2>7 DEF ReturnNext
<1> QED BY <1>1, LedgerStep, ServerTyped

\* Whatever the page sends, loses or sends again, and whatever other desks do
\* meanwhile, copies change hands as the ledger of the desk allows: the page
\* lends nothing twice and undoes only a return of a copy that is still free.
THEOREM PageImplementsLedger == ReturnSpec => ReturnImplementsLedger
BY LedgerInit, LedgerNext, PageIsSafe, PTL DEF ReturnSpec, ReturnImplementsLedger, Ledger!Spec
=============================================================================
