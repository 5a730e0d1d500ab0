-------------------------------- MODULE RecordPage --------------------------------
(***************************************************************************)
(* A page of the server-rendered interface that searches records and edits *)
(* them: Search (biblivre.search.js) and Input (biblivre.input.js), as the *)
(* readers page configures them (biblivre.circulation.search.js and        *)
(* .input.js, circulation/user.jsp), on its form tab.                      *)
(*                                                                         *)
(* An overlay covers the page while a record is saved or deleted, none     *)
(* while it searches or changes page.  The record on the screen is kept in *)
(* four places: the highlight, whose buttons carry its id, the form,       *)
(* selectedRecord, and the id being edited.                                *)
(***************************************************************************)
EXTENDS Integers, Sequences

CONSTANTS
  Records,    \* ids of records
  Searches,   \* what staff search for
  Listing,    \* the pages of records each search finds
  NewRecord,  \* the id, a blank, of a record that is not saved yet
  MaxRecordSaves, \* bound on the saves staff ask for
  Created,    \* id the n-th save is given, if it makes a record
  Empty       \* nothing on the screen, no call

ASSUME RecordPageAssumption ==
  /\ Listing \in [Searches -> Seq(Seq(Records))]
  /\ \A q \in Searches : Listing[q] # <<>> /\ \A n \in DOMAIN Listing[q] : Listing[q][n] # <<>>
  /\ {NewRecord, Empty} \cap Records = {} /\ NewRecord # Empty
  /\ Empty \notin Searches \cup [search : Searches, page : Nat]
  /\ MaxRecordSaves \in Nat /\ Created \in [1..MaxRecordSaves -> Records]

VARIABLES
  lastSearch,     \* lastSearchParameters, Empty before the first search
  lastPaging,     \* lastPagingParameters: search and page, or Empty
  rows,           \* lastSearchResult, in the order it is listed
  selectedRecord,
  highlight,      \* the record whose buttons are shown, or Empty
  formOf,         \* the record the form was filled from, or Empty
  closed,         \* the search area is closed: a record is on the screen
  editing,        \* id being edited, or Empty
  confirmed,      \* the question before a deletion: whom it names and deletes
  submitCall,     \* the search under way, or Empty
  pageCall,       \* the change of page under way, or Empty
  saveCall,       \* the save under way, or Empty
  deleteCall,     \* the deletion under way, or Empty
  saves,          \* saves asked for so far (bound)
  crossed         \* an edit began during a step to a record of another page

searchVars == <<lastSearch, lastPaging, rows, submitCall, pageCall>>
screenVars == <<selectedRecord, highlight, formOf, closed>>
editVars   == <<editing, confirmed, saveCall, deleteCall, saves>>
recordVars == <<lastSearch, lastPaging, rows, selectedRecord, highlight, formOf, closed, editing,
                confirmed, submitCall, pageCall, saveCall, deleteCall, saves, crossed>>

Paging(q, n) == [search |-> q, page |-> n]
Masked == saveCall # Empty \/ deleteCall # Empty \/ confirmed # Empty
Editing == editing # Empty

-----------------------------------------------------------------------------
(* Search, and what it lists.  The search area is hidden while a record is *)
(* on the screen, and a call overtaken by another of its kind is aborted.  *)

SubmitSearch(q) ==
  /\ ~Masked /\ ~closed
  /\ lastSearch' = q /\ lastPaging' = Empty
  /\ rows' = <<>> /\ selectedRecord' = Empty
  /\ submitCall' = q
  /\ pageCall' = IF pageCall = Empty THEN Empty ELSE [pageCall EXCEPT !.current = FALSE]
  /\ UNCHANGED <<highlight, formOf, closed, editVars, crossed>>

DisplayResults(paging) ==
  /\ lastPaging' = paging
  /\ rows' = Listing[paging.search][paging.page]

\* A search that fails shows nothing.
ReceiveSearchResults ==
  /\ submitCall # Empty
  /\ submitCall' = Empty
  /\ \/ /\ DisplayResults(Paging(submitCall, 1))
        /\ selectedRecord' = Empty
     \/ UNCHANGED <<lastPaging, rows, selectedRecord>>
  /\ UNCHANGED <<lastSearch, pageCall, highlight, formOf, closed, editVars, crossed>>

\* "opens" is the row to be opened once the page is shown, if any.
Paginate(n, opens) ==
  /\ lastPaging' = [lastPaging EXCEPT !.page = n]
  /\ rows' = <<>> /\ selectedRecord' = Empty
  /\ pageCall' = [paging |-> lastPaging', opens |-> opens, current |-> TRUE]
  /\ UNCHANGED <<lastSearch, submitCall, highlight, formOf, closed, editVars, crossed>>

PagesFound == Len(Listing[lastPaging.search])

\* A link of the paging bar, which is emptied with the results.
FollowPageLink(n) ==
  /\ ~Masked /\ ~closed /\ rows # <<>>
  /\ n \in 1..PagesFound /\ n # lastPaging.page
  /\ Paginate(n, "none")

-----------------------------------------------------------------------------
(* The record on the screen.                                               *)

\* Seeded fault: a form that is loaded is not filled again.
ShowLoaded(id) ==
  /\ selectedRecord' = id /\ highlight' = id
  /\ formOf' = IF formOf = Empty THEN id ELSE formOf
  /\ closed' = TRUE

\* Seeded fault: the highlight of the record shown before is not removed.
ShowUnderHighlight(id) ==
  /\ selectedRecord' = id /\ formOf' = id
  /\ highlight' = IF closed THEN highlight ELSE id
  /\ closed' = TRUE

Show(id) ==
  /\ selectedRecord' = id /\ highlight' = id /\ formOf' = id
  /\ closed' = TRUE

OpenResult(id) ==
  /\ Show(id) /\ crossed' = FALSE
  /\ UNCHANGED <<searchVars, editVars>>

ClickResult == ~Masked /\ ~closed /\ \E i \in DOMAIN rows : OpenResult(rows[i])

\* Next and previous are disabled by an edit, and do nothing without a record.
MayStep == ~Masked /\ closed /\ ~Editing /\ \E i \in DOMAIN rows : rows[i] = selectedRecord

NextResult ==
  /\ MayStep
  /\ LET i == CHOOSE j \in DOMAIN rows : rows[j] = selectedRecord IN
     \/ i < Len(rows) /\ OpenResult(rows[i + 1])
     \/ i = Len(rows) /\ lastPaging.page # PagesFound /\ Paginate(lastPaging.page + 1, "first")

PreviousResult ==
  /\ MayStep
  /\ LET i == CHOOSE j \in DOMAIN rows : rows[j] = selectedRecord IN
     \/ i > 1 /\ OpenResult(rows[i - 1])
     \/ i = 1 /\ lastPaging.page > 1 /\ Paginate(lastPaging.page - 1, "last")

\* Seeded fault: a page is shown although another search was made meanwhile.
ReceiveAnyPage ==
  /\ pageCall # Empty
  /\ DisplayResults(pageCall.paging)
  /\ IF pageCall.opens = "none"
     THEN selectedRecord' = Empty /\ UNCHANGED <<highlight, formOf, closed>>
     ELSE Show(IF pageCall.opens = "first" THEN rows'[1] ELSE rows'[Len(rows')])

\* The answer opens its row whatever goes on meanwhile, an edit included.
ReceivePage ==
  /\ pageCall # Empty /\ pageCall.current
  /\ DisplayResults(pageCall.paging)
  /\ IF pageCall.opens = "none"
     THEN selectedRecord' = Empty /\ UNCHANGED <<highlight, formOf, closed>>
     ELSE Show(IF pageCall.opens = "first" THEN rows'[1] ELSE rows'[Len(rows')])

\* A change of page the server refuses clears the results; a failed one is silent.
PageRefused ==
  /\ rows' = <<>>
  /\ selectedRecord' \in {Empty, selectedRecord}
  /\ UNCHANGED <<lastPaging, highlight, formOf, closed>>

DropPage ==
  /\ ~pageCall.current
  /\ UNCHANGED <<lastPaging, rows, screenVars>>

ReceivePageResults ==
  /\ pageCall # Empty
  /\ ReceivePage \/ (pageCall.current /\ PageRefused) \/ DropPage
  /\ pageCall' = Empty
  /\ UNCHANGED <<lastSearch, submitCall, editVars, crossed>>

CloseResult == closed' = FALSE /\ highlight' = Empty

BackToSearch ==
  /\ ~Masked /\ closed /\ ~Editing
  /\ CloseResult
  /\ UNCHANGED <<searchVars, selectedRecord, formOf, editVars, crossed>>

-----------------------------------------------------------------------------
(* Editing.                                                                *)

\* The page is being changed to show another record.
Stepping == pageCall # Empty /\ pageCall.current /\ pageCall.opens # "none"

\* The button carries the id of the highlight, the form is filled from selectedRecord.
EditRecord ==
  /\ ~Masked /\ closed /\ ~Editing
  /\ editing' = highlight
  /\ formOf' = selectedRecord
  /\ crossed' = (crossed \/ Stepping)
  /\ UNCHANGED <<searchVars, selectedRecord, highlight, closed, confirmed, saveCall, deleteCall, saves>>

StartNewRecord ==
  /\ ~Masked /\ ~closed
  /\ Show(NewRecord)
  /\ editing' = NewRecord
  /\ crossed' = Stepping
  /\ UNCHANGED <<searchVars, confirmed, saveCall, deleteCall, saves>>

\* Seeded fault: a new record given up stays on the screen.
CloseEditOpen ==
  /\ editing' = Empty
  /\ formOf' = selectedRecord
  /\ UNCHANGED <<closed, highlight>>

CloseEdit ==
  /\ editing' = Empty
  /\ IF editing = NewRecord THEN CloseResult /\ UNCHANGED formOf
     ELSE formOf' = selectedRecord /\ UNCHANGED <<closed, highlight>>

CancelEdit ==
  /\ ~Masked /\ Editing
  /\ CloseEdit
  /\ UNCHANGED <<searchVars, selectedRecord, confirmed, saveCall, deleteCall, saves, crossed>>

SaveRecord(asNew) ==
  /\ ~Masked /\ Editing /\ saves < MaxRecordSaves
  /\ asNew => editing # NewRecord
  /\ saveCall' = [id |-> editing, content |-> formOf, asNew |-> asNew]
  /\ saves' = saves + 1
  /\ UNCHANGED <<searchVars, screenVars, editing, confirmed, deleteCall, crossed>>

SavedId == IF saveCall.asNew \/ saveCall.id = NewRecord THEN Created[saves] ELSE saveCall.id

\* With no record selected the continuation throws, and the edit goes on.
Saved ==
  /\ highlight' = IF highlight = saveCall.id THEN SavedId ELSE highlight
  /\ IF SavedId = saveCall.id /\ selectedRecord = Empty
     THEN formOf' = Empty /\ UNCHANGED <<selectedRecord, editing>>
     ELSE selectedRecord' = SavedId /\ formOf' = SavedId /\ editing' = Empty

ReceiveSaveAnswer ==
  /\ saveCall # Empty
  /\ saveCall' = Empty
  /\ Saved \/ UNCHANGED <<highlight, selectedRecord, formOf, editing>>
  /\ UNCHANGED <<searchVars, closed, confirmed, deleteCall, saves, crossed>>

-----------------------------------------------------------------------------
(* Deleting.                                                               *)

\* The button carries the id, the question is worded for selectedRecord.
DeleteRecord ==
  /\ ~Masked /\ closed /\ ~Editing /\ selectedRecord # Empty
  /\ confirmed' = [deletes |-> highlight, names |-> selectedRecord]
  /\ UNCHANGED <<searchVars, screenVars, editing, saveCall, deleteCall, saves, crossed>>

AnswerDelete ==
  /\ confirmed # Empty
  /\ confirmed' = Empty
  /\ deleteCall' \in {Empty, confirmed.deletes}
  /\ UNCHANGED <<searchVars, screenVars, editing, saveCall, saves, crossed>>

ReceiveDeleteAnswer ==
  /\ deleteCall # Empty
  /\ deleteCall' = Empty
  /\ CloseResult \/ UNCHANGED <<closed, highlight>>
  /\ UNCHANGED <<searchVars, selectedRecord, formOf, editing, confirmed, saveCall, saves, crossed>>

-----------------------------------------------------------------------------
RecordInit ==
  /\ lastSearch = Empty /\ lastPaging = Empty /\ rows = <<>>
  /\ selectedRecord = Empty /\ highlight = Empty /\ formOf = Empty /\ closed = FALSE
  /\ editing = Empty /\ confirmed = Empty /\ saves = 0 /\ crossed = FALSE
  /\ submitCall = Empty /\ pageCall = Empty /\ saveCall = Empty /\ deleteCall = Empty

RecordNext ==
  \/ \E q \in Searches : SubmitSearch(q)
  \/ \E q \in Searches : \E n \in DOMAIN Listing[q] : FollowPageLink(n)
  \/ ClickResult \/ NextResult \/ PreviousResult \/ BackToSearch
  \/ EditRecord \/ StartNewRecord \/ CancelEdit \/ \E asNew \in BOOLEAN : SaveRecord(asNew)
  \/ DeleteRecord \/ AnswerDelete
  \/ ReceiveSearchResults \/ ReceivePageResults \/ ReceiveSaveAnswer \/ ReceiveDeleteAnswer

RecordSpec == RecordInit /\ [][RecordNext]_recordVars

-----------------------------------------------------------------------------
(* Properties.                                                             *)

Ids == Records \cup {Empty}

\* The page's state: what is on the screen, and edited, is a record or a new one.
RecordTypeOK ==
  /\ lastSearch \in Searches \cup {Empty} /\ submitCall \in Searches \cup {Empty}
  /\ {selectedRecord, highlight, formOf, editing} \subseteq Ids \cup {NewRecord}
  /\ Editing => closed /\ highlight # Empty
  /\ highlight = NewRecord => Editing
  /\ closed <=> highlight # Empty
  /\ saves \in 0..MaxRecordSaves

\* The rows listed are the page asked for last, of the search asked for last,
\* in whatever order the answers come (submit and paginate compare objects).
RowsAskedFor ==
  rows # <<>> =>
    /\ lastPaging # Empty /\ lastPaging.search = lastSearch
    /\ rows = Listing[lastPaging.search][lastPaging.page]

\* What is saved under a record's id was filled in from that record, or from
\* none at all, which leaves a blank form; never from another record, unless
\* the edit began during a step to another page, which the page lets happen
\* (editRecord, saveRecord and the callback of nextResult).
SavesNoOtherRecord ==
  saveCall # Empty /\ ~crossed => saveCall.content \in {saveCall.id, Empty}

\* The question before a deletion is about the record that will be deleted,
\* with the same exception: it says "for ever" or "inactive" by the status of
\* selectedRecord (deleteRecordQuestion).
DeletesWhatItNames == confirmed # Empty /\ ~crossed => confirmed.names = confirmed.deletes
=============================================================================
