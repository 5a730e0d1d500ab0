---------------------------- MODULE RecordPage_proofs ----------------------------
(***************************************************************************)
(* Proofs about RecordPage, for every listing, any number of searches and  *)
(* any order of their answers: the rows shown are those asked for, and as  *)
(* long as no edit begins during a step to another page of the listing, a  *)
(* record is saved with its own fields and deleted under its own name.     *)
(***************************************************************************)
EXTENDS RecordPage, TLAPS

\* A change of page under way names the page it shows.
PageCallOK ==
  pageCall # Empty =>
    /\ pageCall \in [paging : [search : Searches, page : Nat],
                     opens : {"none", "first", "last"}, current : BOOLEAN]
    /\ pageCall.paging.page \in DOMAIN Listing[pageCall.paging.search]

\* Rows and calls are those of the search and of the page asked for last: a
\* search that has not answered leaves nothing listed and no change of page
\* that counts, and one that counts is of the page the hook remembers.
ListingInv ==
  /\ lastPaging # Empty =>
       /\ lastPaging \in [search : Searches, page : Nat]
       /\ lastPaging.page \in DOMAIN Listing[lastPaging.search]
       /\ lastPaging.search = lastSearch
  /\ submitCall # Empty =>
       /\ submitCall \in Searches /\ submitCall = lastSearch /\ rows = <<>>
       /\ pageCall # Empty => ~pageCall.current
  /\ PageCallOK
  /\ pageCall # Empty /\ pageCall.current => lastPaging # Empty /\ pageCall.paging = lastPaging
  /\ RowsAskedFor

\* What is on the screen while a record is edited, saved or deleted.
ScreenInv ==
  /\ Editing => closed
  /\ saveCall # Empty => Editing /\ saveCall.id = editing
  /\ confirmed # Empty \/ deleteCall # Empty => ~Editing
  /\ ~(confirmed # Empty /\ saveCall # Empty)

\* Unless an edit crossed a step to another page, the four places that hold
\* the record agree, or hold none.
RecordInv ==
  ~crossed =>
    /\ closed /\ ~Editing => selectedRecord \in {highlight, Empty}
    /\ Editing => highlight = editing /\ formOf \in {editing, Empty}
                  /\ selectedRecord \in {editing, Empty} /\ ~Stepping
    /\ saveCall # Empty => saveCall.content \in {saveCall.id, Empty}
    /\ confirmed # Empty => confirmed.names = confirmed.deletes

RecordSafe == ListingInv /\ ScreenInv /\ RecordInv

-----------------------------------------------------------------------------
\* The first and last page of a listing, and the pages its bar leads to, exist.
LEMMA PagesExist ==
  ASSUME NEW q \in Searches
  PROVE  /\ Listing[q] \in Seq(Seq(Records)) /\ DOMAIN Listing[q] = 1 .. Len(Listing[q])
         /\ Len(Listing[q]) \in Nat /\ 1 \in DOMAIN Listing[q]
         /\ \A n \in DOMAIN Listing[q] : Listing[q][n] \in Seq(Records) /\ Listing[q][n] # <<>>
<1>1. Listing[q] \in Seq(Seq(Records)) /\ Listing[q] # <<>>
  BY RecordPageAssumption
<1>2. Len(Listing[q]) \in Nat /\ DOMAIN Listing[q] = 1 .. Len(Listing[q]) /\ Len(Listing[q]) # 0
  BY <1>1
<1>3. \A n \in DOMAIN Listing[q] : Listing[q][n] \in Seq(Records)
  BY <1>1, <1>2
<1> QED BY <1>1, <1>2, <1>3, RecordPageAssumption

LEMMA RecordSafeInit == RecordInit => RecordSafe
BY DEF RecordInit, RecordSafe, ListingInv, PageCallOK, ScreenInv, RecordInv, RowsAskedFor, Editing

-----------------------------------------------------------------------------
(* The listing.                                                            *)

\* Changing page leaves nothing listed until that page is received.
LEMMA PaginateListing ==
  ASSUME ListingInv, NEW n \in Nat, NEW opens \in {"none", "first", "last"},
         lastPaging # Empty, n \in DOMAIN Listing[lastPaging.search], rows # <<>>,
         Paginate(n, opens)
  PROVE  ListingInv'
<1> DEFINE paging == [lastPaging EXCEPT !.page = n]
<1>1. /\ paging \in [search : Searches, page : Nat]
      /\ paging.page = n /\ paging.search = lastPaging.search
  BY DEF ListingInv
<1>2. /\ lastPaging' = paging /\ rows' = <<>> /\ submitCall' = submitCall
      /\ lastSearch' = lastSearch
      /\ pageCall' = [paging |-> paging, opens |-> opens, current |-> TRUE]
  BY DEF Paginate
<1>3. submitCall = Empty
  BY DEF ListingInv
<1>4. PageCallOK'
  BY <1>1, <1>2 DEF PageCallOK
<1>5. lastPaging' # Empty
  BY <1>1, <1>2, RecordPageAssumption
<1> QED BY <1>1, <1>2, <1>3, <1>4, <1>5 DEF ListingInv, RowsAskedFor

LEMMA ListingStep == ListingInv /\ [RecordNext]_recordVars => ListingInv'
<1> SUFFICES ASSUME ListingInv, [RecordNext]_recordVars PROVE ListingInv'
  OBVIOUS
<1> USE DEF searchVars
<1>1. ASSUME UNCHANGED searchVars PROVE ListingInv'
  BY <1>1 DEF ListingInv, PageCallOK, RowsAskedFor
<1>2. ASSUME NEW q \in Searches, SubmitSearch(q) PROVE ListingInv'
  <2>1. PageCallOK' /\ (pageCall' # Empty => ~pageCall'.current)
    <3>1. CASE pageCall = Empty BY <3>1, <1>2 DEF SubmitSearch, PageCallOK
    <3>2. CASE pageCall # Empty
      BY <3>2, <1>2 DEF SubmitSearch, PageCallOK, ListingInv
    <3> QED BY <3>1, <3>2
  <2> QED BY <1>2, <2>1 DEF SubmitSearch, ListingInv, RowsAskedFor
<1>3. CASE ReceiveSearchResults
  <2> DEFINE paging == [search |-> submitCall, page |-> 1]
  <2>1. /\ submitCall \in Searches /\ submitCall = lastSearch /\ rows = <<>>
        /\ pageCall # Empty => ~pageCall.current
        /\ submitCall' = Empty /\ lastSearch' = lastSearch /\ pageCall' = pageCall
    BY <1>3 DEF ReceiveSearchResults, ListingInv
  <2>2. PageCallOK' BY <2>1 DEF ListingInv, PageCallOK
  <2>3. CASE DisplayResults(Paging(submitCall, 1))
    <3>1. paging \in [search : Searches, page : Nat] /\ paging.page = 1 /\ paging.search = submitCall
      BY <2>1
    <3>2. paging # Empty BY <3>1, RecordPageAssumption
    <3>3. lastPaging' = paging /\ rows' = Listing[submitCall][1]
      BY <2>3 DEF DisplayResults, Paging
    <3>4. 1 \in DOMAIN Listing[submitCall] BY <2>1, PagesExist
    <3> QED BY <2>1, <2>2, <3>1, <3>2, <3>3, <3>4 DEF ListingInv, RowsAskedFor
  <2>4. CASE UNCHANGED <<lastPaging, rows, selectedRecord>>
    BY <2>1, <2>2, <2>4 DEF ListingInv, RowsAskedFor
  <2> QED BY <1>3, <2>3, <2>4 DEF ReceiveSearchResults
<1>4. ASSUME NEW n, FollowPageLink(n) PROVE ListingInv'
  <2>1. lastPaging # Empty /\ lastPaging.search \in Searches
    BY <1>4 DEF FollowPageLink, ListingInv, RowsAskedFor
  <2>2. n \in DOMAIN Listing[lastPaging.search] /\ n \in Nat
    BY <1>4, <2>1, PagesExist DEF FollowPageLink, PagesFound
  <2> QED BY <1>4, <2>1, <2>2, PaginateListing DEF FollowPageLink
<1>5. CASE NextResult \/ PreviousResult
  <2>1. rows # <<>>
    BY <1>5 DEF NextResult, PreviousResult, MayStep
  <2>2. /\ lastPaging # Empty /\ lastPaging.search \in Searches
        /\ lastPaging.page \in 1 .. PagesFound /\ PagesFound \in Nat
        /\ DOMAIN Listing[lastPaging.search] = 1 .. PagesFound
    BY <2>1, PagesExist DEF ListingInv, RowsAskedFor, PagesFound
  <2>3. \/ UNCHANGED searchVars
        \/ lastPaging.page # PagesFound /\ Paginate(lastPaging.page + 1, "first")
        \/ lastPaging.page > 1 /\ Paginate(lastPaging.page - 1, "last")
    BY <1>5 DEF NextResult, PreviousResult, OpenResult
  <2>4. CASE lastPaging.page # PagesFound /\ Paginate(lastPaging.page + 1, "first")
    <3>1. lastPaging.page + 1 \in 1 .. PagesFound BY <2>2, <2>4
    <3> QED BY <2>1, <2>2, <2>4, <3>1, PaginateListing
  <2>5. CASE lastPaging.page > 1 /\ Paginate(lastPaging.page - 1, "last")
    <3>1. lastPaging.page - 1 \in 1 .. PagesFound BY <2>2, <2>5
    <3> QED BY <2>1, <2>2, <2>5, <3>1, PaginateListing
  <2> QED BY <1>1, <2>3, <2>4, <2>5
<1>6. CASE ReceivePageResults
  <2>1. pageCall # Empty /\ pageCall' = Empty /\ lastSearch' = lastSearch /\ submitCall' = submitCall
    BY <1>6 DEF ReceivePageResults
  <2>2. PageCallOK' BY <2>1 DEF PageCallOK
  <2>3. CASE ReceivePage
    <3>1. lastPaging' = lastPaging /\ rows' = Listing[lastPaging.search][lastPaging.page]
          /\ lastPaging # Empty /\ submitCall = Empty
      BY <2>1, <2>3 DEF ReceivePage, DisplayResults, ListingInv
    <3> QED BY <2>1, <2>2, <3>1 DEF ListingInv, RowsAskedFor
  <2>4. CASE PageRefused
    BY <2>1, <2>2, <2>4 DEF PageRefused, ListingInv, RowsAskedFor
  <2>5. CASE DropPage
    BY <2>1, <2>2, <2>5 DEF DropPage, ListingInv, RowsAskedFor
  <2> QED BY <1>6, <2>3, <2>4, <2>5 DEF ReceivePageResults
<1>7. ClickResult \/ BackToSearch \/ EditRecord \/ StartNewRecord \/ CancelEdit
      \/ (\E asNew \in BOOLEAN : SaveRecord(asNew)) \/ DeleteRecord \/ AnswerDelete
      \/ ReceiveSaveAnswer \/ ReceiveDeleteAnswer => UNCHANGED searchVars
  BY DEF ClickResult, OpenResult, BackToSearch, EditRecord, StartNewRecord, CancelEdit,
         SaveRecord, DeleteRecord, AnswerDelete, ReceiveSaveAnswer, ReceiveDeleteAnswer
<1>8. CASE UNCHANGED recordVars BY <1>1, <1>8 DEF recordVars
<1> QED BY <1>1, <1>2, <1>3, <1>4, <1>5, <1>6, <1>7, <1>8 DEF RecordNext

-----------------------------------------------------------------------------
(* The record on the screen.                                               *)

\* Showing a record, when none is edited, puts it in all its places.
LEMMA OpenSafe ==
  ASSUME ScreenInv, ~Masked, ~Editing, NEW id, OpenResult(id)
  PROVE  ScreenInv' /\ RecordInv'
BY DEF ScreenInv, RecordInv, OpenResult, Show, Editing, Masked, editVars, searchVars

\* A step to another page begins with no edit, and shows nothing yet.
LEMMA PaginateSafe ==
  ASSUME ScreenInv, RecordInv, ~Masked, ~Editing, NEW n, NEW opens, Paginate(n, opens)
  PROVE  ScreenInv' /\ RecordInv'
BY DEF ScreenInv, RecordInv, Paginate, Editing, Masked, editVars

LEMMA ScreenStep ==
  ListingInv /\ ScreenInv /\ RecordInv /\ [RecordNext]_recordVars => ScreenInv' /\ RecordInv'
<1> SUFFICES ASSUME ListingInv, ScreenInv, RecordInv, [RecordNext]_recordVars
             PROVE  ScreenInv' /\ RecordInv'
  OBVIOUS
<1> USE DEF searchVars, screenVars, editVars, Editing, Masked
<1>1. ASSUME NEW q \in Searches, SubmitSearch(q) PROVE ScreenInv' /\ RecordInv'
  <2>1. Stepping' => Stepping
    BY <1>1 DEF SubmitSearch, Stepping, ListingInv, PageCallOK
  <2> QED BY <1>1, <2>1 DEF SubmitSearch, ScreenInv, RecordInv
<1>2. CASE ReceiveSearchResults
  BY <1>2 DEF ReceiveSearchResults, ScreenInv, RecordInv, Stepping
<1>3. ASSUME NEW n, FollowPageLink(n) PROVE ScreenInv' /\ RecordInv'
  BY <1>3, PaginateSafe DEF FollowPageLink, ScreenInv
<1>4. CASE ClickResult
  BY <1>4, OpenSafe DEF ClickResult, ScreenInv
<1>5. CASE NextResult \/ PreviousResult
  <2>1. ~Masked /\ ~Editing
    BY <1>5 DEF NextResult, PreviousResult, MayStep
  <2>2. \/ \E id : OpenResult(id)
        \/ \E n, opens : Paginate(n, opens)
    BY <1>5 DEF NextResult, PreviousResult
  <2> QED BY <2>1, <2>2, OpenSafe, PaginateSafe
<1>6. CASE ReceivePageResults
  <2>1. pageCall # Empty /\ pageCall' = Empty
        /\ UNCHANGED <<editing, confirmed, saveCall, deleteCall, crossed>>
    BY <1>6 DEF ReceivePageResults
  <2>2. ~Stepping' BY <2>1 DEF Stepping
  <2>3. CASE ReceivePage /\ pageCall.opens # "none"
    <3>1. PICK id : Show(id) BY <2>3 DEF ReceivePage
    <3>2. Stepping BY <2>1, <2>3 DEF Stepping, ReceivePage
    <3> QED BY <2>1, <2>2, <3>1, <3>2 DEF Show, ScreenInv, RecordInv
  <2>4. CASE ReceivePage /\ pageCall.opens = "none"
    BY <2>1, <2>2, <2>4 DEF ReceivePage, ScreenInv, RecordInv
  <2>5. CASE PageRefused \/ DropPage
    BY <2>1, <2>2, <2>5 DEF PageRefused, DropPage, ScreenInv, RecordInv
  <2> QED BY <1>6, <2>3, <2>4, <2>5 DEF ReceivePageResults
<1>7. CASE BackToSearch
  BY <1>7 DEF BackToSearch, CloseResult, ScreenInv, RecordInv, Stepping
<1>8. CASE EditRecord
  BY <1>8 DEF EditRecord, ScreenInv, RecordInv, Stepping
<1>9. CASE StartNewRecord
  BY <1>9 DEF StartNewRecord, Show, ScreenInv, RecordInv, Stepping
<1>10. CASE CancelEdit
  BY <1>10 DEF CancelEdit, CloseEdit, CloseResult, ScreenInv, RecordInv, Stepping
<1>11. ASSUME NEW asNew \in BOOLEAN, SaveRecord(asNew) PROVE ScreenInv' /\ RecordInv'
  BY <1>11 DEF SaveRecord, ScreenInv, RecordInv, Stepping
<1>12. CASE ReceiveSaveAnswer
  <2>1. Editing /\ saveCall.id = editing /\ saveCall' = Empty /\ closed
        /\ UNCHANGED <<closed, confirmed, deleteCall, crossed, pageCall>>
    BY <1>12 DEF ReceiveSaveAnswer, ScreenInv
  <2>2. confirmed = Empty /\ deleteCall = Empty BY <2>1 DEF ScreenInv
  <2>3. CASE Saved
    BY <2>1, <2>2, <2>3 DEF Saved, ScreenInv, RecordInv, Stepping
  <2>4. CASE UNCHANGED <<highlight, selectedRecord, formOf, editing>>
    BY <2>1, <2>2, <2>4 DEF ScreenInv, RecordInv, Stepping
  <2> QED BY <1>12, <2>3, <2>4 DEF ReceiveSaveAnswer
<1>13. CASE DeleteRecord
  BY <1>13 DEF DeleteRecord, ScreenInv, RecordInv, Stepping
<1>14. CASE AnswerDelete
  BY <1>14 DEF AnswerDelete, ScreenInv, RecordInv, Stepping
<1>15. CASE ReceiveDeleteAnswer
  BY <1>15 DEF ReceiveDeleteAnswer, CloseResult, ScreenInv, RecordInv, Stepping
<1>16. CASE UNCHANGED recordVars
  BY <1>16 DEF recordVars, ScreenInv, RecordInv, Stepping
<1> QED BY <1>1, <1>2, <1>3, <1>4, <1>5, <1>6, <1>7, <1>8, <1>9, <1>10, <1>11, <1>12, <1>13,
           <1>14, <1>15, <1>16 DEF RecordNext

-----------------------------------------------------------------------------
(* Types.                                                                  *)

\* A new record on the screen is the one being edited, and a save under way
\* is one of those counted.
RecordTyped ==
  /\ RecordTypeOK
  /\ highlight = NewRecord => editing = NewRecord
  /\ saveCall # Empty => saves \in 1 .. MaxRecordSaves

LEMMA RecordTypedInit == RecordInit => RecordTyped
BY RecordPageAssumption DEF RecordInit, RecordTyped, RecordTypeOK, Ids, Editing

\* The rows listed, and those of the page under way, are records.
LEMMA RowsAreRecords ==
  ASSUME ListingInv
  PROVE  /\ \A i \in DOMAIN rows : rows[i] \in Records
         /\ pageCall # Empty =>
              LET page == Listing[pageCall.paging.search][pageCall.paging.page]
              IN  page[1] \in Records /\ page[Len(page)] \in Records
<1>1. \A s \in Seq(Records) : \A i \in DOMAIN s : s[i] \in Records
  OBVIOUS
<1>2. rows # <<>> => rows \in Seq(Records)
  BY PagesExist DEF ListingInv, RowsAskedFor
<1>3. ASSUME rows = <<>> PROVE DOMAIN rows = {}
  BY <1>3
<1>4. ASSUME NEW s \in Seq(Records), s # <<>> PROVE s[1] \in Records /\ s[Len(s)] \in Records
  BY <1>4
<1>5. pageCall # Empty =>
        /\ Listing[pageCall.paging.search][pageCall.paging.page] \in Seq(Records)
        /\ Listing[pageCall.paging.search][pageCall.paging.page] # <<>>
  <2>1. pageCall # Empty => /\ pageCall.paging.search \in Searches
                            /\ pageCall.paging.page \in DOMAIN Listing[pageCall.paging.search]
    BY DEF ListingInv, PageCallOK
  <2> QED BY <2>1, PagesExist
<1>6. \A i \in DOMAIN rows : rows[i] \in Records
  BY <1>1, <1>2, <1>3
<1> QED BY <1>4, <1>5, <1>6

\* Showing a record leaves everything typed.
LEMMA ShowTyped ==
  ASSUME RecordTyped, NEW id \in Records, Show(id),
         UNCHANGED <<lastSearch, submitCall, editing, saveCall, saves>>
  PROVE  RecordTyped'
BY RecordPageAssumption DEF RecordTyped, RecordTypeOK, Show, Ids, Editing

LEMMA PaginateTyped ==
  ASSUME RecordTyped, NEW n, NEW opens, Paginate(n, opens)
  PROVE  RecordTyped'
BY DEF RecordTyped, RecordTypeOK, Paginate, Ids, Editing, editVars

LEMMA SaveTyped ==
  ASSUME RecordTyped, RecordSafe, ReceiveSaveAnswer
  PROVE  RecordTyped'
<1> USE DEF Editing, Ids
<1>1. /\ saveCall # Empty /\ saveCall.id = editing /\ editing # Empty /\ saveCall' = Empty
      /\ UNCHANGED <<closed, saves, lastSearch, submitCall>>
  BY DEF ReceiveSaveAnswer, RecordSafe, ScreenInv, searchVars
<1>2. SavedId \in Records
  BY <1>1, RecordPageAssumption DEF SavedId, RecordTyped, RecordTypeOK
<1>3. CASE Saved
  BY <1>1, <1>2, <1>3, RecordPageAssumption DEF Saved, RecordTyped, RecordTypeOK
<1>4. CASE UNCHANGED <<highlight, selectedRecord, formOf, editing>>
  BY <1>1, <1>4 DEF RecordTyped, RecordTypeOK
<1> QED BY <1>3, <1>4 DEF ReceiveSaveAnswer

LEMMA TypedStep == RecordTyped /\ RecordSafe /\ [RecordNext]_recordVars => RecordTyped'
<1> SUFFICES ASSUME RecordTyped, RecordSafe, [RecordNext]_recordVars PROVE RecordTyped'
  OBVIOUS
<1> USE DEF searchVars, screenVars, editVars, Editing, Masked, Ids, RecordTyped, RecordTypeOK
<1>1. ASSUME NEW q \in Searches, SubmitSearch(q) PROVE RecordTyped'
  BY <1>1 DEF SubmitSearch
<1>2. CASE ReceiveSearchResults
  BY <1>2 DEF ReceiveSearchResults
<1>3. ASSUME NEW n, FollowPageLink(n) PROVE RecordTyped'
  BY <1>3, PaginateTyped DEF FollowPageLink
<1>4. ASSUME NEW i \in DOMAIN rows, OpenResult(rows[i]) PROVE RecordTyped'
  BY <1>4, RowsAreRecords, ShowTyped DEF OpenResult, RecordSafe
<1>5. CASE ClickResult
  BY <1>4, <1>5 DEF ClickResult
<1>6. CASE NextResult \/ PreviousResult
  <2>1. CASE \E n, opens : Paginate(n, opens) BY <2>1, PaginateTyped
  <2>2. CASE \E i \in DOMAIN rows : OpenResult(rows[i]) BY <2>2, <1>4
  <2>3. rows # <<>> /\ ListingInv
    BY <1>6 DEF NextResult, PreviousResult, MayStep, RecordSafe
  <2>4. rows \in Seq(Records)
    BY <2>3, PagesExist DEF ListingInv, RowsAskedFor
  <2>5. DOMAIN rows = 1 .. Len(rows) /\ Len(rows) \in Nat BY <2>4
  <2>6. ASSUME NEW j \in DOMAIN rows
        PROVE  /\ j < Len(rows) => j + 1 \in DOMAIN rows
               /\ j > 1 => j - 1 \in DOMAIN rows
    BY <2>5
  <2>7. (CHOOSE j \in DOMAIN rows : rows[j] = selectedRecord) \in DOMAIN rows
    BY <1>6 DEF NextResult, PreviousResult, MayStep
  <2> QED BY <1>6, <2>1, <2>2, <2>6, <2>7 DEF NextResult, PreviousResult
<1>7. CASE ReceivePageResults
  <2>1. /\ pageCall # Empty
        /\ UNCHANGED <<lastSearch, submitCall, editing, saveCall, saves>>
    BY <1>7 DEF ReceivePageResults
  <2>2. CASE ReceivePage /\ pageCall.opens # "none"
    <3>1. PICK id \in Records : Show(id)
      BY <2>1, <2>2, RowsAreRecords DEF ReceivePage, DisplayResults, RecordSafe
    <3> QED BY <2>1, <3>1, ShowTyped
  <2>3. CASE ReceivePage /\ pageCall.opens = "none"
    BY <2>1, <2>3 DEF ReceivePage
  <2>4. CASE PageRefused \/ DropPage
    BY <2>1, <2>4 DEF PageRefused, DropPage
  <2> QED BY <1>7, <2>2, <2>3, <2>4 DEF ReceivePageResults
<1>8. CASE BackToSearch
  BY <1>8, RecordPageAssumption DEF BackToSearch, CloseResult
<1>9. CASE EditRecord
  BY <1>9 DEF EditRecord
<1>10. CASE StartNewRecord
  BY <1>10, RecordPageAssumption DEF StartNewRecord, Show
<1>11. CASE CancelEdit
  BY <1>11, RecordPageAssumption DEF CancelEdit, CloseEdit, CloseResult
<1>12. ASSUME NEW asNew \in BOOLEAN, SaveRecord(asNew) PROVE RecordTyped'
  <2>1. saves' = saves + 1 /\ saves' \in 1 .. MaxRecordSaves
    BY <1>12, RecordPageAssumption DEF SaveRecord
  <2> QED BY <1>12, <2>1 DEF SaveRecord
<1>13. CASE ReceiveSaveAnswer BY <1>13, SaveTyped
<1>14. CASE DeleteRecord \/ AnswerDelete
  BY <1>14 DEF DeleteRecord, AnswerDelete
<1>15. CASE ReceiveDeleteAnswer
  <2>1. ~Editing BY <1>15 DEF ReceiveDeleteAnswer, RecordSafe, ScreenInv
  <2> QED BY <1>15, <2>1, RecordPageAssumption DEF ReceiveDeleteAnswer, CloseResult
<1>16. CASE UNCHANGED recordVars
  BY <1>16 DEF recordVars
<1> QED BY <1>1, <1>2, <1>3, <1>5, <1>6, <1>7, <1>8, <1>9, <1>10, <1>11, <1>12, <1>13,
           <1>14, <1>15, <1>16 DEF RecordNext

-----------------------------------------------------------------------------
\* All of it is an invariant, whatever is searched for and in whatever order
\* the answers come.
THEOREM RecordIsSafe == RecordSpec => []RecordSafe
<1>1. RecordSafe /\ [RecordNext]_recordVars => RecordSafe'
  BY ListingStep, ScreenStep DEF RecordSafe
<1> QED BY <1>1, RecordSafeInit, PTL DEF RecordSpec

\* What is on the screen, edited and saved is a record or the new one, and the
\* search area is closed exactly while buttons are shown (openResult, closeResult).
THEOREM ScreenTyped == RecordSpec => []RecordTypeOK
<1>1. RecordTyped => RecordTypeOK BY DEF RecordTyped
<1> QED BY <1>1, RecordTypedInit, TypedStep, RecordIsSafe, PTL DEF RecordSpec

\* The rows listed are those of the page and the search asked for last
\* (Search.submit and Search.paginate compare the parameters they were sent with).
THEOREM ListedAsAsked == RecordSpec => []RowsAskedFor
<1>1. RecordSafe => RowsAskedFor BY DEF RecordSafe, ListingInv
<1> QED BY <1>1, RecordIsSafe, PTL

\* No record is saved with the fields of another, except by an edit that began
\* during a step to another page (editRecord, saveRecord).
THEOREM SavedAsFilledIn == RecordSpec => []SavesNoOtherRecord
<1>1. RecordSafe => SavesNoOtherRecord
  BY DEF RecordSafe, RecordInv, SavesNoOtherRecord
<1> QED BY <1>1, RecordIsSafe, PTL

\* The question before a deletion is about the record that is deleted, with the
\* same exception (deleteRecord, deleteRecordQuestion).
THEOREM DeletedAsNamed == RecordSpec => []DeletesWhatItNames
<1>1. RecordSafe => DeletesWhatItNames
  BY DEF RecordSafe, RecordInv, DeletesWhatItNames
<1> QED BY <1>1, RecordIsSafe, PTL
=============================================================================
