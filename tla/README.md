# A formal model of Biblivre

Biblivre is the library management system in `src/`: a Java web application (a
servlet that dispatches JSON requests to handlers, PostgreSQL below) with two front
ends, JSP pages driven by JavaScript and a TypeScript single-page application. This
directory holds TLA+ models of the parts of it whose correctness depends on the
order in which things happen, the TLC configurations that check them on small
instances, and proofs that TLAPS checks for every instance.

Each definition was translated from the source. `PROJECT.json` names, for every
definition that stands for code, the file and the lines. The documents
(`src/CONTEXT.md`, `src/docs/adr/`), the comments and the texts of dialogs supply
only the *claims* that the code is held against.

## 1. How the program executes

These facts about the code decide the shape of every model.

- **Requests are concurrent.** A servlet thread serves each request; nothing
  serialises two requests for one copy, one card or one reader. Handlers and
  business objects are singletons without locks.
- **Each DAO call commits by itself.** A DAO method takes a connection from the
  pool in auto-commit mode and closes it (`core/AbstractDAO.java`). A handler that
  makes five calls commits five times, and a second request can commit between
  any two. The exceptions are the methods that call `withTransactionContext`; of
  those a circulation handler uses, only `LendingDAOImpl.doRenew` needs it. A
  restore, too, commits every statement by itself (`RestoreService.java:156`).
- **The database adds little.** Foreign keys cascade on delete. There is no
  unique index on open lendings, open visits or fines.
- **A request may stop anywhere.** A lost connection or a stopped server ends
  the handler between two statements. What was committed stays; nothing is
  retried or cleaned up, except by the revert of a restore.
- **Pages are out of date.** Handlers take ids from a page rendered earlier, and
  several do not ask whether the row is still in the state the page showed.
- **Pages are single-threaded, their requests are not ordered.** A handler of a page
  runs to its next `await` or callback; what it does with an answer runs whenever
  that comes, in any order, over whatever the page shows by then. The Return page
  disables its controls while a request is out. The readers page does not: each of
  its mutations is a react-query observer that follows its latest call only, so the
  answer of an overtaken call is dropped while its effect is not. The legacy pages
  put an overlay over the screen while a record is saved or deleted, and nothing
  over it while a page of results is fetched.

A request to the server is therefore a *process* with a program counter `pc[r]` and a
memory `job[r]` of what it has read. One action is one statement, together with
the Java that runs before the next. A page is a process whose actions are what staff
do, and the answers they get; there the server serves a request in one step, since
its interleavings are the subject of the other modules.

## 2. Inventory

`PROJECT.json` lists 29 components with their sources and status. Those with
behaviour of their own:

| Component | State it keeps | Operations | Interacts with | What is hard | What makes it correct |
|---|---|---|---|---|---|
| Lending desk (`circulation/lending`) | `lendings`: copy, reader, due and return dates, previous lending | lend, renew, return, immediate return, undo of a return | fines, reservations, due dates, readers, holdings | check, then write, in separate commits; two statements that belong together | one open lending per copy; limits; return dates are final |
| Fines (`LendingFineBO`) | `lending_fines`: lending, value, paid | charge, adjust, pay or waive, delete on undo | lending desk | payment or adjustment beside an undo | a late return has its fine, once; a paid fine stays |
| Reservations (`circulation/reservation`) | `reservations`: reader, record, expiry | reserve, cancel, remove on lending; self-service | lending desk, due dates | counting before inserting; expiry by the calendar | limit on live reservations |
| Due dates (`CalendarUtils`) | a cache for the life of the server | compute the date n business days ahead | configurations | arithmetic on weeks, two numberings of weekdays, termination, stale cache | right day, always an answer |
| Access cards (`accesscontrol`, `accesscards`) | `access_cards.status`, `access_control` visits | bind, unbind, reader left with card; create, block, cancel, delete | readers | two tables written one after the other, administrators meanwhile | one reader per card, one card per reader; the tables agree |
| Reader accounts (`circulation/user`, `login`) | `users`, `logins`, photo | save, block, disable, delete, log in | lending reads the status; cascades reach every table above | account, login and photo are written apart; one request deactivates or deletes, by the status it finds | a reader is deleted for ever only on purpose |
| Return page (SPA, `circulation/return`) | results, slip, last return and its fine, undo offer | search or scan, return, undo, pay, waive, adjust, print, clear | lending desk, fines | answers that are lost, an undo window that ends unseen, a scan that becomes a return | slip and panel show what the library has |
| Readers page (SPA, `circulation`) | rows, statuses laid over them, dialogs | search, page, block, unblock, delete, save | reader accounts | five mutations side by side, the table never read again | the status shown is the status |
| Form of a reader (SPA, `CirculationUserFormFlyout`) | fields, a lookup, photos, a save | type, look an address up, choose a photo, save, cancel | address lookup, readers page | three things in the background while staff type on | nothing typed is overwritten unasked; the photo chosen is the photo saved |
| Legacy pages (`biblivre.search.js`, `biblivre.input.js`) | results, the record on the screen in four places, the id edited | search, page, open, step, edit, save, delete | readers, cataloguing, acquisition and others configure them | answers replace the record under an edit | what is saved or deleted is what is on the screen |
| User types | limits and rates | save, delete | lending, fines, reservations | changed while lendings are open | |
| Holdings (`cataloging/holding`) | `biblio_holdings`: accession number, availability | number, save, delete | lending | next number is read, then used; a unique index refuses the second | |
| Cataloguing and indexing | records in several tables, index tables | save, move, delete, reindex | search | reindexing beside edits | the index agrees with the records |
| Configurations, translations | tables, and a cache in the DAO | read through the cache; save invalidates | everything | invalidation before commit | a saved value is seen |
| Backup, restore, set-up | files, schemas, the register of libraries, `State` | back up, restore, import | everything | renames, data, drops and rows in separate commits; a revert that can fail too | no library is lost; a failed restore leaves the old ones |
| Libraries (`multi_schema`, `SchemaFilter`) | schemas, the schema of a request | enable, disable, delete, dispatch | everything | a thread-local per request | a request sees one library (ADR-0002) |
| Update runner (`update`) | installed versions per schema | apply the updates not installed | set-up | restart half-way | each update is applied once |
| Digital media | large objects, or files in another store | store, serve, migrate | cataloguing | migration beside use | no file is lost |
| Acquisition | suppliers, requests, quotations, orders | save, search, delete | | edited independently | |

Reports, labels, user cards, MARC, import, permissions, address lookup, mail and
rendering are formatting or single statements: there is no protocol to model.

## 3. What is modelled

| Module | What it is |
|---|---|
| `LoanLedger` | the abstract promise of the desk: every copy is free or on one loan |
| `Circulation` | the lending desk, fines and reservations, statement by statement; implements `LoanLedger` |
| `DueDate` | counting business days, with its cache and changes of configuration |
| `AccessControl` | access cards and visits, statement by statement |
| `ReturnPage` | the Return page, its server and other desks; implements `LoanLedger` too |
| `UsersPage` | the readers page of the single-page front end, with the handlers of readers |
| `UserForm` | the form a reader is edited in |
| `RecordPage` | a legacy page that searches and edits records |
| `Restore` | restoring libraries, statement by statement, with the page that starts it |
| `Pages` | the five before it as one tab of a browser: one page is mounted at a time |
| `MCCirculation`, `MCDueDate`, `MCAccessControl`, `MCPages` | values for TLC |
| `Circulation_proofs`, `DeskPromises_proofs`, `DueDate_proofs`, `AccessControl_proofs`, `ReturnPage_proofs`, `ReaderPages_proofs` (`UsersPage` and `UserForm`), `RecordPage_proofs`, `Restore_proofs` | theorems |

Operators under a comment *Seeded fault* are plausible bugs. They are in no
specification; substituted for the definition after them, each makes the property
that `PROJECT.json` names under `mutants` fail, which shows that the property sees
what that code does.

### Circulation

`lendings`, `fines` and `reservations` are the tables, as functions from ids to rows
or `NoRow`; `nextId` holds their sequences; `status` and `availability` are the two
columns that lending reads; `now` is the clock.

| Handler | Actions, one per statement |
|---|---|
| lend | `LendStart` (copy and reader are read; blocked, inactive and unavailable end the request), `LendCheckHolding`, `LendCheckLimit`, `LendInsert`, `LendDequeue` (the reader's oldest live reservation of the title goes) |
| renewLending | `RenewStart`, `RenewCheckLimit`, `RenewCommit` (close and insert in one transaction) |
| returnLending | `ReturnStart` (value and paid typed by staff), `ReturnClose`, `ReturnFine` |
| returnImmediate | `ImmediateStart` (refuses a copy with no open lending), `ImmediateClose`, `ImmediateFine` (computed from a second reading of the clock) |
| undoReturn | `UndoStart` (window), `UndoCheckHolding`, `UndoReadFine` (refuses a paid or altered fine), `UndoDeleteFine`, `UndoReopen` |
| adjustFine, payFine | `AdjustStart`/`AdjustWrite`, `PayStart`/`PayWrite` (pay writes back the value it read) |
| reserve, cancel | `ReserveStart`, `ReserveCheckLimit`, `ReserveInsert`; `Cancel` |
| block, unblock, disable; availability | `SetStatus`, `SetAvailability` |

`Fail(r)` ends a request wherever it is. Three constants state what an instance
assumes of the world:

- `OneDeskPerCopy`: a physical copy is in one person's hands, so one request at a
  time is about it. **The code does not enforce it.** `lendRace` shows what
  happens without it.
- `FreshPages`: renew and return are requested for lendings that are open when
  the request begins, and pay for fines then unpaid. The page offers no others,
  but the handlers do not test it. An undo and an immediate return test it
  themselves and do not depend on this constant.
- `Failures`: requests may die between statements.

Data left out: amounts are whole currency units; the due date of a loan begun at
an instant is a constant function, since which date it is belongs to `DueDate`;
texts, receipts, searches and e-mails are not there.

### DueDate

One call at a time, as the code has it: it reads the configuration once, looks in
the cache (`CallKnown`), else skips whole weeks (`CallCount`), counts the days
left (`Count`), moves on to a business day (`RollForward`, `Counted`) and stores
the offset (`Store`). `Configure` changes the business days between calls. Two
concurrent calls share only the cache, in which a key determines its value, so
interleaving them adds no behaviour.

### AccessControl

`cards`, `visits`, and requests as above. `lendCard` is five actions (`BindStart` to
`BindInsert`), `returnCard` is `UnbindStart` to `UnbindClose`, and `WalkoutStart` and
`WalkoutEnd` when no card id is sent. `ChangeStatus` and `RemoveStart`,
`RemoveCancel`, `RemoveDelete` are the administrator's page. `removeCard` reads the
status first and then deletes or cancels, and the delete takes the visits along
(`ON DELETE CASCADE`).

`OneDesk` says that no two requests at once are for one card or one reader (they
stand at one gate); `FreshPages` that pages show the current tables; `QuietAdmin`
that administrators act while no card is being bound. The code enforces none of
them, and each run says which it takes.

### ReturnPage

The hook `useCirculationReturn` and its panels. `loan`, `undoable` and `fine` are the
server's rows, as the handlers of `Circulation` leave them; `results`, `slip`, `last`,
`adjusting` and `offered` are the state of the hook. `pending` is the one request in
flight, which goes through `Submit`, `ServeRequest` and `ReceiveAnswer`, or
`RequestFails` before or after it was served. `ReceiveSearch` may turn an answer
into the next request: a scan that names one copy returns it.

- `offered` is a variable because the undo button is computed when the page is
  rendered, and nothing renders it when the window ends (`WindowEnds`).
- `OtherDesk` lends, returns, undoes, pays and adjusts the same lendings.
- `untold` remembers (for the properties only) the lendings that were changed behind
  the page's back: at another desk, or by a request whose answer was lost.
- `Reload` leaves the page or loads it again.

### UsersPage

`status` is the server's column. `asks[kind]` is the latest call of each mutation
(search, paginate, block, unblock, delete, save); a call overtaken by a later one of
its kind, or whose form was closed, becomes one of `strays`: it reaches the server
and its answer is dropped. What the table shows is computed as the hook does it,
from `found` or `paged` with `overrides`, `created` and `removed` on top. `confirming`,
`selected` and `form` are the dialog and the flyouts; while one is open, the table
cannot be reached. `StatusAfter` is what the handlers do, with the delete that
deactivates an active reader and deletes an inactive one.

`unknown` holds (for the property) the readers whose change the page could not
know of: overtaken, lost, crossed with another change of the same reader, made
elsewhere, or made by the form, whose result the table lays the old status over.
`Losses` and `OtherDesks` switch the last two worlds on.

### UserForm

`values` is what the form shows, an address field being blank, typed or found by a
lookup of a zip code. `HandleAddressLookup` to `ReceiveLookup` to `AnswerOverwrite`
is the lookup with its confirmation; `HandlePhotoSelect` starts one of several
conversions, which end in any order (`PhotoConverted`), also after
`HandlePhotoRemove`; `HandleSave`, `ServeSave`, `ReceiveSave` and the dialog that asks
before edits are thrown away complete it. `overlapped` marks a form in which a
photo was chosen or removed while another was being converted.

### RecordPage

The objects `Search` and `Input` as the readers page configures them. The record on
the screen is in four places, which the code writes apart: `highlight` (its buttons
carry the id), `formOf` (what the fields were filled from), `selectedRecord`, and
`editing`. `submitCall`, `pageCall`, `saveCall` and `deleteCall` are the requests in
flight. `NextResult` at the last row is a change of page that opens a record when it
is answered, with no overlay meanwhile. `crossed` marks an edit begun during such a
step.

### Restore

`restoreBackup` is a sequence of loops, each over a set of schemas in the order of a
`HashMap`, hence in any order. `stage` is the loop, `todo` what it has left and `half`
the schema of which the first of two statements is done.

| Loop in `RestoreBO` | Stage | Action |
|---|---|---|
| rename what is in the way to temporary names | `pre` | `SetAside` |
| create and fill the schemas of the backup | `data` | `CreateSchema`, `FillSchema` |
| rename them to their final names | `post` | `GiveName` |
| rename back what was in the way and not replaced | `back` | `PutBack` |
| drop what was replaced, with its row | `drop` | `DropReplaced`, `DeleteRow` |
| register the restored libraries | `rows` | `Register` |
| delete the rows of schemas that do not exist | `sweep` | `Sweep` |
| bring the restored libraries up to date | `update` | `Update` |
| the revert: drop what was restored, rename back | `undo`, `undoNames` | `UndoDrop`, `PutBack` |

`EndStage` goes from one to the next. `StatementFails` ends the restore at any
statement of the stages in `MayFail`, and wherever the database must refuse
(`InTheWay`: a name is missing or taken). In `pre` and `data` it starts the revert,
later it only answers with a failure; a drop that fails in the revert is passed
over and remembered in `suppressed`. What a schema holds is its old data, part of
the backup or all of it; the global schema also holds the register of libraries,
and may itself be restored. `Begin` is the handler: it asks for the file of
digital media if the backup has none, works out which schemas go to which names,
and sets `State.LOCKED`, which `Idle` releases in every case. `setupPage`,
`selection`, `request`, `scope` and `backupType` are the page, which asks for the media
and sends the same selection again.

### Pages

The five page modules share no variable; `Pages` puts them side by side with the
`page` that is mounted, so that one run checks them all, and states the one thing
said of all of them: no page waits for ever.

## 4. The runs

| Run | Instance | Shows |
|---|---|---|
| `desk` | 1 copy, 2 readers, 2 requests, 2 lendings, 2 fines, 3 days, failures | `TypeOK`; the copy is never on two open lendings (`OneOpenLending`); a lending has at most one fine, and only while closed (`FineOfClosedLending`); what a request has checked about its copy is still true when it writes (`DeskInv`); return dates are not overwritten (`ReturnDateStable`) |
| `ledger` | 2 copies, 2 readers, 2 requests, 3 lendings, failures | every statement is a step of `LoanLedger` or a stutter (`ImplementsLedger`) |
| `fines` | as `desk`, without failures | a late return ends with its fine (`LateReturnFined`), beside undo, renewal, adjustment and payment |
| `limits` | 2 copies of one title, 1 request at a time, lending, renewing, returning, reserving and cancelling but no undo, 3 lendings, 2 reservations, failures | lending and reservation limits hold (`LimitPreserved`, `ReservationLimitPreserved`) |
| `cards` | 2 cards, 2 readers, 2 requests, 3 visits; fresh pages, quiet administrators, no failures | `TypeOK`; status and visits agree whenever nothing is in flight (`CardMatchesVisit`); binding and unbinding lift no block (`BlockKept`) |
| `cardsFaulty` | the same with stale pages, failures and administrators at any moment | still one reader per card and one card per reader (`OneHolder`, `HolderInv`) |
| `dates` | all 64 sets of business days without Sunday, four with it, limits 0, 6 and 15, two calls, the configuration changed before either | whole weeks are skipped without losing a day (`NoDayLost`), the date is the one the definition gives, from the cache too (`RightDate`), the loops never meet the bound of the model (`BoundNotMet`), and every call ends (`CallReturns`) |
| `pages` | the five pages, see below; lost answers, other desks, failing statements | see below |

`pages` is one run of 406,504 distinct states, of which each page has its part:

- *Return page*: the slip has a lending once, and only while it is returned
  (`SlipOfReturns`); the panel shows the fine the library has, though it is computed
  from answers and never read again (`LastFineTrue`); page, server and other
  desks together keep the ledger (`ReturnImplementsLedger`).
- *Readers page*: a status shown is the status, except of readers in `unknown`
  (`ShownStatusTrue`).
- *Form*: an answer overwrites what staff typed only after they agreed
  (`OverwriteConfirmed`), and only with the address of the zip code on the screen
  (`LookupOfZip`); the photo saved is the one chosen last (`PhotoChosen`).
- *Legacy page*: the rows are those asked for last, in whatever order answers come
  (`RowsAskedFor`); no record is saved with another's fields
  (`SavesNoOtherRecord`); the dialog names the record that is deleted
  (`DeletesWhatItNames`).
- *Restore*: no installed library is lost, wherever the restore or its revert fails
  or stops (`NoLibraryLost`); a restore that fails before its data is complete leaves
  every library, name and row as it was (`FailedRestoreUndone`); when the page
  says it succeeded, what was selected is there, registered, and nothing else was
  touched (`RestoredAsChosen`).
- *All*: controls are enabled again, lookups and conversions end, a restore is answered
  and releases its lock (`WaitingEnds`, a liveness property).

Four runs end in a violation: the code does not do what its own text says.

| Run | The text | The counterexample |
|---|---|---|
| `lendRace` | `LendingBO.java:110` "The material can't be already lent" | two requests pass the check before either inserts |
| `undoPay` | `CONTEXT.md:36` undo reverses the fine "only if the Fine is still unpaid" | paid between the test and the `DELETE`, the payment is lost with the fine |
| `walkout` | `AccessControlBO.java:127` a reader left with the card, "so we have to block it" | without a card id no visit is looked up, and the branch that blocks is never reached |
| `deletedForGood` | `CirculationUsersControlsAndTable.tsx:215` a reader marked as inactive "só poderá ser encontrado através da pesquisa avançada, de onde poderá ser excluído permanentemente ou recuperado" | a reader set to inactive in the form is still listed as active; "mark as inactive" reaches a handler that finds the reader inactive and deletes for ever (`circulation/user/Handler.java:192`) |

Two more deviations have no run of their own, because a passing run shows them when
one constant is changed: `limits` with `"undo"` among its `Operations` (return, borrow
another copy, undo: one above the limit, against `LendingBO.java:115` "The lending
limit ... must be preserved"), and `fines` with `Failures = TRUE` (the server stops
between the `UPDATE` and the `INSERT`, against ADR-0001 "a late Return always
implies a Fine row").

### Bounds, and why they are enough

Every bound is a constant: `MaxLendings`, `MaxFines`, `MaxReservations`, `MaxVisits`,
`MaxCalls`, `Instants`, `MaxInFlight`, `MaxChanges`, `MaxPhotos`, `MaxRecordSaves`, and the
finite sets of ids. At a bound the insert or the request is disabled, so behaviours
end, and the runs switch the deadlock check off for that reason only.

- Two requests show every pairwise interleaving. The properties speak of pairs of
  rows, so a violation needs two writers; the proofs cover any number.
- Two lendings of a copy are what a second open lending, a renewal, or an undo
  after another loan needs. The ledger has a third, for a renewal and a loan of the
  other copy. Two fines are what a double charge needs.
- Loans last zero days and the clock goes to 2, so loans are returned on time, one
  day late and two, and an undo falls inside its window (1) and outside.
- Limits are 1, so one step beyond them is reachable with two copies. Two
  reservations are one more than the limit.
- Three visits allow a reader to come back and find the other card.
- Days: 6 and 15 are and are not multiples of the business days of a week, below
  and above one week. Calls are made on Mondays; on another weekday the week is the
  same but rotated, and most rotations are among the 68 sets of business days. `MaxOffset` caps the
  counter above any offset the loops can reach; a loop that would run away stops
  there without returning, which `CallReturns` reports.
- Return page: two lendings of one copy are what an undo after another loan needs,
  one of them late; the other copy's accession number is this one's id, which is
  what scanning must tell apart. One amount to adjust to differs from the fee.
- Readers page: two readers on two pages, one not created yet; two calls in flight
  and two changes let one overtake, cross or outlive another.
- Form: two zip codes, of which one lacks a field; two photos overlap.
- Legacy page: three pages of results with a record that two of them list, another
  search, and two saves, so that a page can be asked for, overtaken and edited over.
- Restore: a backup of the global schema and two libraries, into every set of
  installed ones of three, under every choice of names: chains and swaps of names,
  a library in the way of one restored under its name, and one that is not
  concerned. `MayFail` has every stage but `pre` (see section 6).
- Readers, requests and cards are alike, which the symmetry sets use. `dates` and
  `pages` have liveness properties and use none.

### Fairness

| Condition | Why the code justifies it |
|---|---|
| `DueDate`: weak fairness of `Compute` | a thread in those loops makes no call and takes no lock, so nothing can hold it up |
| `ReturnFairness`: weak fairness of `ServeRequest \/ ReceiveAnswer` | the server answers, and the event loop runs the continuation of an `await`. They are never enabled together. That a request may also fail is allowed (`RequestFails`), not assumed. |
| `FormFairness`: weak fairness of `ReceiveLookup` and of `PhotoConverted` | the lookup is answered or times out, the decoding of an image ends |
| `RestoreFairness`: weak fairness of `RestoreStep \/ ReceiveRestore` | one thread executes the statements one after the other, and each ends or fails |

Nothing staff do is fair, nor are calls and changes of configuration. `Circulation`,
`AccessControl`, `UsersPage` and `RecordPage` state safety only: nothing in the code
makes a person come to the desk, and a request that dies is never resumed.

## 5. What is proved

| Theorem | Assumes | Says |
|---|---|---|
| `Circulation_proofs!TypeCorrect` | nothing | `Spec => []TypeOK` |
| `Circulation_proofs!DeskIsSafe` | `OneDeskPerCopy`, `FreshPages` | the inductive invariant `DeskSafe`, and `DeskInv` |
| `Circulation_proofs!CopyLentOnce` | the same | `[]OneOpenLending` |
| `Circulation_proofs!OneFineWhileClosed` | the same | `[]FineOfClosedLending` |
| `Circulation_proofs!ReturnDateKept` | the same | `ReturnDateStable`, an action property |
| `DeskPromises_proofs!DeskImplementsLedger` | the same | `Circulation` implements `LoanLedger` |
| `DeskPromises_proofs!LimitsAreKept`, `ReservationLimitsAreKept` | the same, one request at a time, no undo | `[]LimitPreserved`, `[]ReservationLimitPreserved` |
| `DeskPromises_proofs!LateReturnsAreFined` | `OneDeskPerCopy`, `FreshPages`, no failures, no returns on the page where staff set the fine | `[]LateReturnFined` |
| `DueDate_proofs!DatesAreCounted`, `DatesTyped`, `NoDayIsLost` | nothing | the inductive invariant `DueDateInv`, `[]TypeOK` and `[]NoDayLost` |
| `DueDate_proofs!DatesAreRight` | nothing | `[]RightDate`: the date counted is the one the definition gives |
| `DueDate_proofs!LoopsStayBelowBound` | nothing | `[]BoundNotMet`: the bound of the model is never what stops the loops |
| `AccessControl_proofs!CardsTyped` | nothing | `Spec => []TypeOK` |
| `AccessControl_proofs!BindsInFlight`, `CardWithOneReader` | `OneDesk` | `[]HolderInv` and `[]OneHolder`, with stale pages, failures and administrators at any time |
| `AccessControl_proofs!TablesAgree`, `CardsMatchVisits`, `BlocksAreKept` | `GoodDesk` | the inductive invariant `TablesInv`, `[]CardMatchesVisit`, and `BlockKept`, an action property |
| `ReturnPage_proofs!PageIsSafe`, `PageTyped`, `SlipIsOfReturns`, `FineIsTrue` | nothing | the inductive invariant `ReturnSafe`, and the three properties of the page |
| `ReturnPage_proofs!PageImplementsLedger` | nothing | page, server and other desks implement `LoanLedger` |
| `ReaderPages_proofs!FormIsSafe`, `FormTyped`, `PhotoIsChosen` | nothing | the inductive invariant `FormSafe`, and the two invariants of the form |
| `ReaderPages_proofs!OverwritesConfirmed`, `LookupsOfZip` | nothing | the two action properties of the form |
| `ReaderPages_proofs!UsersAreSafe`, `UsersTypes`, `StatusesShownTrue` | nothing | the inductive invariant `UsersSafe`, and the two invariants of the readers page |
| `RecordPage_proofs!RecordIsSafe`, `ScreenTyped`, `ListedAsAsked`, `SavedAsFilledIn`, `DeletedAsNamed` | nothing | the inductive invariant `RecordSafe`, and the four properties of the page |
| `Restore_proofs!RestoreIsSafe`, `RestoreTyped`, `LibrariesAreKept` | first renames do not fail (`"pre" \notin MayFail`) | the inductive invariant `RestoreSafe`, `[]RestoreTypeOK` and `[]NoLibraryLost` |
| `Restore_proofs!RestoreKeepsTrack`, `FailureIsUndone`, `SuccessIsAsChosen` | the same | the inductive invariant `RestoreKept`, `[]FailedRestoreUndone` and `[]RestoredAsChosen` |

They hold for every set of copies, readers, cards, requests, records and libraries,
every policy, backup and bound, under the named assumptions on the constants
(`CatalogAssumption`, `PolicyAssumption`, `TimeAssumption`, `BoundAssumption`,
`DueDateAssumption`, `CardAssumption`, `ReturnPageAssumption`, `UsersPageAssumption`,
`UserFormAssumption`, `RecordPageAssumption`, `RestoreAssumption`), which say that
rates, limits and days are natural numbers, that time limits are finitely many, that later instants are not on earlier days, that listings
have no empty page, and that `NoRow`, `None` and their like are not data.

**Type correctness** of the desk already has to be inductive about more than types:
a job must name a lending that is stored and of the copy the job holds (`JobsOK`),
and rows exist exactly below the sequence (`SequencesOK`), or an insert might
overwrite a row.

**The desk.** `OneOpenLending` alone is not inductive: nothing in it says that a
request about to insert has found the copy free. `Checked(pc[r], job[r])` records,
per step, what `r` has established (the copy is not lent; the lending is open, or
closed; it has no fine, or exactly the one about to be deleted). `Exclusive` says
that no two requests are on one copy. The heart of the proof is `Undisturbed`: a
step that touches only lendings of copy `h` and their fines leaves what others have
checked about other copies alone. The steps then divide into those that only read,
those that write the copy in hand, and those on fines or reservations. `Fail` only
ends a request: what it established is no longer needed. Without `OneDeskPerCopy`,
`Undisturbed` has nothing to apply to, and `lendRace` is the counterexample.
Without `FreshPages`, `RenewStart` would not establish that the lending is open.

**The ledger and the limits.** The refinement needs one fact more, `RenewsOwn`: a
renewal under way remembers the reader of the lending it renews. Each write of
`lendings` is then one action of the ledger, and every other statement a stutter. The
limits need `Room`, a part of `LimitInv`: a request past its count has found room for
its reader, which stays true because with one request at a time (`OneAtATime`)
nobody else adds a row; a reopened lending would, hence `NoUndo`. Time only lets reservations expire.

**Late fines.** `LateReturnFined` speaks of lendings that no request is working on;
what every step keeps is about those being worked on too. `Charged` exempts only
the `Unsettled`: a lending for which a statement is still to come that charges it
(`immediate.fine`) or opens it again (`undo.reopen`). An undo that is refused has
deleted nothing, so it exempts nothing before its `DELETE`. `PastReturns` is what the
second reading of the clock needs: a fine worked out later is not smaller. The
conditions are the ones the property has: a request that dies after its `UPDATE`
leaves a late return without a fine, and `returnLending` charges what staff typed.

**Due dates.** The reference definition chooses the least number of days before
which the time limit has gone by; that there is one follows from well-foundedness
(`LeastNumber`) instead of induction. `WeeksCounted` is what skipping whole weeks
rests on: the business days of `k` weeks are in bijection with pairs of a week and a
business day of it, so their number is a product, whatever the start. `CountNext`
is one more day, `CountGrows` the monotony that makes the first date found the
first there is. `LoopRight` then says at every turn that the business days passed
over and those that remain are the limit, and that none of the days passed over was
the date; `CacheRight` and `StoreRight` that what is remembered, or about to be, is
what its key stands for, which holds because the configured days are in the key.
`LoopsEnd` gives termination in safety form: two weeks after the weeks skipped there
are more business days than were asked for.

**The cards.** Visits are only added by `BindInsert`; every other step closes or
deletes some (`FewerVisits`), which cannot falsify that a card or a reader has none.
That is why administrators, stale pages and failures do no harm to `OneHolder`.
They do harm the agreement of the two tables, so `GoodDesk` excludes them: `OneDesk`,
fresh pages, administrators who wait for the desks, no failures, cards created
available, and none uncancelled. `TablesInv` then says that no two requests are about
one card (`Apart`), what status and visits the card in hand has at each step
(`Hand`), and that every card not between the two statements of a request agrees
with its visits (`Fits`). `CardMatchesVisit` is the case of no request at all.

**The Return page.** `ReturnSafe` adds to the properties that a request in flight is of
a lending the server knows (`PendingInv`), that an answer of success says what the
server then has, or the lending is in `untold` (`AnswerInv`), and that a copy is on
one open lending (`OneOpenPerCopy`). The last holds because lending and undo both
test it in the step that writes; it is what makes `CurrentLoan` a function, so the
refinement rests on it.

**The form** is short: `ZipHeld` says that the zip field shows the code of a lookup
under way or waiting for its confirmation, since the field is disabled by the first
and masked by the second; `PhotoInv` and `PhotoCounted` that, without overlapping
conversions, the one under way is of the photo chosen last.

**The readers page.** `ShownStatusTrue` exempts readers of whom an answer is under way;
`Sound` says for each reader the page was told everything about what the exemption
rests on: in each of the `Lists` the page shows or will show (a listing that is an
answer not yet received is one of them), in the details and in the statuses laid
over the rows, the status is the reader's, or an answer about to be received
corrects it (`Pending`), and that answer is right (`InAnswers`). A reader that has
gone is shown only until the answer to its deletion. `FormHeld` is why a new reader
is in no other call before the page is told of it: the form stays open, and covers
the page, while its save is under way. Which row a call will change when the server
gets to it needs no clause: a call that is crossed by another change of its reader
makes that reader `unknown` in the same step.

**The legacy page.** `ListingInv` ties each request to the search or page it was made
for, as the code's comparison of parameter objects does. `ScreenInv` says which of editing,
saving, asking and deleting exclude each other, and `RecordInv` that highlight, form,
selection and edit are of one record unless the results were emptied under it, or
the edit is a `crossed` one. `RecordTyped` adds to the types that a new record is never
highlighted unless it is edited, and that a save under way was counted.

**Restore.** `RestoreSafe` says for each loop where every installed library and every
restored schema is: under its own name, its temporary name, or its final name. A
library leaves its name only in `pre`, and its temporary name only in `drop`, where
all that was asked for is under its final names by then. That the renames of
`post` and `back` find their names free is part of it. It assumes that the first
renames do not fail, for the reason in section 6.

`RestoreKept` adds what the two other promises need. The register of before stays
where the old global schema is until that is dropped or put back (`OldRegister`); nothing
is under a temporary name that the current loop or a later one would not remove
(`AsideClean`), nor under its own that was not there before or restored
(`PlacesClean`, which a drop suppressed in the revert breaks, hence `~suppressed`). So when
the revert ends, what is left is what was there. For success, `PurgedGone`,
`Untouched` and `Registered` follow the rows of the register through `drop`, `rows` and
`sweep`, and `MapChosen` ties the map of the restore to the selection on the page.

**What the proofs changed.** Every property had passed in TLC; the proofs still found
that `StatusAfter` of `UsersPage` had a `CASE` with overlapping arms, which TLC takes
in order and the language does not, and that `RestoredAsChosen` wanted a complete
restore of a backup without the global schema to remove that schema, which the code
never purges; the backup of the run has one. Some assumptions on constants were
found missing and named: at least one time limit, and a `None` that is neither an
answer nor a call.

**Left to TLC**: `WaitingEnds` and `CallReturns`, which are liveness under fairness and
out of the prover's reach. Every other property of a passing run is a theorem; the
counterexamples of the four violated ones are TLC's.

## 6. Limits of what is shown

- A hazard in `PROJECT.json` without a property has a note that says why. A property
  with an exception names it, and the exception is a deviation in itself:
  `overlapped` (photos), `crossed` (edits begun during a step to another record),
  `unknown` and `untold` (what a page was not told).
- `limits` holds for one request at a time and without undo; two requests for one
  reader exceed either limit by the same race as `lendRace`.
- `CardMatchesVisit` and `BlockKept` need quiet administrators, fresh pages and no
  failure. With a failure between its two statements, `lendCard` leaves a card in
  use without a visit; no page repairs it.
- Renewal from a stale page opens a second lending of a copy that was returned and
  lent meanwhile (`LendingBO.java:317`); `FreshPages` excludes it.
- `"pre"` is not in `MayFail`: with it, `NoLibraryLost` is violated. The revert drops
  the schema of every source before it renames anything back
  (`RestoreBO.java:231`), and a library whose first rename failed still is in its own
  schema. No document claims otherwise, so it is a hazard and not a finding.
- After `data` nothing is reverted. `NoLibraryLost` still holds there, since it asks
  for the old library or for everything that was selected; which of the two names an
  operator finds it under is not promised.
- A server that stops during a restore leaves no revert at all: that is a behaviour
  of `Restore` that takes no further step, and `NoLibraryLost` holds in each of
  its states.
- User types, a reader's type and the catalogue are constant while the desk works.
  Readers, copies and records are not deleted.
- The pages serve a request in one step. What two interleaved handlers do to the same
  rows is in `Circulation`, for one page's worth of requests; the two are not
  composed statement by statement.

### Not modelled, and why

- **Single-page front end**: the user cards page and the reports page (lists that are
  read, printed or downloaded), search fields, generated API clients, translations,
  rendering.
- **Legacy pages**: the other pages that configure `biblivre.search.js` and
  `biblivre.input.js` differ from `RecordPage` in their forms. Tabs of a record, drag
  and drop, the MARC editors, labels, reports and the administration forms are
  layout and data. `globalize.cultures.js` is a vendored table.
- **Restore and set-up**: uploads, the clean installation, polling of progress, the
  overlay, the target name `global` typed by hand, large objects and the parsing of
  SQL. `restoreBackup` is synchronized, so two operators are not interleaved in it,
  though they share the log and counters of `State`. The page's button to skip the
  media is modelled as it is: on the page of all libraries it drops the selection
  (`backup.jsp:210`), so its restore always ends with nothing selected. Writing a
  backup is reading.
- **Configurations and translations**: a cache that may keep an old row until the
  next save; the code promises nothing it would break.
- **Reader accounts**: logins, stored photos and sessions. Deleting a login runs the
  wrong statement (`UserDAOImpl.java:384`), which needs no model to see.
- **Cataloguing, search and indexing, import, digital media, acquisition**: single
  statements, formats, ranking, or transactions whose isolation the models lack.
- **Libraries, update runner, permissions**: one decision per request or per start.

## 7. What was built, and what is open

Built in this order: `LoanLedger` and `Circulation`; type correctness and safety of the
desk; `AccessControl` with its proof; `DueDate`; the refinement and the limits of the
desk; `ReturnPage`, `UserForm`, `RecordPage` and `Restore`, each with its proof;
`UsersPage`; `Pages`; the proofs of `DueDate`, of late fines, of what a restore leaves
and of `UsersPage`.

Open, most important first:

1. `CachedTable`: the configuration cache (`ConfigurationsDAOImpl`) against a register
   that answers with the last saved value, which it is not.
2. Accounts with their logins and cascades, composed with `Circulation` through
   `status`.
3. Which library a request sees (ADR-0002), and the update runner.
4. `Pages` as a theorem: that its composition keeps each page's invariant while another
   one is mounted.

## 8. Running it

    tlc -config MCCirculation_desk.cfg MCCirculation
    tlc -config MCAccessControl_cards.cfg MCAccessControl
    tlc -config MCDueDate_dates.cfg MCDueDate
    tlc -config MCPages_pages.cfg MCPages
    tlapm Circulation_proofs.tla

and `tlapm` likewise for the other seven modules named `*_proofs`. The longest runs are
`limits` and `pages`, two to three minutes each; each proof module takes a few
minutes at most.
