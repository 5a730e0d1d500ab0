--------------------------------- MODULE Pages ---------------------------------
(***************************************************************************)
(* A browser tab of a library's staff: one page is mounted at a time, so   *)
(* the pages share no state but the server's, and each has its own rows    *)
(* there.  A behaviour stays on the page it starts on; going elsewhere and *)
(* back mounts the page afresh (Reload and Unmount in the pages' modules). *)
(* The set-up page replaces the data under all the others, and is alone.   *)
(***************************************************************************)
EXTENDS ReturnPage, UsersPage, UserForm, RecordPage, Restore

VARIABLE page

pagesVars == <<page, returnVars, usersVars, formVars, recordVars, restoreVars>>

PagesInit ==
  /\ page \in {"return", "users", "form", "record", "setup"}
  /\ ReturnInit /\ UsersInit /\ FormInit /\ RecordInit
  /\ RestoreInit
  /\ page = "setup" \/ (scope = "single" /\ backupType = "full")
  /\ page = "users" \/ \A u \in Registered : status[u] = "active"

PagesNext ==
  /\ UNCHANGED page
  /\ \/ /\ page = "return" /\ ReturnNext
        /\ UNCHANGED <<usersVars, formVars, recordVars, restoreVars>>
     \/ /\ page = "users" /\ UsersNext
        /\ UNCHANGED <<returnVars, formVars, recordVars, restoreVars>>
     \/ /\ page = "form" /\ FormNext
        /\ UNCHANGED <<returnVars, usersVars, recordVars, restoreVars>>
     \/ /\ page = "record" /\ RecordNext
        /\ UNCHANGED <<returnVars, usersVars, formVars, restoreVars>>
     \/ /\ page = "setup" /\ RestoreNext
        /\ UNCHANGED <<returnVars, usersVars, formVars, recordVars>>

Waiting == Busy \/ photoLoading \/ lookup # NoCall \/ setupPage = "waiting" \/ locked

PagesSpec ==
  PagesInit /\ [][PagesNext]_pagesVars /\ ReturnFairness /\ FormFairness /\ RestoreFairness

-----------------------------------------------------------------------------
\* No page waits for ever: the return page enables its controls again, even
\* after a request that is lost, refused, or turned by a search into a return
\* (isBusy), the photo picker stops showing that it is loading, the zip code can be
\* changed again after a lookup, and a restore is answered and releases the lock,
\* at whatever statement it fails.
WaitingEnds == Waiting ~> ~Waiting
=============================================================================
