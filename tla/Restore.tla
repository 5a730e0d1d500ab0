--------------------------------- MODULE Restore ---------------------------------
(***************************************************************************)
(* Restoring libraries from a backup: the page an operator starts it from  *)
(* (biblivre.administration.setup.js, biblivre.multi_schema.js), the       *)
(* handler, and RestoreBO.restoreBackup, whose every statement commits by  *)
(* itself.  A library is a schema of the database and a row of             *)
(* "global".schemas, and the global schema is in the backup with its rows. *)
(* Schemas in the way are renamed to temporary names first and dropped     *)
(* last; until the data is complete an exception renames them back.        *)
(***************************************************************************)
EXTENDS Naturals, FiniteSets, Functions

CONSTANTS
  Libraries,  \* names of schemas a library can have
  Global,     \* the global schema
  Backup,     \* the schemas in the backup file
  Current,    \* the library of an installation that has only one
  MayFail,    \* stages whose statements may fail although nothing is in their way
  Absent      \* no schema, nothing in hand, no request

Schemas == Libraries \cup {Global}
Stages == {"idle", "pre", "data", "post", "back", "drop", "rows", "sweep", "update",
           "undo", "undoNames"}

VARIABLES
  schema,      \* what each schema of the database holds
  aside,       \* what it holds under the temporary name of each schema
  context,     \* restoreSchemas and the schemas that were installed
  stage,       \* the loop restoreBackup is in
  todo,        \* the schemas it has left, keys of a HashMap: in any order
  half,        \* the schema whose first statement of two is done
  suppressed,  \* the revert failed in part: added to the exception
  restored,    \* how the handler answered: "pending", "ask", "success", "failure"
  locked,      \* State.LOCKED
  setupPage,   \* "choose", "waiting", "media", "success" or "error"
  selection,   \* confirmBiblivre4RestoreParams
  request,     \* the restore requested, or Absent
  scope,       \* "multi": the page of all libraries; the set-up page: "single",
               \* of the only library, or "library", of one among others
  backupType   \* "full" or "exclude_digital_media"

restoreServerVars == <<schema, aside, context, stage, todo, half, suppressed, restored, locked>>
setupVars == <<setupPage, selection, request, scope, backupType>>
restoreVars == <<restoreServerVars, setupVars>>

\* What a schema holds: its data before the restore, part of what the backup
\* has for it, or all; and the registered libraries if it is a global schema.
Content(state, s) ==
  [state |-> state, of |-> s,
   rows |-> IF s = Global /\ state = "new" THEN Backup \ {Global} ELSE {}]
Contents == [state : {"old", "part", "new"}, of : Schemas, rows : SUBSET Libraries]

ASSUME RestoreAssumption ==
  /\ Global \notin Libraries /\ Absent \notin Schemas \cup Contents
  /\ Backup \subseteq Schemas /\ Current \in Libraries
  /\ MayFail \subseteq Stages

InRegister(l) == l \in schema[Global].rows

-----------------------------------------------------------------------------
(* The page. *)

NoMap == [s \in {} |-> s]

\* Partial: each library of the backup keeps its name, gets another or is skipped.
PartialMaps == UNION {[D -> Libraries] : D \in SUBSET (Backup \ {Global})}
Selections == {[type |-> "complete"]} \cup [type : {"partial"}, map : PartialMaps]

\* fullRestore, partialRestore, or the list of the set-up page; confirmed.
ChooseRestore ==
  /\ setupPage = "choose"
  /\ selection' \in IF scope = "multi" THEN Selections ELSE {[type |-> "partial", map |-> NoMap]}
  /\ request' = [params |-> selection', media |-> "none"]
  /\ setupPage' = "waiting" /\ restored' = "pending"
  /\ UNCHANGED <<scope, backupType, schema, aside, context, stage, todo, half, suppressed, locked>>

\* The page asks for the file of digital media, and repeats the request with it.
SendAgain(params, media) ==
  /\ setupPage = "media"
  /\ request' = [params |-> params, media |-> media]
  /\ setupPage' = "waiting" /\ restored' = "pending"
  /\ UNCHANGED <<selection, scope, backupType, schema, aside, context, stage, todo, half,
                 suppressed, locked>>

RestoreMedia == SendAgain(selection, "file")

\* The button of the page of all libraries sends nothing but the skip.
SkipMedia == scope = "multi" /\ SendAgain([type |-> "partial", map |-> NoMap], "skip")

CancelRestore ==
  /\ setupPage = "media" /\ setupPage' = "choose"
  /\ UNCHANGED <<selection, request, scope, backupType, restoreServerVars>>

\* The answer, or an error when it is lost.
ReceiveRestore ==
  /\ setupPage = "waiting" /\ request = Absent /\ restored # "pending"
  /\ \/ setupPage' = CASE restored = "ask" -> "media"
                       [] restored = "success" -> "success"
                       [] restored = "failure" -> "error"
     \/ setupPage' = "error"
  /\ UNCHANGED <<selection, request, scope, backupType, restoreServerVars>>

-----------------------------------------------------------------------------
(* The handler and restoreBackup.  context.map takes schemas of the backup to *)
(* the names they get.                                                        *)

\* The maps the handler may carry out: for one library it takes the first that
\* the HashMap names, and the global schema if there is no other library.
MapsFor(params) ==
  CASE scope \in {"single", "library"} ->
         {[s \in {l} \cup (IF scope = "single" THEN Backup \cap {Global} ELSE {})
             |-> IF s = Global THEN Global ELSE Current] : l \in Backup \ {Global}}
    [] scope = "multi" /\ params.type = "complete" -> {[s \in Backup |-> s]}
    [] OTHER -> {params.map}

NotAllowed(map) == DOMAIN map \subseteq {Global} \/ ~IsInjective(map)

Sources == DOMAIN context.map
Targets == Range(context.map)
Renamed == (Sources \cup Targets) \cap context.installed
Purged == IF context.purgeAll THEN context.installed \ (Targets \cup {Global}) ELSE {}

\* Seeded fault: only what is replaced is put back, not what was in the way.
EntriesUndoReplaced ==
  [pre    |-> Renamed,
   data   |-> Sources,
   post   |-> {s \in Sources : context.map[s] # s},
   back   |-> (Sources \cap context.installed) \ Targets,
   drop   |-> (Targets \cap context.installed) \cup Purged,
   rows   |-> {s \in Sources : context.map[s] # Global},
   sweep  |-> {Global}, update |-> {Global},
   undo   |-> Sources,  undoNames |-> Targets \cap context.installed]

\* The schemas each loop goes through; sweep and update are no loops.
Entries ==
  [pre    |-> Renamed,
   data   |-> Sources,
   post   |-> {s \in Sources : context.map[s] # s},
   back   |-> (Sources \cap context.installed) \ Targets,
   drop   |-> (Targets \cap context.installed) \cup Purged,
   rows   |-> {s \in Sources : context.map[s] # Global},
   sweep  |-> {Global}, update |-> {Global},
   undo   |-> Sources,  undoNames |-> Renamed]

\* Seeded fault: what is replaced is dropped before its place is taken.
NextStageDropFirst ==
  [pre |-> "data", data |-> "drop", drop |-> "post", post |-> "back", back |-> "rows",
   rows |-> "sweep", sweep |-> "update", undo |-> "undoNames"]

NextStage ==
  [pre |-> "data", data |-> "post", post |-> "back", back |-> "drop", drop |-> "rows",
   rows |-> "sweep", sweep |-> "update", undo |-> "undoNames"]

\* Seeded fault: only a restore that succeeds releases the lock.
IdleLocked(answer) ==
  /\ stage' = "idle" /\ todo' = {} /\ half' = Absent /\ restored' = answer
  /\ locked' = (locked /\ answer # "success")

Idle(answer) ==
  /\ stage' = "idle" /\ todo' = {} /\ half' = Absent /\ locked' = FALSE /\ restored' = answer

Begin ==
  /\ request # Absent /\ stage = "idle"
  /\ request' = Absent
  /\ \/ /\ backupType = "exclude_digital_media" /\ request.media = "none"
        /\ Idle("ask") /\ UNCHANGED context
     \/ /\ backupType = "full" \/ request.media # "none"
        /\ \E map \in MapsFor(request.params) :
             \/ NotAllowed(map) /\ Idle("failure") /\ UNCHANGED context
             \/ /\ ~NotAllowed(map)
                /\ context' = [map |-> map, installed |-> {s \in Schemas : schema[s] # Absent},
                               purgeAll |-> scope = "multi" /\ request.params.type = "complete"]
                /\ stage' = "pre" /\ todo' = Entries'.pre /\ half' = Absent
                /\ locked' = TRUE /\ UNCHANGED restored
  /\ UNCHANGED <<schema, aside, suppressed, setupPage, selection, scope, backupType>>

Done(s) == /\ todo' = todo \ {s} /\ half' = Absent
           /\ UNCHANGED <<context, stage, suppressed, restored, locked, setupVars>>
Keep(s) == /\ half' = s
           /\ UNCHANGED <<context, stage, todo, suppressed, restored, locked, setupVars>>

\* ALTER SCHEMA ... RENAME fails when a name is missing or taken.
SetAside ==
  /\ stage = "pre"
  /\ \E s \in todo :
       /\ schema[s] # Absent /\ aside[s] = Absent
       /\ schema' = [schema EXCEPT ![s] = Absent] /\ aside' = [aside EXCEPT ![s] = schema[s]]
       /\ Done(s)

PutBack ==
  /\ stage \in {"back", "undoNames"}
  /\ \E s \in todo :
       /\ aside[s] # Absent /\ schema[s] = Absent
       /\ schema' = [schema EXCEPT ![s] = aside[s]] /\ aside' = [aside EXCEPT ![s] = Absent]
       /\ Done(s)

GiveName ==
  /\ stage = "post"
  /\ \E s \in todo :
       /\ schema[s] # Absent /\ schema[context.map[s]] = Absent
       /\ schema' = [schema EXCEPT ![s] = Absent, ![context.map[s]] = schema[s]]
       /\ UNCHANGED aside /\ Done(s)

\* The first statement of a schema's file creates it, the others fill it; the
\* global schema comes first.
CreateSchema ==
  /\ stage = "data" /\ half = Absent
  /\ \E s \in IF Global \in todo THEN {Global} ELSE todo :
       /\ schema[s] = Absent
       /\ schema' = [schema EXCEPT ![s] = Content("part", s)]
       /\ UNCHANGED aside /\ Keep(s)

FillSchema ==
  /\ stage = "data" /\ half # Absent
  /\ schema' = [schema EXCEPT ![half] = Content("new", half)]
  /\ UNCHANGED aside /\ Done(half)

\* Digital media, then the schema; then, but for the global schema, its row.
DropReplaced ==
  /\ stage = "drop" /\ half = Absent
  /\ \E s \in todo :
       /\ \/ s \in Targets /\ aside' = [aside EXCEPT ![s] = Absent] /\ UNCHANGED schema
          \/ s \notin Targets /\ schema' = [schema EXCEPT ![s] = Absent] /\ UNCHANGED aside
       /\ IF s = Global THEN Done(s) ELSE Keep(s)

SetRows(rows) == schema' = [schema EXCEPT ![Global].rows = rows] /\ UNCHANGED aside

DeleteRow ==
  /\ stage = "drop" /\ half # Absent
  /\ SetRows(schema[Global].rows \ {half})
  /\ Done(half)

\* Seeded fault: the new name is registered before the old one is taken out.
RegisterFirst ==
  /\ stage = "rows"
  /\ \/ \E s \in todo : /\ half = Absent /\ ~InRegister(context.map[s])
                        /\ SetRows(schema[Global].rows \cup {context.map[s]})
                        /\ Keep(s)
     \/ half # Absent /\ SetRows(schema[Global].rows \ {half}) /\ Done(half)

Register ==
  /\ stage = "rows"
  /\ \/ \E s \in todo : half = Absent /\ SetRows(schema[Global].rows \ {s}) /\ Keep(s)
     \/ /\ half # Absent /\ ~InRegister(context.map[half])
        /\ SetRows(schema[Global].rows \cup {context.map[half]})
        /\ Done(half)

\* removeNonExistingPGSchemaFromSchemasTable
Sweep ==
  /\ stage = "sweep" /\ todo # {}
  /\ SetRows({l \in schema[Global].rows : schema[l] # Absent})
  /\ Done(Global)

\* The updates of the restored libraries, and the handler's own save.
Update == stage = "update" /\ todo # {} /\ UNCHANGED <<schema, aside>> /\ Done(Global)

\* revertTemporarySchemaNames: a drop that fails is passed over.
UndoDrop ==
  /\ stage = "undo"
  /\ \E s \in todo :
       \/ schema' = [schema EXCEPT ![s] = Absent] /\ UNCHANGED aside /\ Done(s)
       \/ /\ "undo" \in MayFail
          /\ todo' = todo \ {s} /\ suppressed' = TRUE
          /\ UNCHANGED <<schema, aside, context, stage, half, restored, locked, setupVars>>

EndStage ==
  /\ stage # "idle" /\ todo = {}
  /\ CASE stage = "update" -> Idle("success")
       [] stage = "undoNames" -> Idle("failure")
       [] OTHER -> /\ stage' = NextStage[stage] /\ todo' = Entries[stage']
                   /\ UNCHANGED <<half, locked, restored>>
  /\ UNCHANGED <<schema, aside, context, suppressed, setupVars>>

\* A statement the database refuses: a name is missing or taken.
InTheWay ==
  \/ stage = "pre" /\ \E s \in todo : schema[s] = Absent \/ aside[s] # Absent
  \/ stage \in {"back", "undoNames"} /\ \E s \in todo : aside[s] = Absent \/ schema[s] # Absent
  \/ stage = "post" /\ \E s \in todo : schema[s] = Absent \/ schema[context.map[s]] # Absent
  \/ stage = "rows" /\ half # Absent /\ InRegister(context.map[half])

StatementFails ==
  /\ stage # "undo" /\ todo # {}
  /\ stage \in MayFail \/ InTheWay
  /\ IF stage \in {"pre", "data"}
       THEN /\ stage' = "undo" /\ todo' = Sources /\ half' = Absent
            /\ UNCHANGED <<suppressed, locked, restored>>
       ELSE /\ Idle("failure")
            /\ suppressed' = (suppressed \/ stage = "undoNames")
  /\ UNCHANGED <<schema, aside, context, setupVars>>

RestoreStep ==
  \/ Begin \/ SetAside \/ PutBack \/ GiveName \/ CreateSchema \/ FillSchema
  \/ DropReplaced \/ DeleteRow \/ Register \/ Sweep \/ Update
  \/ UndoDrop \/ EndStage \/ StatementFails

RestoreInit ==
  /\ scope \in {"multi", "single", "library"} /\ backupType \in {"full", "exclude_digital_media"}
  /\ \E installed \in SUBSET Libraries :
       /\ scope # "multi" => Current \in installed
       /\ scope = "single" => installed = {Current}
       /\ schema = [s \in Schemas |->
            IF s \notin installed \cup {Global} THEN Absent
            ELSE [state |-> "old", of |-> s, rows |-> IF s = Global THEN installed ELSE {}]]
  /\ aside = [s \in Schemas |-> Absent]
  /\ context = [map |-> NoMap, installed |-> {}, purgeAll |-> FALSE]
  /\ stage = "idle" /\ todo = {} /\ half = Absent /\ suppressed = FALSE
  /\ restored = "pending" /\ locked = FALSE
  /\ setupPage = "choose" /\ selection = Absent /\ request = Absent

RestoreNext ==
  RestoreStep \/ ChooseRestore \/ RestoreMedia \/ SkipMedia \/ CancelRestore \/ ReceiveRestore

\* The statements come one after the other, and the answer after them.
RestoreFairness == WF_restoreVars(RestoreStep \/ ReceiveRestore)

RestoreSpec == RestoreInit /\ [][RestoreNext]_restoreVars /\ RestoreFairness

-----------------------------------------------------------------------------
RestoreTypeOK ==
  /\ schema \in [Schemas -> Contents \cup {Absent}] /\ aside \in [Schemas -> Contents \cup {Absent}]
  /\ stage \in Stages /\ todo \in SUBSET Schemas /\ half \in Schemas \cup {Absent}
  /\ suppressed \in BOOLEAN /\ locked = (stage # "idle")
  /\ restored \in {"pending", "ask", "success", "failure"}
  /\ setupPage \in {"choose", "waiting", "media", "success", "error"}
  /\ context.installed \subseteq Schemas /\ Sources \subseteq Backup /\ Targets \subseteq Schemas
  /\ stage \in {"post", "back", "drop", "rows", "sweep", "update"} => schema[Global] # Absent

Holds(content, state, s) == content # Absent /\ content.state = state /\ content.of = s

\* What the operator asked for is there under its final name.
AllRestored == \A s \in Sources : Holds(schema[context.map[s]], "new", s)

\* A library that was installed is in the database, under its own name or its
\* temporary one, until everything the operator asked for has been restored
\* under its final name: wherever the restore fails or stops, and whatever else
\* its revert cannot do.
NoLibraryLost ==
  \A l \in context.installed \cap Libraries :
    Holds(schema[l], "old", l) \/ Holds(aside[l], "old", l) \/ AllRestored

\* A restore that fails before its data is complete, and whose revert does not
\* fail too, leaves every library, the register of libraries and the names as
\* they were.
FailedRestoreUndone ==
  restored = "failure" /\ ~suppressed
  /\ (\E s \in Sources : \A t \in Schemas : ~Holds(schema[t], "new", s))
    => \A s \in Schemas :
         /\ IF s \in context.installed THEN Holds(schema[s], "old", s) ELSE schema[s] = Absent
         /\ aside[s] = Absent
         /\ s \in context.installed \cap Libraries => InRegister(s)

\* When the page says that the restore succeeded, what the operator selected is
\* there under the names selected and registered, nothing else was touched, and
\* nothing temporary is left.  A library restored under another name while one
\* of its old name stays, or one in a chain of names, may be unregistered.
RestoredAsChosen ==
  setupPage = "success" =>
    /\ scope = "multi" => /\ context.purgeAll = (selection.type = "complete")
                          /\ selection.type = "partial" => context.map = selection.map
    /\ AllRestored
    /\ \A s \in Sources :
         context.map[s] \in Libraries \ (Sources \ {s}) => InRegister(context.map[s])
    /\ \A l \in context.installed \ Targets :
         IF context.purgeAll /\ l # Global THEN schema[l] = Absent /\ ~InRegister(l)
         ELSE Holds(schema[l], "old", l) /\ (l \in Libraries \ Sources => InRegister(l))
    /\ \A s \in Schemas : aside[s] = Absent
=============================================================================
