----------------------------- MODULE Restore_proofs -----------------------------
(***************************************************************************)
(* Restoring, for every backup, every set of installed libraries and every *)
(* map of names: the state is well formed and, when the renames that come  *)
(* first do not fail for reasons outside, no library is lost, a restore    *)
(* that fails before its data is complete leaves everything as it was, and *)
(* one that the page says succeeded leaves what was chosen.                *)
(***************************************************************************)
EXTENDS Restore, TLAPS

\* Only requests for the selections the page offers are under way.
SelectionsOK ==
  /\ setupPage # "choose" => selection \in Selections
  /\ request # Absent => /\ request.params \in Selections
                         /\ restored = "pending" /\ setupPage = "waiting"
  /\ setupPage = "media" => restored = "ask"
  /\ scope \in {"multi", "single", "library"}

\* The map of a restore gives each schema a name of its own; the global schema
\* keeps its name, and nothing else gets it.
ContextOK ==
  /\ context.installed \subseteq Schemas
  /\ Sources \subseteq Backup
  /\ \A s \in Sources : /\ context.map[s] \in Schemas
                        /\ s = Global <=> context.map[s] = Global
                        /\ \A o \in Sources : context.map[s] = context.map[o] => s = o
  /\ stage # "idle" => Global \in context.installed

InStages ==
  /\ schema \in [Schemas -> Contents \cup {Absent}]
  /\ aside \in [Schemas -> Contents \cup {Absent}]
  /\ stage \in Stages /\ todo \in SUBSET Schemas /\ half \in todo \cup {Absent}
  /\ suppressed \in BOOLEAN /\ locked = (stage # "idle")
  /\ restored \in {"pending", "ask", "success", "failure"}
  /\ setupPage \in {"choose", "waiting", "media", "success", "error"}
  /\ todo # {} => stage # "idle"

AtHome(s) == Holds(schema[s], "old", s)
Away(s) == Holds(aside[s], "old", s)

\* Before a restore has begun nothing has been renamed.
NotBegun == request # Absent \/ restored = "ask" \/ setupPage = "choose"
Fresh ==
  NotBegun =>
    /\ stage = "idle" /\ context.installed = {}
    /\ \A s \in Schemas : aside[s] = Absent /\ (schema[s] = Absent \/ AtHome(s))
    /\ AtHome(Global)
InProgress == stage # "idle" => restored = "pending" /\ setupPage = "waiting"

\* Where the installed schemas are in each loop.
PreOK ==
  stage = "pre" =>
    /\ todo \subseteq Renamed /\ half = Absent
    /\ \A l \in context.installed : IF l \in Renamed \ todo THEN Away(l)
                                    ELSE AtHome(l) /\ aside[l] = Absent
AsideOK ==
  stage \in {"data", "undo", "post"} =>
    \A l \in context.installed : IF l \in Renamed THEN Away(l) ELSE AtHome(l)
DataOK ==
  stage = "data" =>
    /\ todo \subseteq Sources /\ half \in todo \cup {Absent}
    /\ \A s \in Sources \ todo : Holds(schema[s], "new", s)
UndoOK == stage = "undo" => todo \subseteq Sources /\ half = Absent
UndoNamesOK ==
  stage = "undoNames" =>
    /\ todo \subseteq Renamed
    /\ \A l \in context.installed : IF l \in todo THEN Away(l) ELSE AtHome(l)

\* Where what is restored is: under its own name until it is given the final one.
PostOK ==
  stage = "post" =>
    /\ todo \subseteq {s \in Sources : context.map[s] # s}
    /\ \A s \in Sources : IF s \in todo THEN Holds(schema[s], "new", s)
                          ELSE Holds(schema[context.map[s]], "new", s)
Ending == {"back", "drop", "rows", "sweep", "update"}
EndingOK ==
  /\ stage \in Ending \cup {"post"} => schema[Global] # Absent
  /\ stage \in Ending => AllRestored
  /\ stage = "drop" => todo \subseteq Targets \cup Purged
  /\ stage = "rows" => /\ todo \subseteq {s \in Sources : context.map[s] # Global}
                       /\ half # Absent => half \in Sources /\ context.map[half] # Global

RestoreSafe ==
  /\ SelectionsOK /\ ContextOK /\ InStages /\ Fresh /\ InProgress
  /\ PreOK /\ AsideOK /\ DataOK /\ UndoOK /\ UndoNamesOK /\ PostOK /\ EndingOK
  /\ NoLibraryLost

\* A step of the server that keeps the page and the restore's context.
ServerOnly ==
  /\ UNCHANGED setupVars /\ context' = context
  /\ stage # "idle" /\ request = Absent /\ setupPage = "waiting"

\* What depends only on the context does not change with such a step.
LEMMA ContextKept ==
  ASSUME context' = context
  PROVE  /\ Sources' = Sources /\ Targets' = Targets
         /\ Renamed' = Renamed /\ Purged' = Purged
BY DEF Sources, Targets, Renamed, Purged

\* Such a step keeps what the page has sent, and the restore has begun.
LEMMA PageKept ==
  ASSUME RestoreSafe, ServerOnly, restored' \in {"pending", "success", "failure"},
         stage' # "idle" => restored' = "pending"
  PROVE  SelectionsOK' /\ ContextOK' /\ Fresh' /\ InProgress'
<1>1. SelectionsOK'
  BY DEF RestoreSafe, ServerOnly, SelectionsOK, setupVars
<1>2. ContextOK'
  BY DEF RestoreSafe, ServerOnly, ContextOK, Sources
<1>3. ~NotBegun'
  BY DEF RestoreSafe, ServerOnly, NotBegun, setupVars
<1>4. InProgress'
  BY DEF ServerOnly, InProgress, setupVars
<1> QED  BY <1>1, <1>2, <1>3, <1>4 DEF Fresh

StagesOK == PreOK /\ AsideOK /\ DataOK /\ UndoOK /\ UndoNamesOK /\ PostOK /\ EndingOK

\* In every loop each library is at home or away, or everything is restored.
LEMMA NotLost ==
  ASSUME StagesOK', stage' \in Stages \ {"idle"}
  PROVE  NoLibraryLost'
<1> SUFFICES ASSUME NEW l \in (context.installed)'
             PROVE  AtHome(l)' \/ Away(l)' \/ AllRestored'
  BY DEF NoLibraryLost, AtHome, Away
<1>1. CASE stage' = "pre"
  BY <1>1 DEF StagesOK, PreOK
<1>2. CASE stage' \in {"data", "undo", "post"}
  BY <1>2 DEF StagesOK, AsideOK
<1>3. CASE stage' = "undoNames"
  BY <1>3 DEF StagesOK, UndoNamesOK
<1>4. CASE stage' \in Ending
  BY <1>4 DEF StagesOK, EndingOK
<1> QED  BY <1>1, <1>2, <1>3, <1>4 DEF Stages, Ending

LEMMA SafeAgain ==
  ASSUME RestoreSafe, ServerOnly, InStages', StagesOK', stage' # "idle", restored' = restored
  PROVE  RestoreSafe'
<1>1. restored' = "pending" /\ stage' \in Stages \ {"idle"}
  BY DEF RestoreSafe, ServerOnly, InProgress, InStages
<1>2. SelectionsOK' /\ ContextOK' /\ Fresh' /\ InProgress'
  BY <1>1, PageKept
<1>3. NoLibraryLost'
  BY <1>1, NotLost
<1> QED  BY <1>2, <1>3 DEF RestoreSafe, StagesOK

\* A restore ends with nothing in hand; what has become of the libraries stays.
LEMMA EndKeeps ==
  ASSUME RestoreSafe, ServerOnly, UNCHANGED <<schema, aside>>, suppressed' \in BOOLEAN,
         NEW answer \in {"success", "failure"}, Idle(answer)
  PROVE  RestoreSafe'
<1>1. SelectionsOK' /\ ContextOK' /\ Fresh' /\ InProgress'
  BY PageKept DEF Idle
<1>2. InStages'
  BY DEF RestoreSafe, InStages, Idle, Stages, ServerOnly, setupVars
<1>3. PreOK' /\ AsideOK' /\ DataOK' /\ UndoOK' /\ UndoNamesOK' /\ PostOK' /\ EndingOK'
  BY DEF Idle, PreOK, AsideOK, DataOK, UndoOK, UndoNamesOK, PostOK, EndingOK, Ending
<1>4. NoLibraryLost'
  BY ContextKept DEF RestoreSafe, ServerOnly, NoLibraryLost, AllRestored
<1> QED  BY <1>1, <1>2, <1>3, <1>4 DEF RestoreSafe

\* A server step finds the page waiting, and no other request.
LEMMA Underway ==
  ASSUME RestoreSafe, stage # "idle"
  PROVE  request = Absent /\ setupPage = "waiting" /\ restored = "pending"
BY DEF RestoreSafe, Fresh, NotBegun, InProgress

LEMMA SetAsideSafe ==
  ASSUME RestoreAssumption, RestoreSafe, SetAside
  PROVE  RestoreSafe'
<1>1. ServerOnly
  BY Underway DEF SetAside, Done, ServerOnly
<1>2. stage' = "pre" /\ stage = "pre" /\ restored' = restored
  BY DEF SetAside, Done
<1>3. InStages'
  BY DEF RestoreSafe, SetAside, Done, InStages, setupVars
<1>4. PreOK'
  BY <1>1, <1>2, <1>3, ContextKept
     DEF RestoreSafe, ContextOK, InStages, PreOK, SetAside, Done, ServerOnly, AtHome, Away
<1>5. StagesOK'
  BY <1>2, <1>4 DEF StagesOK, AsideOK, DataOK, UndoOK, UndoNamesOK, PostOK, EndingOK, Ending
<1> QED  BY <1>1, <1>2, <1>3, <1>5, SafeAgain

LEMMA PutBackSafe ==
  ASSUME RestoreAssumption, RestoreSafe, PutBack
  PROVE  RestoreSafe'
<1>1. ServerOnly
  BY Underway DEF PutBack, Done, ServerOnly
<1>2. stage' = stage /\ stage \in {"back", "undoNames"} /\ restored' = restored
  BY DEF PutBack, Done
<1>3. InStages'
  BY DEF RestoreSafe, PutBack, Done, InStages, setupVars
<1>4. UndoNamesOK'
  BY <1>1, <1>2, <1>3, ContextKept
     DEF RestoreSafe, ContextOK, InStages, UndoNamesOK, PutBack, Done, ServerOnly, AtHome, Away
<1>5. EndingOK'
  BY <1>1, <1>2, <1>3, ContextKept
     DEF RestoreSafe, ContextOK, InStages, EndingOK, Ending, AllRestored, Holds, PutBack, Done,
         ServerOnly, Schemas
<1>6. StagesOK'
  BY <1>2, <1>4, <1>5 DEF StagesOK, PreOK, AsideOK, DataOK, UndoOK, PostOK
<1> QED  BY <1>1, <1>2, <1>3, <1>6, SafeAgain

LEMMA GiveNameSafe ==
  ASSUME RestoreAssumption, RestoreSafe, GiveName
  PROVE  RestoreSafe'
<1>1. ServerOnly
  BY Underway DEF GiveName, Done, ServerOnly
<1>2. stage' = "post" /\ stage = "post" /\ restored' = restored
  BY DEF GiveName, Done
<1>3. PICK s \in todo :
        /\ schema[s] # Absent /\ schema[context.map[s]] = Absent
        /\ schema' = [schema EXCEPT ![s] = Absent, ![context.map[s]] = schema[s]]
        /\ aside' = aside /\ todo' = todo \ {s} /\ half' = Absent
        /\ UNCHANGED <<suppressed, locked, restored, setupVars>>
  BY DEF GiveName, Done
<1>4. s \in Sources /\ context.map[s] # s /\ context.map[s] \in Schemas /\ s \in Schemas
  BY <1>2, <1>3 DEF RestoreSafe, PostOK, ContextOK, InStages
<1>5. InStages'
  BY <1>2, <1>3, <1>4 DEF RestoreSafe, InStages, setupVars
<1>6. AsideOK'
  <2> SUFFICES ASSUME NEW l \in context.installed
               PROVE  IF l \in Renamed THEN Away(l)' ELSE AtHome(l)'
    BY <1>1, <1>2, ContextKept DEF AsideOK, ServerOnly
  <2>1. (l # s /\ l # context.map[s]) \/ l \in Renamed
    BY <1>4 DEF Renamed, Sources, Targets, Range
  <2> QED  BY <1>2, <1>3, <1>4, <2>1 DEF RestoreSafe, AsideOK, AtHome, Away, InStages, ContextOK
<1>7. PostOK'
  <2> SUFFICES ASSUME NEW o \in Sources
               PROVE  IF o \in todo' THEN Holds(schema'[o], "new", o)
                      ELSE Holds(schema'[context.map[o]], "new", o)
    BY <1>1, <1>2, <1>3, ContextKept DEF RestoreSafe, PostOK, ServerOnly
  <2>1. IF o \in todo THEN Holds(schema[o], "new", o)
        ELSE Holds(schema[context.map[o]], "new", o)
    BY <1>2 DEF RestoreSafe, PostOK
  <2>2. Holds(schema[s], "new", s)
    BY <1>2, <1>3, <1>4 DEF RestoreSafe, PostOK
  <2>3. CASE o = s
    BY <1>3, <1>4, <2>2, <2>3 DEF RestoreSafe, InStages
  <2>4. CASE o # s /\ o \in todo
    BY <1>3, <1>4, <2>1, <2>4 DEF RestoreSafe, InStages, Holds
  <2>5. CASE o \notin todo
    <3>1. context.map[o] # s
      BY <2>1, <2>2, <2>5, <1>3 DEF Holds
    <3>2. context.map[o] # context.map[s] /\ context.map[o] \in Schemas
      BY <1>3, <1>4, <2>5 DEF RestoreSafe, ContextOK
    <3> QED  BY <1>3, <1>4, <2>1, <2>5, <3>1, <3>2 DEF RestoreSafe, InStages
  <2> QED  BY <2>3, <2>4, <2>5
<1>8. EndingOK'
  <2>1. s # Global /\ context.map[s] # Global
    BY <1>4 DEF RestoreSafe, ContextOK
  <2> QED  BY <1>2, <1>3, <1>4, <2>1 DEF RestoreSafe, EndingOK, InStages, Ending, Schemas
<1>9. StagesOK'
  BY <1>2, <1>6, <1>7, <1>8 DEF StagesOK, PreOK, DataOK, UndoOK, UndoNamesOK
<1> QED  BY <1>1, <1>2, <1>5, <1>9, SafeAgain

LEMMA CreateSchemaSafe ==
  ASSUME RestoreAssumption, RestoreSafe, CreateSchema
  PROVE  RestoreSafe'
<1>1. ServerOnly
  BY Underway DEF CreateSchema, Keep, ServerOnly
<1>2. stage' = "data" /\ stage = "data" /\ restored' = restored
  BY DEF CreateSchema, Keep
<1>3. PICK s \in todo :
        /\ schema' = [schema EXCEPT ![s] = Content("part", s)]
        /\ aside' = aside /\ half' = s
        /\ UNCHANGED <<todo, suppressed, locked, setupVars>>
  BY DEF CreateSchema, Keep
<1>4. s \in Sources /\ s \in Schemas /\ Content("part", s) \in Contents
  BY <1>2, <1>3, RestoreAssumption
     DEF RestoreSafe, DataOK, InStages, Content, Contents
<1>5. InStages'
  BY <1>2, <1>3, <1>4 DEF RestoreSafe, InStages, setupVars
<1>6. AsideOK'
  BY <1>1, <1>2, <1>3, <1>4, ContextKept
     DEF RestoreSafe, AsideOK, ServerOnly, Renamed, AtHome, Away, InStages, ContextOK
<1>7. DataOK'
  BY <1>1, <1>2, <1>3, <1>4, ContextKept, RestoreAssumption
     DEF RestoreSafe, DataOK, ServerOnly, InStages
<1>8. StagesOK'
  BY <1>2, <1>6, <1>7 DEF StagesOK, PreOK, UndoOK, UndoNamesOK, PostOK, EndingOK, Ending
<1> QED  BY <1>1, <1>2, <1>5, <1>8, SafeAgain

LEMMA FillSchemaSafe ==
  ASSUME RestoreAssumption, RestoreSafe, FillSchema
  PROVE  RestoreSafe'
<1>1. ServerOnly
  BY Underway DEF FillSchema, Done, ServerOnly
<1>2. stage' = "data" /\ stage = "data" /\ restored' = restored
  BY DEF FillSchema, Done
<1>3. /\ schema' = [schema EXCEPT ![half] = Content("new", half)]
      /\ aside' = aside /\ half' = Absent /\ todo' = todo \ {half}
      /\ UNCHANGED <<suppressed, locked, setupVars>>
  BY DEF FillSchema, Done
<1>4. half \in Sources /\ half \in Schemas /\ Content("new", half) \in Contents
  BY <1>2, RestoreAssumption
     DEF RestoreSafe, DataOK, InStages, Content, Contents, FillSchema, Schemas
<1>5. Holds(Content("new", half), "new", half)
  BY <1>4, RestoreAssumption DEF Holds, Content
<1>6. InStages'
  BY <1>2, <1>3, <1>4 DEF RestoreSafe, InStages, setupVars
<1>7. AsideOK'
  BY <1>1, <1>2, <1>3, <1>4, ContextKept
     DEF RestoreSafe, AsideOK, ServerOnly, Renamed, AtHome, Away, InStages, ContextOK
<1>8. DataOK'
  BY <1>1, <1>2, <1>3, <1>4, <1>5, ContextKept, RestoreAssumption
     DEF RestoreSafe, DataOK, ServerOnly, InStages, ContextOK
<1>9. StagesOK'
  BY <1>2, <1>7, <1>8 DEF StagesOK, PreOK, UndoOK, UndoNamesOK, PostOK, EndingOK, Ending
<1> QED  BY <1>1, <1>2, <1>6, <1>9, SafeAgain

\* A write of the register keeps what every schema holds otherwise.
LEMMA RowsKept ==
  ASSUME RestoreAssumption, RestoreSafe, ServerOnly, stage \in Ending,
         NEW rows, rows \subseteq Libraries, SetRows(rows)
  PROVE  /\ schema' \in [Schemas -> Contents \cup {Absent}] /\ aside' = aside
         /\ schema'[Global] # Absent /\ AllRestored'
<1>1. schema[Global] \in Contents /\ Global \in Schemas
  BY DEF RestoreSafe, EndingOK, InStages, Schemas
<1>2. /\ schema' = [schema EXCEPT ![Global] = [schema[Global] EXCEPT !.rows = rows]]
      /\ aside' = aside
  BY <1>1 DEF SetRows, RestoreSafe, InStages
<1>3. [schema[Global] EXCEPT !.rows = rows] \in Contents
  BY <1>1 DEF Contents
<1>4. \A s \in Schemas : \A o : Holds(schema[s], "new", o) => Holds(schema'[s], "new", o)
  BY <1>1, <1>2, <1>3, RestoreAssumption DEF RestoreSafe, InStages, Holds, Contents
<1>5. [schema[Global] EXCEPT !.rows = rows] # Absent
  BY <1>3, RestoreAssumption
<1>6. AllRestored'
  BY <1>4, ContextKept DEF RestoreSafe, EndingOK, ServerOnly, AllRestored, ContextOK
<1> QED  BY <1>1, <1>2, <1>3, <1>5, <1>6 DEF RestoreSafe, InStages

LEMMA DropReplacedSafe ==
  ASSUME RestoreAssumption, RestoreSafe, DropReplaced
  PROVE  RestoreSafe'
<1>1. ServerOnly
  BY Underway DEF DropReplaced, Done, Keep, ServerOnly
<1>2. stage' = "drop" /\ stage = "drop" /\ restored' = restored
  BY DEF DropReplaced, Done, Keep
<1>3. InStages'
  BY DEF RestoreSafe, DropReplaced, Done, Keep, InStages, setupVars
<1>4. schema'[Global] # Absent
  BY <1>2, RestoreAssumption
     DEF RestoreSafe, DropReplaced, EndingOK, Ending, Purged, InStages, Schemas
<1>5. AllRestored'
  BY <1>1, <1>2, ContextKept
     DEF RestoreSafe, EndingOK, Ending, AllRestored, DropReplaced, ServerOnly, InStages,
         ContextOK, Targets, Sources, Range
<1>6. todo' \subseteq (Targets \cup Purged)'
  BY <1>1, <1>2, ContextKept DEF RestoreSafe, EndingOK, DropReplaced, Done, Keep, ServerOnly
<1>7. StagesOK'
  BY <1>2, <1>4, <1>5, <1>6
     DEF StagesOK, PreOK, AsideOK, DataOK, UndoOK, UndoNamesOK, PostOK, EndingOK, Ending
<1> QED  BY <1>1, <1>2, <1>3, <1>7, SafeAgain

LEMMA DeleteRowSafe ==
  ASSUME RestoreAssumption, RestoreSafe, DeleteRow
  PROVE  RestoreSafe'
<1>1. ServerOnly
  BY Underway DEF DeleteRow, Done, ServerOnly
<1>2. stage' = "drop" /\ stage = "drop" /\ restored' = restored
  BY DEF DeleteRow, Done
<1>3. schema[Global].rows \ {half} \subseteq Libraries
  BY <1>2, RestoreAssumption DEF RestoreSafe, EndingOK, InStages, Contents, Schemas, Ending
<1>4. /\ schema' \in [Schemas -> Contents \cup {Absent}] /\ aside' = aside
      /\ schema'[Global] # Absent /\ AllRestored'
  BY <1>1, <1>2, <1>3, RowsKept DEF DeleteRow, Ending
<1>5. InStages'
  BY <1>4 DEF RestoreSafe, DeleteRow, Done, InStages, setupVars
<1>6. todo' \subseteq (Targets \cup Purged)'
  BY <1>1, <1>2, ContextKept DEF RestoreSafe, EndingOK, DeleteRow, Done, ServerOnly
<1>7. StagesOK'
  BY <1>2, <1>4, <1>6
     DEF StagesOK, PreOK, AsideOK, DataOK, UndoOK, UndoNamesOK, PostOK, EndingOK, Ending
<1> QED  BY <1>1, <1>2, <1>5, <1>7, SafeAgain

LEMMA RegisterSafe ==
  ASSUME RestoreAssumption, RestoreSafe, Register
  PROVE  RestoreSafe'
<1>1. ServerOnly
  BY Underway DEF Register, Done, Keep, ServerOnly
<1>2. stage' = "rows" /\ stage = "rows" /\ restored' = restored
  BY DEF Register, Done, Keep
<1>3. schema[Global].rows \subseteq Libraries
  BY <1>2, RestoreAssumption DEF RestoreSafe, EndingOK, InStages, Contents, Schemas, Ending
<1>4. half # Absent => context.map[half] \in Libraries
  BY <1>2 DEF RestoreSafe, EndingOK, ContextOK, Schemas
<1>5. PICK rows \in SUBSET Libraries : SetRows(rows)
  BY <1>3, <1>4 DEF Register
<1>6. /\ schema' \in [Schemas -> Contents \cup {Absent}] /\ aside' = aside
      /\ schema'[Global] # Absent /\ AllRestored'
  BY <1>1, <1>2, <1>5, RowsKept DEF Ending
<1>7. InStages'
  BY <1>6 DEF RestoreSafe, Register, Done, Keep, InStages, setupVars
<1>8. EndingOK'
  <2>1. todo' \subseteq todo /\ (half' = Absent \/ half' \in todo)
    BY DEF Register, Done, Keep
  <2>2. todo \subseteq {s \in Sources : context.map[s] # Global}
    BY <1>2 DEF RestoreSafe, EndingOK
  <2> QED  BY <1>1, <1>2, <1>6, <2>1, <2>2, ContextKept DEF EndingOK, Ending, ServerOnly
<1>9. StagesOK'
  BY <1>2, <1>8
     DEF StagesOK, PreOK, AsideOK, DataOK, UndoOK, UndoNamesOK, PostOK
<1> QED  BY <1>1, <1>2, <1>7, <1>9, SafeAgain

LEMMA SweepSafe ==
  ASSUME RestoreAssumption, RestoreSafe, Sweep
  PROVE  RestoreSafe'
<1>1. ServerOnly
  BY Underway DEF Sweep, Done, ServerOnly
<1>2. stage' = "sweep" /\ stage = "sweep" /\ restored' = restored
  BY DEF Sweep, Done
<1>3. {l \in schema[Global].rows : schema[l] # Absent} \subseteq Libraries
  BY <1>2, RestoreAssumption DEF RestoreSafe, EndingOK, InStages, Contents, Schemas, Ending
<1>4. /\ schema' \in [Schemas -> Contents \cup {Absent}] /\ aside' = aside
      /\ schema'[Global] # Absent /\ AllRestored'
  BY <1>1, <1>2, <1>3, RowsKept DEF Sweep, Ending
<1>5. InStages'
  BY <1>4 DEF RestoreSafe, Sweep, Done, InStages, setupVars
<1>6. StagesOK'
  BY <1>2, <1>4
     DEF StagesOK, PreOK, AsideOK, DataOK, UndoOK, UndoNamesOK, PostOK, EndingOK, Ending
<1> QED  BY <1>1, <1>2, <1>5, <1>6, SafeAgain

LEMMA UpdateSafe ==
  ASSUME RestoreAssumption, RestoreSafe, Update
  PROVE  RestoreSafe'
<1>1. ServerOnly
  BY Underway DEF Update, Done, ServerOnly
<1>2. stage' = "update" /\ stage = "update" /\ restored' = restored
  BY DEF Update, Done
<1>3. InStages'
  BY DEF RestoreSafe, Update, Done, InStages, setupVars
<1>4. EndingOK'
  BY <1>1, <1>2, ContextKept
     DEF RestoreSafe, EndingOK, Ending, AllRestored, Update, ServerOnly
<1>5. StagesOK'
  BY <1>2, <1>4 DEF StagesOK, PreOK, AsideOK, DataOK, UndoOK, UndoNamesOK, PostOK
<1> QED  BY <1>1, <1>2, <1>3, <1>5, SafeAgain

LEMMA UndoDropSafe ==
  ASSUME RestoreAssumption, RestoreSafe, UndoDrop
  PROVE  RestoreSafe'
<1>1. ServerOnly
  BY Underway DEF UndoDrop, Done, ServerOnly
<1>2. stage' = "undo" /\ stage = "undo" /\ restored' = restored
  BY DEF UndoDrop, Done
<1>3. PICK s \in todo : /\ schema' \in {schema, [schema EXCEPT ![s] = Absent]}
                        /\ aside' = aside /\ todo' = todo \ {s}
  BY DEF UndoDrop, Done
<1>4. s \in Sources
  BY <1>2, <1>3 DEF RestoreSafe, UndoOK
<1>5. InStages'
  BY DEF RestoreSafe, UndoDrop, Done, InStages, UndoOK, setupVars
<1>6. AsideOK'
  BY <1>1, <1>2, <1>3, <1>4, ContextKept
     DEF RestoreSafe, AsideOK, ServerOnly, Renamed, AtHome, Away, InStages, ContextOK
<1>7. UndoOK'
  BY <1>1, <1>2, <1>3, ContextKept DEF RestoreSafe, UndoOK, UndoDrop, Done, ServerOnly
<1>8. StagesOK'
  BY <1>2, <1>6, <1>7 DEF StagesOK, PreOK, DataOK, UndoNamesOK, PostOK, EndingOK, Ending
<1> QED  BY <1>1, <1>2, <1>5, <1>8, SafeAgain

LEMMA EndStageSafe ==
  ASSUME RestoreAssumption, RestoreSafe, EndStage
  PROVE  RestoreSafe'
<1>1. ServerOnly
  BY Underway DEF EndStage, ServerOnly
<1>2. stage # "idle" /\ todo = {} /\ UNCHANGED <<schema, aside, suppressed>>
  BY DEF EndStage
<1>3. CASE stage = "update"
  BY <1>1, <1>2, <1>3, EndKeeps DEF EndStage, RestoreSafe, InStages
<1>4. CASE stage = "undoNames"
  BY <1>1, <1>2, <1>4, EndKeeps DEF EndStage, RestoreSafe, InStages
<1>5. CASE stage \notin {"update", "undoNames"}
  <2>1. /\ stage' = NextStage[stage] /\ todo' = Entries[stage']
        /\ UNCHANGED <<half, locked, restored>>
    BY <1>5 DEF EndStage
  <2>2. stage \in {"pre", "data", "post", "back", "drop", "rows", "sweep", "undo"}
    BY <1>2, <1>5 DEF RestoreSafe, InStages, Stages
  <2>3. stage' \in Stages \ {"idle"}
    BY <2>1, <2>2 DEF NextStage, Stages
  <2>4. /\ stage = "pre" => stage' = "data"
        /\ stage = "data" => stage' = "post"
        /\ stage = "post" => stage' = "back"
        /\ stage = "back" => stage' = "drop"
        /\ stage = "drop" => stage' = "rows"
        /\ stage = "rows" => stage' = "sweep"
        /\ stage = "sweep" => stage' = "update"
        /\ stage = "undo" => stage' = "undoNames"
    BY <2>1 DEF NextStage
  <2>5. todo' \in SUBSET Schemas
    BY <2>1, <2>2, <2>4, RestoreAssumption
       DEF Entries, RestoreSafe, ContextOK, Renamed, Purged, Sources, Targets, Range, Schemas
  <2>6. InStages'
    BY <1>1, <1>2, <2>1, <2>3, <2>5 DEF RestoreSafe, InStages, ServerOnly, setupVars
  <2>7. PreOK' /\ UndoOK'
    BY <2>2, <2>4 DEF PreOK, UndoOK
  <2>8. AsideOK'
    BY <1>1, <1>2, <2>1, <2>2, <2>4, ContextKept
       DEF RestoreSafe, PreOK, AsideOK, ServerOnly, AtHome, Away
  <2>9. DataOK'
    <3> SUFFICES ASSUME stage' = "data" PROVE DataOK'
      BY DEF DataOK
    <3>1. stage = "pre" /\ todo' = Entries.data /\ half = Absent
      BY <1>2, <2>1, <2>2, <2>4 DEF RestoreSafe, PreOK, InStages
    <3> QED  BY <1>1, <3>1, <2>1, ContextKept DEF DataOK, Entries, ServerOnly
  <2>10. UndoNamesOK'
    <3> SUFFICES ASSUME stage' = "undoNames" PROVE UndoNamesOK'
      BY DEF UndoNamesOK
    <3> QED  BY <1>1, <1>2, <2>1, <2>2, <2>4, ContextKept
             DEF RestoreSafe, AsideOK, UndoNamesOK, Entries, ServerOnly, AtHome, Away
  <2>11. PostOK'
    <3> SUFFICES ASSUME stage' = "post" PROVE PostOK'
      BY DEF PostOK
    <3> QED  BY <1>1, <1>2, <2>1, <2>2, <2>4, ContextKept
             DEF RestoreSafe, DataOK, PostOK, Entries, ServerOnly
  <2>12. EndingOK'
    <3>1. CASE stage' \in Ending
      <4>1. AllRestored /\ schema[Global] # Absent
        BY <1>2, <2>2, <2>4, <3>1 DEF RestoreSafe, EndingOK, PostOK, AllRestored, Ending
      <4>2. AllRestored'
        BY <1>2, <4>1, <1>1, ContextKept DEF AllRestored, ServerOnly
      <4>3. /\ stage' = "drop" => todo' \subseteq Targets \cup Purged
            /\ stage' = "rows" => todo' \subseteq {s \in Sources : context.map[s] # Global}
            /\ stage' = "rows" => half' = Absent
        BY <1>2, <2>1, <2>2, <2>4 DEF Entries, RestoreSafe, InStages
      <4> QED  BY <1>1, <1>2, <3>1, <4>1, <4>2, <4>3, ContextKept DEF EndingOK, ServerOnly, Ending
    <3>2. CASE stage' \notin Ending
      <4>1. stage' = "post" => schema[Global] # Absent
        <5> SUFFICES ASSUME stage' = "post" PROVE schema[Global] # Absent
          OBVIOUS
        <5>1. stage = "data"
          BY <2>2, <2>4
        <5>2. CASE Global \in Sources
          BY <1>2, <5>1, <5>2 DEF RestoreSafe, DataOK, Holds
        <5>3. CASE Global \notin Sources
          BY <5>1, <5>3
             DEF RestoreSafe, AsideOK, ContextOK, Renamed, Targets, Sources, Range, AtHome, Holds
        <5> QED  BY <5>2, <5>3
      <4> QED  BY <1>2, <3>2, <4>1 DEF EndingOK, Ending
    <3> QED  BY <3>1, <3>2
  <2> QED  BY <1>1, <2>1, <2>3, <2>6, <2>7, <2>8, <2>9, <2>10, <2>11, <2>12,
             SafeAgain DEF StagesOK
<1> QED  BY <1>3, <1>4, <1>5

\* Before the data is complete only the loading of data can fail, so that all
\* that was to be renamed has been.
LEMMA StatementFailsSafe ==
  ASSUME RestoreAssumption, "pre" \notin MayFail, RestoreSafe, StatementFails
  PROVE  RestoreSafe'
<1>1. ServerOnly
  BY Underway DEF StatementFails, ServerOnly, RestoreSafe, InStages
<1>2. UNCHANGED <<schema, aside>> /\ stage # "undo" /\ todo # {}
  BY DEF StatementFails
<1>3. stage # "pre"
  BY <1>2 DEF StatementFails, InTheWay, RestoreSafe, PreOK, AtHome, Holds, Renamed
<1>4. CASE stage = "data"
  <2>1. /\ stage' = "undo" /\ todo' = Sources /\ half' = Absent
        /\ UNCHANGED <<suppressed, locked, restored>>
    BY <1>4 DEF StatementFails
  <2>2. InStages'
    BY <1>1, <1>2, <1>4, <2>1
       DEF RestoreSafe, InStages, Stages, ServerOnly, setupVars, ContextOK, Schemas,
           RestoreAssumption
  <2>3. AsideOK' /\ UndoOK'
    BY <1>1, <1>2, <1>4, <2>1, ContextKept
       DEF RestoreSafe, AsideOK, UndoOK, ServerOnly, AtHome, Away
  <2>4. StagesOK'
    BY <2>1, <2>3 DEF StagesOK, PreOK, DataOK, UndoNamesOK, PostOK, EndingOK, Ending
  <2> QED  BY <1>1, <2>1, <2>2, <2>4, SafeAgain
<1>5. CASE stage # "data"
  BY <1>1, <1>2, <1>3, <1>5, EndKeeps DEF StatementFails, RestoreSafe, InStages
<1> QED  BY <1>4, <1>5

\* The maps the handler makes of what the page sends are names for schemas.
LEMMA MapsAreNames ==
  ASSUME RestoreAssumption, RestoreSafe, request # Absent,
         NEW map, map \in MapsFor(request.params), ~NotAllowed(map)
  PROVE  /\ DOMAIN map \subseteq Backup
         /\ \A s \in DOMAIN map : /\ map[s] \in Schemas
                                  /\ s = Global <=> map[s] = Global
                                  /\ \A o \in DOMAIN map : map[s] = map[o] => s = o
<1>1. \A s, o \in DOMAIN map : map[s] = map[o] => s = o
  BY DEF NotAllowed, IsInjective
<1>2. CASE scope \in {"single", "library"}
  <2>1. PICK l \in Backup \ {Global} :
          map = [s \in {l} \cup (IF scope = "single" THEN Backup \cap {Global} ELSE {})
                   |-> IF s = Global THEN Global ELSE Current]
    BY <1>2 DEF MapsFor
  <2> QED  BY <1>1, <2>1, RestoreAssumption DEF RestoreAssumption, Schemas
<1>3. CASE scope = "multi" /\ request.params.type = "complete"
  <2>1. map = [s \in Backup |-> s]
    BY <1>3 DEF MapsFor
  <2> QED  BY <1>1, <2>1, RestoreAssumption DEF RestoreAssumption
<1>4. CASE scope = "multi" /\ request.params.type # "complete"
  <2>1. map = request.params.map
    BY <1>4 DEF MapsFor
  <2>2. PICK D \in SUBSET (Backup \ {Global}) : map \in [D -> Libraries]
    BY <1>4, <2>1 DEF RestoreSafe, SelectionsOK, Selections, PartialMaps
  <2> QED  BY <1>1, <2>2, RestoreAssumption DEF RestoreAssumption, Schemas
<1> QED  BY <1>2, <1>3, <1>4 DEF RestoreSafe, SelectionsOK

LEMMA BeginSafe ==
  ASSUME RestoreAssumption, RestoreSafe, Begin
  PROVE  RestoreSafe'
<1>1. /\ request # Absent /\ stage = "idle" /\ request' = Absent /\ Fresh
      /\ UNCHANGED <<schema, aside, suppressed, setupPage, selection, scope, backupType>>
      /\ setupPage = "waiting" /\ restored = "pending"
  BY DEF Begin, RestoreSafe, SelectionsOK
<1>2. SelectionsOK'
  BY <1>1 DEF RestoreSafe, SelectionsOK
<1>3. ASSUME NEW answer \in {"ask", "failure"}, Idle(answer), UNCHANGED context
      PROVE  RestoreSafe'
  <2>1. InStages' /\ InProgress'
    BY <1>1, <1>3 DEF RestoreSafe, InStages, InProgress, Idle, Stages
  <2>2. ContextOK' /\ Fresh'
    BY <1>1, <1>3, ContextKept
       DEF RestoreSafe, ContextOK, Fresh, NotBegun, Idle, AtHome
  <2>3. PreOK' /\ AsideOK' /\ DataOK' /\ UndoOK' /\ UndoNamesOK' /\ PostOK' /\ EndingOK'
    BY <1>3 DEF Idle, PreOK, AsideOK, DataOK, UndoOK, UndoNamesOK, PostOK, EndingOK, Ending
  <2>4. NoLibraryLost'
    BY <1>1, <1>3, ContextKept DEF RestoreSafe, NoLibraryLost, AllRestored
  <2> QED  BY <1>2, <2>1, <2>2, <2>3, <2>4 DEF RestoreSafe
<1>4. ASSUME NEW map \in MapsFor(request.params), ~NotAllowed(map),
             context' = [map |-> map, installed |-> {s \in Schemas : schema[s] # Absent},
                         purgeAll |-> scope = "multi" /\ request.params.type = "complete"],
             stage' = "pre", todo' = Entries'.pre, half' = Absent,
             locked' = TRUE, UNCHANGED restored
      PROVE  RestoreSafe'
  <2>1. ContextOK'
    <3>1. Global \in (context.installed)'
      BY <1>1, <1>4 DEF Fresh, NotBegun, AtHome, Holds, Schemas
    <3> QED  BY <1>1, <1>4, <3>1, MapsAreNames DEF ContextOK, Sources
  <2>2. todo' = Renamed' /\ Renamed' \subseteq (context.installed)'
    BY <1>4 DEF Entries, Renamed
  <2>3. InStages' /\ InProgress'
    BY <1>1, <1>4, <2>1, <2>2 DEF RestoreSafe, InStages, InProgress, Stages, ContextOK
  <2>4. ~NotBegun'
    BY <1>1, <1>4 DEF NotBegun
  <2>5. PreOK'
    BY <1>1, <1>4, <2>2 DEF PreOK, Fresh, NotBegun, AtHome
  <2>6. StagesOK'
    BY <1>4, <2>5 DEF StagesOK, AsideOK, DataOK, UndoOK, UndoNamesOK, PostOK, EndingOK, Ending
  <2>7. NoLibraryLost'
    BY <1>4, <2>6, NotLost DEF Stages
  <2> QED  BY <1>2, <2>1, <2>3, <2>4, <2>6, <2>7 DEF RestoreSafe, StagesOK, Fresh
<1> QED  BY <1>3, <1>4 DEF Begin

\* The page's own steps: the server does not change, but for its answer.
LEMMA PageStepSafe ==
  ASSUME RestoreSafe, UNCHANGED <<schema, aside, context, stage, todo, half, suppressed, locked>>,
         setupPage' \in {"choose", "waiting", "media", "success", "error"},
         restored' \in {"pending", "ask", "success", "failure"},
         SelectionsOK', Fresh', InProgress'
  PROVE  RestoreSafe'
<1>1. ContextOK' /\ InStages'
  BY ContextKept DEF RestoreSafe, ContextOK, InStages
<1>2. PreOK' /\ AsideOK' /\ DataOK' /\ UndoOK' /\ UndoNamesOK'
  BY ContextKept
     DEF RestoreSafe, PreOK, AsideOK, DataOK, UndoOK, UndoNamesOK, AtHome, Away
<1>3. PostOK' /\ EndingOK' /\ NoLibraryLost'
  BY ContextKept DEF RestoreSafe, PostOK, EndingOK, NoLibraryLost, AllRestored
<1> QED  BY <1>1, <1>2, <1>3 DEF RestoreSafe

LEMMA PageSafe ==
  ASSUME RestoreAssumption, RestoreSafe,
         \/ ChooseRestore \/ RestoreMedia \/ SkipMedia \/ CancelRestore \/ ReceiveRestore
  PROVE  RestoreSafe'
<1>0. [type |-> "partial", map |-> NoMap] \in Selections
  BY DEF Selections, PartialMaps, NoMap
<1>1. CASE ChooseRestore
  <2>1. selection' \in Selections /\ Fresh
    BY <1>0, <1>1 DEF ChooseRestore, RestoreSafe
  <2>2. SelectionsOK' /\ Fresh' /\ InProgress'
    BY <1>1, <2>1 DEF ChooseRestore, RestoreSafe, SelectionsOK, Fresh, NotBegun, InProgress, AtHome
  <2> QED  BY <1>1, <2>2, PageStepSafe DEF ChooseRestore
<1>2. ASSUME NEW params \in Selections, NEW media, SendAgain(params, media)
      PROVE  RestoreSafe'
  <2>1. SelectionsOK' /\ Fresh' /\ InProgress'
    BY <1>2 DEF SendAgain, RestoreSafe, SelectionsOK, Fresh, NotBegun, InProgress, AtHome
  <2> QED  BY <1>2, <2>1, PageStepSafe DEF SendAgain
<1>3. CASE RestoreMedia
  BY <1>2, <1>3 DEF RestoreMedia, SendAgain, RestoreSafe, SelectionsOK
<1>4. CASE SkipMedia
  BY <1>0, <1>2, <1>4 DEF SkipMedia
<1>5. CASE CancelRestore
  <2>1. SelectionsOK' /\ Fresh' /\ InProgress'
    BY <1>5 DEF CancelRestore, RestoreSafe, SelectionsOK, Fresh, NotBegun, InProgress, AtHome,
         restoreServerVars
  <2> QED  BY <1>5, <2>1, PageStepSafe DEF CancelRestore, restoreServerVars, RestoreSafe, InStages
<1>6. CASE ReceiveRestore
  <2>1. /\ setupPage' \in {"media", "success", "error"} /\ (setupPage' = "media" => restored = "ask")
        /\ UNCHANGED <<selection, request, scope, backupType, restoreServerVars>>
        /\ setupPage = "waiting" /\ request = Absent /\ restored # "pending"
    BY <1>6 DEF ReceiveRestore, RestoreSafe, InStages
  <2>2. SelectionsOK' /\ Fresh' /\ InProgress'
    BY <2>1 DEF RestoreSafe, SelectionsOK, Fresh, NotBegun, InProgress, AtHome, restoreServerVars
  <2> QED  BY <2>1, <2>2, PageStepSafe DEF restoreServerVars, RestoreSafe, InStages
<1> QED  BY <1>1, <1>3, <1>4, <1>5, <1>6

LEMMA RestoreStartsSafe ==
  ASSUME RestoreAssumption
  PROVE  RestoreInit => RestoreSafe
<1> SUFFICES ASSUME RestoreInit PROVE RestoreSafe
  OBVIOUS
<1>1. PICK installed \in SUBSET Libraries :
        schema = [s \in Schemas |->
          IF s \notin installed \cup {Global} THEN Absent
          ELSE [state |-> "old", of |-> s, rows |-> IF s = Global THEN installed ELSE {}]]
  BY DEF RestoreInit
<1>2. /\ context = [map |-> NoMap, installed |-> {}, purgeAll |-> FALSE]
      /\ stage = "idle" /\ todo = {} /\ half = Absent /\ suppressed = FALSE
      /\ restored = "pending" /\ locked = FALSE /\ setupPage = "choose" /\ request = Absent
      /\ scope \in {"multi", "single", "library"} /\ aside = [s \in Schemas |-> Absent]
  BY DEF RestoreInit
<1>3. \A s \in Schemas : schema[s] \in Contents \cup {Absent}
  BY <1>1 DEF Contents
<1>4. Sources = {}
  BY <1>2 DEF Sources, NoMap
<1>5. SelectionsOK /\ ContextOK /\ InProgress
  BY <1>2, <1>4 DEF SelectionsOK, ContextOK, InProgress
<1>6. InStages
  BY <1>1, <1>2, <1>3 DEF InStages, Stages
<1>7. Fresh
  BY <1>1, <1>2, RestoreAssumption DEF Fresh, AtHome, Holds, Contents, Schemas
<1>8. /\ PreOK /\ AsideOK /\ DataOK /\ UndoOK /\ UndoNamesOK /\ PostOK /\ EndingOK
      /\ NoLibraryLost
  BY <1>2
     DEF PreOK, AsideOK, DataOK, UndoOK, UndoNamesOK, PostOK, EndingOK, Ending, NoLibraryLost
<1> QED  BY <1>5, <1>6, <1>7, <1>8 DEF RestoreSafe

\* The inductive invariant of restoring: where each library is in each loop,
\* and what has been restored.
THEOREM RestoreIsSafe ==
  ASSUME "pre" \notin MayFail
  PROVE  RestoreSpec => []RestoreSafe
<1>1. RestoreInit => RestoreSafe
  BY RestoreAssumption, RestoreStartsSafe
<1>2. RestoreSafe /\ [RestoreNext]_restoreVars => RestoreSafe'
  <2> SUFFICES ASSUME RestoreSafe, [RestoreNext]_restoreVars PROVE RestoreSafe'
    OBVIOUS
  <2>1. CASE RestoreStep
    BY <2>1, RestoreAssumption, BeginSafe, SetAsideSafe, PutBackSafe, GiveNameSafe,
       CreateSchemaSafe, FillSchemaSafe, DropReplacedSafe, DeleteRowSafe, RegisterSafe,
       SweepSafe, UpdateSafe, UndoDropSafe, EndStageSafe, StatementFailsSafe DEF RestoreStep
  <2>2. CASE ChooseRestore \/ RestoreMedia \/ SkipMedia \/ CancelRestore \/ ReceiveRestore
    BY <2>2, RestoreAssumption, PageSafe
  <2>3. CASE UNCHANGED restoreVars
    <3>1. SelectionsOK' /\ Fresh' /\ InProgress'
      BY <2>3 DEF restoreVars, restoreServerVars, setupVars, RestoreSafe, SelectionsOK, Fresh,
           NotBegun, InProgress, AtHome
    <3> QED  BY <2>3, <3>1, PageStepSafe
             DEF restoreVars, restoreServerVars, setupVars, RestoreSafe, InStages
  <2> QED  BY <2>1, <2>2, <2>3 DEF RestoreNext
<1> QED  BY <1>1, <1>2, PTL DEF RestoreSpec

\* Requests, schemas and the page are well formed, State.LOCKED is set exactly
\* while a restore is in its loops, and the register is there once the data is.
THEOREM RestoreTyped ==
  ASSUME "pre" \notin MayFail
  PROVE  RestoreSpec => []RestoreTypeOK
<1>1. RestoreSafe => RestoreTypeOK
  BY RestoreAssumption
     DEF RestoreSafe, RestoreTypeOK, InStages, ContextOK, EndingOK, Ending, Targets, Range, Sources
<1> QED  BY <1>1, RestoreIsSafe, PTL

\* A restore loses no library (RestoreBO.restoreBackup): each one installed is in
\* the database until all that was asked for is restored under its final name,
\* at whatever statement after the first renames the restore fails or stops.
THEOREM LibrariesAreKept ==
  ASSUME "pre" \notin MayFail
  PROVE  RestoreSpec => []NoLibraryLost
<1>1. RestoreSafe => NoLibraryLost
  BY DEF RestoreSafe
<1> QED  BY <1>1, RestoreIsSafe, PTL

-----------------------------------------------------------------------------
(* What a restore leaves: nothing of it when it fails before its data is      *)
(* complete, what was chosen when it succeeds.                                *)

Ended == stage \in {"rows", "sweep", "update"} \/ restored = "success"
Others == context.installed \ (Targets \cup Purged)

\* The handler gets what is selected on the page, or the skip.
SentOK ==
  /\ request # Absent => request.params \in {selection, [type |-> "partial", map |-> NoMap]}
  /\ setupPage = "success" => restored = "success"
  /\ restored = "success" => stage = "idle" /\ setupPage \in {"waiting", "success", "error"}

\* Before the restore the register has the libraries there are.
FreshRegister ==
  NotBegun =>
    /\ context.map = NoMap /\ ~context.purgeAll
    /\ schema[Global].rows = {l \in Libraries : schema[l] # Absent}
    /\ scope = "single" => \A l \in Libraries \ {Current} : schema[l] = Absent

MapChosen ==
  stage # "idle" \/ restored = "success" =>
    /\ scope = "multi" => /\ context.purgeAll = (selection.type = "complete")
                          /\ selection.type = "partial" => context.map = selection.map
    /\ context.purgeAll => \A s \in Sources : context.map[s] = s
    /\ Global \in Sources /\ ~context.purgeAll => context.installed \subseteq Targets

\* Wherever it is, the register of before has the libraries of before.
OldRegister ==
  stage \in {"pre", "data", "post", "back", "undo", "undoNames"} =>
    /\ AtHome(Global) => schema[Global].rows = context.installed \cap Libraries
    /\ Away(Global) => aside[Global].rows = context.installed \cap Libraries

\* What is under temporary names,
AsideClean ==
  \A s \in Schemas : aside[s] # Absent =>
    /\ stage = "pre" => s \in Renamed \ todo
    /\ stage \in {"data", "post", "undo"} => s \in Renamed
    /\ stage = "back" => s \in todo \cup (Targets \cap context.installed)
    /\ stage = "drop" => s \in (todo \cap Targets) \ {half}
    /\ stage = "undoNames" => s \in todo
    /\ ~Ended

\* and what is under its own.
PlacesClean ==
  \A s \in Schemas : schema[s] # Absent =>
    /\ stage = "pre" => s \in (context.installed \ Renamed) \cup todo
    /\ stage = "data" => s \in (context.installed \ Renamed) \cup Sources
    /\ stage = "undo" /\ ~suppressed => s \in (context.installed \ Renamed) \cup todo
    /\ stage = "undoNames" /\ ~suppressed => s \in context.installed

PurgedGone ==
  /\ stage = "drop" => /\ \A l \in (Purged \ todo) \cup (Purged \cap {half}) : schema[l] = Absent
                       /\ \A l \in Purged \ todo : ~InRegister(l)
  /\ Ended => \A l \in Purged : schema[l] = Absent /\ ~InRegister(l)

Untouched ==
  /\ stage = "back" => \A l \in Others : IF l \in todo THEN Away(l) ELSE AtHome(l)
  /\ stage = "drop" \/ Ended =>
       \A l \in Others : AtHome(l) /\ (l \in Libraries \ Sources => InRegister(l))

Lone(s) == context.map[s] \in Libraries \ (Sources \ {s})
Registered ==
  /\ stage = "rows" => \A s \in Sources \ todo : Lone(s) => InRegister(context.map[s])
  /\ stage \in {"sweep", "update"} \/ restored = "success" =>
       \A s \in Sources : Lone(s) => InRegister(context.map[s])
  /\ restored = "success" => AllRestored

KeptStages ==
  OldRegister /\ AsideClean /\ PlacesClean /\ PurgedGone /\ Untouched /\ Registered
RestoreKept == SentOK /\ FreshRegister /\ MapChosen /\ KeptStages /\ FailedRestoreUndone

\* What the page has sent and what was chosen stay as they are in the loops.
LEMMA KeptAgain ==
  ASSUME RestoreSafe, RestoreKept, ServerOnly, restored' = restored, KeptStages'
  PROVE  RestoreKept'
<1>1. restored' = "pending"
  BY DEF RestoreSafe, ServerOnly, InProgress
<1>2. SentOK'
  BY <1>1 DEF RestoreKept, SentOK, ServerOnly, setupVars
<1>3. FreshRegister'
  BY <1>1 DEF ServerOnly, FreshRegister, NotBegun, setupVars
<1>4. MapChosen'
  BY <1>1, ContextKept DEF RestoreKept, MapChosen, ServerOnly, setupVars
<1>5. FailedRestoreUndone'
  BY <1>1 DEF FailedRestoreUndone
<1> QED  BY <1>2, <1>3, <1>4, <1>5 DEF RestoreKept

LEMMA OthersKept ==
  ASSUME context' = context
  PROVE  Others' = Others
BY ContextKept DEF Others

LEMMA SetAsideKept ==
  ASSUME RestoreAssumption, RestoreSafe, RestoreKept, SetAside
  PROVE  RestoreKept'
<1>1. ServerOnly /\ stage' = "pre" /\ stage = "pre" /\ restored' = restored
  BY Underway DEF SetAside, Done, ServerOnly
<1>2. restored' = "pending"
  BY <1>1 DEF RestoreSafe, InProgress
<1>3. PICK s \in todo :
        /\ schema[s] # Absent /\ aside[s] = Absent
        /\ schema' = [schema EXCEPT ![s] = Absent] /\ aside' = [aside EXCEPT ![s] = schema[s]]
        /\ todo' = todo \ {s} /\ context' = context
  BY DEF SetAside, Done
<1>4. /\ schema \in [Schemas -> Contents \cup {Absent}]
      /\ aside \in [Schemas -> Contents \cup {Absent}]
      /\ todo \subseteq Renamed /\ todo \subseteq Schemas
  BY <1>1 DEF RestoreSafe, InStages, PreOK
<1>5. OldRegister'
  BY <1>1, <1>3, <1>4, RestoreAssumption
     DEF RestoreKept, KeptStages, OldRegister, AtHome, Away, Holds, Schemas
<1>6. AsideClean'
  BY <1>1, <1>2, <1>3, <1>4, ContextKept DEF RestoreKept, KeptStages, AsideClean, Ended
<1>7. PlacesClean'
  BY <1>1, <1>3, <1>4, ContextKept DEF RestoreKept, KeptStages, PlacesClean
<1>8. PurgedGone' /\ Untouched' /\ Registered'
  BY <1>1, <1>2 DEF PurgedGone, Untouched, Registered, Ended
<1> QED  BY <1>1, <1>5, <1>6, <1>7, <1>8, KeptAgain DEF KeptStages

LEMMA PutBackKept ==
  ASSUME RestoreAssumption, RestoreSafe, RestoreKept, PutBack
  PROVE  RestoreKept'
<1>1. ServerOnly /\ stage' = stage /\ stage \in {"back", "undoNames"} /\ restored' = restored
  BY Underway DEF PutBack, Done, ServerOnly
<1>2. restored' = "pending"
  BY <1>1 DEF RestoreSafe, InProgress, ServerOnly
<1>3. PICK s \in todo :
        /\ aside[s] # Absent /\ schema[s] = Absent
        /\ schema' = [schema EXCEPT ![s] = aside[s]] /\ aside' = [aside EXCEPT ![s] = Absent]
        /\ todo' = todo \ {s} /\ context' = context /\ suppressed' = suppressed
  BY DEF PutBack, Done
<1>4. /\ schema \in [Schemas -> Contents \cup {Absent}]
      /\ aside \in [Schemas -> Contents \cup {Absent}]
      /\ todo \subseteq Schemas
  BY <1>1 DEF RestoreSafe, InStages
<1>5. OldRegister'
  BY <1>1, <1>3, <1>4, RestoreAssumption
     DEF RestoreKept, KeptStages, OldRegister, AtHome, Away, Holds, Schemas
<1>6. AsideClean'
  BY <1>1, <1>2, <1>3, <1>4, ContextKept DEF RestoreKept, KeptStages, AsideClean, Ended
<1>7. PlacesClean'
  <2>1. stage = "undoNames" => todo \subseteq context.installed
    BY DEF RestoreSafe, UndoNamesOK, Renamed
  <2> QED  BY <1>1, <1>3, <1>4, <2>1, ContextKept DEF RestoreKept, KeptStages, PlacesClean
<1>8. Untouched'
  <2> SUFFICES ASSUME stage = "back", NEW l \in Others
               PROVE  IF l \in todo' THEN Away(l)' ELSE AtHome(l)'
    BY <1>1, <1>2, <1>3, OthersKept DEF Untouched, Ended
  <2>1. IF l \in todo THEN Away(l) ELSE AtHome(l)
    BY DEF RestoreKept, KeptStages, Untouched
  <2>2. l \in Schemas
    BY DEF Others, RestoreSafe, ContextOK
  <2> QED  BY <1>3, <1>4, <2>1, <2>2 DEF AtHome, Away
<1>9. PurgedGone' /\ Registered'
  BY <1>1, <1>2 DEF PurgedGone, Registered, Ended
<1> QED  BY <1>1, <1>5, <1>6, <1>7, <1>8, <1>9, KeptAgain DEF KeptStages

LEMMA GiveNameKept ==
  ASSUME RestoreAssumption, RestoreSafe, RestoreKept, GiveName
  PROVE  RestoreKept'
<1>1. ServerOnly /\ stage' = "post" /\ stage = "post" /\ restored' = restored
  BY Underway DEF GiveName, Done, ServerOnly
<1>2. restored' = "pending"
  BY <1>1 DEF RestoreSafe, InProgress
<1>3. PICK s \in todo :
        /\ schema' = [schema EXCEPT ![s] = Absent, ![context.map[s]] = schema[s]]
        /\ aside' = aside /\ context' = context
  BY DEF GiveName, Done
<1>4. s \in Sources /\ context.map[s] # s
  BY <1>1, <1>3 DEF RestoreSafe, PostOK
<1>5. s # Global /\ context.map[s] # Global
  BY <1>4 DEF RestoreSafe, ContextOK
<1>6. schema'[Global] = schema[Global]
  BY <1>3, <1>5 DEF RestoreSafe, InStages, Schemas
<1>7. OldRegister'
  BY <1>1, <1>3, <1>6 DEF RestoreKept, KeptStages, OldRegister, AtHome, Away
<1>8. AsideClean'
  BY <1>1, <1>2, <1>3, ContextKept DEF RestoreKept, KeptStages, AsideClean, Ended
<1>9. PlacesClean' /\ PurgedGone' /\ Untouched' /\ Registered'
  BY <1>1, <1>2 DEF PlacesClean, PurgedGone, Untouched, Registered, Ended
<1> QED  BY <1>1, <1>7, <1>8, <1>9, KeptAgain DEF KeptStages

\* A statement of a schema's file leaves the other schemas, and what is there
\* under the schema's own name is no longer what was.
LEMMA LoadingKept ==
  ASSUME RestoreAssumption, RestoreSafe, RestoreKept, stage = "data",
         NEW s \in Sources, NEW state \in {"part", "new"},
         schema' = [schema EXCEPT ![s] = Content(state, s)], aside' = aside,
         ServerOnly, stage' = "data", restored' = restored
  PROVE  RestoreKept'
<1>1. restored' = "pending" /\ context' = context
  BY DEF RestoreSafe, InProgress, ServerOnly
<1>2. OldRegister'
  <2>1. Global \in Schemas /\ schema \in [Schemas -> Contents \cup {Absent}]
    BY DEF RestoreSafe, InStages, Schemas
  <2>2. AtHome(Global)' => AtHome(Global) /\ schema'[Global] = schema[Global]
    BY <2>1 DEF AtHome, Holds, Content
  <2> QED  BY <1>1, <2>2 DEF RestoreKept, KeptStages, OldRegister, Away
<1>3. AsideClean'
  BY <1>1, ContextKept DEF RestoreKept, KeptStages, AsideClean, Ended
<1>4. PlacesClean'
  BY <1>1, ContextKept DEF RestoreKept, KeptStages, PlacesClean, RestoreSafe, InStages
<1>5. PurgedGone' /\ Untouched' /\ Registered'
  BY <1>1 DEF PurgedGone, Untouched, Registered, Ended
<1> QED  BY <1>2, <1>3, <1>4, <1>5, KeptAgain DEF KeptStages

LEMMA CreateSchemaKept ==
  ASSUME RestoreAssumption, RestoreSafe, RestoreKept, CreateSchema
  PROVE  RestoreKept'
<1>1. ServerOnly /\ stage' = "data" /\ stage = "data" /\ restored' = restored
  BY Underway DEF CreateSchema, Keep, ServerOnly
<1>2. PICK s \in todo : schema' = [schema EXCEPT ![s] = Content("part", s)] /\ aside' = aside
  BY DEF CreateSchema, Keep
<1>3. s \in Sources
  BY <1>1, <1>2 DEF RestoreSafe, DataOK
<1> QED  BY <1>1, <1>2, <1>3, LoadingKept

LEMMA FillSchemaKept ==
  ASSUME RestoreAssumption, RestoreSafe, RestoreKept, FillSchema
  PROVE  RestoreKept'
<1>1. ServerOnly /\ stage' = "data" /\ stage = "data" /\ restored' = restored
  BY Underway DEF FillSchema, Done, ServerOnly
<1>2. schema' = [schema EXCEPT ![half] = Content("new", half)] /\ aside' = aside
  BY DEF FillSchema
<1>3. half \in Sources
  BY <1>1 DEF RestoreSafe, DataOK, FillSchema
<1> QED  BY <1>1, <1>2, <1>3, LoadingKept

LEMMA DropReplacedKept ==
  ASSUME RestoreAssumption, RestoreSafe, RestoreKept, DropReplaced
  PROVE  RestoreKept'
<1>1. ServerOnly /\ stage' = "drop" /\ stage = "drop" /\ restored' = restored
  BY Underway DEF DropReplaced, Done, Keep, ServerOnly
<1>2. restored' = "pending" /\ half = Absent
  BY <1>1 DEF RestoreSafe, InProgress, DropReplaced
<1>3. PICK s \in todo :
        /\ \/ s \in Targets /\ aside' = [aside EXCEPT ![s] = Absent] /\ UNCHANGED schema
           \/ s \notin Targets /\ schema' = [schema EXCEPT ![s] = Absent] /\ UNCHANGED aside
        /\ context' = context
        /\ \/ todo' = todo \ {s} /\ half' = Absent /\ s = Global
           \/ todo' = todo /\ half' = s
  BY DEF DropReplaced, Done, Keep
<1>4. /\ schema \in [Schemas -> Contents \cup {Absent}]
      /\ aside \in [Schemas -> Contents \cup {Absent}]
      /\ todo \subseteq Schemas /\ todo \subseteq Targets \cup Purged
      /\ Purged \cap Targets = {} /\ Global \notin Purged /\ Purged \subseteq Schemas
      /\ Absent \notin Schemas /\ Global \in Schemas
  BY <1>1, RestoreAssumption
     DEF RestoreSafe, InStages, EndingOK, Ending, Purged, ContextOK, Schemas
<1>5. /\ \A o \in Schemas : aside[o] # Absent => o \in todo \cap Targets
      /\ \A l \in Purged \ todo : schema[l] = Absent /\ ~InRegister(l)
      /\ \A l \in Others : AtHome(l) /\ (l \in Libraries \ Sources => InRegister(l))
  BY <1>1, <1>2 DEF RestoreKept, KeptStages, AsideClean, PurgedGone, Untouched
<1>6. AsideClean'
  BY <1>1, <1>2, <1>3, <1>4, <1>5, ContextKept DEF AsideClean, Ended
<1>7. schema'[Global] = schema[Global]
  BY <1>3, <1>4
<1>8. PurgedGone'
  <2>1. Purged' = Purged
    BY <1>3, ContextKept
  <2>2. \A l \in (Purged \ todo') \cup (Purged \cap {half'}) : schema'[l] = Absent
    BY <1>3, <1>4, <1>5
  <2>3. \A l \in Purged \ todo' : ~InRegister(l)'
    BY <1>3, <1>4, <1>5, <1>7 DEF InRegister
  <2> QED  BY <1>1, <1>2, <2>1, <2>2, <2>3 DEF PurgedGone, Ended
<1>9. Untouched'
  <2> SUFFICES ASSUME NEW l \in Others
               PROVE  AtHome(l)' /\ (l \in Libraries \ Sources => InRegister(l)')
    BY <1>1, <1>2, <1>3, OthersKept, ContextKept DEF Untouched, Ended
  <2>1. l \notin Targets \cup Purged /\ l \in Schemas
    BY DEF Others, RestoreSafe, ContextOK
  <2>2. schema'[l] = schema[l]
    BY <1>3, <1>4, <2>1
  <2> QED  BY <1>5, <1>7, <2>2 DEF AtHome, InRegister
<1>10. OldRegister' /\ PlacesClean' /\ Registered'
  BY <1>1, <1>2 DEF OldRegister, PlacesClean, Registered
<1> QED  BY <1>1, <1>6, <1>8, <1>9, <1>10, KeptAgain DEF KeptStages

\* A write of the register changes nothing else.
LEMMA OnlyRows ==
  ASSUME RestoreAssumption, RestoreSafe, stage \in Ending,
         NEW rows \in SUBSET Libraries, SetRows(rows)
  PROVE  /\ aside' = aside
         /\ \A l \in Libraries : InRegister(l)' <=> l \in rows
         /\ \A s \in Schemas : AtHome(s) => AtHome(s)'
         /\ \A s \in Schemas : schema'[s] = Absent <=> schema[s] = Absent
<1>1. schema[Global] \in Contents /\ Global \in Schemas
  BY DEF RestoreSafe, EndingOK, InStages, Schemas
<1>2. /\ schema' = [schema EXCEPT ![Global] = [schema[Global] EXCEPT !.rows = rows]]
      /\ aside' = aside
  BY <1>1 DEF SetRows, RestoreSafe, InStages
<1>3. /\ [schema[Global] EXCEPT !.rows = rows] \in Contents
      /\ [schema[Global] EXCEPT !.rows = rows].rows = rows
      /\ [schema[Global] EXCEPT !.rows = rows].state = schema[Global].state
      /\ [schema[Global] EXCEPT !.rows = rows].of = schema[Global].of
  BY <1>1 DEF Contents
<1>4. Absent \notin Contents
  BY RestoreAssumption DEF RestoreAssumption
<1>5. schema'[Global] = [schema[Global] EXCEPT !.rows = rows]
  BY <1>1, <1>2 DEF RestoreSafe, InStages
<1>6. \A s \in Schemas \ {Global} : schema'[s] = schema[s]
  BY <1>1, <1>2 DEF RestoreSafe, InStages
<1> QED  BY <1>1, <1>2, <1>3, <1>4, <1>5, <1>6 DEF InRegister, AtHome, Holds

LEMMA DeleteRowKept ==
  ASSUME RestoreAssumption, RestoreSafe, RestoreKept, DeleteRow
  PROVE  RestoreKept'
<1>1. ServerOnly /\ stage' = "drop" /\ stage = "drop" /\ restored' = restored
  BY Underway DEF DeleteRow, Done, ServerOnly
<1>2. /\ restored' = "pending" /\ half # Absent /\ half \in todo /\ half' = Absent
      /\ todo' = todo \ {half} /\ context' = context
  BY <1>1 DEF RestoreSafe, InStages, InProgress, DeleteRow, Done
<1>3. schema[Global].rows \subseteq Libraries
  BY <1>1, RestoreAssumption DEF RestoreSafe, EndingOK, InStages, Contents, Schemas, Ending
<1>4. SetRows(schema[Global].rows \ {half}) /\ schema[Global].rows \ {half} \in SUBSET Libraries
  BY <1>3 DEF DeleteRow
<1>5. /\ aside' = aside
      /\ \A l \in Libraries : InRegister(l)' <=> l \in schema[Global].rows \ {half}
      /\ \A s \in Schemas : AtHome(s) => AtHome(s)'
      /\ \A s \in Schemas : schema'[s] = Absent <=> schema[s] = Absent
  BY <1>1, <1>4, OnlyRows DEF Ending
<1>6. todo \subseteq Targets \cup Purged /\ Purged \subseteq Libraries /\ Others \subseteq Schemas
  BY <1>1 DEF RestoreSafe, EndingOK, ContextOK, Purged, Others, Schemas
<1>7. AsideClean'
  BY <1>1, <1>2, <1>5, ContextKept, RestoreAssumption
     DEF RestoreKept, KeptStages, AsideClean, Ended, RestoreAssumption
<1>8. PurgedGone'
  BY <1>1, <1>2, <1>5, <1>6, ContextKept, RestoreAssumption
     DEF RestoreKept, KeptStages, PurgedGone, Ended, InRegister, Schemas, RestoreAssumption
<1>9. Untouched'
  <2> SUFFICES ASSUME NEW l \in Others
               PROVE  AtHome(l)' /\ (l \in Libraries \ Sources => InRegister(l)')
    BY <1>1, <1>2, OthersKept, ContextKept DEF Untouched, Ended
  <2>1. l # half
    BY <1>2, <1>6 DEF Others
  <2>2. AtHome(l) /\ (l \in Libraries \ Sources => InRegister(l))
    BY <1>1 DEF RestoreKept, KeptStages, Untouched
  <2>3. l \in Schemas
    BY <1>6
  <2>4. AtHome(l)'
    BY <1>5, <2>2, <2>3
  <2>5. l \in Libraries \ Sources => InRegister(l)'
    BY <1>5, <2>1, <2>2 DEF InRegister
  <2> QED  BY <2>4, <2>5
<1>10. OldRegister' /\ PlacesClean' /\ Registered'
  BY <1>1, <1>2 DEF OldRegister, PlacesClean, Registered
<1> QED  BY <1>1, <1>7, <1>8, <1>9, <1>10, KeptAgain DEF KeptStages

LEMMA RegisterKept ==
  ASSUME RestoreAssumption, RestoreSafe, RestoreKept, Register
  PROVE  RestoreKept'
<1>1. ServerOnly /\ stage' = "rows" /\ stage = "rows" /\ restored' = restored
  BY Underway DEF Register, Done, Keep, ServerOnly
<1>2. restored' = "pending" /\ context' = context
  BY <1>1 DEF RestoreSafe, InProgress, ServerOnly
<1>3. /\ schema[Global].rows \subseteq Libraries
      /\ half # Absent => half \in Sources /\ context.map[half] \in Libraries
      /\ todo \subseteq Sources /\ Sources \subseteq Schemas
      /\ Purged \subseteq Libraries /\ Purged \cap Targets = {}
      /\ Others \subseteq Schemas
  BY <1>1, RestoreAssumption
     DEF RestoreSafe, EndingOK, InStages, Contents, Schemas, Ending, ContextOK, Purged, Others
<1>4. PICK o \in Sources, rows \in SUBSET Libraries :
        /\ SetRows(rows)
        /\ \/ todo' = todo /\ o \in todo /\ rows = schema[Global].rows \ {o}
           \/ /\ todo' = todo \ {o} /\ rows = schema[Global].rows \cup {context.map[o]}
              /\ context.map[o] \in Libraries
  BY <1>3 DEF Register, Done, Keep
<1>5. /\ aside' = aside
      /\ \A l \in Libraries : InRegister(l)' <=> l \in rows
      /\ \A s \in Schemas : AtHome(s) => AtHome(s)'
      /\ \A s \in Schemas : schema'[s] = Absent <=> schema[s] = Absent
  BY <1>1, <1>4, OnlyRows DEF Ending
<1>6. AsideClean'
  BY <1>1, <1>2, <1>5, ContextKept DEF RestoreKept, KeptStages, AsideClean, Ended
<1>7. context.map[o] \in Targets
  BY DEF Targets, Sources, Range
<1>8. PurgedGone'
  <2> SUFFICES ASSUME NEW l \in Purged
               PROVE  schema'[l] = Absent /\ ~InRegister(l)'
    BY <1>1, <1>2, ContextKept DEF PurgedGone, Ended
  <2>1. schema[l] = Absent /\ ~InRegister(l) /\ l \in Libraries /\ l # context.map[o]
    BY <1>1, <1>3, <1>7 DEF RestoreKept, KeptStages, PurgedGone, Ended
  <2> QED  BY <1>4, <1>5, <2>1 DEF InRegister, Schemas
<1>9. Untouched'
  <2> SUFFICES ASSUME NEW l \in Others
               PROVE  AtHome(l)' /\ (l \in Libraries \ Sources => InRegister(l)')
    BY <1>1, <1>2, OthersKept, ContextKept DEF Untouched, Ended
  <2>1. AtHome(l) /\ (l \in Libraries \ Sources => InRegister(l)) /\ l \in Schemas
    BY <1>1, <1>3 DEF RestoreKept, KeptStages, Untouched, Ended
  <2>2. l \in Libraries \ Sources => l \in rows
    BY <1>4, <2>1 DEF InRegister
  <2> QED  BY <1>5, <2>1, <2>2
<1>10. Registered'
  <2> SUFFICES ASSUME NEW s \in Sources \ todo', Lone(s)
               PROVE  InRegister(context.map[s])'
    BY <1>1, <1>2, ContextKept DEF Registered, Lone
  <2>1. s \notin todo => InRegister(context.map[s])
    BY <1>1 DEF RestoreKept, KeptStages, Registered
  <2>2. context.map[s] \in Libraries \ (Sources \ {s})
    BY DEF Lone
  <2>3. context.map[s] \in rows
    BY <1>4, <2>1, <2>2 DEF InRegister
  <2> QED  BY <1>2, <1>5, <2>2, <2>3
<1>11. OldRegister' /\ PlacesClean'
  BY <1>1 DEF OldRegister, PlacesClean
<1> QED  BY <1>1, <1>6, <1>8, <1>9, <1>10, <1>11, KeptAgain DEF KeptStages

LEMMA SweepKept ==
  ASSUME RestoreAssumption, RestoreSafe, RestoreKept, Sweep
  PROVE  RestoreKept'
<1>1. ServerOnly /\ stage' = "sweep" /\ stage = "sweep" /\ restored' = restored
  BY Underway DEF Sweep, Done, ServerOnly
<1>2. restored' = "pending" /\ context' = context
  BY <1>1 DEF RestoreSafe, InProgress, ServerOnly
<1>3. /\ schema[Global].rows \subseteq Libraries
      /\ Purged \subseteq Libraries /\ Others \subseteq Schemas /\ Sources \subseteq Schemas
  BY <1>1, RestoreAssumption
     DEF RestoreSafe, EndingOK, InStages, Contents, Schemas, Ending, ContextOK, Purged, Others
<1>4. PICK rows \in SUBSET Libraries :
        SetRows(rows) /\ rows = {l \in schema[Global].rows : schema[l] # Absent}
  BY <1>3 DEF Sweep
<1>5. /\ aside' = aside
      /\ \A l \in Libraries : InRegister(l)' <=> l \in rows
      /\ \A s \in Schemas : AtHome(s) => AtHome(s)'
      /\ \A s \in Schemas : schema'[s] = Absent <=> schema[s] = Absent
  BY <1>1, <1>4, OnlyRows DEF Ending
<1>6. AsideClean'
  BY <1>1, <1>2, <1>5, ContextKept DEF RestoreKept, KeptStages, AsideClean, Ended
<1>7. PurgedGone'
  <2> SUFFICES ASSUME NEW l \in Purged
               PROVE  schema'[l] = Absent /\ ~InRegister(l)'
    BY <1>1, <1>2, ContextKept DEF PurgedGone, Ended
  <2>1. schema[l] = Absent /\ ~InRegister(l) /\ l \in Libraries
    BY <1>1, <1>3 DEF RestoreKept, KeptStages, PurgedGone, Ended
  <2> QED  BY <1>4, <1>5, <2>1 DEF InRegister, Schemas
<1>8. Untouched'
  <2> SUFFICES ASSUME NEW l \in Others
               PROVE  AtHome(l)' /\ (l \in Libraries \ Sources => InRegister(l)')
    BY <1>1, <1>2, OthersKept, ContextKept DEF Untouched, Ended
  <2>1. AtHome(l) /\ (l \in Libraries \ Sources => InRegister(l)) /\ l \in Schemas
    BY <1>1, <1>3 DEF RestoreKept, KeptStages, Untouched, Ended
  <2>2. l \in Libraries \ Sources => l \in rows
    BY <1>4, <2>1 DEF InRegister, AtHome, Holds
  <2> QED  BY <1>5, <2>1, <2>2
<1>9. Registered'
  <2> SUFFICES ASSUME NEW s \in Sources, Lone(s)
               PROVE  InRegister(context.map[s])'
    BY <1>1, <1>2, ContextKept DEF Registered, Lone
  <2>1. InRegister(context.map[s]) /\ context.map[s] \in Libraries
    BY <1>1 DEF RestoreKept, KeptStages, Registered, Lone
  <2>2. schema[context.map[s]] # Absent
    BY <1>1 DEF RestoreSafe, EndingOK, Ending, AllRestored, Holds
  <2> QED  BY <1>2, <1>4, <1>5, <2>1, <2>2 DEF InRegister
<1>10. OldRegister' /\ PlacesClean'
  BY <1>1 DEF OldRegister, PlacesClean
<1> QED  BY <1>1, <1>6, <1>7, <1>8, <1>9, <1>10, KeptAgain DEF KeptStages

LEMMA UpdateKept ==
  ASSUME RestoreAssumption, RestoreSafe, RestoreKept, Update
  PROVE  RestoreKept'
<1>1. ServerOnly /\ stage' = "update" /\ stage = "update" /\ restored' = restored
  BY Underway DEF Update, Done, ServerOnly
<1>2. restored' = "pending" /\ UNCHANGED <<context, schema, aside>>
  BY <1>1 DEF RestoreSafe, InProgress, Update, ServerOnly
<1>3. AsideClean' /\ PurgedGone'
  BY <1>1, <1>2, ContextKept
     DEF RestoreKept, KeptStages, AsideClean, PurgedGone, Ended, InRegister
<1>4. Untouched' /\ Registered'
  BY <1>1, <1>2, ContextKept, OthersKept
     DEF RestoreKept, KeptStages, Untouched, Registered, Ended, InRegister, AtHome, Lone
<1>5. OldRegister' /\ PlacesClean'
  BY <1>1 DEF OldRegister, PlacesClean
<1> QED  BY <1>1, <1>3, <1>4, <1>5, KeptAgain DEF KeptStages

LEMMA UndoDropKept ==
  ASSUME RestoreAssumption, RestoreSafe, RestoreKept, UndoDrop
  PROVE  RestoreKept'
<1>1. ServerOnly /\ stage' = "undo" /\ stage = "undo" /\ restored' = restored
  BY Underway DEF UndoDrop, Done, ServerOnly
<1>2. restored' = "pending" /\ context' = context
  BY <1>1 DEF RestoreSafe, InProgress, ServerOnly
<1>3. PICK s \in todo : /\ \/ schema' = [schema EXCEPT ![s] = Absent] /\ suppressed' = suppressed
                           \/ schema' = schema /\ suppressed' = TRUE
                        /\ aside' = aside /\ todo' = todo \ {s}
  BY DEF UndoDrop, Done
<1>4. schema \in [Schemas -> Contents \cup {Absent}] /\ Global \in Schemas
  BY DEF RestoreSafe, InStages, Schemas
<1>5. AtHome(Global)' => AtHome(Global) /\ schema'[Global] = schema[Global]
  BY <1>3, <1>4 DEF AtHome, Holds
<1>6. OldRegister'
  BY <1>1, <1>2, <1>3, <1>5 DEF RestoreKept, KeptStages, OldRegister, Away
<1>7. AsideClean'
  BY <1>1, <1>2, <1>3, ContextKept DEF RestoreKept, KeptStages, AsideClean, Ended
<1>8. PlacesClean'
  BY <1>1, <1>2, <1>3, <1>4, ContextKept DEF RestoreKept, KeptStages, PlacesClean
<1>9. PurgedGone' /\ Untouched' /\ Registered'
  BY <1>1, <1>2 DEF PurgedGone, Untouched, Registered, Ended
<1> QED  BY <1>1, <1>6, <1>7, <1>8, <1>9, KeptAgain DEF KeptStages

\* A restore ends: with what was chosen, with nothing of it, or in between with
\* its data complete.
LEMMA KeptAtEnd ==
  ASSUME RestoreSafe, RestoreKept, ServerOnly, UNCHANGED <<schema, aside>>,
         NEW answer \in {"success", "failure"}, Idle(answer),
         answer = "success" => stage = "update", FailedRestoreUndone'
  PROVE  RestoreKept'
<1>1. /\ stage' = "idle" /\ restored' = answer /\ restored = "pending" /\ context' = context
      /\ UNCHANGED setupVars /\ setupPage = "waiting" /\ request = Absent /\ stage # "idle"
  BY DEF Idle, RestoreSafe, ServerOnly, InProgress
<1>2. SentOK' /\ FreshRegister'
  BY <1>1 DEF SentOK, FreshRegister, NotBegun, setupVars
<1>3. MapChosen'
  BY <1>1, ContextKept DEF RestoreKept, MapChosen, setupVars
<1>4. OldRegister' /\ PlacesClean'
  BY <1>1 DEF OldRegister, PlacesClean
<1>5. AsideClean' /\ PurgedGone' /\ Untouched' /\ Registered'
  <2>1. CASE answer = "failure"
    BY <1>1, <2>1 DEF AsideClean, PurgedGone, Untouched, Registered, Ended
  <2>2. CASE answer = "success"
    <3>1. AsideClean' /\ PurgedGone'
      BY <1>1, <2>2, ContextKept
         DEF RestoreKept, KeptStages, AsideClean, PurgedGone, Ended, InRegister
    <3>2. Untouched'
      BY <1>1, <2>2, ContextKept, OthersKept
         DEF RestoreKept, KeptStages, Untouched, Ended, InRegister, AtHome
    <3>3. Registered'
      BY <1>1, <2>2, ContextKept
         DEF RestoreKept, KeptStages, Registered, InRegister, Lone, RestoreSafe, EndingOK, Ending,
             AllRestored
    <3> QED  BY <3>1, <3>2, <3>3
  <2> QED  BY <2>1, <2>2
<1> QED  BY <1>2, <1>3, <1>4, <1>5 DEF RestoreKept, KeptStages

\* Before a restore ends with its data complete each source is somewhere.
LEMMA NotUndone ==
  ASSUME RestoreAssumption, RestoreSafe, stage \in Ending \cup {"post"},
         UNCHANGED <<schema, context>>
  PROVE  FailedRestoreUndone'
<1> SUFFICES ASSUME NEW s \in Sources
             PROVE  \E t \in Schemas : Holds(schema[t], "new", s)
  BY ContextKept DEF FailedRestoreUndone
<1>1. Holds(schema[s], "new", s) \/ Holds(schema[context.map[s]], "new", s)
  BY DEF RestoreSafe, PostOK, EndingOK, AllRestored
<1>2. s \in Schemas /\ context.map[s] \in Schemas
  BY RestoreAssumption DEF RestoreAssumption, RestoreSafe, ContextOK
<1> QED  BY <1>1, <1>2

\* When the names are back, all is as it was.
LEMMA UndoneAtEnd ==
  ASSUME RestoreAssumption, RestoreSafe, RestoreKept, stage = "undoNames", todo = {},
         UNCHANGED <<schema, aside, context, suppressed>>
  PROVE  FailedRestoreUndone'
<1> SUFFICES ASSUME ~suppressed, NEW s \in Schemas
             PROVE  /\ IF s \in context.installed THEN Holds(schema[s], "old", s)
                       ELSE schema[s] = Absent
                    /\ aside[s] = Absent
                    /\ s \in context.installed \cap Libraries => InRegister(s)
  BY DEF FailedRestoreUndone, InRegister
<1>1. \A l \in context.installed : AtHome(l)
  BY DEF RestoreSafe, UndoNamesOK
<1>2. schema[s] # Absent => s \in context.installed
  BY DEF RestoreKept, KeptStages, PlacesClean
<1>3. aside[s] = Absent
  BY DEF RestoreKept, KeptStages, AsideClean
<1>4. Global \in context.installed
  BY DEF RestoreSafe, ContextOK
<1>5. schema[Global].rows = context.installed \cap Libraries
  BY <1>1, <1>4 DEF RestoreKept, KeptStages, OldRegister
<1> QED  BY <1>1, <1>2, <1>3, <1>5 DEF AtHome, InRegister

LEMMA EndStageKept ==
  ASSUME RestoreAssumption, RestoreSafe, RestoreKept, EndStage
  PROVE  RestoreKept'
<1>1. ServerOnly /\ restored = "pending"
  BY Underway DEF EndStage, ServerOnly
<1>2. todo = {} /\ UNCHANGED <<schema, aside, context, suppressed>>
  BY DEF EndStage
<1>3. CASE stage = "update"
  BY <1>1, <1>2, <1>3, KeptAtEnd, NotUndone DEF EndStage, Ending
<1>4. CASE stage = "undoNames"
  BY <1>1, <1>2, <1>4, KeptAtEnd, UndoneAtEnd DEF EndStage
<1>5. CASE stage \notin {"update", "undoNames"}
  <2>1. /\ stage' = NextStage[stage] /\ todo' = Entries[stage']
        /\ UNCHANGED <<half, locked, restored>>
    BY <1>5 DEF EndStage
  <2>2. stage \in {"pre", "data", "post", "back", "drop", "rows", "sweep", "undo"}
    BY <1>1, <1>5 DEF RestoreSafe, InStages, Stages, ServerOnly
  <2>3. /\ stage = "pre" => stage' = "data"
        /\ stage = "data" => stage' = "post"
        /\ stage = "post" => stage' = "back"
        /\ stage = "back" => stage' = "drop"
        /\ stage = "drop" => stage' = "rows"
        /\ stage = "rows" => stage' = "sweep"
        /\ stage = "sweep" => stage' = "update"
        /\ stage = "undo" => stage' = "undoNames"
    BY <2>1 DEF NextStage
  <2>4. half = Absent
    BY <1>2 DEF RestoreSafe, InStages
  <2>5. /\ stage' = "back" => todo' = (Sources \cap context.installed) \ Targets
        /\ stage' = "drop" => todo' = (Targets \cap context.installed) \cup Purged
        /\ stage' = "rows" => todo' = {s \in Sources : context.map[s] # Global}
        /\ stage' = "undoNames" => todo' = Renamed
        /\ Renamed = (Sources \cup Targets) \cap context.installed
        /\ Purged \cap Targets = {}
        /\ UNCHANGED <<Sources, Targets, Renamed, Purged, Others>>
    BY <1>2, <2>1, ContextKept, OthersKept DEF Entries, Renamed, Purged
  <2>6. OldRegister'
    BY <1>2, <2>2, <2>3 DEF RestoreKept, KeptStages, OldRegister, AtHome, Away
  <2>7. AsideClean'
    <3>1. ASSUME NEW s \in Schemas, aside[s] # Absent
          PROVE  /\ stage = "pre" => s \in Renamed
                 /\ stage \in {"data", "post", "undo"} => s \in Renamed
                 /\ stage = "back" => s \in Targets \cap context.installed
                 /\ stage \notin {"drop", "rows", "sweep"}
      BY <1>2, <3>1 DEF RestoreKept, KeptStages, AsideClean, Ended
    <3>2. half = Absent /\ Absent \notin Schemas
      BY <2>4, RestoreAssumption DEF RestoreAssumption
    <3> QED  BY <1>1, <1>2, <2>1, <2>2, <2>3, <2>5, <3>1, <3>2 DEF AsideClean, Ended
  <2>8. PlacesClean'
    <3>1. ASSUME NEW s \in Schemas, schema[s] # Absent
          PROVE  /\ stage = "pre" => s \in context.installed \ Renamed
                 /\ stage = "undo" /\ ~suppressed => s \in context.installed \ Renamed
      BY <1>2, <3>1 DEF RestoreKept, KeptStages, PlacesClean
    <3> QED  BY <1>2, <2>2, <2>3, <2>5, <3>1 DEF PlacesClean
  <2>9. PurgedGone'
    <3>1. stage = "drop" => \A l \in Purged : schema[l] = Absent /\ ~InRegister(l)
      BY <1>2 DEF RestoreKept, KeptStages, PurgedGone
    <3>2. Ended => \A l \in Purged : schema[l] = Absent /\ ~InRegister(l)
      BY DEF RestoreKept, KeptStages, PurgedGone
    <3>3. Ended' => stage = "drop" \/ Ended
      BY <1>1, <2>1, <2>2, <2>3 DEF Ended
    <3>4. stage' = "drop" => Purged \subseteq todo' /\ half' = Absent /\ Absent \notin Purged
      BY <2>1, <2>4, <2>5, RestoreAssumption
         DEF RestoreAssumption, Purged, RestoreSafe, ContextOK
    <3> QED  BY <1>2, <2>5, <3>1, <3>2, <3>3, <3>4 DEF PurgedGone, InRegister
  <2>10. Untouched'
    <3>1. stage = "post" => \A l \in context.installed : IF l \in Renamed THEN Away(l) ELSE AtHome(l)
      BY DEF RestoreSafe, AsideOK
    <3>2. stage' = "back" => \A l \in Others : IF l \in todo' THEN Away(l) ELSE AtHome(l)
      BY <2>2, <2>3, <2>5, <3>1 DEF Others
    <3>3. stage = "back" => \A l \in Others : AtHome(l) /\ (l \in Libraries \ Sources => InRegister(l))
      <4> SUFFICES ASSUME stage = "back", NEW l \in Others
                   PROVE  AtHome(l) /\ (l \in Libraries \ Sources => InRegister(l))
        OBVIOUS
      <4>1. \A o \in Others : AtHome(o)
        BY <1>2 DEF RestoreKept, KeptStages, Untouched
      <4>2. ASSUME l \in Libraries PROVE Global \in Others
        <5>1. ~context.purgeAll
          BY <4>2, RestoreAssumption DEF RestoreAssumption, Others, Purged
        <5>2. Global \notin Sources
          BY <5>1 DEF RestoreKept, MapChosen, Others
        <5>3. Global \notin Targets
          BY <5>2 DEF RestoreSafe, ContextOK, Targets, Range, Sources
        <5> QED  BY <5>1, <5>3 DEF Others, Purged, RestoreSafe, ContextOK
      <4>3. ASSUME l \in Libraries PROVE InRegister(l)
        <5>1. schema[Global].rows = context.installed \cap Libraries
          BY <4>1, <4>2, <4>3 DEF RestoreKept, KeptStages, OldRegister
        <5> QED  BY <4>3, <5>1 DEF InRegister, Others
      <4> QED  BY <4>1, <4>3
    <3>4. stage = "drop" \/ Ended =>
            \A l \in Others : AtHome(l) /\ (l \in Libraries \ Sources => InRegister(l))
      BY DEF RestoreKept, KeptStages, Untouched
    <3>5. stage' = "drop" \/ Ended' => stage \in {"back", "drop"} \/ Ended
      BY <1>1, <2>1, <2>2, <2>3 DEF Ended
    <3> QED  BY <1>2, <2>5, <3>2, <3>3, <3>4, <3>5 DEF Untouched, AtHome, Away, InRegister
  <2>11. Registered'
    <3>1. stage = "rows" => \A s \in Sources : Lone(s) => InRegister(context.map[s])
      BY <1>2 DEF RestoreKept, KeptStages, Registered
    <3>2. stage = "sweep" => \A s \in Sources : Lone(s) => InRegister(context.map[s])
      BY DEF RestoreKept, KeptStages, Registered
    <3>3. stage' = "rows" => \A s \in Sources \ todo' : ~Lone(s)
      BY <2>5, RestoreAssumption DEF RestoreAssumption, Lone
    <3> QED  BY <1>1, <1>2, <2>1, <2>2, <2>3, <2>5, <3>1, <3>2, <3>3
             DEF Registered, InRegister, Lone
  <2> QED  BY <1>1, <2>1, <2>6, <2>7, <2>8, <2>9, <2>10, <2>11, KeptAgain DEF KeptStages
<1> QED  BY <1>3, <1>4, <1>5

LEMMA StatementFailsKept ==
  ASSUME RestoreAssumption, "pre" \notin MayFail, RestoreSafe, RestoreKept, StatementFails
  PROVE  RestoreKept'
<1>1. ServerOnly /\ restored = "pending"
  BY Underway DEF StatementFails, ServerOnly, RestoreSafe, InStages
<1>2. UNCHANGED <<schema, aside, context>> /\ stage # "undo" /\ todo # {}
  BY DEF StatementFails
<1>3. stage # "pre"
  BY <1>2 DEF StatementFails, InTheWay, RestoreSafe, PreOK, AtHome, Holds, Renamed
<1>4. CASE stage = "data"
  <2>1. stage' = "undo" /\ todo' = Sources /\ UNCHANGED restored
    BY <1>4 DEF StatementFails
  <2>2. OldRegister' /\ AsideClean' /\ PlacesClean'
    BY <1>1, <1>2, <1>4, <2>1, ContextKept
       DEF RestoreKept, KeptStages, OldRegister, AsideClean, PlacesClean, Ended, AtHome, Away
  <2>3. PurgedGone' /\ Untouched' /\ Registered'
    BY <1>1, <2>1 DEF PurgedGone, Untouched, Registered, Ended
  <2> QED  BY <1>1, <2>1, <2>2, <2>3, KeptAgain DEF KeptStages
<1>5. CASE stage # "data"
  <2>1. Idle("failure") /\ suppressed' = (suppressed \/ stage = "undoNames")
    BY <1>3, <1>5 DEF StatementFails
  <2>2. FailedRestoreUndone'
    <3>1. CASE stage = "undoNames"
      BY <2>1, <3>1 DEF FailedRestoreUndone
    <3>2. CASE stage # "undoNames"
      BY <1>1, <1>2, <1>3, <1>5, <3>2, NotUndone
         DEF RestoreSafe, InStages, Stages, Ending, ServerOnly
    <3> QED  BY <3>1, <3>2
  <2> QED  BY <1>1, <1>2, <2>1, <2>2, KeptAtEnd
<1> QED  BY <1>4, <1>5

LEMMA BeginKept ==
  ASSUME RestoreAssumption, RestoreSafe, RestoreKept, Begin
  PROVE  RestoreKept'
<1>1. /\ request # Absent /\ stage = "idle" /\ request' = Absent /\ NotBegun
      /\ UNCHANGED <<schema, aside, suppressed, setupPage, selection, scope, backupType>>
      /\ setupPage = "waiting" /\ restored = "pending"
      /\ \A s \in Schemas : aside[s] = Absent
  BY DEF Begin, RestoreSafe, SelectionsOK, NotBegun, Fresh
<1>2. AsideClean'
  BY <1>1 DEF AsideClean
<1>3. FreshRegister
  BY DEF RestoreKept
<1>4. ASSUME NEW answer \in {"ask", "failure"}, Idle(answer), UNCHANGED context
      PROVE  RestoreKept'
  <2>1. restored' = answer /\ stage' = "idle"
    BY <1>4 DEF Idle
  <2>2. SentOK' /\ MapChosen'
    BY <1>1, <2>1 DEF SentOK, MapChosen
  <2>3. FreshRegister'
    BY <1>1, <1>3, <1>4 DEF FreshRegister
  <2>4. FailedRestoreUndone'
    <3>1. Sources' = {}
      BY <1>1, <1>3, <1>4 DEF FreshRegister, Sources, NoMap
    <3> QED  BY <3>1 DEF FailedRestoreUndone
  <2>5. OldRegister' /\ PlacesClean' /\ PurgedGone' /\ Untouched' /\ Registered'
    BY <2>1 DEF OldRegister, PlacesClean, PurgedGone, Untouched, Registered, Ended
  <2> QED  BY <1>2, <2>2, <2>3, <2>4, <2>5 DEF RestoreKept, KeptStages
<1>5. ASSUME NEW map \in MapsFor(request.params), ~NotAllowed(map),
             context' = [map |-> map, installed |-> {s \in Schemas : schema[s] # Absent},
                         purgeAll |-> scope = "multi" /\ request.params.type = "complete"],
             stage' = "pre", todo' = Entries'.pre, UNCHANGED restored
      PROVE  RestoreKept'
  <2>1. SentOK' /\ FreshRegister' /\ FailedRestoreUndone'
    BY <1>1, <1>5 DEF SentOK, FreshRegister, NotBegun, FailedRestoreUndone
  <2>2. /\ Sources' = DOMAIN map /\ Targets' = {map[s] : s \in DOMAIN map}
        /\ (context.map)' = map
        /\ (context.installed)' = {s \in Schemas : schema[s] # Absent}
        /\ (context.purgeAll)' = (scope = "multi" /\ request.params.type = "complete")
    BY <1>5 DEF Sources, Targets, Range
  <2>3. MapChosen'
    <3>1. CASE scope = "multi"
      <4>1. request.params = selection
        <5> SUFFICES ASSUME request.params = [type |-> "partial", map |-> NoMap] PROVE FALSE
          BY <1>1 DEF RestoreKept, SentOK
        <5>1. map = NoMap
          BY <1>5, <3>1 DEF MapsFor
        <5> QED  BY <1>5, <5>1 DEF NotAllowed, NoMap
      <4>2. selection \in Selections
        BY <1>1 DEF RestoreSafe, SelectionsOK
      <4>3. CASE selection.type = "complete"
        <5>1. map = [s \in Backup |-> s]
          BY <1>5, <3>1, <4>1, <4>3 DEF MapsFor
        <5> QED  BY <1>1, <2>2, <3>1, <4>1, <4>3, <5>1 DEF MapChosen
      <4>4. CASE selection.type # "complete"
        <5>1. map = selection.map
          BY <1>5, <3>1, <4>1, <4>4 DEF MapsFor
        <5>2. Global \notin DOMAIN map
          BY <4>2, <4>4, <5>1 DEF Selections, PartialMaps
        <5> QED  BY <1>1, <2>2, <3>1, <4>1, <4>4, <5>1, <5>2 DEF MapChosen
      <4> QED  BY <4>3, <4>4
    <3>2. CASE scope # "multi"
      <4>1. scope \in {"single", "library"}
        BY <3>2 DEF RestoreSafe, SelectionsOK
      <4>2. PICK l \in Backup \ {Global} :
              map = [s \in {l} \cup (IF scope = "single" THEN Backup \cap {Global} ELSE {})
                       |-> IF s = Global THEN Global ELSE Current]
        BY <1>5, <4>1 DEF MapsFor
      <4>3. Global \in DOMAIN map => (context.installed)' \subseteq Targets'
        <5> SUFFICES ASSUME Global \in DOMAIN map PROVE (context.installed)' \subseteq Targets'
          OBVIOUS
        <5>1. scope = "single" /\ map[Global] = Global /\ map[l] = Current /\ l \in DOMAIN map
          BY <4>2
        <5>2. \A s \in Libraries \ {Current} : schema[s] = Absent
          BY <1>1, <1>3, <5>1 DEF FreshRegister
        <5> QED  BY <2>2, <5>1, <5>2 DEF Schemas
      <4> QED  BY <1>1, <2>2, <3>2, <4>3 DEF MapChosen
    <3> QED  BY <3>1, <3>2
  <2>4. OldRegister'
    <3>1. schema[Global].rows = (context.installed)' \cap Libraries
      BY <1>1, <1>3, <2>2 DEF FreshRegister, Schemas
    <3>2. ~Away(Global)'
      BY <1>1 DEF Away, Holds, Schemas
    <3> QED  BY <1>1, <3>1, <3>2 DEF OldRegister
  <2>5. PlacesClean'
    <3>1. todo' = Renamed'
      BY <1>5 DEF Entries, Renamed
    <3> QED  BY <1>1, <1>5, <2>2, <3>1 DEF PlacesClean
  <2>6. PurgedGone' /\ Untouched' /\ Registered'
    BY <1>1, <1>5 DEF PurgedGone, Untouched, Registered, Ended
  <2> QED  BY <1>2, <2>1, <2>3, <2>4, <2>5, <2>6 DEF RestoreKept, KeptStages
<1> QED  BY <1>4, <1>5 DEF Begin

\* The page's own steps leave what a restore has left.
LEMMA PageStepKeeps ==
  ASSUME RestoreKept, UNCHANGED <<schema, aside, context, stage, todo, half, suppressed>>,
         restored' \in {restored, "pending"}
  PROVE  KeptStages' /\ FailedRestoreUndone'
<1>1. OldRegister' /\ PlacesClean'
  BY ContextKept DEF RestoreKept, KeptStages, OldRegister, PlacesClean, AtHome, Away
<1>2. AsideClean' /\ PurgedGone'
  BY ContextKept DEF RestoreKept, KeptStages, AsideClean, PurgedGone, Ended, InRegister
<1>3. Untouched'
  BY ContextKept, OthersKept
     DEF RestoreKept, KeptStages, Untouched, Ended, AtHome, Away, InRegister
<1>4. Registered'
  BY ContextKept DEF RestoreKept, KeptStages, Registered, Lone, InRegister, AllRestored
<1>5. FailedRestoreUndone'
  BY ContextKept DEF RestoreKept, FailedRestoreUndone, InRegister
<1> QED  BY <1>1, <1>2, <1>3, <1>4, <1>5 DEF KeptStages

LEMMA PageKeeps ==
  ASSUME RestoreAssumption, RestoreSafe, RestoreKept,
         \/ ChooseRestore \/ RestoreMedia \/ SkipMedia \/ CancelRestore \/ ReceiveRestore
  PROVE  RestoreKept'
<1>1. CASE ChooseRestore
  <2>1. stage = "idle"
    BY <1>1 DEF ChooseRestore, RestoreSafe, Fresh, NotBegun
  <2>2. SentOK' /\ MapChosen'
    BY <1>1, <2>1 DEF ChooseRestore, SentOK, MapChosen
  <2>3. FreshRegister'
    BY <1>1 DEF ChooseRestore, RestoreKept, FreshRegister, NotBegun
  <2> QED  BY <1>1, <2>2, <2>3, PageStepKeeps DEF ChooseRestore, RestoreKept
<1>2. ASSUME NEW params \in {selection, [type |-> "partial", map |-> NoMap]}, NEW media,
             SendAgain(params, media)
      PROVE  RestoreKept'
  <2>1. stage = "idle" /\ NotBegun
    BY <1>2 DEF SendAgain, RestoreSafe, SelectionsOK, Fresh, NotBegun
  <2>2. SentOK' /\ MapChosen'
    BY <1>2, <2>1 DEF SendAgain, SentOK, MapChosen
  <2>3. FreshRegister'
    BY <1>2, <2>1 DEF SendAgain, RestoreKept, FreshRegister
  <2> QED  BY <1>2, <2>2, <2>3, PageStepKeeps DEF SendAgain, RestoreKept
<1>3. CASE RestoreMedia
  BY <1>2, <1>3 DEF RestoreMedia
<1>4. CASE SkipMedia
  BY <1>2, <1>4 DEF SkipMedia
<1>5. CASE CancelRestore
  <2>1. /\ UNCHANGED <<selection, request, scope, backupType, restoreServerVars>>
        /\ setupPage = "media" /\ setupPage' = "choose" /\ restored = "ask"
    BY <1>5 DEF CancelRestore, RestoreSafe, SelectionsOK
  <2>2. SentOK' /\ MapChosen' /\ FreshRegister'
    BY <2>1 DEF RestoreKept, SentOK, MapChosen, FreshRegister, NotBegun, restoreServerVars,
         RestoreSafe, Fresh
  <2> QED  BY <2>1, <2>2, PageStepKeeps DEF restoreServerVars, RestoreKept
<1>6. CASE ReceiveRestore
  <2>1. /\ UNCHANGED <<selection, request, scope, backupType, restoreServerVars>>
        /\ setupPage = "waiting" /\ request = Absent /\ stage = "idle"
        /\ \/ setupPage' = "success" /\ restored = "success"
           \/ setupPage' = "media" /\ restored = "ask"
           \/ setupPage' = "error"
    BY <1>6 DEF ReceiveRestore, RestoreSafe, InStages, InProgress
  <2>2. SentOK'
    BY <2>1 DEF RestoreKept, SentOK, restoreServerVars
  <2>3. MapChosen'
    BY <2>1, ContextKept DEF RestoreKept, MapChosen, restoreServerVars
  <2>4. FreshRegister'
    BY <2>1 DEF RestoreKept, FreshRegister, NotBegun, restoreServerVars
  <2> QED  BY <2>1, <2>2, <2>3, <2>4, PageStepKeeps DEF restoreServerVars, RestoreKept
<1> QED  BY <1>1, <1>3, <1>4, <1>5, <1>6

LEMMA RestoreStartsKept ==
  ASSUME RestoreAssumption
  PROVE  RestoreInit => RestoreKept
<1> SUFFICES ASSUME RestoreInit PROVE RestoreKept
  OBVIOUS
<1>1. PICK installed \in SUBSET Libraries :
        /\ scope = "single" => installed = {Current}
        /\ schema = [s \in Schemas |->
             IF s \notin installed \cup {Global} THEN Absent
             ELSE [state |-> "old", of |-> s, rows |-> IF s = Global THEN installed ELSE {}]]
  BY DEF RestoreInit
<1>2. /\ context = [map |-> NoMap, installed |-> {}, purgeAll |-> FALSE]
      /\ stage = "idle" /\ restored = "pending" /\ setupPage = "choose" /\ request = Absent
      /\ aside = [s \in Schemas |-> Absent]
  BY DEF RestoreInit
<1>3. SentOK /\ MapChosen /\ KeptStages /\ FailedRestoreUndone
  BY <1>2 DEF SentOK, MapChosen, KeptStages, OldRegister, AsideClean, PlacesClean, PurgedGone,
       Untouched, Registered, Ended, FailedRestoreUndone
<1>4. FreshRegister
  <2>1. schema[Global].rows = installed
    BY <1>1 DEF Schemas
  <2>2. \A l \in Libraries : schema[l] # Absent <=> l \in installed
    <3>1. \A l \in Libraries : l # Global /\ l \in Schemas
      BY RestoreAssumption DEF RestoreAssumption, Schemas
    <3>2. \A l \in installed : schema[l] \in Contents
      BY <1>1, <3>1 DEF Contents
    <3>3. \A l \in Libraries \ installed : schema[l] = Absent
      BY <1>1, <3>1
    <3> QED  BY <3>2, <3>3, RestoreAssumption DEF RestoreAssumption
  <2> QED  BY <1>1, <1>2, <2>1, <2>2 DEF FreshRegister
<1> QED  BY <1>3, <1>4 DEF RestoreKept

\* The inductive invariant of what a restore leaves: where everything is that
\* was there before, under which names, and what the register says, in every
\* loop and after the last.
THEOREM RestoreKeepsTrack ==
  ASSUME "pre" \notin MayFail
  PROVE  RestoreSpec => []RestoreKept
<1>1. RestoreInit => RestoreKept
  BY RestoreAssumption, RestoreStartsKept
<1>2. RestoreSafe /\ RestoreKept /\ [RestoreNext]_restoreVars => RestoreKept'
  <2> SUFFICES ASSUME RestoreSafe, RestoreKept, [RestoreNext]_restoreVars PROVE RestoreKept'
    OBVIOUS
  <2>1. CASE RestoreStep
    BY <2>1, RestoreAssumption, BeginKept, SetAsideKept, PutBackKept, GiveNameKept,
       CreateSchemaKept, FillSchemaKept, DropReplacedKept, DeleteRowKept, RegisterKept,
       SweepKept, UpdateKept, UndoDropKept, EndStageKept, StatementFailsKept DEF RestoreStep
  <2>2. CASE ChooseRestore \/ RestoreMedia \/ SkipMedia \/ CancelRestore \/ ReceiveRestore
    BY <2>2, RestoreAssumption, PageKeeps
  <2>3. CASE UNCHANGED restoreVars
    <3>1. SentOK' /\ MapChosen' /\ FreshRegister'
      BY <2>3 DEF restoreVars, restoreServerVars, setupVars, RestoreKept, SentOK, MapChosen,
           FreshRegister, NotBegun, Sources, Targets
    <3> QED  BY <2>3, <3>1, PageStepKeeps
             DEF restoreVars, restoreServerVars, setupVars, RestoreKept
  <2> QED  BY <2>1, <2>2, <2>3 DEF RestoreNext
<1> QED  BY <1>1, <1>2, RestoreIsSafe, PTL DEF RestoreSpec

\* A restore that fails before its data is complete leaves everything as it was
\* (RestoreBO.revertTemporarySchemaNames), when the revert does not fail too.
THEOREM FailureIsUndone ==
  ASSUME "pre" \notin MayFail
  PROVE  RestoreSpec => []FailedRestoreUndone
<1>1. RestoreKept => FailedRestoreUndone
  BY DEF RestoreKept
<1> QED  BY <1>1, RestoreKeepsTrack, PTL

\* When the page says that the restore succeeded, what was selected is there
\* and registered, what was not is as it was, and nothing temporary is left.
THEOREM SuccessIsAsChosen ==
  ASSUME "pre" \notin MayFail
  PROVE  RestoreSpec => []RestoredAsChosen
<1>1. RestoreSafe /\ RestoreKept => RestoredAsChosen
  <2> SUFFICES ASSUME RestoreSafe, RestoreKept, setupPage = "success"
               PROVE  RestoredAsChosen
    BY DEF RestoredAsChosen
  <2>1. restored = "success"
    BY DEF RestoreKept, SentOK
  <2>2. scope = "multi" => /\ context.purgeAll = (selection.type = "complete")
                           /\ selection.type = "partial" => context.map = selection.map
    BY <2>1 DEF RestoreKept, MapChosen
  <2>3. AllRestored /\ \A s \in Sources : Lone(s) => InRegister(context.map[s])
    BY <2>1 DEF RestoreKept, KeptStages, Registered
  <2>4. ASSUME NEW l \in context.installed \ Targets
        PROVE  IF context.purgeAll /\ l # Global THEN schema[l] = Absent /\ ~InRegister(l)
               ELSE Holds(schema[l], "old", l) /\ (l \in Libraries \ Sources => InRegister(l))
    <3>1. CASE context.purgeAll /\ l # Global
      <4>1. l \in Purged
        BY <2>4, <3>1 DEF Purged
      <4> QED  BY <2>1, <3>1, <4>1 DEF RestoreKept, KeptStages, PurgedGone, Ended
    <3>2. CASE ~(context.purgeAll /\ l # Global)
      <4>1. l \in Others
        BY <2>4, <3>2 DEF Others, Purged
      <4> QED  BY <2>1, <3>2, <4>1 DEF RestoreKept, KeptStages, Untouched, Ended, AtHome
    <3> QED  BY <3>1, <3>2
  <2>5. \A s \in Schemas : aside[s] = Absent
    BY <2>1 DEF RestoreKept, KeptStages, AsideClean, Ended
  <2> QED  BY <2>2, <2>3, <2>4, <2>5 DEF RestoredAsChosen, Lone
<1> QED  BY <1>1, RestoreIsSafe, RestoreKeepsTrack, PTL
=============================================================================
