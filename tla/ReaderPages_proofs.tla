--------------------------- MODULE ReaderPages_proofs ---------------------------
(***************************************************************************)
(* Proofs about the pages of a reader.  UserForm: for every directory of   *)
(* zip codes, set of address fields and number of photos, whatever is      *)
(* typed, converted, looked up, saved and cancelled meanwhile.  UsersPage: *)
(* for every set of readers, whatever is searched, blocked, deleted, saved *)
(* and changed elsewhere meanwhile, and whichever requests are overtaken,  *)
(* lost or answered late.                                                  *)
(***************************************************************************)
EXTENDS UserForm, UsersPage, TLAPS

-----------------------------------------------------------------------------
(* The form.                                                               *)

\* The zip code of a lookup, and of an answer that waits for a confirmation,
\* is still the one the form shows: its field is disabled, then masked.
ZipHeld ==
  /\ open /\ lookup # NoCall => values.zip = lookup
  /\ open /\ overwrite # NoCall => values.zip = overwrite

\* Without overlap, what is being converted is the photo chosen last.
PhotoInv ==
  open /\ ~overlapped =>
    /\ converting = {} \/ converting = {choice}
    /\ converting = {} => values.photo = choice

\* The photo that would be saved is none or one that was chosen.
PhotoCounted == chosen \in 0 .. MaxPhotos /\ values.photo \in 0 .. chosen

FormSafe == FormTypeOK /\ PhotoCounted /\ ZipHeld /\ PhotoInv

-----------------------------------------------------------------------------
\* What a lookup writes keeps the form's fields well formed.
LEMMA LookupTyped ==
  ASSUME values \in Values, NEW zip \in Zips, ApplyLookup(zip)
  PROVE  /\ values' \in Values /\ values'.zip = values.zip /\ values'.photo = values.photo
         /\ \A key \in AddressKeys :
              values'.address[key] = IF key \in Directory[zip] THEN zip ELSE values.address[key]
BY DEF Values, FieldValues, ApplyLookup

LEMMA BlankTyped ==
  /\ BlankForm \in Values /\ BlankForm.photo = 0
  /\ \A v \in UserToFormValues : v \in Values /\ v.photo = 0
<1>1. 0 \in 0 .. MaxPhotos
  BY UserFormAssumption
<1>2. BlankForm \in Values /\ BlankForm.photo = 0
  BY <1>1 DEF BlankForm, Values, FieldValues
<1>3. ASSUME NEW v \in UserToFormValues PROVE v \in Values /\ v.photo = 0
  <2>1. v.address \in [AddressKeys -> FieldValues]
    BY DEF UserToFormValues, FieldValues
  <2>2. v = [zip |-> v.zip, address |-> v.address, photo |-> v.photo] /\ v.zip = "blank" /\ v.photo = 0
    BY DEF UserToFormValues
  <2> QED BY <1>1, <2>1, <2>2 DEF Values
<1> QED BY <1>2, <1>3

LEMMA TypedZip ==
  ASSUME values \in Values, NEW z \in {"blank"} \cup Zips
  PROVE  /\ [values EXCEPT !.zip = z] \in Values
         /\ [values EXCEPT !.zip = z].address = values.address
         /\ [values EXCEPT !.zip = z].photo = values.photo
BY DEF Values

LEMMA TypedAddress ==
  ASSUME values \in Values, NEW key \in AddressKeys, NEW v \in {"blank", "typed"}
  PROVE  /\ [values EXCEPT !.address[key] = v] \in Values
         /\ [values EXCEPT !.address[key] = v].zip = values.zip
         /\ [values EXCEPT !.address[key] = v].photo = values.photo
         /\ \A k \in AddressKeys : [values EXCEPT !.address[key] = v].address[k] \in
              {v, values.address[k]}
BY DEF Values, FieldValues

LEMMA TypedPhoto ==
  ASSUME values \in Values, NEW p \in 0 .. MaxPhotos
  PROVE  /\ [values EXCEPT !.photo = p] \in Values
         /\ [values EXCEPT !.photo = p].zip = values.zip
         /\ [values EXCEPT !.photo = p].address = values.address
         /\ [values EXCEPT !.photo = p].photo = p
BY DEF Values

LEMMA FormSafeInit == FormInit => FormSafe
BY BlankTyped, UserFormAssumption
DEF FormInit, FormSafe, FormTypeOK, ZipHeld, PhotoInv, PhotoCounted

\* A form that is closed has forgotten everything.
LEMMA UnmountSafe == ASSUME FormSafe, Unmount PROVE FormSafe'
BY BlankTyped, UserFormAssumption
DEF Unmount, FormSafe, FormTypeOK, ZipHeld, PhotoInv, PhotoCounted

LEMMA FormStep == FormSafe /\ [FormNext]_formVars => FormSafe'
<1> SUFFICES ASSUME FormSafe, [FormNext]_formVars PROVE FormSafe'
  OBVIOUS
<1> USE DEF Editable
<1>1. values \in Values /\ initial \in Values
  BY DEF FormSafe, FormTypeOK
<1>2. CASE MountForm
  <2>1. values' \in Values /\ initial' \in Values /\ values'.photo = 0
    BY <1>2, BlankTyped DEF MountForm
  <2> QED BY <1>2, <2>1, UserFormAssumption DEF MountForm, FormSafe, FormTypeOK, ZipHeld, PhotoInv, PhotoCounted
<1>3. CASE TypeZip
  BY <1>1, <1>3, TypedZip DEF TypeZip, Edit, FormSafe, FormTypeOK, ZipHeld, PhotoInv, PhotoCounted
<1>4. CASE TypeAddress
  <2>1. PICK key \in AddressKeys, v \in {"blank", "typed"} :
          Edit([values EXCEPT !.address[key] = v])
    BY <1>4 DEF TypeAddress
  <2>2. values' = [values EXCEPT !.address[key] = v]
    BY <2>1 DEF Edit
  <2>3. values' \in Values /\ values'.zip = values.zip /\ values'.photo = values.photo
    BY <1>1, <2>2, TypedAddress
  <2> QED BY <2>1, <2>3 DEF Edit, FormSafe, FormTypeOK, ZipHeld, PhotoInv, PhotoCounted
<1>5. CASE HandleAddressLookup
  BY <1>5 DEF HandleAddressLookup, FormSafe, FormTypeOK, ZipHeld, PhotoInv, PhotoCounted
<1>6. CASE AnswerOverwrite
  <2>1. overwrite \in Zips BY <1>6 DEF AnswerOverwrite, FormSafe, FormTypeOK
  <2>2. values' \in Values /\ values'.zip = values.zip /\ values'.photo = values.photo
    BY <1>1, <1>6, <2>1, LookupTyped DEF AnswerOverwrite
  <2> QED BY <1>6, <2>2 DEF AnswerOverwrite, FormSafe, FormTypeOK, ZipHeld, PhotoInv, PhotoCounted
<1>7. CASE HandlePhotoSelect
  <2>1. /\ chosen \in Nat /\ chosen < MaxPhotos /\ MaxPhotos \in Nat
        /\ chosen' = chosen + 1 /\ choice' = chosen + 1
        /\ converting' = converting \cup {chosen + 1} /\ open
        /\ overlapped' = (overlapped \/ converting # {})
        /\ UNCHANGED <<open, values, initial, lookup, overwrite, save>>
    BY <1>7, UserFormAssumption DEF HandlePhotoSelect, FormSafe, PhotoCounted
  <2>2. chosen' \in 0 .. MaxPhotos /\ choice' \in 0 .. chosen' /\ values'.photo \in 0 .. chosen'
    BY <2>1 DEF FormSafe, PhotoCounted
  <2>3. converting' \subseteq 1 .. chosen'
    BY <2>1 DEF FormSafe, FormTypeOK
  <2>4. ~overlapped' => converting' = {choice'}
    BY <2>1
  <2> QED BY <2>1, <2>2, <2>3, <2>4 DEF FormSafe, FormTypeOK, ZipHeld, PhotoInv, PhotoCounted
<1>8. CASE HandlePhotoRemove
  <2>1. /\ choice' = 0 /\ values' = [values EXCEPT !.photo = 0]
        /\ overlapped' = (overlapped \/ converting # {}) /\ open
        /\ UNCHANGED <<open, initial, lookup, overwrite, converting, chosen, save>>
    BY <1>8 DEF HandlePhotoRemove
  <2>2. 0 \in 0 .. MaxPhotos BY UserFormAssumption
  <2>3. values' \in Values /\ values'.zip = values.zip /\ values'.photo = 0
    BY <1>1, <2>1, <2>2, TypedPhoto
  <2>4. 0 \in 0 .. chosen BY DEF FormSafe, PhotoCounted
  <2> QED BY <2>1, <2>3, <2>4 DEF FormSafe, FormTypeOK, ZipHeld, PhotoInv, PhotoCounted
<1>9. CASE HandleSave
  BY <1>9 DEF HandleSave, FormSafe, FormTypeOK, ZipHeld, PhotoInv, PhotoCounted
<1>10. CASE HandleCloseRequest
  BY <1>10, UnmountSafe DEF HandleCloseRequest, FormSafe, FormTypeOK, ZipHeld, PhotoInv, PhotoCounted
<1>11. CASE ConfirmCancel BY <1>11, UnmountSafe DEF ConfirmCancel
<1>12. CASE KeepEditing
  BY <1>12 DEF KeepEditing, FormSafe, FormTypeOK, ZipHeld, PhotoInv, PhotoCounted
<1>13. CASE ReceiveLookup
  <2>1. lookup \in Zips BY <1>13 DEF ReceiveLookup, FormSafe, FormTypeOK
  <2>2. values' \in Values /\ values'.zip = values.zip /\ values'.photo = values.photo
    BY <1>1, <1>13, <2>1, LookupTyped DEF ReceiveLookup
  <2> QED BY <1>13, <2>1, <2>2 DEF ReceiveLookup, FormSafe, FormTypeOK, ZipHeld, PhotoInv, PhotoCounted
<1>14. CASE PhotoConverted
  <2>1. PICK p \in converting :
          /\ converting' = converting \ {p}
          /\ \/ values' = [values EXCEPT !.photo = p] /\ UNCHANGED choice
             \/ UNCHANGED values /\ choice' = IF p = choice THEN values.photo ELSE choice
    BY <1>14 DEF PhotoConverted
  <2>2. p \in 1 .. chosen /\ p \in 0 .. MaxPhotos
    BY UserFormAssumption DEF FormSafe, FormTypeOK, PhotoCounted
  <2>3. /\ open /\ UNCHANGED <<open, initial, lookup, overwrite, chosen, overlapped, save>>
    BY <1>14 DEF PhotoConverted
  <2>4. CASE values' = [values EXCEPT !.photo = p] /\ UNCHANGED choice
    <3>1. values' \in Values /\ values'.zip = values.zip /\ values'.photo = p
      BY <1>1, <2>2, <2>4, TypedPhoto
    <3> QED BY <2>1, <2>3, <2>4, <3>1 DEF FormSafe, FormTypeOK, ZipHeld, PhotoInv, PhotoCounted
  <2>5. CASE UNCHANGED values /\ choice' = IF p = choice THEN values.photo ELSE choice
    <3>1. ~overlapped => choice' = values.photo /\ converting' = {}
      BY <2>1, <2>3, <2>5 DEF FormSafe, PhotoInv
    <3> QED BY <2>1, <2>3, <2>5, <3>1 DEF FormSafe, FormTypeOK, ZipHeld, PhotoInv, PhotoCounted
  <2> QED BY <2>1, <2>4, <2>5
<1>15. CASE ServeSave
  BY <1>15 DEF ServeSave, FormSafe, FormTypeOK, ZipHeld, PhotoInv, PhotoCounted
<1>16. CASE ReceiveSave
  BY <1>16, UnmountSafe DEF ReceiveSave, FormSafe, FormTypeOK, ZipHeld, PhotoInv, PhotoCounted
<1>17. CASE UNCHANGED formVars
  BY <1>17 DEF formVars, FormSafe, FormTypeOK, ZipHeld, PhotoInv, PhotoCounted
<1> QED BY <1>2, <1>3, <1>4, <1>5, <1>6, <1>7, <1>8, <1>9, <1>10, <1>11, <1>12, <1>13, <1>14,
           <1>15, <1>16, <1>17 DEF FormNext, Answers

-----------------------------------------------------------------------------
\* The flyout's fields, dialogs and background work stay consistent.
THEOREM FormIsSafe == FormSpec => []FormSafe
BY FormSafeInit, FormStep, PTL DEF FormSpec

\* A closed form listens to no lookup, no save and no conversion (onClose).
THEOREM FormTyped == FormSpec => []FormTypeOK
<1>1. FormSafe => FormTypeOK BY DEF FormSafe
<1> QED BY <1>1, FormIsSafe, PTL

\* The photo that is saved is the one chosen last, unless conversions overlap
\* (handlePhotoSelect, handlePhotoRemove).
THEOREM PhotoIsChosen == FormSpec => []PhotoChosen
<1>1. FormSafe => PhotoChosen BY DEF FormSafe, PhotoInv, PhotoChosen
<1> QED BY <1>1, FormIsSafe, PTL

-----------------------------------------------------------------------------
\* Only an answer that is received, or confirmed, writes what was looked up.
LEMMA LookupWrites ==
  ASSUME FormSafe, [FormNext]_formVars, open, open', NEW key \in AddressKeys,
         values'.address[key] \in Zips, values'.address[key] # values.address[key]
  PROVE  \E zip \in Zips :
           /\ ApplyLookup(zip) /\ key \in Directory[zip] /\ values.zip = zip
           /\ overwrite # NoCall \/ FieldsToOverwrite(zip) = {}
<1>1. values \in Values
  BY DEF FormSafe, FormTypeOK
<1>2. values'.address # values.address
  OBVIOUS
<1>3. ASSUME NEW zip \in Zips, ApplyLookup(zip) PROVE key \in Directory[zip]
  BY <1>1, <1>3, LookupTyped
<1>4. CASE ReceiveLookup
  <2>1. lookup \in Zips /\ values.zip = lookup
    BY <1>4 DEF ReceiveLookup, FormSafe, FormTypeOK, ZipHeld
  <2> QED BY <1>2, <1>3, <1>4, <2>1 DEF ReceiveLookup
<1>5. CASE AnswerOverwrite
  <2>1. overwrite \in Zips /\ values.zip = overwrite /\ overwrite # NoCall
    BY <1>5 DEF AnswerOverwrite, FormSafe, FormTypeOK, ZipHeld
  <2> QED BY <1>2, <1>3, <1>5, <2>1 DEF AnswerOverwrite
<1>6. CASE TypeAddress
  <2>1. PICK k \in AddressKeys, v \in {"blank", "typed"} :
          values' = [values EXCEPT !.address[k] = v]
    BY <1>6 DEF TypeAddress, Edit
  <2>2. values'.address[key] \in {v, values.address[key]}
    BY <1>1, <2>1, TypedAddress
  <2> QED BY <2>2, UserFormAssumption
<1>7. CASE TypeZip
  BY <1>1, <1>2, <1>7, TypedZip DEF TypeZip, Edit
<1>8. CASE HandlePhotoRemove \/ PhotoConverted
  <2>1. values' = values \/ \E p \in 0 .. MaxPhotos : values' = [values EXCEPT !.photo = p]
    BY <1>8, UserFormAssumption
    DEF HandlePhotoRemove, PhotoConverted, FormSafe, FormTypeOK, PhotoCounted
  <2> QED BY <1>1, <1>2, <2>1, TypedPhoto
<1>9. CASE UNCHANGED values
  BY <1>2, <1>9
<1>10. MountForm => ~open
  BY DEF MountForm
<1>11. HandleAddressLookup \/ HandlePhotoSelect \/ HandleSave \/ KeepEditing \/ ServeSave
       \/ UNCHANGED formVars => UNCHANGED values
  BY DEF HandleAddressLookup, HandlePhotoSelect, HandleSave, KeepEditing, ServeSave, formVars
<1>12. HandleCloseRequest \/ ConfirmCancel \/ ReceiveSave => ~open' \/ UNCHANGED values
  BY DEF HandleCloseRequest, ConfirmCancel, ReceiveSave, Unmount
<1> QED BY <1>4, <1>5, <1>6, <1>7, <1>8, <1>9, <1>10, <1>11, <1>12 DEF FormNext, Answers

\* What staff have in an address field is replaced only once they confirmed it,
\* although they typed while the lookup was under way (handleAddressLookup).
THEOREM OverwritesConfirmed == FormSpec => OverwriteConfirmed
<1>1. ASSUME FormSafe, [FormNext]_formVars, NEW key \in AddressKeys, open, open',
             values.address[key] # "blank", values'.address[key] \in Zips,
             values'.address[key] # values.address[key]
      PROVE  overwrite # NoCall
  BY <1>1, LookupWrites DEF FieldsToOverwrite
<1>2. FormSafe /\ [FormNext]_formVars =>
        [\A key \in AddressKeys :
          open /\ open' /\ values.address[key] # "blank" /\ values'.address[key] \in Zips
            => values'.address[key] = values.address[key] \/ overwrite # NoCall]_formVars
  BY <1>1
<1> QED BY <1>2, FormIsSafe, PTL DEF FormSpec, OverwriteConfirmed

\* A lookup writes the address of the zip code that is on the screen.
THEOREM LookupsOfZip == FormSpec => LookupOfZip
<1>1. ASSUME FormSafe, [FormNext]_formVars, NEW key \in AddressKeys, open, open',
             values'.address[key] \in Zips, values'.address[key] # values.address[key]
      PROVE  values'.address[key] = values.zip
  <2>1. PICK zip \in Zips : ApplyLookup(zip) /\ key \in Directory[zip] /\ values.zip = zip
    BY <1>1, LookupWrites
  <2>2. values \in Values BY <1>1 DEF FormSafe, FormTypeOK
  <2> QED BY <2>1, <2>2, LookupTyped
<1>2. FormSafe /\ [FormNext]_formVars =>
        [\A key \in AddressKeys :
          open /\ open' /\ values'.address[key] \in Zips
            => values'.address[key] = values.address[key] \/ values'.address[key] = values.zip]_formVars
  BY <1>1
<1> QED BY <1>2, FormIsSafe, PTL DEF FormSpec, LookupOfZip

-----------------------------------------------------------------------------
(* The readers page.                                                       *)

Born == {u \in Readers : status[u] # "unborn"}

ListOK(L) == DOMAIN L \subseteq Born /\ \A u \in DOMAIN L : L[u] \in Statuses

CallOK(k, a) ==
  /\ a = [kind |-> k, user |-> a.user, status |-> a.status, answer |-> a.answer]
  /\ k \in {"block", "unblock", "delete"} => a.user \in Born
  /\ k = "save" => a.user \in Born \cup {None}
  /\ k \in {"delete", "save"} => a.status \in Statuses
  /\ k \in Changes => a.status \in Statuses \cup {None}

\* What the server answers is of the reader the call names, or of a new one.
AnswerOK(k, a) ==
  a.answer # None =>
    /\ k \notin Changes => ListOK(a.answer.data)
    /\ k \in Changes /\ a.answer.ok =>
         /\ a.answer.data.user \in Born
         /\ a.user # None => a.answer.data.user = a.user
         /\ k = "save" => a.answer.data \in [user : Born, status : Statuses]

PageTyped ==
  /\ \A L \in ({found, paged} \ {None}) \cup {overrides, created} : ListOK(L)
  /\ removed \cup unknown \subseteq Born
  /\ \A row \in {selected, confirming} \ {None} : row \in [user : Born, status : Statuses]
  /\ form # None => form.user \in Born \cup {None} /\ form.status \in Statuses

CallsTyped ==
  /\ asks = [k \in Kinds |-> asks[k]]
  /\ \A k \in Kinds : \A a \in {asks[k]} \ {None} : CallOK(k, a) /\ AnswerOK(k, a)
  /\ \A a \in strays : a.kind \in Changes /\ CallOK(a.kind, a) /\ a.answer = None

\* Nothing on the page or under way names a reader who is not created yet.
UsersTyped ==
  /\ status \in [Readers -> Statuses \cup {"unborn", "gone"}]
  /\ PageTyped /\ CallsTyped

-----------------------------------------------------------------------------
LEMMA KindNames ==
  /\ Changes \subseteq Kinds /\ "search" \in Kinds \ Changes /\ "paginate" \in Kinds \ Changes
  /\ \A k \in Kinds \ Changes : k \in {"search", "paginate"}
BY DEF Kinds, Changes

LEMMA StatusNames ==
  {"active", "blocked", "inactive"} \subseteq Statuses /\ "unborn" \notin Statuses /\ "gone" \notin Statuses
BY DEF Statuses

\* Readers once created stay so, and with them what names them.
LEMMA NamesKept ==
  ASSUME Born \subseteq Born'
  PROVE  /\ \A L : ListOK(L) => ListOK(L)'
         /\ \A k, a : CallOK(k, a) => CallOK(k, a)'
         /\ \A k, a : AnswerOK(k, a) => AnswerOK(k, a)'
<1>1. \A L : ListOK(L) => ListOK(L)'
  BY DEF ListOK
<1>2. \A k, a : CallOK(k, a) => CallOK(k, a)'
  BY DEF CallOK
<1>3. \A k, a : AnswerOK(k, a) => AnswerOK(k, a)'
  BY <1>1 DEF AnswerOK
<1> QED  BY <1>1, <1>2, <1>3

LEMMA SameBorn == status' = status => Born' = Born
BY DEF Born

\* One kind of call changes, and a call is forgotten only before its answer.
LEMMA AskTyped ==
  ASSUME CallsTyped, Born \subseteq Born', NEW k \in Kinds, NEW c,
         asks' = [asks EXCEPT ![k] = c],
         c # None => CallOK(k, c)' /\ AnswerOK(k, c)',
         \A a \in strays' : a \in strays \/ (k \in Changes /\ a = asks[k] /\ a # None /\ a.answer = None)
  PROVE  CallsTyped'
<1>1. /\ asks' = [j \in Kinds |-> asks'[j]] /\ asks'[k] = c
      /\ \A j \in Kinds \ {k} : asks'[j] = asks[j]
  BY DEF CallsTyped
<1>2. \A j \in Kinds : \A a \in {asks'[j]} \ {None} : CallOK(j, a)' /\ AnswerOK(j, a)'
  BY <1>1, NamesKept DEF CallsTyped
<1>3. ASSUME NEW a \in strays'
      PROVE  a.kind \in Changes /\ CallOK(a.kind, a)' /\ a.answer = None
  <2>1. CASE a \in strays
    <3>1. PICK j : j = a.kind
      OBVIOUS
    <3>2. j \in Changes /\ CallOK(j, a) /\ a.answer = None
      BY <2>1, <3>1 DEF CallsTyped
    <3> QED  BY <3>1, <3>2, NamesKept
  <2>2. CASE k \in Changes /\ a = asks[k] /\ a # None /\ a.answer = None
    <3>1. CallOK(k, a)
      BY <2>2 DEF CallsTyped
    <3>2. a.kind = k
      BY <3>1 DEF CallOK
    <3> QED  BY <2>2, <3>1, <3>2, NamesKept
  <2> QED  BY <1>3, <2>1, <2>2
<1> QED  BY <1>1, <1>2, <1>3 DEF CallsTyped

LEMMA NoAskTyped ==
  ASSUME CallsTyped, Born \subseteq Born', asks' = asks, strays' \subseteq strays
  PROVE  CallsTyped'
<1>1. \A j \in Kinds : \A a \in {asks'[j]} \ {None} : CallOK(j, a)' /\ AnswerOK(j, a)'
  BY NamesKept DEF CallsTyped
<1>2. ASSUME NEW a \in strays'
      PROVE  a.kind \in Changes /\ CallOK(a.kind, a)' /\ a.answer = None
  <2>1. PICK j : j = a.kind
    OBVIOUS
  <2>2. j \in Changes /\ CallOK(j, a) /\ a.answer = None
    BY <2>1 DEF CallsTyped
  <2> QED  BY <2>1, <2>2, NamesKept
<1> QED  BY <1>1, <1>2 DEF CallsTyped

\* An answer is written to the call it is of.
LEMMA AnswerTyped ==
  ASSUME CallsTyped, Born \subseteq Born', NEW k \in Kinds, Flying(k), NEW ok, NEW data,
         Answer(k, ok, data), strays' \subseteq strays,
         NEW c, c = [asks[k] EXCEPT !.answer = [ok |-> ok, data |-> data]],
         AnswerOK(k, c)'
  PROVE  CallsTyped'
<1>1. CallOK(k, asks[k])
  BY DEF Flying, CallsTyped
<1>2. CallOK(k, c)
  BY <1>1 DEF CallOK
<1>3. asks' = [asks EXCEPT ![k] = c]
  BY DEF Answer
<1> QED  BY <1>2, <1>3, AskTyped, NamesKept

\* The same page, but for the rows staff look at.
LEMMA PageKept ==
  ASSUME PageTyped, Born \subseteq Born',
         \A L \in (({found, paged} \ {None}) \cup {overrides, created})' :
           L \in ({found, paged} \ {None}) \cup {overrides, created} \/ ListOK(L)',
         \A u \in (removed \cup unknown)' : u \in removed \cup unknown \/ u \in Born',
         \A row \in ({selected, confirming} \ {None})' :
           row \in {selected, confirming} \/ row \in [user : Born', status : Statuses],
         form' # None => form' = form \/ (form'.user \in Born' \cup {None} /\ form'.status \in Statuses)
  PROVE  PageTyped'
<1>1. \A L \in (({found, paged} \ {None}) \cup {overrides, created})' : ListOK(L)'
  BY NamesKept DEF PageTyped
<1>2. (removed \cup unknown)' \subseteq Born'
  BY DEF PageTyped
<1>3. [user : Born, status : Statuses] \subseteq [user : Born', status : Statuses]
  OBVIOUS
<1>4. \A row \in ({selected, confirming} \ {None})' : row \in [user : Born', status : Statuses]
  BY <1>3 DEF PageTyped
<1>5. form' # None => form'.user \in Born' \cup {None} /\ form'.status \in Statuses
  BY DEF PageTyped
<1> QED  BY <1>1, <1>2, <1>4, <1>5 DEF PageTyped

\* What the table shows of a reader.
LEMMA ShownTyped ==
  ASSUME PageTyped, NEW u \in Shown
  PROVE  u \in Born /\ ShownStatus(u) \in Statuses
BY DEF PageTyped, ListOK, Shown, ShownStatus, GetUsers

-----------------------------------------------------------------------------
\* A call of a mutation that is overtaken leaves its reader unknown.
LEMMA DropTyped ==
  ASSUME CallsTyped, NEW k \in Kinds, Drop(k)
  PROVE  /\ \A a \in strays' : a \in strays \/ (k \in Changes /\ a = asks[k] /\ a # None /\ a.answer = None)
         /\ \A u \in unknown' : u \in unknown \/ u \in Born
         /\ unknown \subseteq unknown'
         /\ \A u : k \in Changes /\ Flying(k) /\ asks[k].answer # None /\ asks[k].answer.ok
                   /\ asks[k].answer.data.user = u => u \in unknown'
<1>1. \A a \in strays' : a \in strays \/ (k \in Changes /\ a = asks[k] /\ a # None /\ a.answer = None)
  BY DEF Drop, Overtaken
<1>2. ASSUME NEW u \in unknown', u \notin unknown PROVE u \in Born
  <2>1. k \in Changes /\ asks[k] # None /\ asks[k].answer # None /\ asks[k].answer.ok
        /\ u = asks[k].answer.data.user
    BY <1>2 DEF Drop, Overtaken
  <2>2. AnswerOK(k, asks[k])
    BY <2>1 DEF CallsTyped
  <2> QED  BY <2>1, <2>2 DEF AnswerOK
<1>3. unknown \subseteq unknown'
  BY DEF Drop
<1>4. ASSUME NEW u, k \in Changes, Flying(k), asks[k].answer # None, asks[k].answer.ok,
             asks[k].answer.data.user = u
      PROVE  u \in unknown'
  BY <1>4 DEF Drop, Overtaken, Flying
<1> QED  BY <1>1, <1>2, <1>3, <1>4

LEMMA MutateTyped ==
  ASSUME UsersTyped, UNCHANGED status, NEW k \in Kinds, NEW u, NEW s, Mutate(Call(k, u, s)),
         k \in {"block", "unblock", "delete"} => u \in Born,
         k = "save" => u \in Born \cup {None},
         k \in {"delete", "save"} => s \in Statuses,
         k \in Changes => s \in Statuses \cup {None}
  PROVE  /\ CallsTyped' /\ Born' = Born
         /\ \A w \in unknown' : w \in unknown \/ w \in Born'
<1>1. Born' = Born
  BY SameBorn
<1>2. PICK c : c = Call(k, u, s)
  OBVIOUS
<1>3. c = [kind |-> k, user |-> u, status |-> s, answer |-> None]
  BY <1>2 DEF Call
<1>4. c.kind = k /\ CallOK(k, c) /\ AnswerOK(k, c)
  BY <1>3 DEF CallOK, AnswerOK
<1>5. asks' = [asks EXCEPT ![k] = c] /\ Drop(k)
  BY <1>2, <1>4 DEF Mutate
<1>6. CallOK(k, c)' /\ AnswerOK(k, c)'
  BY <1>1, <1>4, NamesKept
<1>7. \A a \in strays' : a \in strays \/ (k \in Changes /\ a = asks[k] /\ a # None /\ a.answer = None)
  BY <1>5, DropTyped DEF UsersTyped
<1>8. CallsTyped'
  BY <1>1, <1>5, <1>6, <1>7, AskTyped DEF UsersTyped
<1>9. \A w \in unknown' : w \in unknown \/ w \in Born
  BY <1>5, DropTyped DEF UsersTyped
<1> QED  BY <1>1, <1>8, <1>9

LEMMA UsersInitTyped == UsersInit => UsersTyped
<1> SUFFICES ASSUME UsersInit PROVE UsersTyped
  OBVIOUS
<1>1. status \in [Readers -> Statuses \cup {"unborn", "gone"}] /\ CallsTyped
  BY DEF UsersInit, CallsTyped
<1>2. ListOK(Nobody)
  BY DEF Nobody, ListOK
<1>3. PageTyped
  BY <1>2 DEF UsersInit, PageTyped
<1> QED  BY <1>1, <1>3 DEF UsersTyped

\* Opening and closing dialogs, and looking at rows.
LEMMA LooksTyped ==
  ASSUME UsersTyped,
         \/ \E u \in Readers : OnDeactivateOrDeleteUser(u)
         \/ OnCancelDelete \/ OnDetails \/ OnEditUserClick \/ OnCreateUserClick
  PROVE  UsersTyped'
<1>1. UNCHANGED <<status, found, paged, overrides, created, removed, asks, strays, unknown>>
  BY DEF OnDeactivateOrDeleteUser, OnCancelDelete, OnDetails, OnEditUserClick, OnCreateUserClick,
         Look, OpenForm
<1>2. \A u \in Shown : Row(u, ShownStatus(u)) \in [user : Born, status : Statuses]
  BY ShownTyped DEF UsersTyped, Row
<1>3. \A row \in {selected', confirming'} \ {None} :
        row \in {selected, confirming} \/ row \in [user : Born, status : Statuses]
  BY <1>2 DEF OnDeactivateOrDeleteUser, OnCancelDelete, OnDetails, OnEditUserClick,
         OnCreateUserClick, Look, OpenForm, Actionable
<1>4. Row(None, "active").user = None /\ Row(None, "active").status \in Statuses
  BY StatusNames DEF Row
<1>5. form' = form \/ (form'.user \in Born \cup {None} /\ form'.status \in Statuses) \/ form' = None
  <2>1. CASE OnEditUserClick
    <3>1. PICK row \in [user : Born, status : Statuses] : form' = row
      BY <1>2, <2>1 DEF OnEditUserClick, OpenForm, UsersTyped, PageTyped
    <3> QED  BY <3>1
  <2>2. CASE OnCreateUserClick
    BY <1>4, <2>2 DEF OnCreateUserClick, OpenForm
  <2> QED  BY <2>1, <2>2 DEF OnDeactivateOrDeleteUser, OnCancelDelete, OnDetails, Look
<1>6. Born' = Born
  BY <1>1, SameBorn
<1>7. PageTyped'
  BY <1>1, <1>3, <1>5, <1>6, PageKept DEF UsersTyped
<1>8. CallsTyped'
  BY <1>1, <1>6, NoAskTyped DEF UsersTyped
<1> QED  BY <1>1, <1>7, <1>8 DEF UsersTyped

\* A call is made.
LEMMA AsksTyped ==
  ASSUME UsersTyped,
         \/ \E u \in Readers : OnBlockUser(u) \/ OnUnblockUser(u)
         \/ \E n \in {1, 2} : OnPaginateUsers(n)
         \/ OnConfirmDeactivateOrDeleteUser \/ SubmitForm
  PROVE  UsersTyped'
<1>1. /\ UNCHANGED <<status, found, overrides, created, removed, selected, confirming, form>>
      /\ paged' \in {paged, None}
  BY DEF OnBlockUser, OnUnblockUser, OnPaginateUsers, OnConfirmDeactivateOrDeleteUser, SubmitForm,
         pageState
<1>2. /\ CallsTyped' /\ Born' = Born
      /\ \A w \in unknown' : w \in unknown \/ w \in Born'
  <2>1. ASSUME NEW u \in Readers, OnBlockUser(u) \/ OnUnblockUser(u)
        PROVE  /\ CallsTyped' /\ Born' = Born
               /\ \A w \in unknown' : w \in unknown \/ w \in Born'
    <3>1. PICK k \in {"block", "unblock"} : Mutate(Call(k, u, None))
      BY <2>1 DEF OnBlockUser, OnUnblockUser
    <3>2. u \in Born
      BY <2>1, ShownTyped DEF OnBlockUser, OnUnblockUser, Actionable, UsersTyped
    <3> QED  BY <1>1, <3>1, <3>2, MutateTyped DEF Kinds
  <2>2. ASSUME NEW n \in {1, 2}, OnPaginateUsers(n)
        PROVE  /\ CallsTyped' /\ Born' = Born
               /\ \A w \in unknown' : w \in unknown \/ w \in Born'
    BY <1>1, <2>2, MutateTyped DEF OnPaginateUsers, Kinds, Changes
  <2>3. CASE OnConfirmDeactivateOrDeleteUser
    <3>1. Mutate(Call("delete", confirming.user, confirming.status)) /\ confirming # None
      BY <2>3 DEF OnConfirmDeactivateOrDeleteUser
    <3>2. PICK u \in Born, s \in Statuses : u = confirming.user /\ s = confirming.status
      BY <3>1 DEF UsersTyped, PageTyped
    <3> QED  BY <1>1, <3>1, <3>2, MutateTyped DEF Kinds
  <2>4. CASE SubmitForm
    <3>1. PICK s \in FormStatuses \cup {form.status}, u \in {form.user, None} :
            Mutate(Call("save", u, s))
      BY <2>4 DEF SubmitForm
    <3>2. s \in Statuses /\ u \in Born \cup {None}
      BY <2>4, <3>1, UsersPageAssumption DEF SubmitForm, UsersTyped, PageTyped
    <3> QED  BY <1>1, <3>1, <3>2, MutateTyped DEF Kinds
  <2> QED  BY <2>1, <2>2, <2>3, <2>4
<1>3. PageTyped'
  BY <1>1, <1>2, PageKept DEF UsersTyped
<1> QED  BY <1>1, <1>2, <1>3 DEF UsersTyped

\* A search empties the page; the form is closed with what it asked for.
LEMMA SearchTyped ==
  ASSUME UsersTyped, OnSearchUsers
  PROVE  UsersTyped'
<1>1. PICK c : c = [kind |-> "search", user |-> None, status |-> None, answer |-> None]
  OBVIOUS
<1>2. CallOK("search", c) /\ AnswerOK("search", c)
  BY <1>1 DEF CallOK, AnswerOK
<1>3. Born' = Born /\ asks' = [asks EXCEPT !["search"] = c] /\ "search" \in Kinds
  BY <1>1, SameBorn DEF OnSearchUsers, Call, Kinds
<1>4. CallsTyped'
  BY <1>2, <1>3, NamesKept, AskTyped DEF OnSearchUsers, UsersTyped
<1>5. ListOK(Nobody)'
  BY DEF Nobody, ListOK
<1>6. \A L \in (({found, paged} \ {None}) \cup {overrides, created})' :
        L \in ({found, paged} \ {None}) \cup {overrides, created} \/ L = Nobody
  BY DEF OnSearchUsers
<1>7. PICK L : L = Nobody
  OBVIOUS
<1>8. ListOK(L)'
  BY <1>7 DEF Nobody, ListOK
<1>9. PageTyped'
  BY <1>3, <1>6, <1>7, <1>8, PageKept DEF OnSearchUsers, UsersTyped
<1> QED  BY <1>4, <1>9 DEF OnSearchUsers, UsersTyped

LEMMA CloseTyped ==
  ASSUME UsersTyped, OnCloseUserForm
  PROVE  UsersTyped'
<1>1. Born' = Born /\ asks' = [asks EXCEPT !["save"] = None] /\ "save" \in Kinds /\ Drop("save")
  BY SameBorn DEF OnCloseUserForm, Kinds
<1>2. /\ \A a \in strays' : a \in strays \/ ("save" \in Changes /\ a = asks["save"] /\ a # None /\ a.answer = None)
      /\ \A w \in unknown' : w \in unknown \/ w \in Born'
  BY <1>1, DropTyped DEF UsersTyped
<1>3. CallsTyped'
  BY <1>1, <1>2, AskTyped DEF UsersTyped
<1>4. PageTyped'
  BY <1>1, <1>2, PageKept DEF OnCloseUserForm, UsersTyped
<1> QED  BY <1>3, <1>4 DEF OnCloseUserForm, UsersTyped

-----------------------------------------------------------------------------
\* What a handler writes, and to whom.
LEMMA Performed ==
  ASSUME UsersTyped, NEW k \in Changes, NEW a, CallOK(k, a), NEW u \in TargetOf(a), Perform(a, u)
  PROVE  /\ u \in Readers /\ a.user \in {u, None} /\ a.kind = k
         /\ status' \in [Readers -> Statuses \cup {"unborn", "gone"}]
         /\ \A w \in Readers \ {u} : status'[w] = status[w]
         /\ a.user = None => k = "save" /\ status[u] = "unborn" /\ status'[u] = a.status
         /\ a.user # None /\ ~Exists(u) => status'[u] = status[u]
         /\ a.user # None /\ Exists(u) =>
              /\ k = "block" => status'[u] = "blocked"
              /\ k = "unblock" => status'[u] = "active"
              /\ k = "save" => status'[u] = a.status
              /\ k = "delete" => status'[u] = IF status[u] = "inactive" THEN "gone" ELSE "inactive"
<1>1. a.kind = k /\ k \in {"block", "unblock", "delete", "save"}
  BY DEF CallOK, Changes
<1>2. status \in [Readers -> Statuses \cup {"unborn", "gone"}] /\ Born \subseteq Readers /\ None \notin Born
  BY UsersPageAssumption DEF UsersTyped, Born
<1>3. a.user = None => k = "save" /\ u \in Readers /\ status[u] = "unborn" /\ a.status \in Statuses
  BY <1>1, <1>2 DEF TargetOf, CallOK
<1>4. a.user # None => u = a.user /\ u \in Born
  BY <1>1 DEF TargetOf, CallOK
<1> DEFINE v == IF a.user = None THEN a.status ELSE StatusAfter(a)
<1>5. v = IF a.user = None THEN a.status ELSE StatusAfter(a)
  OBVIOUS
<1>6. status' = [status EXCEPT ![u] = v]
  BY DEF Perform
<1> HIDE DEF v
<1>7. a.user # None /\ ~Exists(u) => v = status[u]
  BY <1>4, <1>5 DEF StatusAfter
<1>8. a.user # None /\ Exists(u) =>
        /\ k = "block" => v = "blocked"
        /\ k = "unblock" => v = "active"
        /\ k = "save" => v = a.status
        /\ k = "delete" => v = IF status[u] = "inactive" THEN "gone" ELSE "inactive"
  BY <1>1, <1>4, <1>5 DEF StatusAfter
<1>9. v \in Statuses \cup {"unborn", "gone"}
  BY <1>1, <1>2, <1>3, <1>4, <1>5, <1>7, <1>8, StatusNames DEF CallOK
<1> QED  BY <1>1, <1>2, <1>3, <1>4, <1>5, <1>6, <1>7, <1>8, <1>9

LEMMA PerformTyped ==
  ASSUME UsersTyped, NEW k \in Changes, NEW a, CallOK(k, a), NEW u \in TargetOf(a), Perform(a, u)
  PROVE  /\ status' \in [Readers -> Statuses \cup {"unborn", "gone"}]
         /\ Born \subseteq Born' /\ u \in Born'
         /\ \A w \in unknown' : w \in unknown \/ w = u
         /\ k = "save" /\ (a.user = None \/ Accepted(a)) => status'[u] \in Statuses
<1>1. a.user # None => u \in Born
  BY UsersPageAssumption DEF CallOK, TargetOf, Changes
<1>2. a.user = None => a.status \in Statuses
  BY Performed DEF CallOK
<1>3. status'[u] # "unborn"
  BY <1>1, <1>2, Performed, StatusNames DEF Born, UsersTyped, Changes, CallOK
<1>4. Born \subseteq Born' /\ u \in Born'
  BY <1>3, Performed DEF Born
<1>5. \A w \in unknown' : w \in unknown \/ w = u
  BY DEF Perform
<1>6. ASSUME k = "save", a.user = None \/ Accepted(a) PROVE status'[u] \in Statuses
  BY <1>6, Performed DEF CallOK, Accepted
<1> QED  BY <1>4, <1>5, <1>6, Performed

LEMMA ServeListTyped ==
  ASSUME UsersTyped, NEW k \in Kinds \ Changes, Serve(k)
  PROVE  UsersTyped'
<1>1. PICK rows : /\ \A u \in rows : u \in Readers /\ Exists(u)
                  /\ Answer(k, TRUE, [u \in rows |-> status[u]])
  BY DEF Serve, ServeList
<1>2. UNCHANGED <<status, pageState, strays, unknown>> /\ Flying(k)
  BY DEF Serve, ServeList
<1>3. Born' = Born
  BY <1>2, SameBorn
<1>4. PICK data : data = [u \in rows |-> status[u]]
  OBVIOUS
<1>5. ListOK(data)
  BY <1>1, <1>4, StatusNames DEF ListOK, Exists, Born
<1>6. PICK c : c = [asks[k] EXCEPT !.answer = [ok |-> TRUE, data |-> data]]
  OBVIOUS
<1>7. CallOK(k, asks[k])
  BY <1>2 DEF UsersTyped, CallsTyped, Flying
<1>8. c.answer = [ok |-> TRUE, data |-> data]
  BY <1>6, <1>7 DEF CallOK
<1>9. AnswerOK(k, c)
  BY <1>5, <1>8 DEF AnswerOK
<1>10. CallsTyped'
  BY <1>1, <1>2, <1>3, <1>4, <1>6, <1>9, NamesKept, AnswerTyped DEF UsersTyped
<1>11. PageTyped'
  BY <1>2, <1>3, PageKept DEF UsersTyped, pageState
<1> QED  BY <1>2, <1>10, <1>11 DEF UsersTyped

LEMMA ServeChangeTyped ==
  ASSUME UsersTyped, NEW k \in Changes, Serve(k)
  PROVE  UsersTyped'
<1>1. PICK a : a = asks[k]
  OBVIOUS
<1>2. a # None /\ k \in Kinds /\ CallOK(k, a) /\ UNCHANGED <<pageState, strays>> /\ Flying(k)
  BY <1>1, KindNames DEF Serve, ServeChange, Flying, UsersTyped, CallsTyped
<1>3. CASE a.user # None /\ ~Accepted(a)
  <2>1. Answer(k, FALSE, None) /\ UNCHANGED <<status, unknown>>
    BY <1>1, <1>3 DEF Serve, ServeChange
  <2>2. Born' = Born
    BY <2>1, SameBorn
  <2>3. PICK c : c = [asks[k] EXCEPT !.answer = [ok |-> FALSE, data |-> None]]
    OBVIOUS
  <2>4. AnswerOK(k, c)
    BY <1>1, <1>2, <2>3 DEF AnswerOK, CallOK
  <2>5. CallsTyped'
    BY <1>2, <2>1, <2>2, <2>3, <2>4, NamesKept, AnswerTyped DEF UsersTyped
  <2>6. PageTyped'
    BY <1>2, <2>1, <2>2, PageKept DEF UsersTyped, pageState
  <2> QED  BY <2>1, <2>5, <2>6 DEF UsersTyped
<1>4. CASE ~(a.user # None /\ ~Accepted(a))
  <2>1. PICK u \in TargetOf(a) : Perform(a, u) /\ Answer(k, TRUE, Row(u, status'[u]))
    BY <1>1, <1>4 DEF Serve, ServeChange
  <2>2. /\ status' \in [Readers -> Statuses \cup {"unborn", "gone"}]
        /\ Born \subseteq Born' /\ u \in Born'
        /\ \A w \in unknown' : w \in unknown \/ w = u
        /\ k = "save" => status'[u] \in Statuses
    BY <1>2, <1>4, <2>1, PerformTyped
  <2>3. PICK data : data = Row(u, status'[u])
    OBVIOUS
  <2>4. data.user = u /\ (k = "save" => data \in [user : Born', status : Statuses])
    BY <2>2, <2>3 DEF Row
  <2>5. PICK c : c = [asks[k] EXCEPT !.answer = [ok |-> TRUE, data |-> data]]
    OBVIOUS
  <2>6. c.answer = [ok |-> TRUE, data |-> data] /\ c.user = a.user
    BY <1>1, <1>2, <2>5 DEF CallOK
  <2>7. a.user \in {u, None}
    BY <1>2, <2>1, Performed
  <2>8. AnswerOK(k, c)'
    BY <2>2, <2>4, <2>6, <2>7 DEF AnswerOK
  <2>9. CallsTyped'
    BY <1>2, <2>1, <2>2, <2>3, <2>5, <2>8, AnswerTyped DEF UsersTyped
  <2>10. PageTyped'
    BY <1>2, <2>2, PageKept DEF UsersTyped, pageState
  <2> QED  BY <2>2, <2>9, <2>10 DEF UsersTyped
<1> QED  BY <1>3, <1>4

LEMMA ServeStrayTyped ==
  ASSUME UsersTyped, NEW a \in strays, ServeStray(a)
  PROVE  UsersTyped'
<1>1. PICK k \in Changes : CallOK(k, a)
  BY DEF UsersTyped, CallsTyped
<1>2. PICK u \in TargetOf(a) : Perform(a, u)
  BY DEF ServeStray
<1>3. /\ status' \in [Readers -> Statuses \cup {"unborn", "gone"}]
      /\ Born \subseteq Born' /\ u \in Born'
      /\ \A w \in unknown' : w \in unknown \/ w = u
  BY <1>1, <1>2, PerformTyped
<1>4. CallsTyped'
  BY <1>3, NoAskTyped DEF ServeStray, UsersTyped
<1>5. PageTyped'
  BY <1>3, PageKept DEF ServeStray, UsersTyped, pageState
<1> QED  BY <1>3, <1>4, <1>5 DEF UsersTyped

\* Requests that fail, and changes made elsewhere.
LEMMA FailTyped ==
  ASSUME UsersTyped, NEW k \in Kinds, Fail(k)
  PROVE  UsersTyped'
<1>1. /\ UNCHANGED <<status, found, paged, overrides, created, removed, selected, form, strays>>
      /\ asks' = [asks EXCEPT ![k] = None] /\ confirming' \in {confirming, None}
  BY DEF Fail
<1>2. Born' = Born
  BY <1>1, SameBorn
<1>3. CallsTyped'
  BY <1>1, <1>2, AskTyped DEF UsersTyped
<1>4. \A w \in unknown' : w \in unknown \/ w \in Born'
  <2>1. ASSUME k \in Changes, asks[k].answer # None, asks[k].answer.ok
        PROVE  asks[k].answer.data.user \in Born
    <3>1. AnswerOK(k, asks[k])
      BY DEF Fail, Flying, UsersTyped, CallsTyped
    <3> QED  BY <2>1, <3>1 DEF AnswerOK
  <2> QED  BY <1>2, <2>1 DEF Fail
<1>5. PageTyped'
  BY <1>1, <1>2, <1>4, PageKept DEF UsersTyped
<1> QED  BY <1>1, <1>3, <1>5 DEF UsersTyped

LEMMA ElsewhereTyped ==
  ASSUME UsersTyped, Elsewhere
  PROVE  UsersTyped'
<1>1. PICK u \in Readers, s \in Statuses :
        Exists(u) /\ status' = [status EXCEPT ![u] = s] /\ unknown' = unknown \cup {u}
  BY DEF Elsewhere
<1>2. Born \subseteq Born' /\ u \in Born'
  BY <1>1, StatusNames DEF Born, UsersTyped
<1>3. CallsTyped'
  BY <1>2, NoAskTyped DEF Elsewhere, UsersTyped
<1>4. PageTyped'
  BY <1>1, <1>2, PageKept DEF Elsewhere, UsersTyped, pageState
<1>5. status' \in [Readers -> Statuses \cup {"unborn", "gone"}]
  BY <1>1 DEF UsersTyped
<1> QED  BY <1>3, <1>4, <1>5 DEF UsersTyped

-----------------------------------------------------------------------------
\* What an answer does to the page.
LEMMA ReceiveCases ==
  ASSUME UsersTyped, NEW k \in Kinds, Receive(k)
  PROVE  \/ k \in Kinds \ Changes /\ ReceiveList(k, asks[k].answer)
         \/ k \in {"block", "unblock"} /\ ReceiveStatus(k, asks[k].answer)
         \/ k = "delete" /\ ReceiveDelete(asks[k].answer)
         \/ k = "save" /\ OnUserSaved(asks[k].answer)
<1>1. CASE k \in {"search", "paginate"}
  BY <1>1, KindNames DEF Receive
<1>2. CASE k \in {"block", "unblock"}
  BY <1>2 DEF Receive
<1>3. CASE k = "delete"
  BY <1>3 DEF Receive
<1>4. CASE k = "save"
  BY <1>4 DEF Receive
<1> QED  BY <1>1, <1>2, <1>3, <1>4 DEF Kinds

LEMMA Answered ==
  ASSUME UsersTyped, NEW k \in Kinds, Receive(k)
  PROVE  /\ UNCHANGED <<status, usePaged, strays, unknown>> /\ Born' = Born
         /\ asks' = [asks EXCEPT ![k] = None]
         /\ CallOK(k, asks[k]) /\ AnswerOK(k, asks[k]) /\ asks[k].answer # None
         /\ CallsTyped'
         /\ k \in Kinds \ Changes => ListOK(asks[k].answer.data)
         /\ k \in Changes /\ asks[k].answer.ok =>
              /\ asks[k].answer.data.user \in Born
              /\ k \in {"block", "unblock", "delete"} => asks[k].answer.data.user = asks[k].user
              /\ k = "save" => asks[k].answer.data \in [user : Born, status : Statuses]
<1>1. /\ UNCHANGED <<status, usePaged, strays, unknown>> /\ Born' = Born
      /\ asks' = [asks EXCEPT ![k] = None]
      /\ CallOK(k, asks[k]) /\ AnswerOK(k, asks[k]) /\ asks[k].answer # None
  BY SameBorn DEF Receive, UsersTyped, CallsTyped, Flying
<1>2. CallsTyped'
  BY <1>1, AskTyped DEF UsersTyped
<1>3. k \in {"block", "unblock", "delete"} => asks[k].user # None
  BY <1>1, UsersPageAssumption DEF CallOK, Born
<1> QED  BY <1>1, <1>2, <1>3 DEF AnswerOK

LEMMA PutTyped ==
  ASSUME NEW L, ListOK(L), NEW u \in Born, NEW s \in Statuses
  PROVE  ListOK(Put(L, u, s))
<1>1. DOMAIN Put(L, u, s) = DOMAIN L \cup {u}
  BY DEF Put
<1>2. \A x \in DOMAIN L \cup {u} : Put(L, u, s)[x] = IF x = u THEN s ELSE L[x]
  BY DEF Put
<1> QED  BY <1>1, <1>2 DEF ListOK

LEMMA ApplyTyped ==
  ASSUME UsersTyped, Born' = Born, NEW u \in Born, NEW s \in Statuses, ApplyUserStatusChange(u, s),
         UNCHANGED <<unknown, found, paged, created, form>>, confirming' \in {confirming, None}
  PROVE  PageTyped'
<1>1. ListOK(overrides')
  BY PutTyped DEF ApplyUserStatusChange, UsersTyped, PageTyped
<1>2. Row(u, s) \in [user : Born, status : Statuses]
  BY DEF Row
<1>3. \A row \in ({selected, confirming} \ {None})' :
        row \in {selected, confirming} \/ row \in [user : Born', status : Statuses]
  BY <1>2 DEF ApplyUserStatusChange
<1>4. \A L \in (({found, paged} \ {None}) \cup {overrides, created})' :
        L \in ({found, paged} \ {None}) \cup {overrides, created} \/ ListOK(L)
  BY <1>1
<1>5. removed' = removed
  BY DEF ApplyUserStatusChange
<1> QED  BY <1>3, <1>4, <1>5, NamesKept, PageKept DEF UsersTyped

LEMMA ReceiveTyped ==
  ASSUME UsersTyped, NEW k \in Kinds, Receive(k)
  PROVE  UsersTyped'
<1>1. /\ UNCHANGED <<status, unknown>> /\ Born' = Born /\ CallsTyped'
  BY Answered
<1>2. PageTyped'
  <2>1. CASE k \in Kinds \ Changes /\ ReceiveList(k, asks[k].answer)
    <3>1. ListOK(asks[k].answer.data)
      BY <2>1, Answered
    <3>2. PICK L : L = asks[k].answer.data
      OBVIOUS
    <3>3. ListOK(L)'
      BY <1>1, <3>1, <3>2, NamesKept
    <3>4. \A M \in (({found, paged} \ {None}) \cup {overrides, created})' :
            M \in ({found, paged} \ {None}) \cup {overrides, created} \/ M = L
      BY <2>1, <3>2 DEF ReceiveList, NothingApplied
    <3>5. UNCHANGED <<removed, unknown, selected, confirming, form>>
      BY <1>1, <2>1 DEF ReceiveList, NothingApplied
    <3> QED  BY <1>1, <3>3, <3>4, <3>5, PageKept DEF UsersTyped
  <2>2. CASE k \in {"block", "unblock"} /\ ReceiveStatus(k, asks[k].answer)
    <3>1. CASE asks[k].answer.ok
      <4>1. PICK u \in Born, s \in Statuses : ApplyUserStatusChange(u, s)
        BY <2>2, <3>1, Answered, StatusNames DEF ReceiveStatus, Changes
      <4> QED  BY <1>1, <2>2, <4>1, ApplyTyped DEF ReceiveStatus
    <3>2. CASE ~asks[k].answer.ok
      BY <1>1, <2>2, <3>2, PageKept DEF ReceiveStatus, NothingApplied, UsersTyped
    <3> QED  BY <3>1, <3>2
  <2>3. CASE k = "delete" /\ ReceiveDelete(asks[k].answer)
    <3>1. UNCHANGED <<found, paged, created, form>> /\ confirming' \in {confirming, None}
      BY <2>3 DEF ReceiveDelete
    <3>2. CASE NothingApplied
      BY <1>1, <3>1, <3>2, PageKept DEF NothingApplied, UsersTyped
    <3>3. CASE /\ asks["delete"].user \in Born /\ removed' = removed \cup {asks["delete"].user}
               /\ selected' \in {selected, None} /\ UNCHANGED overrides
      BY <1>1, <3>1, <3>3, PageKept DEF UsersTyped
    <3>4. CASE asks["delete"].user \in Born /\ ApplyUserStatusChange(asks["delete"].user, "inactive")
      BY <1>1, <3>1, <3>4, ApplyTyped, StatusNames
    <3> QED  BY <2>3, <3>2, <3>3, <3>4, Answered DEF ReceiveDelete, Changes
  <2>4. CASE k = "save" /\ OnUserSaved(asks[k].answer)
    <3>1. UNCHANGED <<found, paged, overrides, removed, confirming>> /\ form' \in {form, None}
      BY <2>4 DEF OnUserSaved
    <3>2. CASE UNCHANGED <<created, selected>>
      BY <1>1, <3>1, <3>2, PageKept DEF UsersTyped
    <3>3. CASE asks[k].answer.ok
      <4>1. PICK row \in [user : Born, status : Statuses] : row = asks[k].answer.data
        BY <2>4, <3>3, Answered DEF Changes
      <4>2. created' = Put(created, row.user, row.status) /\ selected' = row
        BY <2>4, <3>3, <4>1 DEF OnUserSaved
      <4>3. ListOK(created')
        BY <4>1, <4>2, PutTyped DEF UsersTyped, PageTyped
      <4>4. \A M \in (({found, paged} \ {None}) \cup {overrides, created})' :
              M \in ({found, paged} \ {None}) \cup {overrides, created} \/ ListOK(M)
        BY <3>1, <4>3
      <4>5. \A r \in ({selected, confirming} \ {None})' :
              r \in {selected, confirming} \/ r \in [user : Born', status : Statuses]
        BY <1>1, <3>1, <4>1, <4>2
      <4> QED  BY <1>1, <3>1, <4>4, <4>5, NamesKept, PageKept DEF UsersTyped
    <3> QED  BY <2>4, <3>2, <3>3 DEF OnUserSaved
  <2> QED  BY <2>1, <2>2, <2>3, <2>4, ReceiveCases
<1> QED  BY <1>1, <1>2 DEF UsersTyped

LEMMA UsersStepTyped == UsersTyped /\ [UsersNext]_usersVars => UsersTyped'
<1> SUFFICES ASSUME UsersTyped, [UsersNext]_usersVars PROVE UsersTyped'
  OBVIOUS
<1>1. CASE UsersStaff
  <2>1. {PageOf[u] : u \in Readers} \subseteq {1, 2}
    BY UsersPageAssumption
  <2> QED  BY <1>1, <2>1, LooksTyped, AsksTyped, SearchTyped, CloseTyped DEF UsersStaff
<1>2. ASSUME NEW k \in Kinds, Serve(k) \/ Receive(k) \/ Fail(k) PROVE UsersTyped'
  BY <1>2, ServeListTyped, ServeChangeTyped, ReceiveTyped, FailTyped
<1>3. CASE UNCHANGED usersVars
  <2>1. Born' = Born
    BY <1>3, SameBorn DEF usersVars
  <2>2. CallsTyped'
    BY <1>3, <2>1, NoAskTyped DEF usersVars, UsersTyped
  <2>3. PageTyped'
    BY <1>3, <2>1, PageKept DEF usersVars, UsersTyped
  <2> QED  BY <1>3, <2>2, <2>3 DEF usersVars, UsersTyped
<1> QED  BY <1>1, <1>2, <1>3, ElsewhereTyped, ServeStrayTyped DEF UsersNext

LEMMA TypedMeansOK == UsersTyped => UsersTypeOK
<1> SUFFICES ASSUME UsersTyped PROVE UsersTypeOK
  OBVIOUS
<1>1. Born \subseteq Readers
  BY DEF Born
<1>2. DOMAIN overrides \cup DOMAIN created \cup removed \cup unknown \subseteq Readers
  BY <1>1 DEF UsersTyped, PageTyped, ListOK
<1>3. \A u \in Shown : ShownStatus(u) \in Statuses
  BY ShownTyped DEF UsersTyped
<1>4. \A row \in {selected, confirming} \ {None} : row \in [user : Readers, status : Statuses]
  BY <1>1 DEF UsersTyped, PageTyped
<1>5. \A k \in Kinds : Flying(k) => asks[k].kind = k
  BY DEF UsersTyped, CallsTyped, CallOK, Flying
<1>6. \A a \in strays : a.kind \in Changes /\ a.answer = None
  BY DEF UsersTyped, CallsTyped
<1> QED  BY <1>2, <1>3, <1>4, <1>5, <1>6 DEF UsersTypeOK, UsersTyped

-----------------------------------------------------------------------------
\* The page is to receive an answer that changes what it shows of the reader.
Told(k, u) == Flying(k) /\ asks[k].answer # None /\ asks[k].answer.ok /\ asks[k].answer.data.user = u
Pending(u) == \E k \in {"block", "unblock", "delete"} : Told(k, u)

\* The form covers the page while its save is under way, so that the reader it
\* creates is in no other call before the page is told of it.
FormHeld ==
  /\ Flying("save") => form # None
  /\ form # None => confirming = None
  /\ \A u \in Readers : Told("save", u) /\ asks["save"].user = None =>
       \A k \in Changes : Flying(k) => asks[k].user # u

\* The listings the page shows, or will: pages of an earlier search it will not.
Lists ==
  LET kinds == IF usePaged THEN {"search", "paginate"} ELSE {"search"} IN
  {created} \cup (({found} \cup (IF usePaged THEN {paged} ELSE {})) \ {None})
  \cup {asks[k].answer.data : k \in {c \in kinds : Flying(c) /\ asks[c].answer # None}}

\* What the page shows of a reader is true, but for an answer it is to receive.
InLists(u) ==
  \A L \in Lists : u \in DOMAIN L \ removed =>
    /\ Told("delete", u) \/ Exists(u)
    /\ Pending(u) \/ u \in DOMAIN overrides \/ L[u] = status[u]

InDetails(u) ==
  selected # None /\ selected.user = u =>
    /\ Told("delete", u) \/ Exists(u)
    /\ Pending(u) \/ selected.status = status[u]

InOverrides(u) == u \in DOMAIN overrides /\ Exists(u) => Pending(u) \/ overrides[u] = status[u]
InRemoved(u) == u \in removed => status[u] = "gone"

\* And the answer is right.
InAnswers(u) ==
  /\ Told("block", u) /\ Exists(u) => status[u] = "blocked"
  /\ Told("unblock", u) /\ Exists(u) => status[u] = "active"
  /\ Told("delete", u) => status[u] = IF asks["delete"].status = "inactive" THEN "gone" ELSE "inactive"
  /\ Told("save", u) => Exists(u) /\ status[u] = asks["save"].answer.data.status

Sound(u) ==
  u \notin unknown => InLists(u) /\ InDetails(u) /\ InOverrides(u) /\ InRemoved(u) /\ InAnswers(u)

UsersSafe == UsersTyped /\ FormHeld /\ \A u \in Readers : Sound(u)

-----------------------------------------------------------------------------
\* A reader whose change is neither made nor told in the step.
LEMMA QuietSound ==
  ASSUME NEW u \in Readers, Sound(u),
         u \notin unknown' =>
           /\ u \notin unknown /\ status'[u] = status[u]
           /\ \A k \in Changes : Told(k, u)' <=> Told(k, u)
           /\ \A k \in Changes : Told(k, u) => asks'[k] = asks[k],
         \A L \in Lists' : u \in DOMAIN L =>
           \/ \E M \in Lists : u \in DOMAIN M /\ M[u] = L[u]
           \/ Exists(u) /\ L[u] = status[u],
         u \in DOMAIN overrides' <=> u \in DOMAIN overrides,
         u \in DOMAIN overrides => overrides'[u] = overrides[u],
         u \in removed' <=> u \in removed,
         u \notin unknown /\ selected' # None /\ selected'.user = u =>
           \/ selected' = selected
           \/ /\ Told("delete", u) \/ Exists(u)
              /\ Pending(u) \/ selected'.status = status[u]
  PROVE  Sound(u)'
<1> SUFFICES ASSUME u \notin unknown' PROVE Sound(u)'
  BY DEF Sound
<1>1. u \notin unknown /\ status'[u] = status[u] /\ (Exists(u)' <=> Exists(u))
  BY DEF Exists
<1>2. \A k \in {"block", "unblock", "delete", "save"} :
        (Told(k, u)' <=> Told(k, u)) /\ (Told(k, u) => asks'[k] = asks[k])
  BY DEF Changes
<1>3. Pending(u)' <=> Pending(u)
  BY <1>2 DEF Pending
<1>4. InLists(u)'
  BY <1>1, <1>2, <1>3 DEF Sound, InLists
<1>5. InDetails(u)'
  BY <1>1, <1>2, <1>3 DEF Sound, InDetails
<1>6. InOverrides(u)'
  BY <1>1, <1>3 DEF Sound, InOverrides
<1>7. InRemoved(u)'
  BY <1>1 DEF Sound, InRemoved
<1>8. InAnswers(u)'
  BY <1>1, <1>2 DEF Sound, InAnswers
<1> QED  BY <1>4, <1>5, <1>6, <1>7, <1>8 DEF Sound

LEMMA SameLists ==
  ASSUME UNCHANGED <<found, paged, usePaged, created>>,
         \A k \in {"search", "paginate"} : asks'[k] = asks[k]
  PROVE  Lists' = Lists
<1>1. \A k \in {"search", "paginate"} : Flying(k)' <=> Flying(k)
  BY DEF Flying
<1> QED  BY <1>1 DEF Lists

LEMMA ListsTyped ==
  ASSUME UsersTyped, NEW L \in Lists
  PROVE  ListOK(L)
<1>1. CASE L \in ({found, paged} \ {None}) \cup {created}
  BY <1>1 DEF UsersTyped, PageTyped
<1>2. ASSUME NEW k \in {"search", "paginate"}, Flying(k), asks[k].answer # None, L = asks[k].answer.data
      PROVE  ListOK(L)
  BY <1>2, KindNames DEF UsersTyped, CallsTyped, AnswerOK, Flying
<1> QED  BY <1>1, <1>2 DEF Lists

\* What the table shows of a reader is as true as the listing it comes from.
LEMMA ShownRight ==
  ASSUME NEW u \in Shown, Sound(u), u \notin unknown
  PROVE  /\ Told("delete", u) \/ Exists(u)
         /\ Pending(u) \/ ShownStatus(u) = status[u]
<1>1. GetUsers # None /\ u \notin removed /\ u \in DOMAIN GetUsers \cup DOMAIN created
  BY DEF Shown
<1>2. GetUsers \in Lists /\ created \in Lists
  BY <1>1 DEF GetUsers, Lists
<1>3. PICK L \in Lists : u \in DOMAIN L /\ (u \in DOMAIN overrides \/ ShownStatus(u) = L[u])
  BY <1>1, <1>2 DEF ShownStatus
<1>4. /\ Told("delete", u) \/ Exists(u)
      /\ Pending(u) \/ u \in DOMAIN overrides \/ L[u] = status[u]
  BY <1>1, <1>3 DEF Sound, InLists
<1>5. Told("delete", u) => Pending(u)
  BY DEF Pending
<1>6. u \in DOMAIN overrides => ShownStatus(u) = overrides[u]
  BY DEF ShownStatus
<1> QED  BY <1>3, <1>4, <1>5, <1>6 DEF Sound, InOverrides

\* Calls that are asked anew, given up or answered.
LEMMA ToldOthers ==
  ASSUME CallsTyped, NEW k \in Kinds, NEW c, asks' = [asks EXCEPT ![k] = c], NEW u,
         c # None => (c.answer = None \/ k \notin Changes),
         Told(k, u) /\ k \in Changes => u \in unknown',
         u \notin unknown'
  PROVE  /\ \A j \in Changes : Told(j, u)' <=> Told(j, u)
         /\ \A j \in Changes : Told(j, u) => asks'[j] = asks[j]
<1>1. asks'[k] = c /\ \A j \in Kinds \ {k} : asks'[j] = asks[j]
  BY DEF CallsTyped
<1>2. k \in Changes => ~Told(k, u)' /\ ~Told(k, u)
  BY <1>1 DEF Told, Flying
<1>3. \A j \in Kinds \ {k} : Told(j, u)' <=> Told(j, u)
  BY <1>1 DEF Told, Flying
<1> QED  BY <1>1, <1>2, <1>3, KindNames

LEMMA LooksSound ==
  ASSUME UsersSafe, NEW u \in Readers,
         \/ \E w \in Readers : OnDeactivateOrDeleteUser(w)
         \/ OnCancelDelete \/ OnDetails \/ OnEditUserClick \/ OnCreateUserClick
  PROVE  Sound(u)'
<1>1. UNCHANGED <<status, found, paged, usePaged, overrides, created, removed, asks, strays, unknown>>
  BY DEF OnDeactivateOrDeleteUser, OnCancelDelete, OnDetails, OnEditUserClick, OnCreateUserClick,
         Look, OpenForm
<1>2. Lists' = Lists
  BY <1>1, SameLists
<1>3. \A k \in Changes : Told(k, u)' <=> Told(k, u)
  BY <1>1 DEF Told, Flying
<1>4. ASSUME u \notin unknown, selected' # None, selected'.user = u
      PROVE  \/ selected' = selected
             \/ /\ Told("delete", u) \/ Exists(u)
                /\ Pending(u) \/ selected'.status = status[u]
  <2>1. ASSUME NEW w \in Shown, Look(Row(w, ShownStatus(w)))
        PROVE  /\ Told("delete", u) \/ Exists(u)
               /\ Pending(u) \/ selected'.status = status[u]
    <3>1. w = u /\ selected'.status = ShownStatus(u)
      BY <1>4, <2>1 DEF Look, Row
    <3> QED  BY <1>4, <3>1, ShownRight DEF UsersSafe
  <2>2. selected' \in {selected, None} \/ \E w \in Shown : Look(Row(w, ShownStatus(w)))
    BY DEF OnDeactivateOrDeleteUser, OnCancelDelete, OnDetails, OnEditUserClick, OnCreateUserClick,
           Look, OpenForm
  <2> QED  BY <1>4, <2>1, <2>2
<1> QED  BY <1>1, <1>2, <1>3, <1>4, QuietSound DEF UsersSafe

LEMMA AsksSound ==
  ASSUME UsersSafe, NEW u \in Readers,
         \/ \E w \in Readers : OnBlockUser(w) \/ OnUnblockUser(w)
         \/ \E n \in {1, 2} : OnPaginateUsers(n)
         \/ OnConfirmDeactivateOrDeleteUser \/ SubmitForm
  PROVE  Sound(u)'
<1>1. UNCHANGED <<status, found, overrides, created, removed, selected>>
  BY DEF OnBlockUser, OnUnblockUser, OnPaginateUsers, OnConfirmDeactivateOrDeleteUser, SubmitForm,
         pageState
<1>2. PICK k, w, s :
        /\ k \in Changes \cup {"paginate"}
        /\ Mutate(Call(k, w, s))
        /\ k = "paginate" => paged' = None /\ usePaged' = TRUE
        /\ k # "paginate" => UNCHANGED <<paged, usePaged>>
  BY DEF OnBlockUser, OnUnblockUser, OnPaginateUsers, OnConfirmDeactivateOrDeleteUser, SubmitForm,
         pageState, Changes
<1>3. PICK c : c = Call(k, w, s)
  OBVIOUS
<1>4. c.kind = k /\ c.answer = None
  BY <1>3 DEF Call
<1>5. asks' = [asks EXCEPT ![k] = c] /\ Drop(k) /\ k \in Kinds /\ CallsTyped
  BY <1>2, <1>3, <1>4, KindNames DEF Mutate, UsersSafe, UsersTyped, Kinds
<1>6. unknown \subseteq unknown' /\ (Told(k, u) /\ k \in Changes => u \in unknown')
  BY <1>5, DropTyped DEF Told
<1>7. u \notin unknown' => /\ \A j \in Changes : Told(j, u)' <=> Told(j, u)
                           /\ \A j \in Changes : Told(j, u) => asks'[j] = asks[j]
  BY <1>4, <1>5, <1>6, ToldOthers
<1>8. asks'[k] = c /\ \A j \in Kinds \ {k} : asks'[j] = asks[j]
  BY <1>5 DEF CallsTyped
<1>9. Lists' \subseteq Lists
  <2>1. CASE k = "paginate"
    <3>1. asks'["search"] = asks["search"] /\ asks'["paginate"] = c
      BY <1>8, <2>1 DEF Kinds
    <3> QED  BY <1>1, <1>2, <1>4, <2>1, <3>1 DEF Lists, Flying
  <2>2. CASE k # "paginate"
    <3>1. \A j \in {"search", "paginate"} : asks'[j] = asks[j]
      BY <1>2, <1>8, <2>2, KindNames
    <3> QED  BY <1>1, <1>2, <2>2, <3>1, SameLists
  <2> QED  BY <2>1, <2>2
<1> QED  BY <1>1, <1>6, <1>7, <1>9, QuietSound DEF UsersSafe

\* Whoever is in no change when a search starts is known again.
LEMMA SearchSound ==
  ASSUME UsersSafe, NEW u \in Readers, OnSearchUsers
  PROVE  Sound(u)'
<1> SUFFICES ASSUME u \notin unknown' PROVE Sound(u)'
  BY DEF Sound
<1>1. PICK c : c = Call("search", None, None)
  OBVIOUS
<1>2. c.answer = None /\ asks' = [asks EXCEPT !["search"] = c]
  BY <1>1 DEF OnSearchUsers, Call
<1>3. asks'["search"] = c /\ \A j \in Kinds \ {"search"} : asks'[j] = asks[j]
  BY <1>2, KindNames DEF UsersSafe, UsersTyped, CallsTyped
<1>4. \A j \in Changes : (Told(j, u)' <=> Told(j, u)) /\ asks'[j] = asks[j]
  BY <1>3, KindNames DEF Told, Flying
<1>5. Lists' = {Nobody}
  BY <1>2, <1>3 DEF OnSearchUsers, Lists, Flying
<1>6. /\ status' = status /\ removed' = {} /\ selected' = None /\ overrides' = Nobody
      /\ DOMAIN Nobody = {} /\ form = None
  BY DEF OnSearchUsers, TableReachable, Nobody
<1>7. InLists(u)' /\ InDetails(u)' /\ InOverrides(u)' /\ InRemoved(u)'
  BY <1>5, <1>6 DEF InLists, InDetails, InOverrides, InRemoved
<1>8. ASSUME NEW j \in Changes, Told(j, u) PROVE u \notin unknown
  <2>1. ~Flying("save")
    BY <1>6 DEF UsersSafe, FormHeld
  <2>2. j \in {"block", "unblock", "delete"} /\ asks[j] # None
    BY <1>8, <2>1 DEF Told, Flying, Changes
  <2>3. CallOK(j, asks[j]) /\ AnswerOK(j, asks[j])
    BY <1>8, <2>2, KindNames DEF UsersSafe, UsersTyped, CallsTyped
  <2>4. asks[j].user = u
    BY <1>8, <2>2, <2>3, UsersPageAssumption DEF CallOK, AnswerOK, Told, Born
  <2>5. u \in Changing
    BY <1>8, <2>2, <2>4 DEF Changing, Flying
  <2> QED  BY <2>5 DEF OnSearchUsers
<1>9. Exists(u)' <=> Exists(u)
  BY <1>6 DEF Exists
<1>10. InAnswers(u)'
  <2>1. \A j \in {"block", "unblock", "delete", "save"} :
          (Told(j, u)' <=> Told(j, u)) /\ asks'[j] = asks[j] /\ (Told(j, u) => u \notin unknown)
    BY <1>4, <1>8 DEF Changes
  <2> QED  BY <1>6, <1>9, <2>1 DEF InAnswers, UsersSafe, Sound
<1> QED  BY <1>7, <1>10 DEF Sound

\* A call is forgotten: the form is closed, or the request fails.
LEMMA ForgetSound ==
  ASSUME UsersSafe, NEW u \in Readers, NEW k \in Kinds,
         UNCHANGED <<status, found, paged, usePaged, overrides, created, removed, selected>>,
         asks' = [asks EXCEPT ![k] = None], unknown \subseteq unknown',
         Told(k, u) /\ k \in Changes => u \in unknown'
  PROVE  Sound(u)'
<1>1. u \notin unknown' => /\ \A j \in Changes : Told(j, u)' <=> Told(j, u)
                           /\ \A j \in Changes : Told(j, u) => asks'[j] = asks[j]
  BY ToldOthers DEF UsersSafe, UsersTyped
<1>2. asks'[k] = None /\ \A j \in Kinds \ {k} : asks'[j] = asks[j]
  BY DEF UsersSafe, UsersTyped, CallsTyped
<1>3. Lists' \subseteq Lists
  <2>1. \A j \in {"search", "paginate"} : asks'[j] \in {asks[j], None}
    BY <1>2 DEF Kinds
  <2> QED  BY <2>1 DEF Lists, Flying
<1> QED  BY <1>1, <1>3, QuietSound DEF UsersSafe

LEMMA CloseSound ==
  ASSUME UsersSafe, NEW u \in Readers, OnCloseUserForm
  PROVE  Sound(u)'
<1>1. /\ UNCHANGED <<status, found, paged, usePaged, overrides, created, removed, selected>>
      /\ asks' = [asks EXCEPT !["save"] = None] /\ Drop("save") /\ "save" \in Kinds
  BY DEF OnCloseUserForm, Kinds
<1>2. unknown \subseteq unknown' /\ (Told("save", u) => u \in unknown')
  BY <1>1, DropTyped DEF Told, UsersSafe, UsersTyped, Changes
<1> QED  BY <1>1, <1>2, ForgetSound

LEMMA FailSound ==
  ASSUME UsersSafe, NEW u \in Readers, NEW k \in Kinds, Fail(k)
  PROVE  Sound(u)'
<1>1. /\ UNCHANGED <<status, found, paged, usePaged, overrides, created, removed, selected>>
      /\ asks' = [asks EXCEPT ![k] = None] /\ unknown \subseteq unknown'
      /\ Told(k, u) /\ k \in Changes => u \in unknown'
  BY DEF Fail, Told
<1> QED  BY <1>1, ForgetSound

LEMMA ElsewhereSound ==
  ASSUME UsersSafe, NEW u \in Readers, Elsewhere
  PROVE  Sound(u)'
<1>1. PICK w \in Readers, s \in Statuses :
        status' = [status EXCEPT ![w] = s] /\ unknown' = unknown \cup {w}
  BY DEF Elsewhere
<1>2. u # w => status'[u] = status[u]
  BY <1>1 DEF UsersSafe, UsersTyped
<1>3. Lists' = Lists
  BY SameLists DEF Elsewhere, pageState
<1>4. \A j \in Changes : (Told(j, u)' <=> Told(j, u)) /\ asks'[j] = asks[j]
  BY DEF Elsewhere, Told, Flying
<1> QED  BY <1>1, <1>2, <1>3, <1>4, QuietSound DEF UsersSafe, Elsewhere, pageState

-----------------------------------------------------------------------------
LEMMA ServeListSound ==
  ASSUME UsersSafe, NEW u \in Readers, NEW k \in Kinds \ Changes, Serve(k)
  PROVE  Sound(u)'
<1>1. PICK rows : /\ \A w \in rows : w \in Readers /\ Exists(w)
                  /\ Answer(k, TRUE, [w \in rows |-> status[w]])
  BY DEF Serve, ServeList
<1>2. UNCHANGED <<status, pageState, strays, unknown>> /\ Flying(k)
  BY DEF Serve, ServeList
<1>3. PICK data : data = [w \in rows |-> status[w]]
  OBVIOUS
<1>4. PICK c : c = [asks[k] EXCEPT !.answer = [ok |-> TRUE, data |-> data]]
  OBVIOUS
<1>5. asks' = [asks EXCEPT ![k] = c]
  BY <1>1, <1>3, <1>4 DEF Answer
<1>6. asks'[k] = c /\ \A j \in Kinds \ {k} : asks'[j] = asks[j]
  BY <1>5 DEF UsersSafe, UsersTyped, CallsTyped
<1>7. CallOK(k, asks[k])
  BY <1>2 DEF UsersSafe, UsersTyped, CallsTyped, Flying
<1>8. c.answer = [ok |-> TRUE, data |-> data]
  BY <1>4, <1>7 DEF CallOK
<1>9. \A L \in Lists' : L \in Lists \/ L = data
  <2>1. \A j \in {"search", "paginate"} : asks'[j] = asks[j] \/ asks'[j] = c
    BY <1>6, KindNames
  <2>2. \A j \in {"search", "paginate"} :
          Flying(j)' /\ asks'[j].answer # None =>
            asks'[j].answer.data = data \/ (Flying(j) /\ asks[j].answer # None /\ asks'[j] = asks[j])
    BY <1>8, <2>1 DEF Flying
  <2> QED  BY <1>2, <2>2 DEF Lists, pageState
<1>10. \A L \in Lists' : u \in DOMAIN L => L \in Lists \/ (Exists(u) /\ L[u] = status[u])
  BY <1>1, <1>3, <1>9
<1>11. u \notin unknown' => /\ \A j \in Changes : Told(j, u)' <=> Told(j, u)
                            /\ \A j \in Changes : Told(j, u) => asks'[j] = asks[j]
  BY <1>5, ToldOthers DEF UsersSafe, UsersTyped
<1> QED  BY <1>2, <1>10, <1>11, QuietSound DEF UsersSafe, pageState

LEMMA StraySound ==
  ASSUME UsersSafe, NEW u \in Readers, NEW a \in strays, ServeStray(a)
  PROVE  Sound(u)'
<1>1. PICK k \in Changes : CallOK(k, a)
  BY DEF UsersSafe, UsersTyped, CallsTyped
<1>2. PICK w \in TargetOf(a) : Perform(a, w)
  BY DEF ServeStray
<1>3. unknown \subseteq unknown' /\ w \in unknown'
  BY <1>2 DEF Perform
<1>4. u # w => status'[u] = status[u]
  BY <1>1, <1>2, Performed DEF UsersSafe
<1>5. Lists' = Lists
  BY SameLists DEF ServeStray, pageState
<1>6. \A j \in Changes : (Told(j, u)' <=> Told(j, u)) /\ asks'[j] = asks[j]
  BY DEF ServeStray, Told, Flying
<1> QED  BY <1>3, <1>4, <1>5, <1>6, QuietSound DEF UsersSafe, ServeStray, pageState

\* Whoever is changed is in no other call, or is unknown from then on.
LEMMA NoOtherCall ==
  ASSUME UsersSafe, NEW k \in Changes, Flying(k), NEW u \in TargetOf(asks[k]), Perform(asks[k], u),
         u \notin unknown', asks[k].answer = None
  PROVE  /\ asks[k] \notin strays /\ u \notin unknown
         /\ \A j \in Changes : ~Told(j, u)
<1>1. PICK a : a = asks[k]
  OBVIOUS
<1>2. CallOK(k, a) /\ k \in Kinds
  BY <1>1, KindNames DEF UsersSafe, UsersTyped, CallsTyped, Flying
<1>3. a \notin strays /\ u \notin unknown /\ Crossing(a) = {}
  BY <1>1 DEF Perform
<1>4. a.kind = k /\ a.user \in {u, None} /\ (a.user = None => status[u] = "unborn")
  BY <1>1, <1>2, Performed DEF UsersSafe
<1>5. ASSUME NEW j \in Changes, Told(j, u) PROVE FALSE
  <2>1. PICK b : b = asks[j]
    OBVIOUS
  <2>2. b # None /\ CallOK(j, b) /\ AnswerOK(j, b) /\ b.answer # None /\ b.answer.ok /\ b.answer.data.user = u
    BY <1>5, <2>1, KindNames DEF Told, Flying, UsersSafe, UsersTyped, CallsTyped
  <2>3. u \in Born /\ (b.user # None => b.user = u)
    BY <1>5, <2>2 DEF AnswerOK
  <2>4. a.user = u
    BY <1>4, <2>3 DEF Born
  <2>5. b # a /\ j # k
    BY <1>1, <2>1, <2>2
  <2>6. CASE b.user = u
    BY <1>3, <2>1, <2>2, <2>4, <2>5, <2>6 DEF Crossing
  <2>7. CASE b.user = None
    <3>1. j = "save"
      BY <2>2, <2>7, UsersPageAssumption DEF CallOK, Changes, Born
    <3>2. u \in Readers
      BY <2>3 DEF Born
    <3> QED  BY <1>1, <1>5, <2>1, <2>4, <2>7, <3>1, <3>2 DEF UsersSafe, FormHeld
  <2> QED  BY <2>3, <2>6, <2>7
<1> QED  BY <1>1, <1>3, <1>5

LEMMA ServedCall ==
  ASSUME UsersSafe, NEW k \in Changes, Serve(k)
  PROVE  /\ Flying(k) /\ asks[k].answer = None /\ CallOK(k, asks[k])
         /\ UNCHANGED <<found, paged, usePaged, overrides, created, removed, selected, confirming,
                        form, strays>>
         /\ Lists' = Lists
         /\ \A j \in Kinds \ {k} : asks'[j] = asks[j]
         /\ asks'[k] = [kind |-> k, user |-> asks[k].user, status |-> asks[k].status, answer |-> asks'[k].answer]
         /\ \/ asks'[k].answer = [ok |-> FALSE, data |-> None] /\ UNCHANGED <<status, unknown>>
            \/ \E u \in TargetOf(asks[k]) :
                 /\ asks[k].user # None => Accepted(asks[k])
                 /\ Perform(asks[k], u)
                 /\ asks'[k].answer = [ok |-> TRUE, data |-> Row(u, status'[u])]
<1>1. /\ Flying(k) /\ asks[k].answer = None /\ k \in Kinds
      /\ UNCHANGED <<found, paged, usePaged, overrides, created, removed, selected, confirming, form, strays>>
  BY KindNames DEF Serve, ServeChange, pageState
<1>2. CallOK(k, asks[k])
  BY <1>1 DEF UsersSafe, UsersTyped, CallsTyped, Flying
<1>3. ASSUME NEW ok, NEW data, Answer(k, ok, data)
      PROVE  /\ \A j \in Kinds \ {k} : asks'[j] = asks[j]
             /\ asks'[k] = [kind |-> k, user |-> asks[k].user, status |-> asks[k].status, answer |-> asks'[k].answer]
             /\ asks'[k].answer = [ok |-> ok, data |-> data]
  <2>1. PICK c : c = [asks[k] EXCEPT !.answer = [ok |-> ok, data |-> data]]
    OBVIOUS
  <2>2. /\ c = [kind |-> k, user |-> asks[k].user, status |-> asks[k].status, answer |-> c.answer]
        /\ c.answer = [ok |-> ok, data |-> data]
    BY <1>2, <2>1 DEF CallOK
  <2>3. asks'[k] = c /\ \A j \in Kinds \ {k} : asks'[j] = asks[j]
    BY <1>1, <1>3, <2>1 DEF Answer, UsersSafe, UsersTyped, CallsTyped
  <2> QED  BY <2>2, <2>3
<1>4. \/ Answer(k, FALSE, None) /\ UNCHANGED <<status, unknown>>
      \/ \E u \in TargetOf(asks[k]) :
           /\ asks[k].user # None => Accepted(asks[k])
           /\ Perform(asks[k], u) /\ Answer(k, TRUE, Row(u, status'[u]))
  BY DEF Serve, ServeChange
<1>5. \A j \in Kinds \ {k} : asks'[j] = asks[j]
  BY <1>3, <1>4
<1>6. Lists' = Lists
  BY <1>1, <1>5, SameLists, KindNames
<1> QED  BY <1>1, <1>2, <1>3, <1>4, <1>5, <1>6

LEMMA ServeChangeSound ==
  ASSUME UsersSafe, UsersTyped', NEW u \in Readers, NEW k \in Changes, Serve(k)
  PROVE  Sound(u)'
<1>1. /\ UNCHANGED <<overrides, created, removed, selected>> /\ Lists' = Lists
      /\ \A j \in Changes \ {k} : asks'[j] = asks[j]
      /\ ~Told(k, u)
  BY ServedCall, KindNames DEF Told
<1>2. \A j \in Changes \ {k} : Told(j, u)' <=> Told(j, u)
  BY <1>1 DEF Told, Flying
<1>3. CASE asks'[k].answer = [ok |-> FALSE, data |-> None] /\ UNCHANGED <<status, unknown>>
  <2>1. ~Told(k, u)'
    BY <1>3 DEF Told
  <2> QED  BY <1>1, <1>2, <1>3, <2>1, QuietSound DEF UsersSafe
<1>4. ASSUME NEW w \in TargetOf(asks[k]), asks[k].user # None => Accepted(asks[k]),
             Perform(asks[k], w), asks'[k].answer = [ok |-> TRUE, data |-> Row(w, status'[w])]
      PROVE  Sound(u)'
  <2>1. PICK a : a = asks[k]
    OBVIOUS
  <2>2. CallOK(k, a) /\ a # None /\ k \in Kinds
    BY <2>1, ServedCall, KindNames DEF Flying
  <2>3. /\ w \in Readers /\ a.user \in {w, None} /\ a.kind = k
        /\ status' \in [Readers -> Statuses \cup {"unborn", "gone"}]
        /\ \A v \in Readers \ {w} : status'[v] = status[v]
        /\ a.user = None => k = "save" /\ status[w] = "unborn" /\ status'[w] = a.status
        /\ a.user # None /\ ~Exists(w) => status'[w] = status[w]
        /\ a.user # None /\ Exists(w) =>
             /\ k = "block" => status'[w] = "blocked"
             /\ k = "unblock" => status'[w] = "active"
             /\ k = "save" => status'[w] = a.status
             /\ k = "delete" => status'[w] = IF status[w] = "inactive" THEN "gone" ELSE "inactive"
    BY <1>4, <2>1, <2>2, Performed DEF UsersSafe
  <2>4. CASE u # w
    <3>1. ~Told(k, u)'
      BY <1>4, <2>4 DEF Told, Row
    <3>2. u \notin unknown' => u \notin unknown
      BY <1>4 DEF Perform
    <3> QED  BY <1>1, <1>2, <2>3, <2>4, <3>1, <3>2, QuietSound DEF UsersSafe
  <2>5. CASE u = w /\ u \notin unknown'
    <3>1. u \notin unknown /\ \A j \in Changes : ~Told(j, u)
      BY <1>4, <2>5, NoOtherCall, ServedCall
    <3>2. ~Pending(u)
      BY <3>1 DEF Pending, Changes
    <3>3. /\ asks'[k].answer # None
          /\ asks'[k].answer \in [ok : BOOLEAN, data : {None} \cup [user : Readers, status : Statuses \cup {"gone"}]]
      <4>1. u \in Born'
        BY <1>4, <2>1, <2>2, <2>5, PerformTyped DEF UsersSafe
      <4>2. status'[w] \in Statuses \cup {"gone"}
        BY <2>3, <2>5, <4>1 DEF Born
      <4>3. asks'[k].answer \in [ok : BOOLEAN, data : {None} \cup [user : Readers, status : Statuses \cup {"gone"}]]
        BY <1>4, <2>3, <4>2 DEF Row
      <4> QED  BY <4>3, UsersPageAssumption
    <3>4. asks'[k].answer.ok /\ asks'[k].answer.data.user = u /\ asks'[k].answer.data.status = status'[u]
      BY <1>4, <2>5 DEF Row
    <3>5. asks'[k] # None /\ asks'[k].status = a.status
      <4>1. PICK b, answer : b = asks'[k] /\ answer = asks'[k].answer
        OBVIOUS
      <4>2. b = [kind |-> k, user |-> a.user, status |-> a.status, answer |-> answer]
        BY <2>1, <4>1, ServedCall
      <4>3. a.user \in Readers \cup {None} /\ a.status \in Statuses \cup {None}
        BY <2>2, <2>3 DEF CallOK
      <4>4. b.status = a.status /\ b # None
        BY <3>3, <4>1, <4>2, <4>3, UsersPageAssumption DEF Changes
      <4> QED  BY <4>1, <4>4
    <3>6. Told(k, u)' /\ \A j \in Changes \ {k} : ~Told(j, u)'
      BY <1>2, <3>1, <3>3, <3>4, <3>5 DEF Told, Flying
    <3>7. /\ k = "save" => status'[u] = status[u] \/ status[u] = "unborn"
          /\ k = "delete" => ((a.status = "inactive") <=> (status'[u] = "gone"))
      BY <1>4, <2>1, <2>3, <2>5 DEF Perform
    <3>9. InLists(u) /\ InDetails(u) /\ InOverrides(u) /\ InRemoved(u)
      BY <3>1 DEF UsersSafe, Sound
    <3>10. CASE k \in {"block", "unblock", "delete"}
      <4>1. Pending(u)' /\ a.user # None /\ ~Told("delete", u)
        BY <2>3, <3>1, <3>6, <3>10 DEF Pending, Changes
      <4>2. Exists(u) => Told("delete", u)' \/ Exists(u)'
        BY <2>3, <2>5, <3>6, <3>10, <4>1, StatusNames DEF Exists
      <4>3. Exists(u)' => Exists(u)
        BY <2>3, <2>5, <4>1 DEF Exists
      <4>4. InLists(u)' /\ InDetails(u)' /\ InOverrides(u)'
        BY <1>1, <3>9, <4>1, <4>2 DEF InLists, InDetails, InOverrides
      <4>5. InRemoved(u)'
        BY <1>1, <2>3, <2>5, <3>9, <4>1, StatusNames DEF InRemoved, Exists
      <4>6. k = "delete" => Exists(u)
        BY <1>4, <2>1, <2>3, <2>5, <4>1 DEF Accepted
      <4>7. InAnswers(u)'
        BY <2>3, <2>5, <3>5, <3>6, <3>7, <3>10, <4>1, <4>3, <4>6 DEF InAnswers, Changes
      <4> QED  BY <4>4, <4>5, <4>7 DEF Sound
    <3>11. CASE k = "save"
      <4>1. Exists(u)'
        BY <1>4, <2>1, <2>2, <2>5, <3>11, PerformTyped DEF UsersSafe, Exists
      <4>2. InAnswers(u)'
        BY <3>4, <3>6, <3>11, <4>1 DEF InAnswers, Changes
      <4>3. CASE status'[u] = status[u]
        <5>1. (Exists(u)' <=> Exists(u)) /\ ~Told("delete", u)
          BY <3>1, <4>3 DEF Exists, Changes
        <5>2. InLists(u)' /\ InDetails(u)' /\ InOverrides(u)' /\ InRemoved(u)'
          BY <1>1, <3>2, <3>9, <4>1, <4>3, <5>1 DEF InLists, InDetails, InOverrides, InRemoved
        <5> QED  BY <4>2, <5>2 DEF Sound
      <4>4. CASE status[u] = "unborn"
        <5>1. u \notin Born
          BY <4>4 DEF Born
        <5>2. (\A L \in Lists : u \notin DOMAIN L) /\ u \notin DOMAIN overrides /\ u \notin removed
          BY <5>1, ListsTyped DEF UsersSafe, UsersTyped, PageTyped, ListOK
        <5>3. ~(selected # None /\ selected.user = u)
          BY <5>1 DEF UsersSafe, UsersTyped, PageTyped
        <5>4. InLists(u)' /\ InDetails(u)' /\ InOverrides(u)' /\ InRemoved(u)'
          BY <1>1, <5>2, <5>3 DEF InLists, InDetails, InOverrides, InRemoved
        <5> QED  BY <4>2, <5>4 DEF Sound
      <4> QED  BY <3>7, <3>11, <4>3, <4>4
    <3> QED  BY <3>10, <3>11 DEF Changes
  <2> QED  BY <2>4, <2>5 DEF Sound
<1> QED  BY <1>3, <1>4, ServedCall

-----------------------------------------------------------------------------
\* The call that is answered is forgotten, the others go on.
LEMMA ToldAfter ==
  ASSUME CallsTyped, NEW k \in Kinds, asks' = [asks EXCEPT ![k] = None], NEW u
  PROVE  /\ ~Told(k, u)'
         /\ \A j \in Changes \ {k} : (Told(j, u)' <=> Told(j, u)) /\ asks'[j] = asks[j]
<1>1. asks'[k] = None /\ \A j \in Kinds \ {k} : asks'[j] = asks[j]
  BY DEF CallsTyped
<1> QED  BY <1>1, KindNames DEF Told, Flying

LEMMA AnswersAfter ==
  ASSUME UsersSafe, NEW k \in Kinds, asks' = [asks EXCEPT ![k] = None], NEW u \in Readers,
         u \notin unknown, status' = status
  PROVE  InAnswers(u)'
<1>1. \A j \in {"block", "unblock", "delete", "save"} :
        Told(j, u)' => Told(j, u) /\ asks'[j] = asks[j]
  BY ToldAfter DEF UsersSafe, UsersTyped, Changes
<1>2. Exists(u)' <=> Exists(u)
  BY DEF Exists
<1> QED  BY <1>1, <1>2 DEF UsersSafe, Sound, InAnswers

\* A status laid over the rows of the reader whose change is told.
LEMMA ApplySound ==
  ASSUME UsersSafe, NEW k \in {"block", "unblock", "delete"}, asks' = [asks EXCEPT ![k] = None],
         NEW u \in Readers, u \notin unknown, Told(k, u), NEW s, ApplyUserStatusChange(u, s),
         UNCHANGED <<status, unknown>>, Lists' = Lists,
         Exists(u) => status[u] = s, k = "delete" => Exists(u)
  PROVE  Sound(u)'
<1>1. k \in Kinds /\ InLists(u) /\ InDetails(u) /\ InRemoved(u) /\ InOverrides(u)
  BY DEF Kinds, UsersSafe, Sound
<1>2. InAnswers(u)'
  BY <1>1, AnswersAfter
<1>3. /\ \A j \in {"block", "unblock", "delete"} \ {k} : Told(j, u)' <=> Told(j, u)
      /\ Exists(u)' <=> Exists(u)
  BY <1>1, ToldAfter DEF UsersSafe, UsersTyped, Changes, Exists
<1>4. Told("delete", u) \/ Exists(u) => Told("delete", u)' \/ Exists(u)'
  BY <1>3
<1>5. u \in DOMAIN overrides' /\ overrides'[u] = s /\ removed' = removed
  BY DEF ApplyUserStatusChange, Put
<1>6. InLists(u)'
  BY <1>1, <1>4, <1>5 DEF InLists
<1>7. InOverrides(u)'
  BY <1>3, <1>5 DEF InOverrides
<1>8. InRemoved(u)'
  BY <1>1, <1>5 DEF InRemoved
<1>9. InDetails(u)'
  <2> SUFFICES ASSUME selected' # None, selected'.user = u
               PROVE  /\ Told("delete", u)' \/ Exists(u)'
                      /\ Pending(u)' \/ selected'.status = status[u]
    BY DEF InDetails
  <2>1. selected # None /\ selected.user = u /\ selected' = Row(u, s)
    BY DEF ApplyUserStatusChange
  <2>2. Told("delete", u) \/ Exists(u)
    BY <1>1, <2>1 DEF InDetails
  <2>3. selected'.status = s
    BY <2>1 DEF Row
  <2>4. Told("delete", u)' => Pending(u)'
    BY DEF Pending
  <2> QED  BY <1>3, <1>4, <2>2, <2>3, <2>4
<1> QED  BY <1>2, <1>6, <1>7, <1>8, <1>9 DEF Sound

\* The other readers see nothing of it.
LEMMA OtherSound ==
  ASSUME UsersSafe, NEW k \in Changes, asks' = [asks EXCEPT ![k] = None], NEW u \in Readers,
         ~Told(k, u), UNCHANGED <<status, unknown, found, paged, usePaged>>,
         NEW v, v # u,
         overrides' = overrides \/ \E s : overrides' = Put(overrides, v, s),
         created' = created \/ \E s : created' = Put(created, v, s),
         removed' \in {removed, removed \cup {v}},
         selected' \in {selected, None} \/ selected'.user = v
  PROVE  Sound(u)'
<1>1. \A j \in Changes : (Told(j, u)' <=> Told(j, u)) /\ (Told(j, u) => asks'[j] = asks[j])
  BY ToldAfter, KindNames DEF UsersSafe, UsersTyped
<1>2. \A j \in {"search", "paginate"} : asks'[j] = asks[j]
  BY KindNames DEF UsersSafe, UsersTyped, CallsTyped
<1>3. \A L \in Lists' : L \in Lists \/ L = created'
  BY <1>2 DEF Lists, Flying
<1>4. created \in Lists
  BY DEF Lists
<1>5. \A L \in Lists' : u \in DOMAIN L => \E M \in Lists : u \in DOMAIN M /\ M[u] = L[u]
  <2>1. u \in DOMAIN created' => u \in DOMAIN created /\ created'[u] = created[u]
    BY DEF Put
  <2> QED  BY <1>3, <1>4, <2>1
<1>6. /\ u \in DOMAIN overrides' <=> u \in DOMAIN overrides
      /\ u \in DOMAIN overrides => overrides'[u] = overrides[u]
  BY DEF Put
<1> QED  BY <1>1, <1>5, <1>6, QuietSound DEF UsersSafe

LEMMA ReceiveListSound ==
  ASSUME UsersSafe, NEW u \in Readers, NEW k \in Kinds \ Changes, Receive(k)
  PROVE  Sound(u)'
<1>1. ReceiveList(k, asks[k].answer) /\ k \in {"search", "paginate"}
  BY ReceiveCases, KindNames DEF UsersSafe, Changes
<1>2. /\ UNCHANGED <<status, usePaged, unknown>> /\ asks' = [asks EXCEPT ![k] = None]
      /\ asks[k].answer # None /\ Flying(k)
  BY Answered DEF UsersSafe, Receive
<1>3. asks'[k] = None /\ \A j \in Kinds \ {k} : asks'[j] = asks[j]
  BY <1>2 DEF UsersSafe, UsersTyped, CallsTyped
<1>4. \A j \in {"search", "paginate"} : asks'[j] \in {asks[j], None}
  BY <1>3 DEF Kinds
<1>5. Lists' \subseteq Lists
  <2>1. CASE k = "search"
    BY <1>1, <1>2, <1>4, <2>1 DEF ReceiveList, Lists, Flying
  <2>2. CASE k = "paginate"
    BY <1>1, <1>2, <1>4, <2>2 DEF ReceiveList, Lists, Flying
  <2> QED  BY <1>1, <2>1, <2>2
<1>6. UNCHANGED <<overrides, removed, selected>>
  BY <1>1 DEF ReceiveList, NothingApplied
<1>7. \A j \in Changes : (Told(j, u)' <=> Told(j, u)) /\ asks'[j] = asks[j]
  BY <1>3, KindNames DEF Told, Flying
<1> QED  BY <1>2, <1>5, <1>6, <1>7, QuietSound DEF UsersSafe

LEMMA ReceiveChangeSound ==
  ASSUME UsersSafe, NEW u \in Readers, NEW k \in Changes, Receive(k)
  PROVE  Sound(u)'
<1> DEFINE answer == asks[k].answer
<1>1. /\ UNCHANGED <<status, usePaged, unknown>> /\ asks' = [asks EXCEPT ![k] = None]
      /\ Flying(k) /\ answer # None /\ k \in Kinds
      /\ answer.ok => /\ answer.data.user \in Born
                      /\ k \in {"block", "unblock", "delete"} => answer.data.user = asks[k].user
                      /\ k = "save" => answer.data \in [user : Born, status : Statuses]
  BY Answered, KindNames DEF UsersSafe, Receive
<1>2. \/ k \in {"block", "unblock"} /\ ReceiveStatus(k, answer)
      \/ k = "delete" /\ ReceiveDelete(answer)
      \/ k = "save" /\ OnUserSaved(answer)
  BY <1>1, ReceiveCases DEF UsersSafe
<1>3. Told(k, u) <=> answer.ok /\ answer.data.user = u
  BY <1>1 DEF Told
<1> HIDE DEF answer
<1>4. UNCHANGED <<found, paged>>
  BY <1>2 DEF ReceiveStatus, ReceiveDelete, OnUserSaved
<1>5. CASE ~answer.ok
  <2>1. UNCHANGED <<overrides, created, removed, selected>>
    BY <1>2, <1>5 DEF ReceiveStatus, ReceiveDelete, OnUserSaved, NothingApplied
  <2> QED  BY <1>1, <1>3, <1>4, <1>5, <2>1, ForgetSound
<1>6. CASE answer.ok /\ answer.data.user # u
  <2>1. /\ overrides' = overrides \/ \E s : overrides' = Put(overrides, answer.data.user, s)
        /\ created' = created \/ \E s : created' = Put(created, answer.data.user, s)
        /\ removed' \in {removed, removed \cup {answer.data.user}}
        /\ selected' \in {selected, None} \/ selected'.user = answer.data.user
    <3>1. CASE k \in {"block", "unblock"}
      BY <1>1, <1>2, <1>6, <3>1 DEF ReceiveStatus, ApplyUserStatusChange, Row
    <3>2. CASE k = "delete"
      BY <1>1, <1>2, <1>6, <3>2 DEF ReceiveDelete, ApplyUserStatusChange, Row
    <3>3. CASE k = "save"
      BY <1>2, <1>6, <3>3 DEF OnUserSaved
    <3> QED  BY <3>1, <3>2, <3>3 DEF Changes
  <2> QED  BY <1>1, <1>3, <1>4, <1>6, <2>1, OtherSound
<1>7. CASE answer.ok /\ answer.data.user = u /\ u \notin unknown
  <2>1. Told(k, u) /\ InAnswers(u) /\ InLists(u) /\ InDetails(u) /\ InOverrides(u) /\ InRemoved(u)
    BY <1>3, <1>7 DEF UsersSafe, Sound
  <2>2. \A j \in {"search", "paginate"} : asks'[j] = asks[j]
    BY <1>1, KindNames DEF UsersSafe, UsersTyped, CallsTyped
  <2>3. created' = created => Lists' = Lists
    BY <1>1, <1>4, <2>2, SameLists
  <2>4. CASE k \in {"block", "unblock"}
    <3>1. PICK s : /\ ApplyUserStatusChange(u, s) /\ s = IF k = "block" THEN "blocked" ELSE "active"
                   /\ UNCHANGED created
      BY <1>1, <1>2, <1>7, <2>4 DEF ReceiveStatus
    <3>2. Exists(u) => status[u] = s
      BY <2>1, <2>4, <3>1 DEF InAnswers
    <3> QED  BY <1>1, <1>7, <2>1, <2>3, <2>4, <3>1, <3>2, ApplySound
  <2>5. CASE k = "delete"
    <3>1. status[u] = (IF asks["delete"].status = "inactive" THEN "gone" ELSE "inactive")
          /\ created' = created
      BY <1>2, <2>1, <2>5 DEF InAnswers, ReceiveDelete
    <3>2. CASE asks["delete"].status = "inactive"
      <4>1. /\ removed' = removed \cup {u} /\ ~(selected' # None /\ selected'.user = u)
            /\ overrides' = overrides
        BY <1>1, <1>2, <1>7, <2>5, <3>2 DEF ReceiveDelete
      <4>2. ~Exists(u)' /\ status'[u] = "gone"
        BY <1>1, <3>1, <3>2, StatusNames DEF Exists
      <4>3. InLists(u)' /\ InDetails(u)' /\ InOverrides(u)' /\ InRemoved(u)'
        BY <4>1, <4>2 DEF InLists, InDetails, InOverrides, InRemoved
      <4> QED  BY <1>1, <1>7, <4>3, AnswersAfter DEF Sound
    <3>3. CASE asks["delete"].status # "inactive"
      <4>1. ApplyUserStatusChange(u, "inactive")
        BY <1>1, <1>2, <1>7, <2>5, <3>3 DEF ReceiveDelete
      <4>2. Exists(u) /\ status[u] = "inactive"
        BY <3>1, <3>3, StatusNames DEF Exists
      <4> QED  BY <1>1, <1>7, <2>1, <2>3, <2>5, <3>1, <4>1, <4>2, ApplySound
    <3> QED  BY <3>2, <3>3
  <2>6. CASE k = "save"
    <3>1. PICK row : row = answer.data
      OBVIOUS
    <3>2. /\ created' = Put(created, u, row.status) /\ selected' = row /\ row.user = u
          /\ UNCHANGED <<overrides, removed>>
      BY <1>2, <1>7, <2>6, <3>1 DEF OnUserSaved
    <3>3. Exists(u) /\ status[u] = row.status
      BY <2>1, <2>6, <3>1 DEF InAnswers, answer
    <3>4. Exists(u)' /\ \A j \in {"block", "unblock", "delete"} : Told(j, u)' <=> Told(j, u)
      BY <1>1, <2>6, <3>3, ToldAfter DEF Exists, UsersSafe, UsersTyped, Changes
    <3>5. Pending(u)' <=> Pending(u)
      BY <3>4 DEF Pending
    <3>6. \A L \in Lists' : L \in Lists \/ L = created'
      BY <1>1, <1>4, <2>2 DEF Lists, Flying
    <3>7. created'[u] = row.status
      BY <3>2 DEF Put
    <3>8. InLists(u)'
      BY <1>1, <2>1, <3>2, <3>3, <3>4, <3>5, <3>6, <3>7 DEF InLists
    <3>9. InDetails(u)' /\ InOverrides(u)' /\ InRemoved(u)'
      BY <1>1, <2>1, <3>2, <3>3, <3>4, <3>5 DEF InDetails, InOverrides, InRemoved
    <3> QED  BY <1>1, <1>7, <3>8, <3>9, AnswersAfter DEF Sound
  <2> QED  BY <2>4, <2>5, <2>6 DEF Changes
<1> QED  BY <1>1, <1>5, <1>6, <1>7 DEF Sound

-----------------------------------------------------------------------------
\* No call is made, and the form stays or is closed.
LEMMA HeldKept ==
  ASSUME FormHeld, \A j \in Kinds : asks'[j] \in {asks[j], None},
         form' \in {form, None}, Flying("save")' => form' = form,
         form' # None => confirming' \in {confirming, None}
  PROVE  FormHeld'
<1>1. \A j \in Kinds : Flying(j)' => Flying(j) /\ asks'[j] = asks[j]
  BY DEF Flying
<1>2. "save" \in Kinds /\ Changes \subseteq Kinds
  BY KindNames DEF Kinds
<1>3. \A u \in Readers : Told("save", u)' => Told("save", u) /\ asks'["save"] = asks["save"]
  BY <1>1, <1>2 DEF Told
<1> QED  BY <1>1, <1>2, <1>3 DEF FormHeld

\* While nothing is being saved, any other call may be made.
LEMMA HeldFree ==
  ASSUME FormHeld, form = None, form' = None \/ confirming' = None,
         asks'["save"] = asks["save"]
  PROVE  FormHeld'
<1>1. ~Flying("save")'
  BY DEF FormHeld, Flying
<1> QED  BY <1>1 DEF FormHeld, Told

LEMMA StaffHeld ==
  ASSUME UsersSafe, UsersStaff
  PROVE  FormHeld'
<1>1. FormHeld /\ CallsTyped
  BY DEF UsersSafe, UsersTyped
<1>2. ASSUME NEW k \in Kinds, NEW w, NEW s, Mutate(Call(k, w, s))
      PROVE  /\ asks'[k] = Call(k, w, s)
             /\ \A j \in Kinds \ {k} : asks'[j] = asks[j]
  <2>1. PICK c : c = Call(k, w, s)
    OBVIOUS
  <2>2. c.kind = k
    BY <2>1 DEF Call
  <2> QED  BY <1>1, <1>2, <2>1, <2>2 DEF Mutate, CallsTyped
<1>3. CASE OnSearchUsers
  <2>1. asks'["save"] = asks["save"]
    BY <1>1, <1>3 DEF OnSearchUsers, CallsTyped, Kinds
  <2> QED  BY <1>1, <1>3, <2>1, HeldFree DEF OnSearchUsers, TableReachable
<1>4. ASSUME NEW n, OnPaginateUsers(n) PROVE FormHeld'
  <2>1. asks'["save"] = asks["save"]
    BY <1>2, <1>4 DEF OnPaginateUsers, Kinds
  <2> QED  BY <1>1, <1>4, <2>1, HeldFree DEF OnPaginateUsers, TableReachable
<1>5. ASSUME NEW u \in Readers, OnBlockUser(u) \/ OnUnblockUser(u) PROVE FormHeld'
  <2>1. asks'["save"] = asks["save"]
    BY <1>2, <1>5 DEF OnBlockUser, OnUnblockUser, Kinds
  <2> QED  BY <1>1, <1>5, <2>1, HeldFree DEF OnBlockUser, OnUnblockUser, Actionable, TableReachable, pageState
<1>6. CASE OnConfirmDeactivateOrDeleteUser
  <2>1. asks'["save"] = asks["save"]
    BY <1>2, <1>6 DEF OnConfirmDeactivateOrDeleteUser, Kinds
  <2>2. form = None
    BY <1>1, <1>6 DEF OnConfirmDeactivateOrDeleteUser, FormHeld
  <2> QED  BY <1>1, <1>6, <2>1, <2>2, HeldFree DEF OnConfirmDeactivateOrDeleteUser, pageState
<1>7. CASE SubmitForm
  <2>1. PICK w, s : Mutate(Call("save", w, s))
    BY <1>7 DEF SubmitForm
  <2>2. asks'["save"] = Call("save", w, s)
    BY <1>2, <2>1 DEF Kinds
  <2>3. asks'["save"].answer = None
    BY <2>2 DEF Call
  <2>4. form # None /\ UNCHANGED <<form, confirming>>
    BY <1>7 DEF SubmitForm, pageState
  <2>5. \A u \in Readers : ~Told("save", u)'
    BY <2>3 DEF Told
  <2> QED  BY <1>1, <2>4, <2>5 DEF FormHeld
<1>8. CASE OnCloseUserForm
  <2>1. \A j \in Kinds : asks'[j] \in {asks[j], None}
    BY <1>1, <1>8 DEF OnCloseUserForm, CallsTyped
  <2>2. ~Flying("save")' /\ form' = None
    BY <1>1, <1>8 DEF OnCloseUserForm, CallsTyped, Flying, Kinds
  <2> QED  BY <1>1, <2>1, <2>2, HeldKept
<1>9. CASE OnCancelDelete \/ OnDetails
  BY <1>1, <1>9, HeldKept DEF OnCancelDelete, OnDetails, Look
<1>10. CASE OnEditUserClick \/ OnCreateUserClick
  BY <1>1, <1>10, HeldFree DEF OnEditUserClick, OnCreateUserClick, OpenForm, TableReachable
<1>11. ASSUME NEW u \in Readers, OnDeactivateOrDeleteUser(u) PROVE FormHeld'
  BY <1>1, <1>11, HeldFree DEF OnDeactivateOrDeleteUser, Actionable, TableReachable
<1> QED  BY <1>3, <1>4, <1>5, <1>6, <1>7, <1>8, <1>9, <1>10, <1>11 DEF UsersStaff

LEMMA ServeHeld ==
  ASSUME UsersSafe, NEW k \in Kinds, Serve(k)
  PROVE  FormHeld'
<1>1. FormHeld /\ CallsTyped
  BY DEF UsersSafe, UsersTyped
<1>2. CASE k \notin Changes
  <2>1. \A j \in Kinds \ {k} : asks'[j] = asks[j]
    BY <1>1, <1>2 DEF Serve, ServeList, Answer, CallsTyped
  <2>2. UNCHANGED <<form, confirming>> /\ \A j \in Changes : asks'[j] = asks[j]
    BY <1>2, <2>1, KindNames DEF Serve, pageState
  <2>3. \A j \in Changes : Flying(j)' <=> Flying(j)
    BY <2>2 DEF Flying
  <2>4. \A u \in Readers : Told("save", u)' <=> Told("save", u)
    BY <2>2, <2>3 DEF Told, Changes
  <2>5. "save" \in Changes
    BY DEF Changes
  <2> QED  BY <1>1, <2>2, <2>3, <2>4, <2>5 DEF FormHeld
<1>3. CASE k \in Changes
  <2>1. /\ UNCHANGED <<form, confirming>> /\ Flying(k) /\ "save" \in Changes
        /\ \A j \in Changes : Flying(j)' => Flying(j) /\ asks'[j].user = asks[j].user
    <3>1. \A j \in Changes \ {k} : asks'[j] = asks[j]
      BY <1>3, ServedCall, KindNames
    <3>2. PICK b, user : b = asks'[k] /\ user = asks[k].user
      OBVIOUS
    <3>3. b = [kind |-> k, user |-> user, status |-> asks[k].status, answer |-> b.answer]
      BY <1>3, <3>2, ServedCall
    <3>4. b.user = user
      BY <3>3
    <3> QED  BY <1>3, <3>1, <3>2, <3>4, ServedCall DEF Flying, Changes
  <2>2. ASSUME NEW u \in Readers, Told("save", u)', asks'["save"].user = None,
               NEW j \in Changes, Flying(j)'
        PROVE  asks'[j].user # u
    <3>1. Flying(j) /\ Flying("save") /\ asks'[j].user = asks[j].user /\ asks["save"].user = None
      BY <2>1, <2>2 DEF Told
    <3>2. CASE k # "save"
      <4>1. asks'["save"] = asks["save"]
        BY <1>3, <3>2, ServedCall, KindNames DEF Kinds
      <4>2. Told("save", u)
        BY <2>2, <4>1 DEF Told, Flying
      <4> QED  BY <1>1, <3>1, <4>2 DEF FormHeld
    <3>3. CASE k = "save"
      <4>1. PICK w \in TargetOf(asks[k]) :
              Perform(asks[k], w) /\ asks'[k].answer = [ok |-> TRUE, data |-> Row(w, status'[w])]
        <5>1. PICK answer : answer = asks'[k].answer
          OBVIOUS
        <5>2. answer.ok
          BY <2>2, <3>3, <5>1 DEF Told
        <5>3. answer # [ok |-> FALSE, data |-> None]
          BY <5>2
        <5> QED  BY <1>3, <5>1, <5>3, ServedCall
      <4>2. w = u
        BY <2>2, <3>3, <4>1 DEF Told, Row
      <4>3. PICK a : a = asks[k]
        OBVIOUS
      <4>4. CallOK(k, a) /\ a.user = None
        BY <1>3, <3>1, <3>3, <4>3, ServedCall
      <4>5. status[u] = "unborn"
        BY <1>3, <4>1, <4>2, <4>3, <4>4, Performed DEF UsersSafe
      <4>6. CallOK(j, asks[j])
        BY <1>1, <3>1, KindNames DEF CallsTyped, Flying
      <4>7. asks[j].user \in Born \cup {None}
        BY <4>6 DEF CallOK, Changes
      <4> QED  BY <3>1, <4>5, <4>7, UsersPageAssumption DEF Born
    <3> QED  BY <3>2, <3>3
  <2> QED  BY <1>1, <2>1, <2>2 DEF FormHeld
<1> QED  BY <1>2, <1>3

LEMMA ReceiveHeld ==
  ASSUME UsersSafe, NEW k \in Kinds, Receive(k)
  PROVE  FormHeld'
<1>1. FormHeld /\ asks' = [asks EXCEPT ![k] = None] /\ CallsTyped
  BY Answered DEF UsersSafe, UsersTyped
<1>2. \A j \in Kinds : asks'[j] \in {asks[j], None}
  BY <1>1 DEF CallsTyped
<1>3. CASE k = "save"
  <2>1. ~Flying("save")'
    BY <1>1, <1>3 DEF CallsTyped, Flying
  <2>2. form' \in {form, None} /\ confirming' = confirming
    BY <1>3, ReceiveCases DEF UsersSafe, OnUserSaved, Changes
  <2> QED  BY <1>1, <1>2, <2>1, <2>2, HeldKept
<1>4. CASE k # "save"
  <2>1. form' = form /\ confirming' \in {confirming, None}
    BY <1>4, ReceiveCases DEF UsersSafe, ReceiveList, ReceiveStatus, ReceiveDelete
  <2> QED  BY <1>1, <1>2, <2>1, HeldKept
<1> QED  BY <1>3, <1>4

LEMMA UsersSafeStep == UsersSafe /\ [UsersNext]_usersVars => UsersSafe'
<1> SUFFICES ASSUME UsersSafe, [UsersNext]_usersVars PROVE UsersSafe'
  OBVIOUS
<1>1. UsersTyped /\ UsersTyped' /\ FormHeld /\ CallsTyped
  BY UsersStepTyped DEF UsersSafe, UsersTyped
<1>2. FormHeld'
  <2>1. ASSUME NEW k \in Kinds, Fail(k) PROVE FormHeld'
    <3>1. \A j \in Kinds : asks'[j] \in {asks[j], None}
      BY <1>1, <2>1 DEF Fail, CallsTyped
    <3> QED  BY <1>1, <2>1, <3>1, HeldKept DEF Fail
  <2>2. ASSUME UNCHANGED <<asks, form, confirming>> PROVE FormHeld'
    BY <1>1, <2>2, HeldKept
  <2>3. ASSUME NEW a \in strays, ServeStray(a) PROVE FormHeld'
    BY <2>2, <2>3 DEF ServeStray, pageState
  <2>4. CASE Elsewhere \/ UNCHANGED usersVars
    BY <2>2, <2>4 DEF Elsewhere, pageState, usersVars
  <2> QED  BY <2>1, <2>3, <2>4, StaffHeld, ServeHeld, ReceiveHeld DEF UsersNext
<1>3. ASSUME NEW u \in Readers PROVE Sound(u)'
  <2>1. CASE UsersStaff
    <3>1. {PageOf[w] : w \in Readers} \subseteq {1, 2}
      BY UsersPageAssumption
    <3> QED  BY <2>1, <3>1, LooksSound, AsksSound, SearchSound, CloseSound DEF UsersStaff
  <2>2. ASSUME NEW k \in Kinds, Serve(k) \/ Receive(k) \/ Fail(k) PROVE Sound(u)'
    BY <1>1, <2>2, ServeListSound, ServeChangeSound, ReceiveListSound, ReceiveChangeSound, FailSound
  <2>3. CASE UNCHANGED usersVars
    <3>1. Lists' = Lists
      BY <2>3, SameLists DEF usersVars
    <3>2. \A j \in Changes : (Told(j, u)' <=> Told(j, u)) /\ asks'[j] = asks[j]
      BY <2>3 DEF usersVars, Told, Flying
    <3> QED  BY <2>3, <3>1, <3>2, QuietSound DEF usersVars, UsersSafe
  <2> QED  BY <2>1, <2>2, <2>3, ElsewhereSound, StraySound DEF UsersNext
<1> QED  BY <1>1, <1>2, <1>3 DEF UsersSafe

LEMMA UsersSafeInit == UsersInit => UsersSafe
<1> SUFFICES ASSUME UsersInit PROVE UsersSafe
  OBVIOUS
<1>1. \A k \in Kinds : ~Flying(k)
  BY DEF UsersInit, Flying
<1>2. Lists = {Nobody} /\ overrides = Nobody /\ removed = {} /\ selected = None /\ form = None
  BY <1>1 DEF UsersInit, Lists, Kinds
<1>3. \A k \in Changes, u \in Readers : ~Told(k, u)
  BY <1>1, KindNames DEF Told
<1>4. FormHeld
  BY <1>1, <1>2 DEF FormHeld, Told, Kinds
<1>5. ASSUME NEW u \in Readers PROVE Sound(u)
  <2>1. u \notin DOMAIN Nobody
    BY DEF Nobody
  <2>2. \A k \in {"block", "unblock", "delete", "save"} : ~Told(k, u)
    BY <1>3 DEF Changes
  <2> QED  BY <1>2, <2>1, <2>2 DEF Sound, InLists, InDetails, InOverrides, InRemoved, InAnswers
<1> QED  BY <1>4, <1>5, UsersInitTyped DEF UsersSafe

\* What the page keeps of each reader is right, or about to be corrected.
THEOREM UsersAreSafe == UsersSpec => []UsersSafe
BY UsersSafeInit, UsersSafeStep, PTL DEF UsersSpec

\* Rows, dialogs and calls are of readers of the library
\* (useCirculationUsersControlsAndTable).
THEOREM UsersTypes == UsersSpec => []UsersTypeOK
<1>1. UsersSafe => UsersTypeOK BY TypedMeansOK DEF UsersSafe
<1> QED BY <1>1, UsersAreSafe, PTL

\* The page shows the status a reader has, and hides none that still exists,
\* unless it was not told of a change (applyUserStatusChange).
THEOREM StatusesShownTrue == UsersSpec => []ShownStatusTrue
<1>1. ASSUME UsersSafe, NEW u \in Readers, u \notin unknown, ~BeingTold(u)
      PROVE  /\ u \in Shown => ShownStatus(u) = status[u]
             /\ selected # None /\ selected.user = u => selected.status = status[u]
             /\ u \in removed => status[u] = "gone"
  <2>1. \A k \in Changes : ~Told(k, u)
    BY <1>1 DEF BeingTold, Told
  <2>2. ~Pending(u) /\ Sound(u)
    BY <1>1, <2>1 DEF Pending, Changes, UsersSafe
  <2> QED  BY <1>1, <2>2, ShownRight DEF Sound, InDetails, InRemoved
<1>2. UsersSafe => ShownStatusTrue BY <1>1 DEF ShownStatusTrue
<1> QED BY <1>2, UsersAreSafe, PTL
=============================================================================
