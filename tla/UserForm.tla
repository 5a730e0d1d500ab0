--------------------------------- MODULE UserForm ---------------------------------
(***************************************************************************)
(* The form a reader's account is edited in (CirculationUserFormFlyout):   *)
(* typing, the lookup of an address by its zip code, the conversion of a   *)
(* photo, saving and cancelling.  Lookup, conversion and save each run in  *)
(* the background while staff go on typing.  An address field is "blank",  *)
(* "typed", or what the lookup of a zip code found, named by the zip.      *)
(***************************************************************************)
EXTENDS Integers, FiniteSets

CONSTANTS
  Zips,        \* valid zip codes
  AddressKeys, \* the fields a lookup may fill, ADDRESS_LOOKUP_FIELD_KEYS
  Directory,   \* the fields the postal service knows, by zip; {}: not found
  MaxPhotos,   \* bound on the photos staff choose in one form
  NoCall

ASSUME UserFormAssumption ==
  /\ Directory \in [Zips -> SUBSET AddressKeys]
  /\ {"blank", "typed", NoCall} \cap Zips = {}
  /\ MaxPhotos \in Nat

VARIABLES
  open,        \* the form is on the screen
  values,      \* what the form shows
  initial,     \* what it showed when it was opened
  lookup,      \* the lookup under way, or NoCall
  overwrite,   \* zip whose result waits for a confirmation, or NoCall
  converting,  \* photos being converted
  photoLoading,
  choice,      \* the photo chosen last, 0: none
  chosen,      \* photos chosen so far
  overlapped,  \* a photo was chosen or removed while another was converted
  cancelling,  \* the dialog that asks before edits are thrown away
  save         \* the save under way: "none", "sent", "saved" or "refused"

formVars == <<open, values, initial, lookup, overwrite, converting,
              photoLoading, choice, chosen, overlapped, cancelling, save>>

FieldValues == {"blank", "typed"} \cup Zips
Values == [zip : {"blank"} \cup Zips, address : [AddressKeys -> FieldValues], photo : 0..MaxPhotos]

\* The dialogs mask the form; a zip field whose lookup is under way is disabled.
Editable == open /\ overwrite = NoCall /\ ~cancelling

-----------------------------------------------------------------------------
\* Some account's fields; a photo it has is shown and not sent again.
UserToFormValues ==
  [zip : {"blank"}, address : [AddressKeys -> {"blank", "typed"}], photo : {0}]

BlankForm == [zip |-> "blank", address |-> [key \in AddressKeys |-> "blank"], photo |-> 0]

MountForm ==
  /\ ~open
  /\ open' = TRUE /\ initial' \in UserToFormValues /\ values' = initial'
  /\ lookup' = NoCall /\ overwrite' = NoCall /\ converting' = {} /\ photoLoading' = FALSE
  /\ choice' = 0 /\ chosen' = 0 /\ overlapped' = FALSE
  /\ cancelling' = FALSE /\ save' = "none"

\* Seeded fault: conversions outlive their form.
UnmountConverting ==
  /\ open' = FALSE /\ cancelling' = FALSE /\ overwrite' = NoCall
  /\ lookup' = NoCall /\ save' = "none"
  /\ photoLoading' = FALSE /\ overlapped' = FALSE
  /\ initial' = BlankForm /\ values' = BlankForm /\ choice' = 0 /\ chosen' = 0
  /\ UNCHANGED converting

\* Unmounting: answers still under way find nobody, a save's included.
Unmount ==
  /\ open' = FALSE /\ cancelling' = FALSE /\ overwrite' = NoCall
  /\ lookup' = NoCall /\ save' = "none"
  /\ converting' = {} /\ photoLoading' = FALSE /\ overlapped' = FALSE
  /\ initial' = BlankForm /\ values' = BlankForm /\ choice' = 0 /\ chosen' = 0

Edit(new) ==
  /\ Editable
  /\ values' = new
  /\ UNCHANGED <<open, initial, lookup, overwrite, converting, photoLoading,
                 choice, chosen, overlapped, cancelling, save>>

\* Seeded fault: the zip field stays enabled while its address is looked up.
TypeZipAnyTime ==
  \E z \in {"blank"} \cup Zips : Edit([values EXCEPT !.zip = z])

TypeZip ==
  /\ lookup = NoCall
  /\ \E z \in {"blank"} \cup Zips : Edit([values EXCEPT !.zip = z])

TypeAddress ==
  \E key \in AddressKeys, v \in {"blank", "typed"} : Edit([values EXCEPT !.address[key] = v])

HandleAddressLookup ==
  /\ Editable /\ lookup = NoCall /\ values.zip \in Zips
  /\ lookup' = values.zip
  /\ UNCHANGED <<open, values, initial, overwrite, converting, photoLoading,
                 choice, chosen, overlapped, cancelling, save>>

ApplyLookup(zip) ==
  values' = [values EXCEPT !.address =
               [key \in AddressKeys |-> IF key \in Directory[zip] THEN zip ELSE @[key]]]

\* Seeded fault: checked against what the form showed when it was opened.
FieldsToOverwriteAtFirst(zip) == {key \in Directory[zip] : initial.address[key] # "blank"}

\* Checked against what the form shows when the answer is received.
FieldsToOverwrite(zip) == {key \in Directory[zip] : values.address[key] # "blank"}

\* The address is found, with some of its fields, or the lookup fails.
ReceiveLookup ==
  /\ open /\ lookup # NoCall
  /\ lookup' = NoCall
  /\ \/ Directory[lookup] # {} /\ FieldsToOverwrite(lookup) # {}
        /\ overwrite' = lookup /\ UNCHANGED values
     \/ Directory[lookup] # {} /\ FieldsToOverwrite(lookup) = {}
        /\ ApplyLookup(lookup) /\ UNCHANGED overwrite
     \/ UNCHANGED <<values, overwrite>>
  /\ UNCHANGED <<open, initial, converting, photoLoading, choice, chosen,
                 overlapped, cancelling, save>>

AnswerOverwrite ==
  /\ overwrite # NoCall
  /\ ApplyLookup(overwrite) \/ UNCHANGED values
  /\ overwrite' = NoCall
  /\ UNCHANGED <<open, initial, lookup, converting, photoLoading, choice, chosen,
                 overlapped, cancelling, save>>

-----------------------------------------------------------------------------
(* The photo.                                                              *)

HandlePhotoSelect ==
  /\ Editable /\ chosen < MaxPhotos
  /\ chosen' = chosen + 1 /\ choice' = chosen + 1
  /\ converting' = converting \cup {chosen + 1} /\ photoLoading' = TRUE
  /\ overlapped' = (overlapped \/ converting # {})
  /\ UNCHANGED <<open, values, initial, lookup, overwrite, cancelling, save>>

\* Seeded fault: the picker is cleared, the photo to be saved is not.
HandlePhotoRemoveShownOnly ==
  /\ Editable /\ choice # 0
  /\ choice' = 0
  /\ overlapped' = (overlapped \/ converting # {})
  /\ UNCHANGED <<open, values, initial, lookup, overwrite, converting, photoLoading, chosen,
                 cancelling, save>>

HandlePhotoRemove ==
  /\ Editable /\ choice # 0
  /\ choice' = 0 /\ values' = [values EXCEPT !.photo = 0]
  /\ overlapped' = (overlapped \/ converting # {})
  /\ UNCHANGED <<open, initial, lookup, overwrite, converting, photoLoading, chosen,
                 cancelling, save>>

\* A conversion ends well, or throws: the picker then shows what is not kept.
PhotoConverted ==
  /\ open
  /\ \E p \in converting :
       /\ converting' = converting \ {p} /\ photoLoading' = FALSE
       /\ \/ values' = [values EXCEPT !.photo = p] /\ UNCHANGED choice
          \/ UNCHANGED values /\ choice' = IF p = choice THEN values.photo ELSE choice
  /\ UNCHANGED <<open, initial, lookup, overwrite, chosen, overlapped, cancelling,
                 save>>

-----------------------------------------------------------------------------
(* Save and cancel.                                                        *)

HandleSave ==
  /\ Editable /\ save = "none"
  /\ save' = "sent"
  /\ UNCHANGED <<open, values, initial, lookup, overwrite, converting, photoLoading,
                 choice, chosen, overlapped, cancelling>>

ServeSave ==
  /\ save = "sent"
  /\ save' \in {"saved", "refused"}
  /\ UNCHANGED <<open, values, initial, lookup, overwrite, converting, photoLoading,
                 choice, chosen, overlapped, cancelling>>

ReceiveSave ==
  /\ save \in {"saved", "refused"}
  /\ IF save = "saved" THEN Unmount
     ELSE /\ save' = "none"
          /\ UNCHANGED <<open, values, initial, lookup, overwrite, converting, photoLoading,
                         choice, chosen, overlapped, cancelling>>

Dirty == values # initial

HandleCloseRequest ==
  /\ Editable
  /\ IF ~Dirty THEN Unmount
     ELSE /\ cancelling' = TRUE
          /\ UNCHANGED <<open, values, initial, lookup, overwrite, converting,
                         photoLoading, choice, chosen, overlapped, save>>

ConfirmCancel == cancelling /\ Unmount

KeepEditing ==
  /\ cancelling
  /\ cancelling' = FALSE
  /\ UNCHANGED <<open, values, initial, lookup, overwrite, converting, photoLoading,
                 choice, chosen, overlapped, save>>

-----------------------------------------------------------------------------
FormInit ==
  /\ open = FALSE /\ initial = BlankForm /\ values = initial
  /\ lookup = NoCall /\ overwrite = NoCall /\ converting = {} /\ photoLoading = FALSE
  /\ choice = 0 /\ chosen = 0 /\ overlapped = FALSE /\ cancelling = FALSE
  /\ save = "none"

Answers == ReceiveLookup \/ PhotoConverted \/ ServeSave \/ ReceiveSave

FormNext ==
  \/ MountForm \/ TypeZip \/ TypeAddress \/ HandleAddressLookup \/ AnswerOverwrite
  \/ HandlePhotoSelect \/ HandlePhotoRemove
  \/ HandleSave \/ HandleCloseRequest \/ ConfirmCancel \/ KeepEditing
  \/ Answers

\* The service answers or its time-out fires, and image decoding ends.
FormFairness == WF_formVars(ReceiveLookup) /\ WF_formVars(PhotoConverted)

FormSpec == FormInit /\ [][FormNext]_formVars /\ FormFairness

-----------------------------------------------------------------------------
(* Properties.                                                             *)

\* The state of the flyout, and of what it has running.
FormTypeOK ==
  /\ {values, initial} \subseteq Values
  /\ lookup \in Zips \cup {NoCall} /\ overwrite \in Zips \cup {NoCall}
  /\ converting \subseteq 1..chosen /\ choice \in 0..chosen
  /\ ~open => lookup = NoCall /\ overwrite = NoCall /\ save = "none" /\ converting = {}

\* What staff have in an address field, typed before or after the lookup was
\* asked for, is replaced only once they have confirmed it (handleAddressLookup).
OverwriteConfirmed ==
  [][\A key \in AddressKeys :
       open /\ open' /\ values.address[key] # "blank" /\ values'.address[key] \in Zips
         => values'.address[key] = values.address[key] \/ overwrite # NoCall]_formVars

\* A lookup writes the address of the zip code the form shows, however long
\* its answer and the confirmation took.
LookupOfZip ==
  [][\A key \in AddressKeys :
       open /\ open' /\ values'.address[key] \in Zips
         => values'.address[key] = values.address[key] \/ values'.address[key] = values.zip]_formVars

\* The photo that would be saved is the one chosen last, once it is converted,
\* unless conversions overlapped, which the picker does not prevent.
PhotoChosen == open /\ converting = {} /\ ~overlapped => values.photo = choice
=============================================================================
