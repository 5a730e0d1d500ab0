\* One page of the front end, with the server and the other desks behind it.
SPECIFICATION PagesSpec
CONSTANTS
  Copies = {"c1", "c2"}
  Lendings = {1, 2}
  CopyOf <- MCCopyOf
  Late = {1}
  LateFee = 2
  NewValues = {0}
  Queries = {"12", "5"}
  Accession <- MCAccession
  HoldingId <- MCHoldingId
  Hits <- MCHits
  NoFine = NoFine
  Nothing = Nothing
  Readers = {"r1", "r2"}
  Registered = {"r1"}
  PageOf <- MCPageOf
  FormStatuses = {"inactive"}
  MaxInFlight = 2
  MaxChanges = 2
  Losses = TRUE
  OtherDesks = TRUE
  None = None
  Zips = {"z1", "z2"}
  AddressKeys = {"street", "city"}
  Directory <- MCDirectory
  MaxPhotos = 2
  NoCall = NoCall
  Records = {"a", "b", "c", "d", "x", "y"}
  Searches = {"q", "p"}
  Listing <- MCListing
  NewRecord = NewRecord
  MaxRecordSaves = 2
  Created <- MCCreated
  Empty = Empty
  Libraries = {"a", "b", "c"}
  Global = "global"
  Backup = {"global", "a", "b"}
  Current = "a"
  MayFail = {"data", "post", "back", "drop", "rows", "sweep", "update", "undo", "undoNames"}
  Absent = Absent
INVARIANTS ReturnTypeOK SlipOfReturns LastFineTrue UsersTypeOK ShownStatusTrue FormTypeOK  RecordTypeOK RowsAskedFor SavesNoOtherRecord DeletesWhatItNames RestoreTypeOK NoLibraryLost FailedRestoreUndone RestoredAsChosen
PROPERTIES WaitingEnds  OverwriteConfirmed LookupOfZip
\* Bounds on lendings, saves and photos bring a behaviour to an end.
CHECK_DEADLOCK FALSE
