\* The readers page alone: one request at a time, nothing lost, no other desk.
SPECIFICATION PagesSpec
CONSTANTS
  Copies = {"c1", "c2"}
  Lendings = {1, 2}
  CopyOf <- MCCopyOf
  Late = {1}
  LateFee = 2
  NewValues = {0}
  Queries = {"12", "5"}
  Accession <- MCAccession
  HoldingId <- MCHoldingId
  Hits <- MCHits
  NoFine = NoFine
  Nothing = Nothing
  Readers = {"r1", "r2"}
  Registered = {"r1"}
  PageOf <- MCPageOf
  FormStatuses = {"inactive"}
  MaxInFlight = 1
  MaxChanges = 2
  Losses = FALSE
  OtherDesks = FALSE
  None = None
  Zips = {"z1", "z2"}
  AddressKeys = {"street", "city"}
  Directory <- MCDirectory
  MaxPhotos = 2
  NoCall = NoCall
  Records = {"a", "b", "c", "d", "x", "y"}
  Searches = {"q", "p"}
  Listing <- MCListing
  NewRecord = NewRecord
  MaxRecordSaves = 2
  Created <- MCCreated
  Empty = Empty
  Libraries = {"a", "b", "c"}
  Global = "global"
  Backup = {"global", "a", "b"}
  Current = "a"
  MayFail = {"data", "post", "back", "drop", "rows", "sweep", "update", "undo", "undoNames"}
  Absent = Absent
PROPERTIES DeletedKnowingly
\* Bounds on lendings, saves and photos bring a behaviour to an end.
CHECK_DEADLOCK FALSE
