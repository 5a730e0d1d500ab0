\* Two desks, one copy at a time in hand, any statement may be the last one.
SPECIFICATION Spec
CONSTANTS
  h1 = h1  h2 = h2  t1 = t1
  Holdings = {h1}
  Users = {u1, u2}
  Records = {t1}
  Requests = {d1, d2}
  RecordOf <- MCOneTitle
  LendingLimit <- MCLimit
  ReservationLimit <- MCLimit
  FineRate <- MCFineRate
  LendingDue <- MCLendingDue
  ReservationDue <- MCReservationDue
  Amounts = {1}
  Instants <- MCInstants
  DayOf <- MCDayOf
  UndoWindow = 1
  MaxLendings = 2
  MaxFines = 2
  MaxReservations = 0
  Operations = {"lend", "renew", "return", "returnImmediate", "undo", "adjust", "pay"}
  OneDeskPerCopy = TRUE
  FreshPages = TRUE
  Failures = TRUE
  NoRow = NoRow
  None = None
  LastInstant = 2
  LoanDays = 0
  HoldDays = 1
  Limit = 1
  Rate = 1
SYMMETRY Symmetry
INVARIANTS TypeOK OneOpenLending FineOfClosedLending DeskInv
PROPERTIES ReturnDateStable
\* The clock and the id sequences are bounded, so a run comes to an end.
CHECK_DEADLOCK FALSE
