\* Two copies and two desks against the abstract ledger of loans.
SPECIFICATION Spec
CONSTANTS
  h1 = h1  h2 = h2  t1 = t1
  Holdings = {h1, h2}
  Users = {u1, u2}
  Records = {t1}
  Requests = {d1, d2}
  RecordOf <- MCOneTitle
  LendingLimit <- MCLimit
  ReservationLimit <- MCLimit
  FineRate <- MCFineRate
  LendingDue <- MCLendingDue
  ReservationDue <- MCReservationDue
  Amounts = {1}
  Instants <- MCInstants
  DayOf <- MCDayOf
  UndoWindow = 1
  MaxLendings = 3
  MaxFines = 0
  MaxReservations = 0
  Operations = {"lend", "renew", "returnImmediate", "undo"}
  OneDeskPerCopy = TRUE
  FreshPages = TRUE
  Failures = TRUE
  NoRow = NoRow
  None = None
  LastInstant = 0
  LoanDays = 0
  HoldDays = 1
  Limit = 2
  Rate = 0
SYMMETRY Symmetry
PROPERTIES ImplementsLedger
\* The clock and the id sequences are bounded, so a run comes to an end.
CHECK_DEADLOCK FALSE
