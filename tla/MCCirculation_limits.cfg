\* One desk, two copies of one title: lending and reservation limits.
SPECIFICATION Spec
CONSTANTS
  h1 = h1  h2 = h2  t1 = t1
  Holdings = {h1, h2}
  Users = {u1}
  Records = {t1}
  Requests = {d1}
  RecordOf <- MCOneTitle
  LendingLimit <- MCLimit
  ReservationLimit <- MCLimit
  FineRate <- MCFineRate
  LendingDue <- MCLendingDue
  ReservationDue <- MCReservationDue
  Amounts = {1}
  Instants <- MCInstants
  DayOf <- MCDayOf
  UndoWindow = 1
  MaxLendings = 3
  MaxFines = 0
  MaxReservations = 2
  Operations = {"lend", "renew", "returnImmediate", "reserve", "cancel", "block", "unblock", "disable", "availability"}
  OneDeskPerCopy = TRUE
  FreshPages = TRUE
  Failures = TRUE
  NoRow = NoRow
  None = None
  LastInstant = 2
  LoanDays = 0
  HoldDays = 1
  Limit = 1
  Rate = 0
SYMMETRY Symmetry
INVARIANTS  ReservationLimitPreserved
\* The clock and the id sequences are bounded, so a run comes to an end.
CHECK_DEADLOCK FALSE
