\* A fine is paid at one desk while another undoes the return.
SPECIFICATION Spec
CONSTANTS
  h1 = h1  h2 = h2  t1 = t1
  Holdings = {h1}
  Users = {u1, u2}
  Records = {t1}
  Requests = {d1, d2}
  RecordOf <- MCOneTitle
  LendingLimit <- MCLimit
  ReservationLimit <- MCLimit
  FineRate <- MCFineRate
  LendingDue <- MCLendingDue
  ReservationDue <- MCReservationDue
  Amounts = {1}
  Instants <- MCInstants
  DayOf <- MCDayOf
  UndoWindow = 1
  MaxLendings = 2
  MaxFines = 2
  MaxReservations = 0
  Operations = {"lend", "returnImmediate", "undo", "pay"}
  OneDeskPerCopy = TRUE
  FreshPages = TRUE
  Failures = FALSE
  NoRow = NoRow
  None = None
  LastInstant = 2
  LoanDays = 0
  HoldDays = 1
  Limit = 1
  Rate = 1
PROPERTIES PaidFineKept
\* The clock and the id sequences are bounded, so a run comes to an end.
CHECK_DEADLOCK FALSE
