SPECIFICATION Spec
CONSTANTS
  c1 = c1
  c2 = c2
  u1 = u1
  u2 = u2
  r1 = r1
  r2 = r2
  NoRow = NoRow
  None = None
  Cards <- MCCards
  Users <- MCUsers
  Requests <- MCRequests
  MaxVisits = 3
  CreateAs <- MCAvailable
  AdminMoves <- MCDeskMoves
  QuietAdmin = TRUE
  OneDesk = TRUE
  FreshPages = TRUE
  Failures = FALSE
SYMMETRY Alike
INVARIANT TypeOK
INVARIANT CardMatchesVisit
PROPERTY BlockKept
CHECK_DEADLOCK FALSE
