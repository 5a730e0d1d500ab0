SPECIFICATION Spec
CONSTANTS
  c1 = c1
  c2 = c2
  u1 = u1
  u2 = u2
  r1 = r1
  r2 = r2
  NoRow = NoRow
  None = None
  Cards <- MCCards
  Users <- MCUsers
  Requests <- MCRequests
  MaxVisits = 3
  CreateAs <- MCAvailable
  AdminMoves <- MCAllMoves
  QuietAdmin = FALSE
  OneDesk = TRUE
  FreshPages = FALSE
  Failures = TRUE
SYMMETRY Alike
INVARIANT OneHolder
INVARIANT HolderInv
CHECK_DEADLOCK FALSE
