SPECIFICATION Spec
CONSTANTS
  None = None
  ShowId = {a, b, c}
  Rows <- MCRows
  Request = {r1, r2}
  Queries <- MCQueries
  DefaultPageSize = 2
  MaxPageSize = 3
  TicksPerDay = 2
  MaxInt = 7
  MaxWrites = 2
SYMMETRY Symmetry
INVARIANTS
  TypeOK
  TotalFitsItems
  UntiedOnItsPage
  PagesFollow
  PublicSeesWholeDays
CHECK_DEADLOCK FALSE
