SPECIFICATION ReportsSpec
CONSTANTS
  None = None
  Request = {r1, r2, r3, r4}
  Reader = {q}
  Inputs <- MCInputs
  MaxParams = 10
SYMMETRY Symmetry
INVARIANTS
  ReportsTypeOK
  OneWholeMap
  BookingsKeepSeats
  SeatsKeepShow
  ReportsAreOfOneMap
CHECK_DEADLOCK FALSE
