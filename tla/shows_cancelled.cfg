SPECIFICATION Spec
CONSTANTS
  None = None
  Request = {r1, r2, r3, r4}
  User = {u1}
  Ops = {"Create", "Update", "CancelShow"}
  MaxShow = 1
SYMMETRY Symmetry
PROPERTIES
  CancelledIsFinal
CHECK_DEADLOCK FALSE
