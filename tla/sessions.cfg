SPECIFICATION AccessSpec
CONSTANTS
  None = None
  Request = {r1, r2, r3, r4, r5}
  Login = {l1, l2}
  Password = {p1, p2}
  Serial = {l1}
  Roles = {"viewer", "organizer", "admin"}
SYMMETRY Symmetry
INVARIANTS
  AccessTypeOK
  OneLiveToken
  NoTokenWhileRotating
  GateFollowsAccount
PROPERTIES
  AccountsKept
  LogoutEndsSession
  OverForGood
CHECK_DEADLOCK FALSE
