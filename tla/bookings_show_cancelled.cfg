SPECIFICATION Spec
CONSTANTS
  None = None
  u1 = u1
  u2 = u2
  h1 = h1
  h2 = h2
  s1 = s1
  s2 = s2
  Request = {r1, r2, r3}
  User = {u1}
  Show = {h1}
  Seat = {s1}
  ShowOf <- OneSeat
  Organizer <- U1Organizes
  Ops = {"Book", "CancelShow"}
  SerialRelease = TRUE
  LiveRelease = FALSE
SYMMETRY Symmetry
PROPERTIES
  ShowCancelledMeansRefunded
CHECK_DEADLOCK FALSE
