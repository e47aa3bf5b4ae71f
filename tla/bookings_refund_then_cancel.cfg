SPECIFICATION Spec
CONSTANTS
  None = None
  u1 = u1
  u2 = u2
  h1 = h1
  h2 = h2
  s1 = s1
  s2 = s2
  Request = {r1, r2, r3, r4, r5}
  User = {u1}
  Show = {h1}
  Seat = {s1}
  ShowOf <- OneSeat
  Organizer <- U1Organizes
  Ops = {"Book", "Cancel", "Refund"}
  SerialRelease = TRUE
  LiveRelease = FALSE
SYMMETRY Symmetry
INVARIANTS
  NoOverbooking
CHECK_DEADLOCK FALSE
