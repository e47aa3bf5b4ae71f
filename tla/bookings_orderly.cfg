SPECIFICATION Spec
CONSTANTS
  None = None
  u1 = u1
  u2 = u2
  h1 = h1
  h2 = h2
  s1 = s1
  s2 = s2
  Request = {r1, r2, r3, r4}
  User = {u1}
  Show = {h1, h2}
  Seat = {s1, s2}
  ShowOf <- TwoShows
  Organizer <- U1Organizes
  Ops = {"Book", "Cancel", "Refund"}
  SerialRelease = TRUE
  LiveRelease = TRUE
SYMMETRY Symmetry
INVARIANTS
  BookingsMatchShows
  NoOverbooking
  LiveBookingHoldsSeat
PROPERTIES
  SellsSeats
CHECK_DEADLOCK FALSE
