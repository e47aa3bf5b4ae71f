SPECIFICATION FairSpec
CONSTANTS
  None = None
  u1 = u1
  u2 = u2
  h1 = h1
  h2 = h2
  s1 = s1
  s2 = s2
  Request = {r1, r2, r3}
  User = {u1, u2}
  Show = {h1}
  Seat = {s1, s2}
  ShowOf <- OneShow
  Organizer <- U1Organizes
  Ops = {"Book", "Cancel", "Refund", "CancelShow", "GenerateSeatMap"}
  SerialRelease = FALSE
  LiveRelease = FALSE
INVARIANTS
  TypeOK
  NoSeatLost
  NoLockOutlivesRequest
  DeadlocksNeedSeatMaps
PROPERTIES
  SaleTakesFreeSeat
  RequestsAnswered
CHECK_DEADLOCK FALSE
