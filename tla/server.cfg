SPECIFICATION FairSpec
CONSTANTS
  Request = {r1, r2, r3}
  Cleaner = cleanerGoroutine
  MaxConns = 2
  MaxVisits = 2
INVARIANTS
  TypeOK
  ShutdownAnswersAll
  NoVisitCutOff
  ConnectionsInUse
PROPERTIES
  SignalEndsProcess
  AcceptedAnswered
CHECK_DEADLOCK FALSE
