CONSTANTS
  Clients = {t, c}
  Routes <- AllRoutes
  MaxSends = 5
  Synchronous = TRUE
  None = None
  Tester = t
  MaxInterrupts = 1
  MaxLater = 1
SPECIFICATION TestSpec
CHECK_DEADLOCK FALSE
INVARIANTS
  WakesForOwn
