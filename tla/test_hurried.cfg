CONSTANTS
  Clients = {t}
  Routes <- AllRoutes
  MaxSends = 5
  Synchronous = TRUE
  None = None
  Tester = t
  MaxInterrupts = 0
  MaxLater = 1
SPECIFICATION TestSpec
CHECK_DEADLOCK FALSE
INVARIANTS
  AllHandled
