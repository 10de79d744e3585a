CONSTANTS
  Clients = {t, c}
  Routes <- AllRoutes
  MaxSends = 5
  Synchronous = TRUE
  None = None
  Tester = t
  MaxInterrupts = 1
  MaxLater = 1
SPECIFICATION FairTestSpec
CHECK_DEADLOCK FALSE
PROPERTIES
  InterruptCloses
