CONSTANTS
  Processes = {p1}
  Threads = {t1}
  ProcessOf <- Together
  Methods = {"GetFreeSpace"}
  MaxCalls = 1
  Nobody = Nobody
SPECIFICATION FairSpec
CHECK_DEADLOCK FALSE
PROPERTIES
  EveryCallReturns
