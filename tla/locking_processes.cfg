CONSTANTS
  Processes = {t1, t2}
  Threads = {t1, t2}
  ProcessOf <- Apart
  Methods = {"Put"}
  MaxCalls = 1
  Nobody = Nobody
SPECIFICATION Spec
CHECK_DEADLOCK FALSE
INVARIANTS
  FileExclusive
