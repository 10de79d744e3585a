CONSTANTS
  Processes = {p1}
  Threads = {t1, t2}
  ProcessOf <- Together
  Methods = {"Put", "Get"}
  MaxCalls = 1
  Nobody = Nobody
SPECIFICATION Spec
CHECK_DEADLOCK FALSE
INVARIANTS
  PointerStable
