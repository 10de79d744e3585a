CONSTANTS
  Processes = {p1}
  Threads = {t1, t2, t3}
  ProcessOf <- Together
  Methods = {"Put", "Get", "GetFreeSpace"}
  MaxCalls = 2
  Nobody = Nobody
SPECIFICATION FairSpec
CHECK_DEADLOCK FALSE
INVARIANTS
  OwnersAreInside
  FileExclusive
  MappedOnce
  BodiesAreMapped
PROPERTIES
  CallsReturn
