CONSTANTS
  Clients = {a}
  Routes = {"bytecode/get", "bytecode/save"}
  MaxSends = 2
  Synchronous = TRUE
  None = None
SPECIFICATION FairSpec
PROPERTIES
  ClearsHandled
CHECK_DEADLOCK FALSE
