CONSTANTS
  Clients = {a, b}
  Routes = {"bytecode/get", "bytecode/save"}
  MaxSends = 2
  Synchronous = TRUE
  None = None
SPECIFICATION Spec
INVARIANTS
  MutualExclusion
CHECK_DEADLOCK FALSE
