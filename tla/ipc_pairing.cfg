CONSTANTS
  Clients = {a, b}
  Routes = {"bytecode/get", "bytecode/save"}
  MaxSends = 2
  Synchronous = TRUE
  None = None
SPECIFICATION Spec
INVARIANTS
  AnswerIsOwn
CHECK_DEADLOCK FALSE
