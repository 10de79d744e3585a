CONSTANTS
  Clients = {a}
  Routes = {"bytecode/get", "bytecode/save"}
  MaxSends = 4
  Synchronous = TRUE
  None = None
SPECIFICATION Spec
INVARIANTS
  AnswerIsOwn
  BuffersUnshared
PROPERTIES
  HandledOnce
CHECK_DEADLOCK FALSE
