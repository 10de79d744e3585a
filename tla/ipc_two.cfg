CONSTANTS
  Clients = {a, b}
  Routes = {"bytecode/get", "bytecode/save"}
  MaxSends = 2
  Synchronous = TRUE
  None = None
SPECIFICATION FairSpec
INVARIANTS
  TypeOK
  MutexTokens
  NoLostWakeup
PROPERTIES
  MessageTaken
CHECK_DEADLOCK FALSE
