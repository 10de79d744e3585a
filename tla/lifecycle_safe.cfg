CONSTANTS
  Servers = {s1}
  Clients = {c1, c2}
  MaxSegments = 2
  MaxSends = 1
  MaxSignals = 1
SPECIFICATION FairSpec
INVARIANTS
  TypeOK
  WakeupSurvivesRestart
PROPERTIES
  StopEnds
  MutexReturns
