CONSTANTS
  Servers = {s1}
  Clients = {c1}
  MaxSegments = 1
  MaxSends = 1
  MaxSignals = 1
SPECIFICATION FairSpec
PROPERTIES
  SignalEnds
