CONSTANTS
  Servers = {s1, s2}
  Clients = {c1}
  MaxSegments = 2
  MaxSends = 1
  MaxSignals = 1
SPECIFICATION Spec
INVARIANTS
  Connectable
