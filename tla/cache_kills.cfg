CONSTANTS
  Keys = {k1, k2, k3}
  Byte <- MCByte
  Values <- MCValues
  MaxEntries = 2
  DataStart = 2
  FileSize = 6
  ChecksumModulus = 65536
  NoKey = NoKey
  Windows <- Everywhere
  MaxKills = 2
SPECIFICATION CrashSpec
INVARIANTS
  InsideUnlessBroken
  CountDrift
  UniqueKeys
PROPERTIES
  ImplementsCrashMap
SYMMETRY Symmetry
CHECK_DEADLOCK FALSE
