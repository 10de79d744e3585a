CONSTANTS
  Keys = {k1, k2}
  Byte <- MCByte
  Values <- MCValues
  MaxEntries = 2
  DataStart = 2
  FileSize = 6
  ChecksumModulus = 65536
  NoKey = NoKey
  Windows = {"initialize"}
  MaxKills = 1
SPECIFICATION CrashSpec
CHECK_DEADLOCK FALSE
INVARIANTS
  AccessesInside
