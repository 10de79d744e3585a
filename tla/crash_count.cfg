CONSTANTS
  Keys = {k1, k2}
  Byte <- MCByte
  Values <- MCValues
  MaxEntries = 2
  DataStart = 2
  FileSize = 6
  ChecksumModulus = 65536
  NoKey = NoKey
  Windows = {"remove"}
  MaxKills = 1
SPECIFICATION CrashSpec
INVARIANTS
  EntryCountExact
