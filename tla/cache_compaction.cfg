CONSTANTS
  Keys = {k1, k2, k3}
  Byte <- MCByte
  Values <- MCValues
  MaxEntries = 2
  DataStart = 2
  FileSize = 7
  ChecksumModulus = 65536
  NoKey = NoKey
SPECIFICATION Spec
INVARIANTS
  NoSelfCorruption
