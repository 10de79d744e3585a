CONSTANTS
  Keys = {k1, k2, k3}
  Byte <- MCByte
  Values <- MCValues
  MaxEntries = 3
  DataStart = 2
  FileSize = 7
  ChecksumModulus = 7
  NoKey = NoKey
SPECIFICATION Spec
INVARIANTS
  TypeOK
  EntryCountExact
  UniqueKeys
  LayoutSound
  GetMatchesLastPut
PROPERTIES
  CompactionReclaimsAll
  OrderedCompactionKeepsData
