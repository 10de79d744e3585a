CONSTANTS
  Hashes <- CollidingHashes
  Existing <- MCExisting
  Prefix <- MCPrefix
  KeyLength = 2
  Payloads <- MCPayloads
  Length <- MCLength
  Requests <- MCRequests
  Nothing = Nothing
SPECIFICATION Spec
INVARIANTS
  AnswerFaithful
