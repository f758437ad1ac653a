\* No fabricated field, also for a caller who feeds on after a refusal.
CONSTANTS
  Messages <- ShortIds
  Fields <- ShortFields
  Bytes <- ShortBytes
  Followers <- Resent
  Reassembly = 2
  VarintMax = 2
  MaxDepth = 2
  MaxChunk = 4
SPECIFICATION Spec
INVARIANT NoFabricatedFieldEver
