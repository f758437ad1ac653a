\* A buffer of a few bytes that every construct fits: every cut, appends and
\* slides, both refusals, and hooks that raise.
CONSTANTS
  Messages <- WholeIds
  Fields <- WholeFields
  Bytes <- WholeBytes
  Followers <- Resent
  Reassembly = 3
  VarintMax = 2
  MaxDepth = 2
  MaxChunk = 5
SPECIFICATION Spec
INVARIANTS TypeOK ChunkInvariance NoFabricatedField CarriesConstructInFlight
  InOrder SkipLevel
PROPERTIES KeepsPromise FeedReturns
