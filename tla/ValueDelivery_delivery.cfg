\* Every kind of field against every sort of answer, in pieces.
SPECIFICATION Spec
CONSTANTS
  Bits = 3
  Items <- MCItems
  ByteBits = 2
  OneByte = 4
  Offers <- MCOffers
INVARIANTS VerdictByRule EnginesAgree DestinationKept HandedOverOnce
