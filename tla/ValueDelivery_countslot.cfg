\* Arrays a row takes, each with a slot for its count.
SPECIFICATION Spec
CONSTANTS
  Bits = 3
  Items <- MCItems
  ByteBits = 2
  OneByte = 4
  Offers <- CountedOffers
INVARIANTS CountAtHeader
