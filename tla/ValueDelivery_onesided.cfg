\* An array's buffer comes with a lower end and an open upper side.
SPECIFICATION Spec
CONSTANTS
  Bits = 3
  Items <- MCItems
  ByteBits = 2
  OneByte = 4
  Offers <- OneSidedOffers
INVARIANTS OpenSideIsOpen
