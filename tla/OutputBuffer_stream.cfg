\* Every way to drain, to take a buffer and to split a write.
CONSTANTS
  Sizes <- ThreeSizes
  Modes <- AllModes
  VarintMax = 2
  MaxRun = 4
  MaxBytes = 5
  MaxUnits = 2
SPECIFICATION Spec
INVARIANTS TypeOK StreamIntact HeaderRoomKept FullToTheLastByte
CHECK_DEADLOCK FALSE
