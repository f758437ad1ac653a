SPECIFICATION Spec
CONSTANTS
  Tables <- MCTables
  Which <- MCWhich
  First <- MCFirst
  Closed = {"union"}
  UnsignedMax = 7
  SignedMax = 3
  IdMax = 2
  CapMax = 3
  IdxMax = 1
  Args <- MCArgs
  Storage <- MCStorage
  MaxRows <- MCMaxRows
  MaxDecoders = 1
INVARIANTS
  TypeOK
  FrozenClosedDown
  Covered
  PlanCurrent
  CacheCurrent
  CompiledFaithful
  DefaultsAreArrivals
PROPERTIES
  FrozenForGood
CHECK_DEADLOCK FALSE
