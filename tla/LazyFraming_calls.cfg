\* Every series of calls, and a sink that calls the encoder with one sequence open.
CONSTANTS
  MaxDepth = 3
  MaxCalls = 7
  MaxDrains = 1
  SinkDepth = 1
SPECIFICATION Spec
INVARIANTS TypeOK Canonical NoTokenAhead PendingIsSuffix RunFits
CHECK_DEADLOCK FALSE
