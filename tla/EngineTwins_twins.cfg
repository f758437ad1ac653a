\* Both encoders through every call, both sets of helpers through every array.
SPECIFICATION Spec
CONSTANTS
  Base = 4
  IdMax = 5
  FixlenMax = 3
  SizeMax = 262143
  SsizeMax = 100
  Narrow = 15
  MaxDepth = 2
  MaxCalls = 3
  Calls <- MCCalls
  Rooms = {9, 40}
  Caps <- MCCaps
  Rcaps <- MCRcaps
  Ids = {0, 1, 2}
  Arrays <- MCArrays
  Defaults <- MCDefaults
INVARIANTS EnginesWriteAlike WireIsWhatWasAccepted RefusalIsTold ArrayByRule LeftOutOnlyAtDefault
CHECK_DEADLOCK FALSE
