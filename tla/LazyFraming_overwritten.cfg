\* encoder.py: the sink's own run never overwrites the one being emitted.
CONSTANTS
  MaxDepth = 4
  MaxCalls = 8
  MaxDrains = 1
  SinkDepth = 2
SPECIFICATION Spec
INVARIANTS RunNotOverwritten
CHECK_DEADLOCK FALSE
