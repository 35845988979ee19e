SPECIFICATION DebugSpec
CONSTANTS
  N = 4
  Images <- AllImages
  MaxDepth = 1
  MaxTarget = 0
  MaxRetired = 6
  MaxStep = 2
  Frontends = {"gdb", "debug"}
INVARIANTS StepsExactly ExitsReported
PROPERTY InteractiveContinueStops
CHECK_DEADLOCK FALSE
