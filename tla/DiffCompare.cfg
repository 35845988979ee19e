SPECIFICATION DiffSpec
CONSTANTS
  Capacity = 2
  Values = {1, 2}
  MaxTrace = 4
  MaxLength = 4
  Kinds = {"inprocess", "spike"}
  Pairs <- AllPairs
  Modes = {"lockstep", "block", "checkpoint"}
  Limit = 5
  Interval = 3
  MaxAttempts = 3
INVARIANTS RingKeepsLast FirstDifference BisectsToBoundary EqualMachinesAgree
CHECK_DEADLOCK FALSE
