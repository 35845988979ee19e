SPECIFICATION Spec
CONSTANTS
  N = 5
  EntryPoints = {1}
  Jobs <- ExecuteJobs
  TailDupSize = 4
  SuperblockDepth = 4
  TakenInlineSize = 4
  MaxDepth = 2
  MaxTarget = 4
  MaxRetired = 8
PROPERTY ImplementsInterpreter
CHECK_DEADLOCK FALSE
