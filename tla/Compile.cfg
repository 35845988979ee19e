SPECIFICATION CompileSpec
CONSTANTS
  N = 5
  EntryPoints = {1}
  Jobs <- CompileJobs
  TailDupSize = 2
  SuperblockDepth = 2
  TakenInlineSize = 2
  MaxDepth = 2
  MaxTarget = 4
  MaxRetired = 8
INVARIANTS EmitsWellFormed LinearBlocksWellFormed
CHECK_DEADLOCK FALSE
