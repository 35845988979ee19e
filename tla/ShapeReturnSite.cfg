SPECIFICATION CompileSpec
CONSTANTS
  N = 4
  EntryPoints = {1}
  Jobs <- ReturnSiteJobs
  TailDupSize = 4
  SuperblockDepth = 4
  TakenInlineSize = 4
  MaxDepth = 2
  MaxTarget = 4
  MaxRetired = 8
INVARIANT InternalTerminators
CHECK_DEADLOCK FALSE
