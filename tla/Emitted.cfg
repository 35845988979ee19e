SPECIFICATION FairSpec
CONSTANTS
  N = 5
  Images <- AllImages
  MaxDepth = 2
  MaxTarget = 6
  MaxRetired = 20
INVARIANTS TypeOK ResumesInPlace CountableExact
PROPERTIES AlwaysReturns ImplementsInterpreter SuspendsOnTime
CHECK_DEADLOCK FALSE
