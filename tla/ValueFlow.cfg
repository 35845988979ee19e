SPECIFICATION Spec
CONSTANTS
  Byte = 2
  NUM_REGS = 4
  MAX_VALUES = 2
  MAX_ITERATIONS_MULTIPLIER = 1
  MAX_JUMP_TABLE_SCAN = 3
  Images <- MCImages
  Wild = {0, 8}
  MaxSteps = 8
INVARIANTS ValuesCovered ReachesFixpoint
PROPERTY JumpsLandOnLeaders
CHECK_DEADLOCK FALSE
