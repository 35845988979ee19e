SPECIFICATION Spec
CONSTANTS
  MemSize = 5
  CHUNK = 2
  AddrSpace = 8
  AddrSpace32 = 4
  MAX_SEGMENTS = 2
  GUARD = 1
  MaxInstret = 2
  Scenarios <- AllLibraries
CHECK_DEADLOCK FALSE
INVARIANT LayoutsAgree
