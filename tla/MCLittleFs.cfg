SPECIFICATION Spec
CONSTANTS
  Paths <- MCPaths
  Handles = {h1}
  OpenFlags <- MCOpenFlags
  Data <- MCData
  Offsets = {9}
  Seeds = {0}
  NBlocks = 9
  MdirSize = 4
  BlockBytes = 7
  InlineMax = 1
  LookSize = 4
  BlockCycles = 2
  MaxCalls = 9
  MaxFailures = 1
VIEW View0
INVARIANTS TreeSound BlocksDisjoint
PROPERTY IsCommitFs
CHECK_DEADLOCK FALSE
