SPECIFICATION Spec
CONSTANTS
  Names = {A, B}
  Handles = {h1, h2}
  Data <- MCData
  NBlocks = 5
  NEntries = 3
  DataSize = 2
  PageSize = 3
  HdrLen = 1
  IxLen = 1
  NFd = 2
  OpenFlags <- MCOpenFlags
  Lengths = {3}
  Offsets = {0}
  MaxSize = 4
  MaxCalls = 9
VIEW MCView
SYMMETRY MCSymmetry
INVARIANTS
  Counted
  FdsFollow
  IndexSound
PROPERTIES
  CallsExact
CHECK_DEADLOCK FALSE
