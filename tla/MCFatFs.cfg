CONSTANTS
  NClusters = 3
  SS = 2
  RootSectors = 1
  h1 = h1
  x1 = x1
  Handles = {h1}
  Paths <- MCPaths
  Dirs <- MCDirs
  Values = {x1}
  OpenFlags <- MCOpenFlags
  Lengths = {1,3}
  Offsets = {0}
  MaxSize = 3
  CanForce = FALSE
SYMMETRY Symmetry
SPECIFICATION Spec
INVARIANTS
  TypeOK
  NoneLost
  ListingExact
  ReadsBack
PROPERTIES
  IsFileSystem
