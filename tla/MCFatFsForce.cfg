CONSTANTS
  NClusters = 3
  SS = 2
  RootSectors = 1
  h1 = h1
  h2 = h2
  x1 = x1
  Handles = {h1,h2}
  Paths <- MCForcePaths
  Dirs <- MCDirs
  Values = {x1}
  OpenFlags <- MCForceFlags
  Lengths = {3}
  Offsets = {3}
  MaxSize = 3
  CanForce = TRUE
SYMMETRY Symmetry
SPECIFICATION Spec
INVARIANTS
  ChainsSound
  SizeCovered
PROPERTIES
  IsFileSystem
