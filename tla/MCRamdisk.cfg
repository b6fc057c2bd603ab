CONSTANTS
  disk0 = disk0
  Disks <- MCDisks
  NullDisk = NullDisk
  SecSize = 2
  NSecs = 2
  Word = 8
  Bytes <- MCBytes
  Erased = 255
SPECIFICATION Spec
INVARIANTS
  InBounds
PROPERTIES
  ExactTransfer
