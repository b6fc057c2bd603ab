CONSTANTS
  Chars <- MCChars
  Lookups <- MCLookups
  Normals <- MCNormals
  Readlines <- MCReadlines
SPECIFICATION Spec
INVARIANTS
  LookupLongest
  RelPathRooted
  NormalizeRight
  LineWhole
CHECK_DEADLOCK FALSE
