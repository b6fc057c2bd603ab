CONSTANTS
  a = a
  b = b
  c = c
  d = d
  Nodes <- MCNodes
  Null = Null
SPECIFICATION Spec
INVARIANTS
  Ring
PROPERTIES
  ListSpec
