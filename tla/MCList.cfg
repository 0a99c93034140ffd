CONSTANTS
  n1 = n1
  n2 = n2
  n3 = n3
  n4 = n4
  a = a
  b = b
  Nodes = {n1, n2, n3, n4}
  Items = {a, b}
  NULL = null
SPECIFICATION Spec
SYMMETRY Symmetry
INVARIANT WellFormed
PROPERTY Sequence
