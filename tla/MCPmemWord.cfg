CONSTANTS
  IntBits = 4
  WordBits = 8
  Pages <- MCPages
  FirstStart = 0
  FirstBits = 8
  Adds <- NoRanges
  Reserves <- NoRanges
  Counts = {1, 2}
  None = none
SPECIFICATION Spec
INVARIANT HeldIsMarked
