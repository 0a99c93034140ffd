CONSTANTS
  IntBits = 4
  WordBits = 8
  Pages <- MCPages
  FirstStart = 0
  FirstBits = 4
  Adds <- SmallAdds
  Reserves <- SmallReserves
  Counts = {1, 2}
  None = none
SPECIFICATION Spec
INVARIANTS HeldIsMarked   CountsArePages FatalOnlyIfFull
