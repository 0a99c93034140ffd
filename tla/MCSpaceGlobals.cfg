SPECIFICATION Spec
CONSTANTS
  Entries = 6
  Slots = 6
  Pool <- MCPool
  InitPages = 1
  FixedPages = 2
  GuardPages = 3
  MaxHeap = 2
  MaxProcs = 2
  MaxThreads = 1
INVARIANT GlobalsEverywhere
CHECK_DEADLOCK FALSE
