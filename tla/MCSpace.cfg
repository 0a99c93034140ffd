\* The bounds end the creation of processes and threads: no deadlock is looked for.
SPECIFICATION Spec
CONSTANTS
  Entries = 6
  Slots = 6
  Pool <- MCPool
  InitPages = 1
  FixedPages = 2
  GuardPages = 2
  MaxHeap = 2
  MaxProcs = 3
  MaxThreads = 2
INVARIANTS
  SlotsReturned
  NoInternalError
  PagesUsedOnce
  StacksAreMapped
  HandledOnce
  GlobalsWhenMade
PROPERTIES
  MappingsStay
CHECK_DEADLOCK FALSE
