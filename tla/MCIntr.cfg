CONSTANTS
  k1 = k1
  k2 = k2
  u1 = u1
  Kernel = {k1, k2}
  User = {u1}
  Idle = idle
  InitThr = init
  Dummy = dummy
  Free = free
  NoFrame = noframe
SPECIFICATION FairSpec
INVARIANTS TypeOK HolderNeverPreempted CounterMatchesNesting InterruptsAnswered InsideOwnCall
PROPERTIES SpinEnds 
