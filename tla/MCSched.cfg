CONSTANTS
  boot = boot
  idle = idle
  k1 = k1
  u1 = u1
  u2 = u2
  core = core
  uproc = uproc
  Threads <- MCThreads
  Parent <- MCParent
  InitThr = boot
  Idle = idle
  Core = core
  PrioKernel = 2
  Slice = 2
SPECIFICATION FairSpec
INVARIANTS TypeOK EachThreadOnce AlwaysSomeoneToRun SpaceOfCurrent
PROPERTIES DeadStaysDead NoOvertaking TopPriorityRuns
