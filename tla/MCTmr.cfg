CONSTANTS
  t1 = t1
  n1 = n1
  n2 = n2
  Nodes = {n1, n2}
  Items = {t1}
  NULL = null
  Timeouts = {1, 3, 5}
  MinTimeout = 2
  MaxTimeout = 9
  MaxLate = 2
  MaxRun = 2
  TimeCap = 16
  Off = off
SPECIFICATION Spec
INVARIANTS CalledInTime AlwaysArmed
 
