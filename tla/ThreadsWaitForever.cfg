SPECIFICATION Spec
CONSTANTS
  t1 = t1  t2 = t2
  N = 2
  Thread <- TwoThreads
  Nobody = Nobody
  MaxCalls = 2
CHECK_DEADLOCK FALSE
INVARIANT NoDeadlock
