CONSTANTS
  t1 = t1  t2 = t2  k1 = k1  v1 = v1  v2 = v2
  N = 3
  ElectionTimeout = 1
  HeartbeatInterval = 1
  Thread <- TwoThreads
  Key <- NoKeys
  Value <- NoValues
  Nil = Nil
  Mode = "StaticMajority"
  Lossy = TRUE
  Cuts <- NoCuts
  Timed <- AllButLast
  Victims <- LastNode
  MaxTerm = 1
SPECIFICATION Spec
SYMMETRY Symmetry
CHECK_DEADLOCK FALSE
INVARIANT ElectionSafety
