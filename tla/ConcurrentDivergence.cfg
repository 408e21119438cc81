CONSTANTS
  t1 = t1  t2 = t2  k1 = k1  v1 = v1  v2 = v2
  N = 3
  ElectionTimeout = 1
  HeartbeatInterval = 1
  Thread <- TwoThreads
  Key <- OneKey
  Value <- TwoValues
  Nil = Nil
  Mode = "StaticMajority"
  Lossy = FALSE
  Cuts <- NoCuts
  Timed <- FirstNode
  Victims <- NoNodes
  MaxTerm = 1
SPECIFICATION Spec
SYMMETRY Symmetry
CHECK_DEADLOCK FALSE
INVARIANT AppliedPrefixesAgree
