SPECIFICATION FairSpec
CONSTANTS
  N = 3
  ElectionTimeout = 3
  HeartbeatInterval = 1
  k1 = k1
  Key <- OneKey
  Value <- Writes
  Nil = 0
  Mode = "StaticMajority"
  Cuts <- EachCutOff
  MaxTerm = 3
  MaxWrites = 2
  MaxFaults = 3
  Patience = 10
INVARIANTS
  TypeOK
  LeaderWithinPatience
  HeartbeatsSpreadCommit
  SameLogUnlessMissed
  FreshOnceApplied
PROPERTIES
  LeaderReturns
