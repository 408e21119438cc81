SPECIFICATION Spec
CONSTANTS
  N = 3
  ElectionTimeout = 3
  HeartbeatInterval = 1
  k1 = k1
  Key <- OneKey
  Value <- Writes
  Nil = 0
  Mode = "StaticMajority"
  Cuts <- NoCuts
  MaxTerm = 3
  MaxWrites = 1
  MaxFaults = 1
  Patience = 0
INVARIANTS
  NoStaleReads
