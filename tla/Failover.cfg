CONSTANTS
  t1 = t1  t2 = t2  k1 = k1  v1 = v1  v2 = v2
  N = 3
  ElectionTimeout = 1
  HeartbeatInterval = 1
  Thread <- TwoThreads
  Key <- OneKey
  Value <- OneValue
  Nil = Nil
  Mode = "StaticMajority"
  Lossy = TRUE
  Cuts <- FirstCutOff
  Timed <- AllButLast
  Victims <- NoNodes
  MaxTerm = 2
SPECIFICATION Spec
SYMMETRY Symmetry
CHECK_DEADLOCK FALSE
INVARIANTS
  ElectionInv ElectionSafetyUnlessRecovered
  LogInv LogTermsMonotonic EntriesFromWinners AckedOnQuorum AckedTermReachesLaterWinners
PROPERTY ElectsByBallots
