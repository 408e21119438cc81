SPECIFICATION Spec
CONSTANTS
  Total = 5
  Reports <- SlowLossyOrLoaded
  Signals <- Workloads
INVARIANTS
  TypeOK
  QuorumsOfDecisionMeet
  DecisionCanBeMet
  RackLossLeavesQuorum
PROPERTIES
  WorseNodeIsNotNamed
