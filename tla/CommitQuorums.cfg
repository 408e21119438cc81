SPECIFICATION Spec
CONSTANTS
  Sizes <- OneToFive
  Reports <- NormalSlowDegraded
  Scale = 1824
INVARIANTS
  TypeOK
  FreshMetricsGiveFlatThreshold
  HealthyAcksCommit
  SlowClusterStalls
  CommitsMeetElectionsWhenSmall
PROPERTIES
  SlowdownNeverEasesCommit
