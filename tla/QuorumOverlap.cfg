SPECIFICATION Spec
CONSTANTS
  Sizes <- OnlyFive
  Reports <- NormalSlow
  Scale = 1824
INVARIANTS
  CommitsMeetElections
