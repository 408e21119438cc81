SPECIFICATION Spec
CONSTANTS
  k1 = k1  k2 = k2  v1 = v1  v2 = v2
  Key <- TwoKeys
  Value <- OneValue
  Nil = Nil
  Command <- PutsDeletesNoOp
  MaxAppends = 3
INVARIANTS
  TypeOK
  AppliedOnceInOrder
  CommittedWasApplied
  LogRebuildsMap
PROPERTY ExecutesCommands
