SPECIFICATION Spec
CONSTANTS
  b1 = b1
  b2 = b2
  Branches = {b1, b2}
  MaxCalls = 1
INVARIANTS
  TypeOK
  BranchIsolated
PROPERTIES
  MergeSpec
  TurnEnds
