CONSTANTS
  a = a
  b = b
  Value = {a, b}
  Filler = Filler
  Stores = {"inline", "parallel"}
  MaxLen = 2
  MaxDepth = 2
  MaxBranch = 2
  MaxIssued = 3
SPECIFICATION Spec
SYMMETRY Symmetry
INVARIANTS
  RefTypeOK
  StratumBounded
  FlagsMatchStratum
  OpenTokenLeadsHome
  AbandonedRejected
PROPERTIES
  ImplementsGrid
