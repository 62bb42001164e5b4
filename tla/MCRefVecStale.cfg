CONSTANTS
  a = a
  b = b
  Value = {a, b}
  Filler = Filler
  Stores = {"inline"}
  MaxLen = 1
  MaxDepth = 1
  MaxBranch = 1
  MaxIssued = 2
SPECIFICATION Spec
SYMMETRY Symmetry
INVARIANTS
  StaleRejected
