CONSTANTS
  Stores = {"inline", "trail"}
  a = a
  b = b
  Value = {a, b}
  Filler = "filler"
  MaxLen = 2
  MaxDepth = 2
  MaxLog = 3
  Policies <- AllPolicies
  HotBuffer = 0
  EntryBytes = 2
SYMMETRY Symmetry
SPECIFICATION Spec
INVARIANTS
  SkippedRolloverIsNoOp
PROPERTIES
  ImplementsGrid
