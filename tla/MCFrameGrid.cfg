SPECIFICATION Spec
CONSTANTS
  a = a
  b = b
  Value = {a, b}
  Filler = "filler"
  MaxLen = 2
  MaxDepth = 3
SYMMETRY Symmetry
INVARIANTS
  GridInv
  FillerNeverObserved
PROPERTIES
  ImplementsSnapshots
