CONSTANTS
  Stores = {"trail"}
  a = a
  b = b
  Value = {a, b}
  Filler = "filler"
  MaxLen = 2
  MaxDepth = 3
  MaxLog = 3
  Policies = {}
  HotBuffer = 1
  EntryBytes = 1
SYMMETRY Symmetry
SPECIFICATION Spec
INVARIANTS
  PoolsTiled
  OpenFrameInPlace
  LoggedOnce
  SnapshotsRestored
