CONSTANTS
  Stores = {"inline", "parallel"}
  a = a
  b = b
  Value = {a, b}
  Filler = "filler"
  MaxLen = 2
  MaxDepth = 3
  MaxLog = 3
  Policies = {}
  HotBuffer = 1
  EntryBytes = 1
SYMMETRY Symmetry
SPECIFICATION Spec
INVARIANTS
  TieredTypeOK
  PoolsTiled
  OpenFrameInPlace
  FlagsMatchLog
  FastPathAgrees
  LoggedOnce
  SnapshotsRestored
