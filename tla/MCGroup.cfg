SPECIFICATION Spec
CONSTANTS
  Id = "self"
  ForeignId = "other"
  MaxDepth = 3
  MaxGen = 4
  w1 = w1
  w2 = w2
  t1 = t1
  a = a
  b = b
  Member = {w1, t1}
  MapMember = {t1}
  Lead = w1
  Value = {a, b}
  DirectPops = FALSE
SYMMETRY Symmetry
INVARIANTS
  GroupTypeOK
  Lockstep
  TokenNamesItsMark
  RestoredContents
PROPERTIES
  DeadStaysDead
  CutIsExact
