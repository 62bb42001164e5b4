SPECIFICATION Spec
CONSTANTS
  Id = "self"
  ForeignId = "other"
  MaxDepth = 2
  MaxGen = 3
  w1 = w1
  w2 = w2
  t1 = t1
  a = a
  b = b
  Member = {w1, w2, t1}
  MapMember = {t1}
  Lead = w1
  Value = {a, b}
  DirectPops = FALSE
PROPERTIES
  FanOutIsAtomic
  OperationCompletes
