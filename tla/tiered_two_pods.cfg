SPECIFICATION Spec
CONSTANTS
  Entry = {e1, e2}
  Pod = {p1, p2}
  File = {f1, f2, f3}
  HotFor = 1
  Retention = 2
  KeepLast <- Unset
  MoveBatch = 1
  MoveFlush = 1
  MaxRows = 2
  Compact = TRUE
  HourLen = 1
  MaxLag = 1
  MaxTime = 3
SYMMETRY Symmetry
INVARIANTS
  TypeOK
  NoLoss
  CopiesAreSafe
PROPERTIES
  ImplementsRetentionLog
