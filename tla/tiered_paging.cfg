SPECIFICATION SmoothSpec
CONSTANTS
  Entry = {e1, e2, e3}
  Pod = {p1}
  File = {f1, f2, f3}
  HotFor = 1
  Retention = 2
  KeepLast = 1
  MoveBatch = 2
  MoveFlush = 2
  MaxRows = 2
  Compact = TRUE
  HourLen = 1
  MaxLag = 1
  MaxTime = 4
INVARIANTS
  CountsHold
PROPERTIES
  AgedLeavesHot
  SurplusIsDeleted
