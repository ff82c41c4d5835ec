SPECIFICATION ReadSpec
CONSTANTS
  Entry = {e1, e2}
  Pod = {p1}
  File = {f1, f2}
  HotFor = 1
  Retention = 3
  KeepLast <- Unset
  MoveBatch = 2
  MoveFlush = 2
  MaxRows = 2
  Compact = FALSE
  HourLen = 2
  MaxLag = 1
  MaxTime = 5
  PageSize = 1
SYMMETRY Symmetry
INVARIANTS
  LookupFindsLive
  PageIsNewest
