SPECIFICATION StoreSpec
CONSTANTS
  Entry = {e1, e2, e3}
  Pod = {p1}
  MaxPending = 2
  BatchRows = 2
  PruneRows = 1
  Retention = 0
  KeepLast = 1
  RetryDelay = 1
  MaxTime = 1
  Booter = {b1, b2}
  Schema <- TwoReleases
  Attempts = 4
  Rows <- FiveRows
  ScanRows = 2
  Limit = 2
SYMMETRY Symmetry
INVARIANTS
  AnswersAreTrue
  ClearedStaysGone
  SqlReadsHold
PROPERTIES
  RowsKeepOrder
  KeepsNewest
  InitIsSound
CHECK_DEADLOCK FALSE
