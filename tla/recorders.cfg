SPECIFICATION RecordersSpec
CONSTANTS
  App = {"own", "copy"}
  MaxLayers = 3
  MinLevel <- Levels
  FloodAt = 2
  Channel = {"agent", "media", "noise"}
  Excluded = {"noise"}
  RecordClaimed = FALSE
  SlowMs = 2
  KeepSlowMs = 3
  MaxMs = 4
  MaxBodyBytes = 2
  MaxTags = 2
  MaxTagLength = 2
  ItemId = {"runs", "queues"}
  TaskName = {"sweep", "sync"}
INVARIANTS TapsAreUndone RecordedOnce EntriesAreTrue ContributionsHold
PROPERTY StopsOnlyItself
CHECK_DEADLOCK FALSE
