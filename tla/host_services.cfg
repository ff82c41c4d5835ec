SPECIFICATION HostSpec
CONSTANTS
  Caller = {d1, d2, d3}
  Family = {"f", "g"}
  NoFamily = "none"
  CacheCap = 1
  CacheTtl = 2
  MaxDiagTime = 2
  Asker = {1, 2}
  MaxPruneRuns = 2
  MaxCycles = 4
  Profiled = {p1, p2}
  Label = {"a", "b"}
  AnyLabel = "any"
  MaxConcurrent = 1
  SampleRate = "some"
  MaxArms = 2
  Evaluation = {1, 2}
  Rules = 2
  FlapCooldown = 2
  MaxAlertTime = 3
  MaxPages = 3
  Connection = {1, 2}
  MaxPublished = 3
  Address = {"x", "y", "z"}
  PerMinute = 2
  Minute = 3
  MaxTrackedIps = 2
  MaxLimitTime = 3
  Inputs = 3
  Batch = {1, 2}
  Budgets = {1, 4}
  MaxReads = 2
  MaxRestarts = 1
INVARIANTS WorkIsShared TakenIsReturned RulePagesAreSound ColdFilesAreWhole
PROPERTY CallersAreAnswered
CHECK_DEADLOCK FALSE
