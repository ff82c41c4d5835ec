SPECIFICATION ReadersSpec
CONSTANTS
  Setups <- MCSetups
  Ttl = 2
  Grace = 1
  MaxTime = 4
  MaxKey = 2
  TypeOf <- MCTypeOf
  TraceOf <- MCTraceOf
  Tools <- MCTools
  RowsPerPage = 2
  MaxWalkPage = 4
  Fitting <- MCFitting
  Seen <- MCSeen
  TailCap = 2
  MaxPage = 2
  MaxEntries = 3
  MaxRecords = 4
  MaxClock = 2
  Inputs <- MCInputs
  ScanCap = 4
  TopN = 1
  Threshold = 2
  SlowRouteMs = 2
  PageSize = 1
  Window = 2
  Payloads <- MCPayloads
  MaxSeries = 2
  MaxEvents = 3
  Probed = 2
  Nodes = 4
  Deltas = {0, 2, 5}
  MaxSamples = 2
  HotFrames = 2
  Contents <- Trees
  MaxDepth = 3
  MaxText = 2
  MaxList = 2
  MaxNodes = 6
  MaxBytes = 12
  NodeBytes = 2
  MaskedKey = {"password"}
  MaskedPath <- Paths
INVARIANTS PageShowsItsRows
CHECK_DEADLOCK FALSE
