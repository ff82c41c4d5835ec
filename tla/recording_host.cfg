SPECIFICATION Spec
CONSTANTS
  Event = {e1, e2}
  EntryPoint = {"request", "safe", "diagnostic", "exception", "client"}
  OtelType = {"diagnostic", "exception"}
  Grace = 1
  MaxTracked = 1
INVARIANTS
  OnlyScrubbedLeaves
  FailuresAccounted
PROPERTIES
  RepeatsArePrinted
  CaptureResumes
CHECK_DEADLOCK FALSE
