SPECIFICATION Spec
CONSTANTS
  Event = {e1}
  EntryPoint = {"safe"}
  OtelType = {}
  Grace = 1
  MaxTracked = 1
INVARIANT HoldLasts
CHECK_DEADLOCK FALSE
