SPECIFICATION Spec
CONSTANTS
  Kind = {k1, k2}
  Family = {f1}
  Poll = {p1, p2}
  ScanCap = 1
  Window = 2
  RateWindow = 1
  Threshold = 2
  Cooldown = 2
  MaxFamilies = 1
  MaxExc = 2
  MaxTime = 2
INVARIANT NothingSkipped
PROPERTIES ReachesAlerter PagesAreDue
