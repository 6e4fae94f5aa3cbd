CONSTANTS
  Lines = {a, b, c}
  Distilled = {a, b, c}
  Flagged = {a, b}
  Admitted = {a}
  Sentimental = {}
  Poison = {c}
  Slow = {}
  Hopeless = {}
  Jobs = {j1, j2}
  BatchSize = 2
  MaxPerHost = 1
  MaxQueue = 2
  MaxFail = 2
  MaxClock = 2
  MaxFaults = 1
SPECIFICATION FairSpec
INVARIANTS NothingSkipped EscalationsKept
PROPERTY CronsSettle
CHECK_DEADLOCK FALSE
