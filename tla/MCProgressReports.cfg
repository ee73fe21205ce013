SPECIFICATION FairReports
CONSTANTS
  r1 = r1
  r2 = r2
  w1 = w1
  Runs = {r1, r2}
  Workers = {w1}
  RunOf <- PoolOf
  Others = {o1}
  RpmOf <- LimitOf
  Rpms = {60}
  FirstRpm = 40
  MaxRounds = 2
  MaxMessages = 2
  MaxSettings = 1
  MaxSaveFaults = 1
INVARIANTS
  LimitRestored
PROPERTIES
  ReportsReturn
CHECK_DEADLOCK FALSE
