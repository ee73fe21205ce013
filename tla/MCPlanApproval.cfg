SPECIFICATION Spec
CONSTANTS
  Plans = {p1, p2}
  Requests = {r1, r2}
  MaxRequests = 4
  MaxFaults = 2
  MaxLocks = 1
  MaxCrashes = 1
SYMMETRY Symmetry
INVARIANTS OneProjectPerPlan OneRunPerPlan UsedMeansDone
CHECK_DEADLOCK FALSE
