SPECIFICATION Spec
CONSTANTS
  N = 3
  Empty = {2}
  L = 2
  MaxRuns = 2
  MaxRevision = 1
  MaxFaults = 1

  
  
PROPERTIES
  SuccessFollowsOutput
  
CHECK_DEADLOCK FALSE
