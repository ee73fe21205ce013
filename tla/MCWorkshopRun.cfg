SPECIFICATION FairRepairSpec
CONSTANTS
  Issues = {1, 2, 3}
  FileOf <- TwoFiles
  Workers = {w1, w2}
  Handlers = {h}
  BatchSize = 2
  Overlap = FALSE
  MaxRuns = 1
  MaxRequests = 1
  MaxErrors = 1
  MaxRestarts = 1
 
PROPERTIES  RunEnds
CHECK_DEADLOCK FALSE
