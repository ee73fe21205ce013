SPECIFICATION FairSpec
CONSTANTS
  Size <- SizeMixed
  Namings <- NamingsAll
  Workers = 2
  MaxPending = 2
  MaxRetries = 2
INVARIANTS
  FailedMeansFallback
PROPERTIES
  StreamEnds
  Delivers
CHECK_DEADLOCK FALSE
