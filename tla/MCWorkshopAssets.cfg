SPECIFICATION AssetsSpec
CONSTANTS
  Spaces = {s1, s2}
  Requests = {r1, r2}
  MaxVersions = 3
  MaxMishaps = 1
  None = None
  Gone = Gone
SYMMETRY Symmetry
INVARIANTS
  SelectionStands
  LineageStands
  FilesFollowRows
  TasksTellTruth
CHECK_DEADLOCK FALSE
