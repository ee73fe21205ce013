SPECIFICATION Spec
CONSTANTS
  Watches = {w1}
  Projects = {p1}
  Paths = {m1}
  Files = {f1, f2}
  Scanners = {s1, s2}
  NoProject = NoProject
  Newest = 1
  MaxEdits = 2
  MaxChanges = 4
  MaxScans = 3
  MaxFaults = 1
SYMMETRY Symmetry
INVARIANTS RestoreUndoesArchive
PROPERTIES ChangesAreAnnounced
CHECK_DEADLOCK FALSE
