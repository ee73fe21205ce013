SPECIFICATION FairSpec
CONSTANTS
  Tasks = {t1, t2}
  Projects = {p1}
  Ops = {o1}
  NoProject = NoProject
  NoOp = NoOp
  MaxTerminal = 2
  MinTerminal = 1
  MaxFaults = 1
  MaxResets = 1
  MaxRestarts = 2
INVARIANTS
  OneHolderPerKey
  WritersExclusive
  OperationBoundOnce
PROPERTIES
  NoResurrection
  RepairEventuallyEnds
CHECK_DEADLOCK FALSE
