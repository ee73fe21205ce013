SPECIFICATION FairSpec
CONSTANTS
  Procs = {p1, p2}
  Contestants = {1, 2}
  Samples = {s1}
  Keys = {k1, k2}
  NoKey = NoKey
  NoProc = NoProc
  MaxAccepted = 3
  MaxFaults = 1
  MaxRestarts = 1
INVARIANTS
  SingleExecutor
  CalledOncePerApproval
  VotingMeansAllAnswered
  CompletedIsJudged

  
CHECK_DEADLOCK FALSE
