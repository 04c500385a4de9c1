SPECIFICATION FairSpec
CONSTANTS
  j1 = j1
  j2 = j2
  j3 = j3
  j4 = j4
  p1 = p1
  p2 = p2
  NoProcess = NoProcess
  Jobs <- FourJobs
  Product <- OwnProducts
  Process <- FourProcesses
  Processes <- TwoProcesses
  Slots <- TwoStates
  Capacity = 3
  Changeovers <- BothWays
  Plans <- GoodPlans
INVARIANTS
    PlannedChangeoverAlone
    FollowsPlan
    NoEarlyChangeover
    LoopNeverSpins
    LockedUntilOver
PROPERTIES
    EveryJobProduced
CHECK_DEADLOCK FALSE
