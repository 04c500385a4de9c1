SPECIFICATION FairSpec
CONSTANTS
  a = a
  b = b
  Products <- TwoProducts
  Processes <- DiamondProcesses
  NodeCount = 4
  Before <- DiamondBefore
  ProcessOf <- DiamondProcessOf
  Reworks <- DiamondReworks
  Blocking <- DiamondBlocking
  CanFail <- DiamondFailing
  MaxLot = 2
INVARIANTS
    LeavesFinished
PROPERTIES
    FollowsRecipe
    EveryProductLeaves
CHECK_DEADLOCK FALSE
