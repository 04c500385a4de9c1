SPECIFICATION FairSpec
CONSTANTS
  p1 = p1
  p2 = p2
  t1 = t1
  t2 = t2
  t3 = t3
  d1 = d1
  Requests <- MixedRequests
  Kind <- MixedKind
  Group <- MixedGroup
  Lotted <- MixedNoLots
  MinLot = 1
  MaxLot = 1
  Capacity = 2
  TargetSize = 1
  Policy = "FIFO"
INVARIANTS
    CapacityRespected
    IdleMeansFree
    TargetNotOverrun
    NothingForgotten
PROPERTIES
    EveryRequestServed
CHECK_DEADLOCK FALSE
