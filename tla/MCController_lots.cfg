SPECIFICATION Spec
CONSTANTS
  p1 = p1
  p2 = p2
  t1 = t1
  t2 = t2
  t3 = t3
  d1 = d1
  Requests <- LotRequests
  Kind <- LotKind
  Group <- LotGroup
  Lotted <- LotLotted
  MinLot = 2
  MaxLot = 5
  Capacity = 4
  TargetSize = 4
  Policy = "LIFO"
INVARIANTS
    ParallelTransportsShareRoute
    SleepsForLotsOnly
CHECK_DEADLOCK FALSE
