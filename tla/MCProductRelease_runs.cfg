SPECIFICATION FairSpec
CONSTANTS
  sourceA = sourceA
  sourceB = sourceB
  orders = orders
  A = A
  B = B
  C = C
  Sources <- TwoSources
  OrderSources <- OneOrderSource
  TypeOf <- TypesOfTwo
  PortSlots = 1
  Unlimited = Unlimited
  NoId = NoId
  Arrivals <- OneOrTwo
  Horizon = 3
  Systems <- AllSystems
INVARIANTS
    ConwipRespected
    HangsOnlyWhenCrowded
PROPERTIES
    EveryScheduleDrains
CHECK_DEADLOCK FALSE
