SPECIFICATION FairSpec
CONSTANTS
  p1 = p1
  p2 = p2
  s1 = s1
  s2 = s2
  m = m
  w1 = w1
  w2 = w2
  w3 = w3
  w4 = w4
  named = named
  pooled = pooled
  guide = guide
  i1 = i1
  o1 = o1
  b1 = b1
  b2 = b2
  c1 = c1
  c2 = c2
  NoOne = NoOne
  Products <- TwoProducts
  Passes <- SomePasses
  Stations <- TwoStations
  Able <- AnyStation
  Inputs <- InPorts
  Outputs <- OutPorts
  Start <- SourcePorts
  Movers <- TwoMovers
  Workers <- AllWorkers
  Dependencies <- ThreeNeeds
  Candidates <- WhoCan
  ByName <- NamedOnly
  Needs <- NeedsOfAll
  ModelNeeds <- GuideForTwo
  Schedule <- PlanOfOne
INVARIANTS
    ProductsNeverForgotten
    StaffedWork
    NoWorkerKept
PROPERTIES
    EveryProductLeaves
CHECK_DEADLOCK FALSE
