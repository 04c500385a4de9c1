SPECIFICATION FairSpec
CONSTANTS
  a = a
  b = b
  d = d
  s = s
  c1 = c1
  n1 = n1
  Products <- AllProducts
  Stock <- AllStock
  Types <- AllTypes
  TypeOf <- TypesOf
  Tools <- Carriers
  Steps <- Processes
  Machines <- AllMachines
  Source <- Sources
  Sink <- Sinks
  Input <- Inputs
  Output <- Outputs
  Stores <- AllStores
  StoresOf <- StoreLists
  Home <- Homes
  Room <- Rooms
INVARIANTS
    PoolIsHonest
    OneEntityPerRequest
    NothingForgotten
PROPERTIES
    ToolsComeBack
    EveryProductLeaves
CHECK_DEADLOCK FALSE
