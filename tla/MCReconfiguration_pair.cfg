SPECIFICATION Spec
CONSTANTS
    drill = drill
    mill = mill
    paint = paint
    move = move
    left = left
    middle = middle
    right = right
    corner = corner
    Positions <- ThreePositions
    Modules <- ThreeModules
    Required <- Needed
    Leaves <- ModelLeaves
    TransportProcess = move
    Origin = corner
    SetupStates <- Changeovers
    Breakdowns <- NoBreakdowns
    Baseline <- OneMachine
    MaxMachines = 2
    MaxVehicles = 1
    MaxModules = 2
    MaxChanges = 3
INVARIANTS
    DependenciesResolve
    PortsListed
    IdsUnique
SYMMETRY Sides
CHECK_DEADLOCK FALSE
