SPECIFICATION Spec
CONSTANTS
    Points <- FourPoints
    Moves <- Steps
    Fitness <- Rising
    InitialPoint = 1
    NeighborhoodSize = 2
    TabuSize = 1
    MaxSteps = 3
    MaxScore = 50
INVARIANTS
    BestScoreIsOwn
CHECK_DEADLOCK FALSE
