SPECIFICATION Spec
CONSTANTS
    m1 = m1
    m2 = m2
    changeover = changeover
    b1 = b1
    b2 = b2
    f1 = f1
    f2 = f2
    States <- OneMachineStates
    Production <- OneMachine
    Setups <- Changeovers
    Downtimes <- OneBreaker
    Failures <- TwoFailures
    Covers <- CoversFirst
    Work <- Two
    UpTime <- OftenUp
    DownTime <- OftenDown
INVARIANTS
    WorkIsConserved
PROPERTIES
    EventsSurvive
    BreakdownsStopWork
CHECK_DEADLOCK FALSE
