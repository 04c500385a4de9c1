SPECIFICATION Spec
CONSTANTS
    m1 = m1
    m2 = m2
    changeover = changeover
    b1 = b1
    b2 = b2
    f1 = f1
    f2 = f2
    States <- Machines
    Production <- Nothing
    Setups <- Nothing
    Downtimes <- TwoBreakers
    Failures <- Nothing
    Covers <- NoCovers
    Work <- ShortOrLong
    UpTime <- StaggeredUp
    DownTime <- StaggeredDown
INVARIANTS
    ActiveIffUp
    NoWorkWhileDown
PROPERTIES
    EveryRunEnds
