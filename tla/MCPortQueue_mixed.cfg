SPECIFICATION Spec
CONSTANTS
    t1 = t1
    t2 = t2
    r1 = r1
    p1 = p1
    p2 = p2
    Items <- MCItems
    Capacity = 2
    Reservers <- MCReservers
    Returning <- MCReturning
    Plain <- MCPlain
    OwnCount = TRUE
INVARIANTS
    WithinCapacity
    NoLostWakeup
    ReservationsBacked
SYMMETRY MCSymmetry
