CONSTANTS
    Stakers = {s1, s2}
    Wealth = 3
    InitialCap = 2
    MaxLock = 2
    None = None
    MaxCap = 4
    MaxCycle = 3
SYMMETRY ReorderStakers
SPECIFICATION OgSpec
INVARIANTS
    SeatsAddUp
    CoveredWithinCap
    CoverWithinStake
PROPERTIES
    SeatLastsWhileStaying
    OfferNeverShrinks
CHECK_DEADLOCK FALSE
