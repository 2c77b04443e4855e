CONSTANTS
    Principals = {p1, p2}
    FirstAdmin = p1
    None = None
    FeeCooldown = 1
    MaxBips = 2
    MaxFeeBips = 1
    DistLength = 1
    PrepareLength = 1
    Amounts = {1}
    Rewards = {3}
    FeeChoices = {0, 1}
    OgChoices = {p1, p2}
    LastCycle = 1
    MaxTranche = 0
    MaxHeight = 3
SPECIFICATION StxPoolSpec
INVARIANTS
    FullyPaidLeavesRounding
CHECK_DEADLOCK FALSE
