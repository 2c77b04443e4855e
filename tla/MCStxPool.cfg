CONSTANTS
    Principals = {p1, p2}
    FirstAdmin = p1
    None = None
    FeeCooldown = 4
    MaxBips = 1
    MaxFeeBips = 1
    DistLength = 1
    PrepareLength = 1
    Amounts = {1}
    Rewards = {3}
    FeeChoices = {1}
    OgChoices = {p2}
    LastCycle = 1
    MaxTranche = 1
    MaxHeight = 4
SPECIFICATION StxPoolSpec
INVARIANTS
    WalletIsBooks
    OnlyEarlyPaymentsHurt
CHECK_DEADLOCK FALSE
