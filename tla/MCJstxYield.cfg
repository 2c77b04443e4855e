CONSTANTS
    Wallets = {w1, w2}
    Scale = 10
    BPS = 10
    MaxProtocolFee = 4
    FeeChoices = {0, 4, 5}
    Rewards = {3}
    CycleLength = 2
    MaxCycle = 1
    MaxSupply = 3
    MaxCollected = 5
SYMMETRY ReorderWallets
SPECIFICATION YieldSpec
INVARIANTS
    ClaimsAreCovered
    SnapshotsAreBalances
PROPERTIES
    ClaimsNeverShrink
    NothingStrands
CHECK_DEADLOCK FALSE
