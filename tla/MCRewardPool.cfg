CONSTANTS
    Vaults = {v1, v2, v3}
    InitialVault = v1
    None = None
    MaxWindowBlocks = 1
    RecoveryDelay = 2
    DustSats = 1
    RouterSlack = 1
    MaxCooldown = 0
    MaxFeeBudget = 2
    OracleFee = 1
    Price = 1
    FundAmounts = {2}
    WindowChoices = {1}
    ChunkChoices = {1}
    CooldownChoices = {0}
    BudgetChoices = {2}
    MaxHeight = 4
    MaxGift = 0
    VaultNotice = 2
    Cycles = {c1, c2}
    MaxTranche = 1
    DistLength = 1
SPECIFICATION FairPoolSpec
INVARIANTS
    PoolTypeOK
    VaultBusyIffPending
    SettledAllButPending
    PotsMatchBalances
    IdleVaultsHoldOnlyDust
PROPERTIES
    TrancheSettles
    ImplementsLifecycle
    VaultChangesOnNotice
CHECK_DEADLOCK FALSE
