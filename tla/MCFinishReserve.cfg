CONSTANTS
    Vaults = {v1}
    InitialVault = v1
    None = None
    MaxWindowBlocks = 1
    RecoveryDelay = 2
    DustSats = 1
    RouterSlack = 1
    MaxCooldown = 0
    MaxFeeBudget = 1
    OracleFee = 1
    Price = 1
    FundAmounts = {1, 3}
    WindowChoices = {0, 1}
    ChunkChoices = {2}
    CooldownChoices = {0}
    BudgetChoices = {0, 1}
    MaxHeight = 5
    MaxGift = 2
    VaultNotice = 1
    Cycles = {1}
    MaxTranche = 1
    DistLength = 2
SPECIFICATION PoolSpec
PROPERTIES
    FinishReturnsAllStx
CHECK_DEADLOCK FALSE
