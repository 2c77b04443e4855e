CONSTANTS
    Vaults = {v1}
    None = None
    MaxWindowBlocks = 2
    RecoveryDelay = 3
    DustSats = 1
    RouterSlack = 1
    MaxCooldown = 1
    MaxFeeBudget = 1
    OracleFee = 1
    Price = 1
    FundAmounts = {1, 4}
    WindowChoices = {0, 2, 3, 4}
    ChunkChoices = {1, 2}
    CooldownChoices = {0, 1}
    BudgetChoices = {0, 1}
    MaxHeight = 7
    MaxGift = 2
SPECIFICATION VaultSpec
INVARIANTS
    NoPositionWithoutBatch
    ClosesOnDust
    RecoveryOpensAfterWindow
PROPERTIES
    MakerOnlyWhileWindowOpen
CHECK_DEADLOCK FALSE
