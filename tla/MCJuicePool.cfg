CONSTANTS
    Vaults = {v1}
    InitialVault = v1
    None = None
    MaxWindowBlocks = 1
    RecoveryDelay = 2
    DustSats = 0
    RouterSlack = 0
    MaxCooldown = 0
    MaxFeeBudget = 0
    OracleFee = 0
    Price = 4
    FundAmounts = {1}
    WindowChoices = {1}
    ChunkChoices = {1}
    CooldownChoices = {0}
    BudgetChoices = {0}
    MaxHeight = 2
    MaxGift = 0
    VaultNotice = 1
    Cycles = {1}
    MaxTranche = 0
    DistLength = 1
    Stakers = {s1}
    Wealth = 2
    InitialCap = 1
    MaxLock = 1
    MaxCap = 1
    MaxCycle = 1
    Principals = {p1}
    FirstAdmin = p1
    AdminCooldown = 1
    FeeCooldown = 1
    MaxBips = 2
    MaxFeeBips = 1
    FirstFee = 1
SPECIFICATION JuiceSpec
INVARIANTS
    WalletBacksDebts
PROPERTIES
    CoveredIsPaidInFull
CHECK_DEADLOCK FALSE
