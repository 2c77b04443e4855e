SPECIFICATION SimulationsSpec
CONSTANTS
    None = None
    Vaults = {"vault", "next"}
    InitialVault = "vault"
    MaxWindowBlocks = 288
    RecoveryDelay = 432
    DustSats = 2
    RouterSlack = 8
    MaxCooldown = 144
    MaxFeeBudget = 10000000
    OracleFee = 0
    Price = 1
    FundAmounts = {1000}
    WindowChoices = {288}
    ChunkChoices = {1000000}
    CooldownChoices = {1}
    BudgetChoices = {0}
    MaxHeight = 9000
    MaxGift = 1000000
    VaultNotice = 4032
    Cycles = {1, 2, 3, 4, 5}
    MaxTranche = 2
    DistLength = 1050
    Stakers <- ScriptStakers
    Wealth = 2200000
    InitialCap = 2100000
    MaxLock = 96
    MaxCap = 2300000
    MaxCycle = 100
    Principals <- ScriptPrincipals
    FirstAdmin = "deployer"
    AdminCooldown = 144
    FeeCooldown = 144
    MaxBips = 200
    MaxFeeBips = 10
    FirstFee = 9
INVARIANTS
    ScriptsAgree
CHECK_DEADLOCK FALSE
