CONSTANTS
    Cycles = {c1}
    MaxTranche = 1
    None = None
    Stakers = {s1, s2}
    MaxBips = 4
    MaxFeeBips = 1
    ShareChoices = {0, 2}
    CoverChoices = {0, 1}
    PotChoices <- SoldOrRecovered
SPECIFICATION FairPayoutSpec
INVARIANTS
    BalanceBacksDebts
    EveryoneCanBePaid
    FullyPaidMeansEveryone
    ReceiptIsFair
    SweepIsDust
PROPERTIES
    EveryoneIsPaid
    ReceiptsAreFinal
CHECK_DEADLOCK FALSE
