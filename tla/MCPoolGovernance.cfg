CONSTANTS
    Principals = {alice, bob, carol}
    FirstAdmin = alice
    AdminCooldown = 2
    FeeCooldown = 2
    MaxBips = 3
    MaxFeeBips = 2
    FirstFee = 2
    NoOffer = NoOffer
    FirstHeight = 0
    MaxHeight = 5
SPECIFICATION GovernanceSpec
PROPERTIES
    FeeChangesOnNotice
    AdminChangesOnNotice
CHECK_DEADLOCK FALSE
