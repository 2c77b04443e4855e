CONSTANTS
    Users = {u1, u2}
    Stackers = {s1, s2}
    None = None
    MaxReceipts = 1
    Weight <- EqualWeight
    SignerShare <- EqualWeight
    UserInfluence = 2000
    CycleLength = 2
    PrepareBuffer = 1
    FinalizeBuffer = 0
    MaxStx = 2
SPECIFICATION FairCoreSpec
INVARIANTS
    FullyBacked
    
    BooksAddUp
    ReceiptBooksAgree
PROPERTIES
    EveryReceiptIsPaid
