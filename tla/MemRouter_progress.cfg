SPECIFICATION FairSpec
CONSTANTS
    NumBanks = 2
    MaxBurst = 2
    BankWords = 4
    MaxReads = 1
    MaxWrites = 1
    Requests <- MCBursts
    None = None
PROPERTIES
    RequestsAreServed
