SPECIFICATION Spec
CONSTANTS
    NumBanks = 2
    MaxBurst = 2
    BankWords = 4
    MaxReads = 1
    MaxWrites = 1
    Requests <- MCRequests
    None = None
INVARIANTS
    TypeOK
    Credits
    WriteCredits
    StreamsMatch
    SelectFifoIsSound
PROPERTIES
    ImplementsInOrderMemory
