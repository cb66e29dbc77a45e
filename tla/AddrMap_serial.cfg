SPECIFICATION FairSpec
CONSTANTS
    Procs = {p1, p2}
    Addrs = {a1, a2}
    NoAddr = NoAddr
    Bufs = {b1, b2, b3}
    NoBuf = NoBuf
    NSlots = 2
    LookupLimit = 2
    MayMap <- AnyAddr
    Sharing = TRUE
INVARIANTS
    TypeOK
    RefCounts
    MappedIsAllocated
    SlotDescribesItsVmas
    NoAliasing
    NoOrphans
    OwnSlotAnswers
PROPERTIES
    MissIsExplained
    ImplementsSharedBuffers
    DetachedIsFreed
