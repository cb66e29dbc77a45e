SPECIFICATION Spec
CONSTANTS
    Procs = {p1, p2}
    Addrs = {a1, a2}
    NoAddr = NoAddr
    Bufs = {b1, b2}
    NoBuf = NoBuf
    NSlots = 2
    LookupLimit = 2
    MayMap <- AnyAddr
    Sharing = FALSE
INVARIANTS
    MappedIsAllocated
