SPECIFICATION Spec
CONSTANTS
    Procs = {tester, host}
    Testers = {tester}
    Nobody = Nobody
    NoRequest = NoRequest
    RegionSize <- MCRegionSize
    MayFail = {"dev", "buffer", "table", "region", "class", "cdev", "node", "map2", "map0", "irq"}
    Width = 64
    Base = 12
    Window = 12
    Buf = 8
    UserCells = 24
    Sizes <- MCSizes
    Asked <- MCAsked
    Requests <- MCRequests
INVARIANTS
    BounceBufferIsMine
    OutcomeMatchesData
    TesterPasses
    InRegion
    CallsFindTheirDevice
    UnloadReturnsAll
CHECK_DEADLOCK FALSE
