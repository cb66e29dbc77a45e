SPECIFICATION FairSpec
CONSTANTS
    Procs = {tester, host}
    Testers = {tester}
    Nobody = Nobody
    NoRequest = NoRequest
    RegionSize <- MCRegionSize
    MayFail = {"map2", "map0"}
    Width = 64
    Base = 12
    Window = 12
    Buf = 8
    UserCells = 24
    Sizes <- MCSizes
    Asked <- MCAsked
    Requests <- MCRequests
CHECK_DEADLOCK FALSE
PROPERTY
    CallsReturn
