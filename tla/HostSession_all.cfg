SPECIFICATION FairSpec
CONSTANTS
    Procs = {h1, h2, t1}
    Deaf = {t1}
    MayCrash = {h1, h2}
    MayMiss = {h1}
    Nobody = Nobody
INVARIANTS
    TypeOK
    SignalIsMine
    MaskedIsOwed
    AliveWhileOrderly
    AccessNeedsBridges
    LineIsClaimed
    ReadyAfterReprogram
    
PROPERTIES
    KernelIsDealtWith
