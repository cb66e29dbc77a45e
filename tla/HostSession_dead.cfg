SPECIFICATION Spec
CONSTANTS
    Procs = {h1, h2}
    Deaf = {}
    MayCrash = {h1, h2}
    MayMiss = {}
    Nobody = Nobody
INVARIANTS
    NoSignalToDead
