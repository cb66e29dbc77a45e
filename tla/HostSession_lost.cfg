SPECIFICATION FairSpec
CONSTANTS
    Procs = {h1, h2}
    Deaf = {}
    MayCrash = {}
    MayMiss = {h1}
    Nobody = Nobody
PROPERTIES
    LevelStaysHigh
