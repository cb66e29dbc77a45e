SPECIFICATION Spec
CONSTANTS
    dev1 = dev1
    ctx1 = ctx1
    que1 = que1
    buf1 = buf1
    buf2 = buf2
    prog1 = prog1
    kern1 = kern1
    evt1 = evt1
    x1 = x1
    x2 = x2
    v1 = v1
    v2 = v2
    t1 = t1
    t2 = t2
    Objects = {dev1, ctx1, que1, buf1, buf2, prog1, kern1, evt1}
    Devices = {dev1}
    MayBe <- MCMayBe
    Null = Null
    Arity = 1
    Vars = {x1, x2}
    Vectors = {v1, v2}
    N = 1
    VectorKinds = {"kernel"}
    Threads = {t1, t2}
    MaxSurplus = 1
    MaxOff = 1
    MaxOwn = 3
    MaxHeld = 6
SYMMETRY Symmetry
INVARIANTS
    CountsMatchHolders
    DamageIsContained
    DiagnosticFreesAll
CHECK_DEADLOCK FALSE
