SPECIFICATION FairSpec
CONSTANTS
    d1 = d1
    d2 = d2
    d3 = d3
    Descs = {d1, d2, d3}
    NoDesc = NoDesc
    Length <- MCLength
    ReadDepth = 4
    WriteDepth = 1
    MaxBurst = 1
    Park = {d3}
    Irq = {d1, d3}
    QueueDepth = 2
    copying = copying
    controlling = controlling
    Hosts = {copying, controlling}
    Accesses <- MCAccesses
INVARIANTS
    ReadsHaveRoom
    TransfersAreOwn
PROPERTIES
    HostIsServed
    ResetEndsWrites
