SPECIFICATION Spec
CONSTANTS
    c1 = c1
    c2 = c2
    a = a
    b = b
    Server = Server
    Absent = Absent
    Nobody = Nobody
    Author = c1
    Client <- TwoClients
    Body <- TwoBodies
    MaxDepth = 3
    MaxReplans = 1
    MaxSyncs = 2
    MaxFaults = 1
SYMMETRY Swap
INVARIANTS
    ChainComplete
    DoneMeansPublished
    ForkIsReal
PROPERTIES
    OnlyAdvances
