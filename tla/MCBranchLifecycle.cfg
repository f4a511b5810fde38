CONSTANTS
    c1 = c1
    c2 = c2
    Server = Server
    Client <- TwoClients
    Commit <- Line
    Parent <- LineParent
    Root = 1
    MaxOps = 2
    MaxSyncs = 1
    MaxCrashes = 1
SPECIFICATION Spec
SYMMETRY Swap
INVARIANTS
    HeadResolves
    RestMeansAgreed
PROPERTIES
    NothingLost
