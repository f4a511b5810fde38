SPECIFICATION FairSpec
CONSTANTS
    head = head
    x = x
    y = y
    v1 = v1
    f1 = f1
    p1 = p1
    Nobody = Nobody
    NoRegister = NoRegister
    Snapshot <- OneSnapshot
    Node <- OneNodes
    Saver <- OneSaver
    Flusher <- OneFlusher
    Planner <- OnePlanner
    InitialQueue <- LegacyQueue
    MaxGraftSeq = 3
    MaxSaves = 2
    MaxOthers = 1
    MaxFaults = 1
CHECK_DEADLOCK FALSE
INVARIANTS
    EdgeHasEvent
    DrainedMeansShared
    PublishedGraphIsShared
PROPERTIES
    NothingDropped
    Converges
