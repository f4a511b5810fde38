\* Live captures of one growing conversation under two pending pointers.
CONSTANTS
    Snapshot <- Captures
    NoSnapshot = none
    Branch = {main}
    DefaultBranch = main
    Tag = {v}
    Session = {p, q}
    Activity = {}
    NoActivity = noActivity
    HookCapture <- EarlierCaptures
    SessionOf <- OneSession
    Supersedes <- Growing
    MaxGraftSeq = 0
    Annotated = {1}
    MaxBatch = 2
    MaxRecorded = 0
SPECIFICATION Spec
SYMMETRY SessionSymmetry
INVARIANTS NoDanglingParent PointersResolve CapturesKept
