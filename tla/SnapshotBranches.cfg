\* Two branches with their lifecycle events, and one pending pointer.
CONSTANTS
    Snapshot = {s1, s2, s3}
    NoSnapshot = none
    Branch = {main, topic}
    DefaultBranch = main
    Tag = {}
    Session = {p}
    Activity = {}
    NoActivity = noActivity
    HookCapture = {}
    SessionOf <- OneSession
    Supersedes <- NoPrefix
    MaxGraftSeq = 1
    Annotated = {}
    MaxBatch = 1
    MaxRecorded = 2
SPECIFICATION Spec
SYMMETRY SnapshotSymmetry
INVARIANTS AcyclicHistory ArchivedIsGone
PROPERTIES SharedHistoryKept SharedPendingResolved
