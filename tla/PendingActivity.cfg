\* One pointer, two activity times.
CONSTANTS
    Snapshot = {s1, s2}
    NoSnapshot = none
    Branch = {main}
    DefaultBranch = main
    Tag = {}
    Session = {p}
    Activity = {1, 2}
    NoActivity = noActivity
    HookCapture = {}
    SessionOf <- OneSession
    Supersedes <- NoPrefix
    MaxGraftSeq = 0
    Annotated = {}
    MaxBatch = 1
    MaxRecorded = 0
SPECIFICATION ObservedSpec
INVARIANT PointerNotRewound
