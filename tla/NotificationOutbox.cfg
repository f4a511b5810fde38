\* One row, two workers, two destinations of which one is not http.
SPECIFICATION FairSpec
CONSTANTS
    Job = {j1}
    Worker = {w1, w2}
    Url = {u1, u2}
    HttpUrl = {u1}
    NoUrl = NoUrl
    NoClaim = NoClaim
    MaxAttempts = 2
    Lease = 2
    Backoff <- BackoffTicks
    RetryAfter = {2}
    DelayCap = 2
    MaxRetries = 1
    MaxFaults = 1
INVARIANTS
    OneOwnerPerVersion
    DeliveredWasAccepted
    AttemptBudget
    OverlapNeedsFault
PROPERTIES
    DeliversAtLeastOnce
