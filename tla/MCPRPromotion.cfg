SPECIFICATION PromotionSpec
CONSTANTS
    Job <- TwoJobs
    Worker = {w1}
    Caller = {c1}
    Batch = 1
    SourceAttempts = 1
    RetryLimit = 2
    MaxRetries = 1
    MaxFaults = 1
INVARIANTS
    OneRunning
    AppliedOnce
PROPERTIES
    ClaimKept
