\* Three callers, an ungoverned gate and a governed one.
CONSTANTS
    Request = {r1, r2, r3}
    NoRequest = none
    ActiveLimit = 2
    QueueLimit = 2
    GovernedActive = 2
    GovernedQueue = 2
    MaxConfigurations = 1
SPECIFICATION FairSpec
INVARIANTS CountersExact NothingGrantable RemoteInsideLocal
PROPERTIES NoOvertaking InteractiveServed Restored
