\* Three callers of an ungoverned gate.
CONSTANTS
    Request = {r1, r2, r3}
    NoRequest = none
    ActiveLimit = 2
    QueueLimit = 2
    GovernedActive = 2
    GovernedQueue = 2
    MaxConfigurations = 0
SPECIFICATION Spec
SYMMETRY RequestSymmetry
INVARIANT InteractiveSlotLeft
