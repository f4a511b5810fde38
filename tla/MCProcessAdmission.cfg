SPECIFICATION Spec
CONSTANTS
    a1 = a1
    a2 = a2
    api = api
    xa = xa
    xm = xm
    Nobody = Nobody
    Process = {a1, a2}
    Role = {api}
    RoleOf <- HandoffRoleOf
    BulkKey <- HandoffKey
    ActiveSlots <- HandoffSlots
    Permit = {xa, xm}
    Home <- HandoffHome
    Plan <- HandoffPlan
    MaxSessions = 1
    MaxFaults = 1
CHECK_DEADLOCK FALSE
INVARIANTS
    BulkExclusive
    RoleExclusive
PROPERTIES
    AlarmIsTrue
