SPECIFICATION MailFairSpec
CONSTANTS
    Invite = {i1, i2}
    Mailer = {w1}
    NoInvite = NoInvite
    Lifetime = 5
    MailLease = 1
    SendTime = 1
    Window = 3
    MaxMailAttempts = 2
    MailBackoff <- Doubling
    MailRetryAfter <- Asked
    Stall = 1
    Retention = 4
CHECK_DEADLOCK FALSE
INVARIANTS
    MailedOnce
PROPERTIES
    ImplementsDelivery
    RevokedIsNotMailed
    MailSettles
