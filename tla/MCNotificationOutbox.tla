------------------------ MODULE MCNotificationOutbox -------------------------
EXTENDS NotificationOutbox

\* One tick of backoff per attempt made, the shape of the code's 2^n schedule.
BackoffTicks == [n \in 1 .. MaxAttempts |-> n]
=============================================================================
