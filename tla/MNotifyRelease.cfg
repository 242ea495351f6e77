\* The shared connection, and that of each polling iteration, connected again.
CONSTANTS
    t1 = t1
    Thread = {t1}
    MaxMails = 1
    CountModulus = 3
    QueueLimit = 2
    IdleSupport = {TRUE, FALSE}
    ThreadCreated = {TRUE}
SPECIFICATION Spec
INVARIANT ReleasedBeforeReconnect
