\* A thread that ended, and what starts the next one; every thread is created.
CONSTANTS
    t1 = t1
    Thread = {t1}
    MaxMails = 1
    CountModulus = 3
    QueueLimit = 2
    IdleSupport = {TRUE}
    ThreadCreated = {TRUE}
SPECIFICATION FairSpec
PROPERTY ExitedThreadRestarts
