\* The reset flag against the connection it speaks of.
CONSTANTS
    t1 = t1
    Thread = {t1}
    MaxMails = 1
    CountModulus = 3
    QueueLimit = 2
    IdleSupport = {TRUE}
    ThreadCreated = {TRUE}
SPECIFICATION Spec
PROPERTY ResetRecognised
