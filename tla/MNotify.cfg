\* Two thread slots, both kinds of server, room for one announcement.
CONSTANTS
    t1 = t1
    t2 = t2
    Thread = {t1, t2}
    MaxMails = 1
    CountModulus = 3
    QueueLimit = 2
    IdleSupport = {TRUE, FALSE}
    ThreadCreated = {TRUE, FALSE}
SPECIFICATION FairSpec
INVARIANTS
    TypeOK
    SingleWatcher
    ListenGuarded
    WarningIcon
PROPERTIES
    ExpungeRaisesOnlyByRace
    ReportDelivered
    NoReadHangs
    ImplementsWatcher
