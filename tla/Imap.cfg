\* Two rounds of idle and search in a session; every fault.
CONSTANTS
    MaxMails = 1
    MaxCommand = 6
    MaxInFlight = 2
    Faults = {"break", "write", "refuse", "garble"}
SPECIFICATION FairSpec
INVARIANTS
    TypeOK
    InSync
    SearchExact
    RepliesKept
    IdlesOnlyIfSupported
PROPERTY CommandAnswered
