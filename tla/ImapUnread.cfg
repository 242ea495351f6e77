\* Unread mail, with an idle timer that elapses.
CONSTANTS
    MaxMails = 1
    MaxCommand = 4
    MaxInFlight = 2
    Faults = {}
SPECIFICATION TimedSpec
PROPERTY UnreadFound
