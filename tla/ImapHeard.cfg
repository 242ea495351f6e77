\* Lines that one read returns together.
CONSTANTS
    MaxMails = 1
    MaxCommand = 4
    MaxInFlight = 2
    Faults = {}
SPECIFICATION Spec
PROPERTY ExistsHeard
