\* Messages of up to three records, in two calls, with and without faults.
CONSTANTS
    MaximumMessage = 2
    Header = 1
    Trailer = 1
    MaxSize = 5
    MaxCalls = 2
    Faults = {"encrypt", "send"}
SPECIFICATION Spec
INVARIANTS
    TypeOK
    WireFramed
    ZeroMeansAllSent
PROPERTY ImplementsByteStream
