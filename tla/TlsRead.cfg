\* Records of every kind, the longest as long as the buffer; every fault.
CONSTANTS
    BufferSize = 4
    Header = 1
    Trailer = 1
    ReadSizes = {1, 3}
    Payloads = {0, 1, 2}
    OtherKinds = {"close", "handshake", "junk"}
    MaxRecords = 3
    Streams <- AllStreams
    Faults = {"close", "error"}
SPECIFICATION ReadingSpec
CHECK_DEADLOCK FALSE
INVARIANTS
    TypeOK
    PointersInRecord
    BlocksOnlyForMore
    EndIsReal
    FailureIsReal
PROPERTIES
    ImplementsByteStream
    AllDelivered
