\* A server in service whose messages come whole or in any pieces, and one
\* with every fault.
CONSTANTS
    BufferSize = 3
    MaxMessages = 2
    MaxLength = 3
    Greeting = {1, 3}
    Streams <- ServerStreams
    LastFlight = 2
    AnyCuts = {TRUE, FALSE}
    FaultSets <- NoneOrAll
SPECIFICATION FairSpec
CHECK_DEADLOCK FALSE
INVARIANTS
    TypeOK
    NothingLeaks
    LeftoverKept
    NeverStuck
PROPERTY HandshakeCompletes
