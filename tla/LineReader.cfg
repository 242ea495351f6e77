\* Texts of up to three lines, in records that end with a line or anywhere.
CONSTANTS
    BufferSize = 12
    LocalSize = 13
    MaxRecord = 7
    MaxLines = 3
    MaxContent = 3
    Texts <- MCTexts
    WholeLines = {TRUE, FALSE}
SPECIFICATION Spec
CHECK_DEADLOCK FALSE
INVARIANTS
    TypeOK
    FirstReadExact
    InBounds
PROPERTY ImplementsLineQueue
