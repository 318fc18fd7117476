SPECIFICATION TreesSpec
CONSTANT
    LongName = 5
    MaxNodes = 4
    MaxProperties = 4
    Names = {1, 2, 3}
    NameLen <- MCNameLen
    Lengths = {0, 5}
    NameWords = 2
    PerBuffer = 3
    Rooms = {0, 3, 5}
    FromXml <- MCFromXml
INVARIANT
    BufferSizeNeeded
CHECK_DEADLOCK FALSE
