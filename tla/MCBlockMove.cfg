SPECIFICATION Spec
CONSTANTS
    MemSize = 304
    Filler = 0
    Before <- MCBefore
    Requests <- MCRequests
INVARIANTS
    Moved
    AccessesSound
CHECK_DEADLOCK FALSE
