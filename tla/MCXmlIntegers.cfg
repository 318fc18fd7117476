SPECIFICATION FairSpec
CONSTANTS
    Documents <- MCDocuments
    TextLen <- MCTextLen
    ChildrenTexts = {"@"}
    PerBlock = 3
    PerBuffer = 3
    Rooms = {99}
INVARIANT
    IntegersKept
CHECK_DEADLOCK FALSE
