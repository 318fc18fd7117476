SPECIFICATION FairSpec
CONSTANTS
    Documents <- MCDocuments
    TextLen <- MCTextLen
    ChildrenTexts = {"@"}
    PerBlock = 3
    PerBuffer = 3
    Rooms = {1, 4, 7, 99}
INVARIANTS
    StaysDefined
    StoreConsistent
    TreeFromDocument
PROPERTY
    Ends
CHECK_DEADLOCK FALSE
