SPECIFICATION FairSpec
CONSTANTS
    Word = 64
    End = 8
    kImage3Magic = 50
    kImage3TagData = 51
    Layouts <- MCLayouts
    Types <- MCTypes
INVARIANT
    AsLaidOut
PROPERTY
    SearchEnds
CHECK_DEADLOCK FALSE
