SPECIFICATION Spec
CONSTANTS
    Buffers = {b1, b2, b3}
    Requests = {0, 3, 6, 10, 17}
    Log2Sli = 2
    Levels = 4
    AreaSize = 36
SYMMETRY Symmetry
INVARIANTS
    TypeOK
    Tiled
    BoundaryTags
    ListsExact
    Owned
    NothingLeaks
    GoodFit
PROPERTY
    HeapSpec
