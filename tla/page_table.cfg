\* Three levels of two slots; pages that share every level, two of them, one and
\* none.
CONSTANTS
    SWPOFF = 32
    FPNSPAN = 8192
    MM64 = TRUE
    Levels = 3
    Fanout = 2
    PageNo = {0, 1, 3, 4}
    Frame = {0, 1}
    Swap = {2}
    Pattern <- Deadbeef
    MaxRange = 2
SPECIFICATION Spec
INVARIANTS
    PageTableTypeOK
    OneTablePerPrefix
PROPERTY
    ImplementsPageMap
