\* The 32-bit build: two processes of up to three pages, two frames of RAM and
\* three of swap.
CONSTANTS
    p1 = p1
    p2 = p2
    Proc = {p1, p2}
    RamFrames = 2
    SwpFrames = 3
    Value = {1, 2}
    MM64 = FALSE
    PagesPer64 = 16
    SWPOFF = 32
    FPNSPAN = 8192
    MaxPages = 3
SPECIFICATION Spec
SYMMETRY Processes
INVARIANTS
    PagingTypeOK
    NoFrameShared
    NoSwapFrameShared
    FifoIsResident
    LostOnlyAtFrameZero
PROPERTY
    ImplementsPageStore
