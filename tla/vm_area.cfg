\* Three symbols, pages of two bytes, a break of at most five, ints of -6 to 5.  Offset 10 makes
\* an address negative, or wrap around to below the region it is taken from.
CONSTANTS
    a = a
    b = b
    c = c
    RgId = {a, b, c}
    Size = {0, 1, 2, 3}
    Offset = {1, 10}
    PAGING_PAGESZ = 2
    IntLimit = 6
    MaxSpace = 6
    MaxBreak = 5
SPECIFICATION Spec
SYMMETRY Symbols
INVARIANTS
    VmTypeOK
    RegionsDisjoint
    EveryByteAccounted
    BreakWithinLimit
    OnlyWildOffsetsTrespass
