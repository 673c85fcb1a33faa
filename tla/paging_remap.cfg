\* The 64-bit build with frames for everybody: a second allocation maps page
\* numbers that are taken, and what was written there is gone.
CONSTANTS
    p1 = p1
    p2 = p2
    Proc = {p1, p2}
    RamFrames = 8
    SwpFrames = 3
    Value = {1}
    MM64 = TRUE
    PagesPer64 = 16
    SWPOFF = 32
    FPNSPAN = 8192
    MaxPages = 2
SPECIFICATION Spec
SYMMETRY Processes
INVARIANT WrittenIsKept
