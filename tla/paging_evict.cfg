\* The 64-bit build with one frame of RAM: the page evicted from it goes on
\* passing for resident.
CONSTANTS
    p1 = p1
    p2 = p2
    Proc = {p1, p2}
    RamFrames = 1
    SwpFrames = 3
    Value = {1}
    MM64 = TRUE
    PagesPer64 = 16
    SWPOFF = 32
    FPNSPAN = 8192
    MaxPages = 2
SPECIFICATION Spec
SYMMETRY Processes
INVARIANT NoFrameShared
