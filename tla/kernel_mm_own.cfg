\* The same instance: an instruction that holds mmvm_lock meets another process's
\* memory in the middle.
CONSTANTS
    cpu0 = cpu0
    cpu1 = cpu1
    p1 = p1
    p2 = p2
    p3 = p3
    Devices = {cpu0, cpu1}
    Horizon = 0
    Proc = {p1, p2, p3}
    NULL = NULL
    MaxMap = 2
SPECIFICATION Spec
SYMMETRY Symmetry
INVARIANT OwnMemory
