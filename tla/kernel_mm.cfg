\* Two CPUs and three processes.
CONSTANTS
    cpu0 = cpu0
    cpu1 = cpu1
    p1 = p1
    p2 = p2
    p3 = p3
    Devices = {cpu0, cpu1}
    Horizon = 0
    Proc = {p1, p2, p3}
    NULL = NULL
    MaxMap = 2
SPECIFICATION Spec
INVARIANTS
    KernelTypeOK
    ConfinedToRunning
    OwnWhenAlone
    UnlinkExclusive
    LockHeldInside
PROPERTY
    EveryInstructionEnds
