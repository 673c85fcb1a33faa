\* Three CPUs, three processes on two levels, quantum 2.
CONSTANTS
    cpu0 = cpu0
    cpu1 = cpu1
    cpu2 = cpu2
    ld = ld
    p1 = p1
    p2 = p2
    p3 = p3
    NULL = NULL
    CPU = {cpu0, cpu1, cpu2}
    Devices = {cpu0, cpu1, cpu2, ld}
    Horizon = 3
    Proc = {p1, p2, p3}
    MAX_PRIO = 2
    MAX_QUEUE_SIZE = 3
    time_slot = 2
    Config <- MCConfig
    prio <- MCPrio
    start_time <- MCStart
    code_size <- MCSize
SPECIFICATION OsSpec
INVARIANTS
    OsTypeOK
    NoLeftoverQuantum
    StoppedMeansFinished
PROPERTIES
    ImplementsSched
    OneInstructionPerSlot
    EveryProcessFinishes
