\* Two CPUs, one process: one CPU never finds anything to run.
CONSTANTS
    cpu0 = cpu0
    cpu1 = cpu1
    cpu2 = cpu2
    ld = ld
    p1 = p1
    p2 = p2
    p3 = p3
    NULL = NULL
    CPU = {cpu0, cpu1}
    Devices = {cpu0, cpu1, ld}
    Horizon = 2
    Proc = {p1}
    MAX_PRIO = 2
    MAX_QUEUE_SIZE = 2
    time_slot = 2
    Config <- FewConfig
    prio <- FewPrio
    start_time <- FewStart
    code_size <- FewSize
SPECIFICATION OsSpec
PROPERTIES
    SimulatorStops
