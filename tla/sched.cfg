\* Three processes, one on the highest and two on the lowest of three levels;
\* queues large enough for all.
CONSTANTS
    hi = hi
    lo = lo
    lo2 = lo2
    NULL = NULL
    Proc = {hi, lo, lo2}
    MAX_PRIO = 3
    MAX_QUEUE_SIZE = 3
    prio <- Prio
SPECIFICATION WaitSpec
INVARIANTS
    SchedTypeOK
    NoProcessLost
    BoundedWait
    RunningIsListed
