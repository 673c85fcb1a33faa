\* Two processes of one level and queues of one entry: what 51 processes of a
\* level are to the queues of 50 entries of the code.
CONSTANTS
    hi = hi
    lo = lo
    lo2 = lo2
    NULL = NULL
    Proc = {hi, lo, lo2}
    MAX_PRIO = 3
    MAX_QUEUE_SIZE = 1
    prio <- Prio
SPECIFICATION WaitSpec
INVARIANTS
    NoProcessLost
