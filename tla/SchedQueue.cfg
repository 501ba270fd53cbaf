CONSTANTS
    NPROC = 3
    CPUs = {c1, c2}
    Asks <- AskFifo
    MaxUpsets = 1
    c1 = c1
    c2 = c2
SPECIFICATION Spec
INVARIANTS TypeOK RunsOnce QueueExact WaitersWoken
CHECK_DEADLOCK FALSE
PROPERTIES RoundRobin BestFirst
