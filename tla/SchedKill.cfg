CONSTANTS
    NPROC = 2
    CPUs = {c1}
    Asks <- AskNone
    MaxUpsets = 1
    c1 = c1
SPECIFICATION Spec
INVARIANT Queued
CHECK_DEADLOCK FALSE
