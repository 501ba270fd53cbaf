SPECIFICATION Spec
CONSTANTS
  Cpus = {c1, c2}
  Idle = Idle
  Printing = FALSE
INVARIANT NoDeadlock
CHECK_DEADLOCK FALSE
