SPECIFICATION Spec
CONSTANTS
  Procs = {p1, p2}
  Blocks = {a, b, c}
  Values = {0, 1}
  Fresh = 0
  MAXOPBLOCKS = 3
  LOGSIZE = 6
  OpBlocks = 2
  p1 = p1
  p2 = p2
  a = a
  b = b
  c = c
INVARIANTS TypeOK NoPanic SleepersWoken Settled
PROPERTY Atomic
CHECK_DEADLOCK FALSE
