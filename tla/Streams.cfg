SPECIFICATION Spec
CONSTANTS
  Procs = {sh, p1, p2, p3, p4}
  Sh = sh
  NOFILE = 5
  NFILE = 4
  PIPESIZE = 2
  INPUT_BUF = 2
  Width = 4
  Pipes = {q1, q2}
  CatBuf = 2
  None = None
  sh = sh
  p1 = p1
  p2 = p2
  p3 = p3
  p4 = p4
  q1 = q1
  q2 = q2
  Sessions <- AllSessions
  Commands <- AllCommands
  Chars <- AllChars
INVARIANTS TypeOK PipesLive WakeupsComing InOrder Complete
PROPERTY Finishes
CHECK_DEADLOCK FALSE
