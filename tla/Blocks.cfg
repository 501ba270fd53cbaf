SPECIFICATION Spec
CONSTANTS
  Procs = {p1, p2}
  NBUF = 2
  Blocks = {1, 2, 3}
  Values = {0, 1}
  None = None
  Zero = 0
  Faulty = {3}
  p1 = p1
  p2 = p2
INVARIANTS TypeOK OneBuffer NoPanic
PROPERTIES Answered Coherent
