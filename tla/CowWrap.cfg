SPECIFICATION WrapSpec
CONSTANTS
  Zero = Zero
  None = None
  p1 = p1
  p2 = p2
  p3 = p3
  InitProc = p1
  Procs = {p1, p2, p3}
  Frames = {1, 2, 3, 4, 5, 6, 7, 8}
  MaxPages = 2
  PtSpan = 1
  TextPages = 1
  RefLimit = 3
  Stores = {"a"}
  Pick <- LowestFree
PROPERTY Transparent
CHECK_DEADLOCK FALSE
