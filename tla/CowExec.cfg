SPECIFICATION ExecSpec
CONSTANTS
  Zero = Zero
  None = None
  p1 = p1
  p2 = p2
  InitProc = p1
  Procs = {p1, p2}
  Frames = {1, 2, 3, 4, 5, 6, 7, 8}
  MaxPages = 3
  PtSpan = 3
  TextPages = 1
  RefLimit = 4
  Stores = {"a"}
  Pick <- LowestFree
PROPERTY Transparent
CHECK_DEADLOCK FALSE
