SPECIFICATION Spec
CONSTANTS
  Zero = Zero
  None = None
  p1 = p1
  p2 = p2
  InitProc = p1
  Procs = {p1, p2}
  Frames = {1, 2, 3, 4, 5, 6, 7}
  MaxPages = 2
  PtSpan = 1
  TextPages = 1
  RefLimit = 4
  Stores = {"a"}
  Pick <- LowestFree
INVARIANTS
  TypeOK
  RolesDisjoint
  RefsCovered
  WritableSole
  NoLostPage
PROPERTY Transparent
CHECK_DEADLOCK FALSE
