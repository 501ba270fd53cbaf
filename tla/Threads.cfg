SPECIFICATION Spec
CONSTANTS
  NPROC = 4
  NOFILE = 2
  NFILE = 2
  Folders = {1, 2}
  MaxPages = 3
  MaxCalls = 2
  MaxUpsets = 1
  Kits <- AllKits
INVARIANTS TypeOK RefsExact DirsExact Survives
CHECK_DEADLOCK FALSE
