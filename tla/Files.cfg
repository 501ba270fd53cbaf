SPECIFICATION Spec
CONSTANTS
  Procs = {1, 2}
  uid <- Users
  Inums = {1, 2, 3}
  Names = {"a", "b"}
  Kits <- AllKits
  MaxForgot = 1
  MaxUpsets = 2
  None = None
INVARIANTS TypeOK RefsExact LinksExact OnlyPutsStop
PROPERTIES Permitted
CHECK_DEADLOCK FALSE
