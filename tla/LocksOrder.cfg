SPECIFICATION Spec
CONSTANTS
  Cpus = {c1, c2, c3}
  Idle = Idle
  Printing = TRUE
INVARIANTS OnlyReportsPanic OnlyFaultsHang
CHECK_DEADLOCK FALSE
