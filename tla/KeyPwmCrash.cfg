\* The parent may be killed or interrupted once and started again; fork may
\* fail.
SPECIFICATION KeySpec
CONSTANTS
  p1 = p1
  p2 = p2
  p3 = p3
  Pids = {p1, p2, p3}
  DutyMax = 2
  Fast = 2
  Node0 = 2
  LeftDuty <- MCLeftDuty
  Faults = FALSE
  ForkMayFail = TRUE
  MaxCrash = 1
INVARIANTS
  OneWorker
  KillHitsOwnChild
  WorkerShowsSettings
  DriversBounded
PROPERTY ImplementsDimmerSafely
SYMMETRY MCSymmetry
