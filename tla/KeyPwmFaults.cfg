\* Opens, writes, reads and forks may fail; workers exit on their own; the
\* second controller's node is numbered per chip.
SPECIFICATION FairKeySpec
CONSTANTS
  Pids = {1, 2}
  DutyMax = 2
  Fast = 2
  Node0 = 0
  LeftDuty <- MCLeftDuty
  Faults = TRUE
  ForkMayFail = TRUE
  MaxCrash = 0
INVARIANTS
  RoundNeedsBothNodes
PROPERTY ParentNeverHangs
