\* No faults and no crashes: settings, keys and workers, with progress.
SPECIFICATION FairKeySpec
CONSTANTS
  Pids = {1, 2}
  DutyMax = 20
  Fast = 10
  Node0 = 2
  LeftDuty <- MCLeftDuty
  Faults = FALSE
  ForkMayFail = FALSE
  MaxCrash = 0
INVARIANTS
  RampInRange
  ReplacedWorkerIsSilent
PROPERTIES
  Breathes
  ImplementsDimmer
  PressTakesEffect
