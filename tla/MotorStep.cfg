\* Any coils and any detent to begin with, failing writes, and a program that
\* is killed anywhere and started again.
SPECIFICATION MotorFairSpec
CONSTANTS
  MaxFaults = 2
  MaxCrash = 1
INVARIANTS
  CleanPhaseIsExact
  OverlapOnlyAtWrap
PROPERTIES
  TurnsForward
  KeepsTurning
