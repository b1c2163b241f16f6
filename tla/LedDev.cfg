\* Two processes run led_app at the same time; the module is reloaded once and
\* ioremap fails twice.
SPECIFICATION LedDevSpec
CONSTANTS
  Procs = {1, 2}
  MaxRuns = 3
  MaxLoads = 2
  MaxFaults = 2
INVARIANTS
  RegistersKept
  LedShowsLastWrite
  MappedWhenUsed
CHECK_DEADLOCK FALSE
