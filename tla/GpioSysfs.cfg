\* Two programs that use the same pins, started side by side.
SPECIFICATION GpioFairSpec
CONSTANTS
  Procs = {"p", "q"}
  Mixes <- MCMixes
  MaxFaults = 2
INVARIANTS
  ConfiguredWhenRunning
  EventsAreEdges
PROPERTIES
  EdgesAreRead
  RetriesSucceed
