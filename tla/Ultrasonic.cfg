\* A second of 9 ticks, in which every stamp meets every rollover.
SPECIFICATION UltraFairSpec
CONSTANTS
  Second = 9
  Pulse = 2
  Nap = 2
  EchoMax = 3
  MaxFaults = 2
INVARIANTS
  PulseLongEnough
  WaitsForEcho
PROPERTIES
  PrintedIsElapsed
  SpinEnds
