\* Two answers miss the 5 ms, one command, write or answer is lost, and the
\* halves of an answer may arrive apart.
SPECIFICATION SteeringSpec
CONSTANTS
  Version = 257
  Split = TRUE
  MaxLate = 2
  MaxLost = 1
INVARIANTS
  WaitsForKey
  WaitsForMotion
  StopsFirst
PROPERTIES
  Ends
  Completes
CHECK_DEADLOCK FALSE
