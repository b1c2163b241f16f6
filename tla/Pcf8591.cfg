\* Two processes show two channels, whose levels change, on a bus with errors.
SPECIFICATION PcfFairSpec
CONSTANTS
  Apps = {1, 2}
  Argument <- MCArgument
  Levels = {0, 128}
  BusErrors = TRUE
INVARIANTS
  ShownIsPrevious
PROPERTIES
  FirstQuits
