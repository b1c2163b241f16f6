\* Are there addresses that do not work?
SPECIFICATION PadSpec
CONSTANTS
  Targets <- MCTwoPages
INVARIANTS
  EveryAddressWorks
CHECK_DEADLOCK FALSE
