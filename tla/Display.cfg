\* The display module is loaded, two animations share its display of two pages from the
\* first moment its device file exists, and two transfers fail.
SPECIFICATION DisplaySpec
CONSTANTS
  p1 = p1
  p2 = p2
  Procs = {p1, p2}
  Pages = 2
  Cols = 1
  RamCols = 2
  Nibble = 1
  Frames = 1
  MaxRuns = 2
  MaxFaults = 2
  Modules = {"sh1106"}
  Majors = {"m1"}
  MaxLoads = 1
SYMMETRY Twins
INVARIANTS
  FrameLandsExactly
  OnWhileShown
CHECK_DEADLOCK FALSE
