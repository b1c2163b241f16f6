\* The device modules and the memory module are loaded and removed in any order
\* beside a user; there are pages for two loads only.
SPECIFICATION KernelSpec
CONSTANTS
  Modules = {"pcf8591", "sh1106", "led"}
  Users = {1}
  Majors = {n1, n2}
  MaxLoads = 3
  Chunks = {c1, c2}
  Blocks = 2
  MaxMems = 2
INVARIANTS
  FilesReachTheirDriver
  RecordsOwnedUntilRemoval
  LeaksAreFailedLoads
PROPERTY RegionGranted
CHECK_DEADLOCK FALSE
SYMMETRY MCSymmetry
