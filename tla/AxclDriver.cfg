SPECIFICATION Spec
CONSTANTS
  Cards = {c1, c2}
  None = None
  MaxDev = 2
  Chunks <- Image1
  DumpSizes = {1}
  MaxThreads = 1
  MaxProbes = 2
  MaxEvents = 2
  MaxFails = 1
SYMMETRY Symmetry
INVARIANTS MapSound StartedWhole BadForCause QuietAfterExit
CHECK_DEADLOCK FALSE
