SPECIFICATION PortsSpec
CONSTANTS
  Procs = {p1, p2}
  Devices = {d1}
  BasePort = 21
  PortLimit = 24
  MaxPort = 2
  RingCap = 2
  MaxReplies = 2
  Lists <- OthersLists
  NoCreate = NoCreate
SYMMETRY ProcSymmetry
INVARIANTS PortsDisjoint HandleBacked
PROPERTIES OnlyHolderFrees LeakOnlyByFailedCreate SkewNeverHeals
