SPECIFICATION ClientsSpec
CONSTANTS
  Cards = {c1, c2}
  Callers = {a, b}
  None = None
  MaxDev = 2
  P2PMax = 1
  MaxProbes = 2
  MaxCalls = 3
  MaxEvents <- MCMaxEvents
SYMMETRY Symmetry
INVARIANTS CallsForCause NetForCause SameMemory NothingLeft
CHECK_DEADLOCK FALSE
