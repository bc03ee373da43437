SPECIFICATION NetSpec
CONSTANTS
  Cards = {c1}
  Callers = {a}
  None = None
  MaxDev = 1
  P2PMax = 1
  MaxProbes = 1
  MaxCalls = 0
  MaxEvents <- NoEvents
PROPERTY ExitClosesFirst
CHECK_DEADLOCK FALSE
