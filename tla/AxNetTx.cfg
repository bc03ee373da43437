SPECIFICATION Spec
CONSTANTS
  Ring = 2
  MaxPackets = 4
  MaxResets = 2
INVARIANTS PacketsIntact
PROPERTIES QueueWoken
CHECK_DEADLOCK FALSE
