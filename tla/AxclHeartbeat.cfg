SPECIFICATION Spec
CONSTANTS
  Procs = {p1,p2}
  Devices = {d1,d2}
  NoFirmware = {d2}
  NoHandshake = {d1}
  MaxBeats = 2
  MaxStarts = 2
  MaxEvents = 1
  Prompt = FALSE
  None = None
CHECK_DEADLOCK FALSE
INVARIANTS VerdictStands LossSignalled
PROPERTIES GivenUpForCause DeathNoticed
