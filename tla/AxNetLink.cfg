SPECIFICATION Spec
CONSTANTS
  Ring = 2
  MaxOpens = 2
  MaxFlips = 2
INVARIANTS BuffersRight LinkKnown NapiPaired
PROPERTIES InterruptLostOnlyAroundClose CloseEnds
CHECK_DEADLOCK FALSE
