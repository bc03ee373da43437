SPECIFICATION Spec
CONSTANTS
  Threads = {t1, t2}
  Blocks = {1, 2, 3}
  Tables = {1, 2, 3, 4}
  Sizes = {0, 5}
  PageSize = 2
  MAX_ORDER = 2
  MaxEntry = 2
  MaxOpens = 2
SYMMETRY ThreadSymmetry
INVARIANTS AloneIsSafe
PROPERTIES LeakOnlyHalfway FailedForGood
CHECK_DEADLOCK FALSE
