SPECIFICATION Spec
CONSTANTS
  Files = {f1, f2}
  Ports = {p1}
  MaxMsgs = 2
  MaxConnects = 3
  None = None
SYMMETRY Symmetry
INVARIANTS OnceInOrder HeardUnlessShared FilesUseFreedOnlyIfShared OversleepsOnlyReconnected
CHECK_DEADLOCK FALSE
