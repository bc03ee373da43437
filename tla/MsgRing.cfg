SPECIFICATION Spec
CONSTANTS
  Senders = {s1, s2}
  Ports = {a, b}
  Sizes = {0, 1, 5}
  FifoSize = 24
  HeadSize = 3
  MemAlign = 4
  MaxMsgs = 3
  Nil = Nil
SYMMETRY Symmetry
INVARIANTS UnreadWhole
PROPERTIES ImplementsChannel
