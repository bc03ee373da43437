SPECIFICATION DoorbellSpec
CONSTANTS
  Threads = {t1, t2}
  Room = 2
  Limit = 1
  Slots = 3
  Shared = FALSE
  Retries = 1
  MaxSends = 6
  MaxRestarts = 2
  NoThread = NoThread
INVARIANTS MailboxBounded StrandedForCause
PROPERTIES DeafForGood GetsThrough
CHECK_DEADLOCK FALSE
