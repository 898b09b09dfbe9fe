SPECIFICATION FairSpec
\* A caller need not start another thread.
CHECK_DEADLOCK FALSE
CONSTANTS
  Threads = {t1, t2, t3}
  Blocks = {b1, b2, b3}
  NULL = NULL
  CreateMayFail = TRUE
INVARIANTS OnlyFailedStartsLeak BlockOutlivesThread LockComesBack HonestFlag
PROPERTIES EveryThreadReturns
