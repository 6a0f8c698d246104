SPECIFICATION FairSpec
CONSTANTS
  t1 = t1
  t2 = t2
  t3 = t3
  Threads = {t1, t2, t3}
  NoThread = NoThread
  MaxCalls = 2
  Calls = {"update", "manual", "view", "close"}
  FnMayFail = TRUE
CHECK_DEADLOCK FALSE
INVARIANTS
  TypeOK
  WriterOwnsLock
  MapPinned
  NoWriterAfterClose
  LocksHeld
  NoDeadlock
PROPERTY
  CallsReturn
