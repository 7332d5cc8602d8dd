SPECIFICATION Spec
CONSTANTS
  MAXCORES = 2
  NUM_PROC = 4
  NULL = NULL
  Syscalls = {"fork", "exit", "wait"}
  ForkCores = {0}
  WaitPids = {7}
  MaxPid = 7
  KallocMayFail = TRUE
CHECK_DEADLOCK FALSE
INVARIANTS TypeOK LockExclusion PidsUnique OnePlace IInv NoLostChildWakeup ForkReturnsClone
PROPERTIES ReapsStoppedProcess
