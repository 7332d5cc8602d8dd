SPECIFICATION Spec
CONSTANTS
  MAXCORES = 2
  NUM_PROC = 4
  NULL = NULL
  Syscalls = {"fork", "exit", "wait"}
  ForkCores = {0, 1}
  WaitPids = {7}
  MaxPid = 7
  KallocMayFail = FALSE
CHECK_DEADLOCK FALSE
INVARIANTS ForkReturnsClone
