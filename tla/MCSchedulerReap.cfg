SPECIFICATION FairSpec
CONSTANTS
  MAXCORES = 1
  NUM_PROC = 4
  NULL = NULL
  Syscalls = {"fork", "exit", "wait"}
  ForkCores = {0}
  WaitPids = {4, 6}
  MaxPid = 6
  KallocMayFail = FALSE
PROPERTIES WaitedForIsReaped
