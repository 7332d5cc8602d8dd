SPECIFICATION FairSpec
CONSTANTS
  MAXCORES = 2
  NUM_PROC = 3
  NULL = NULL
  Syscalls = {"sys_sleep", "read_key_buffer", "ps"}
  ForkCores = {}
  WaitPids = {}
  MaxPid = 0
  KallocMayFail = FALSE
INVARIANTS ResumesSavedContext
PROPERTIES WakeUpEmptiesChannel ReadyRuns SleepersWake
