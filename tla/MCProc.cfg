CONSTANTS
  NPROC = 3
  MAXPID = 4
  TICKS = 2
  MAXPAUSE = 1
  Calls <- AllCalls
  KillPids = {1, 2}
  Irqs = TRUE
SPECIFICATION Spec
CHECK_DEADLOCK FALSE
INVARIANT TypeOK
INVARIANT ParentsLive
INVARIANT PidsNameProcesses
INVARIANT NoLostWakeup
PROPERTY KilledStatus
