CONSTANTS
  NPROC = 2
  MAXPID = 3
  TICKS = 3
  MAXPAUSE = 0
  Calls <- LifeCalls
  KillPids = {0, 2}
  Irqs = FALSE
SPECIFICATION Spec
INVARIANT KillMarksProcesses
