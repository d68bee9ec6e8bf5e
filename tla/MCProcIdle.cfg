CONSTANTS
  NPROC = 1
  MAXPID = 2
  TICKS = 2
  MAXPAUSE = 0
  Calls <- ReadCalls
  KillPids = {2}
  Irqs = TRUE
SPECIFICATION Spec
INVARIANT IdleMeansNothingToRun
