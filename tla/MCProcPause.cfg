CONSTANTS
  NPROC = 1
  MAXPID = 2
  TICKS = 4
  MAXPAUSE = 1
  Calls <- PauseCalls
  KillPids = {2}
  Irqs = TRUE
SPECIFICATION FairSpec
PROPERTY PauseEnds
