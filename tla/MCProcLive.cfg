CONSTANTS
  NPROC = 4
  MAXPID = 4
  TICKS = 1
  MAXPAUSE = 0
  Calls <- TreeCalls
  KillPids = {2, 3}
  Irqs = FALSE
SPECIFICATION FairSpec
CHECK_DEADLOCK FALSE
PROPERTY KilledExits
PROPERTY OrphansReaped
PROPERTY RunnableRuns
