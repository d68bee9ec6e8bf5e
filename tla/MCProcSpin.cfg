CONSTANTS
  NPROC = 2
  MAXPID = 2
  TICKS = 3
  MAXPAUSE = 0
  Calls <- SpinCalls
  KillPids = {2}
  Irqs = FALSE
SPECIFICATION KernelFairSpec
PROPERTY RunnableRuns
