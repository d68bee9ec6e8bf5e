CONSTANTS
  NPROC = 2
  Process = {1, 2}
  InitProc = 1
  NOFILE = 3
  NFILE = 3
  Ip = {1}
  PipePage = {11}
  NBUF = 3
  NBLOCK = 4
  CHANGED = {3}
  HOLD = 2
  PINS = 1
  BufData <- TwoData
SPECIFICATION StorageSpec
CHECK_DEADLOCK FALSE
INVARIANT NoPanic
 
INVARIANT BlocksOwnedOnce
INVARIANT FilesDurable
 
INVARIANT ImageSound
INVARIANT FilesSound
PROPERTY FailsClean
