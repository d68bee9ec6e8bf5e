CONSTANTS
  NPROC = 2
  DevLocks = {1}
  OtherLocks = {1}
  Reader = {1, 2}
  Count = {1, 3}
  INPUT_BUF_SIZE = 2
  UINT = 4
SPECIFICATION MachineSpec
CHECK_DEADLOCK FALSE
INVARIANT NoPanic
INVARIANT InterruptsSound
INVARIANT MemorySound
INVARIANT ReadersReady
INVARIANT StringsExact
INVARIANT HeapSound
INVARIANT TextExact
INVARIANT LinesRun
PROPERTY AllOrNothing
PROPERTY IsTerminal
