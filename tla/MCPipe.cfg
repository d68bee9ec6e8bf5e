CONSTANTS
  Proc = {p1, p2}
  Byte = {a, b}
  PIPESIZE = 2
  COUNT = 4
  MAXN = 2
  Eof = Eof
  Nothing = Nothing
  NoProc = NoProc
SPECIFICATION FairSpec
INVARIANT NoLostWakeup
INVARIANT FreedOnce
PROPERTY IsQueue
PROPERTY WritesEnd
