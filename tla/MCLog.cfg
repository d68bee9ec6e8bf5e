CONSTANTS
  Blocks = {b1, b2}
  Val = {v1, v2}
  Proc = {p1, p2}
  LOGBLOCKS = 6
  MAXOPBLOCKS = 3
  OPBLOCKS = 2
  NSECT = 2
  NoBlock = NoBlock
SYMMETRY Symm
SPECIFICATION Spec
INVARIANT LogInv
INVARIANT QuietIsDurable
PROPERTY CrashAtomic
