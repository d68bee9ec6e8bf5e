CONSTANTS
  Blocks = {b1, b2, b3, b4}
  Val = {v1}
  Proc = {p1, p2, p3}
  LOGBLOCKS = 4
  MAXOPBLOCKS = 2
  OPBLOCKS = 1
  NSECT = 1
  NoBlock = NoBlock
SPECIFICATION FairSpec
INVARIANT NoPanic
PROPERTY SleeperWoken
