CONSTANTS
  NINODES = 4
  NINODE = 4
  DPB = 2
  Name = {"a", "b"}
  RootPath <- RootPaths
  LocalPath <- LocalPaths
  NFILE = 2
  ROAMFILE = 1
  Proc = {p1, p2}
  MAXROOM = 2
  SHRT = 8
SPECIFICATION Spec
SYMMETRY Symm
INVARIANT RefsExact
INVARIANT NamesSound
INVARIANT NoLeakedInode
 
PROPERTY FailureLeavesNoTrace
