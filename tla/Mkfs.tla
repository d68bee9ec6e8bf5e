-------------------------------- MODULE Mkfs --------------------------------
(***************************************************************************)
(* mkfs/mkfs.c: the image of the first file system.  A unit of data is a   *)
(* uint, or a directory entry, which is its inode number.  The blocks of   *)
(* inodes and the bitmap are kept apart from those of data and indirect    *)
(* addresses, which are sequences of units.                                *)
(***************************************************************************)
EXTENDS Integers, Sequences, FiniteSets

CONSTANTS
  BSIZE,       \* units of a block, and addresses of an indirect one
  NDIRECT,
  IPB,         \* inodes of a block
  NINODES, FSSIZE, LOGBLOCKS,
  BPB,         \* bits of a block
  SIZES        \* sizes of the files that are copied

ROOTINO == 1
NINDIRECT == BSIZE
MAXFILE == NDIRECT + NINDIRECT

nlog == LOGBLOCKS + 1
ninodeblocks == NINODES \div IPB + 1
nbitmap == FSSIZE \div BPB + 1
nmeta == 2 + nlog + ninodeblocks + nbitmap
inodestart == 2 + nlog
bmapstart == 2 + nlog + ninodeblocks

VARIABLES
  img,         \* the image, with freeinode and freeblock
  host,        \* ghost: the content of the file with each inode number
  done

vars == <<img, host, done>>

-----------------------------------------------------------------------------
(* Inodes *)

NoInode == [type |-> "none", nlink |-> 0, size |-> 0, addrs |-> [i \in 0 .. NDIRECT |-> 0]]

IBLOCK(inum) == inum \div IPB + inodestart
rinode(s, inum) == s.inodes[IBLOCK(inum)][inum % IPB]
winode(s, inum, din) == [s EXCEPT !.inodes[IBLOCK(inum)][inum % IPB] = din]

ialloc(s, type) ==
  winode([s EXCEPT !.freeinode = @ + 1], s.freeinode,
         [NoInode EXCEPT !.type = type, !.nlink = 1])

-----------------------------------------------------------------------------
(* iappend: t has the image, the inode, and the block x that is found *)

\* A block for address slot i of the inode.
Direct(t, i) ==
  IF t.din.addrs[i] # 0 THEN [t EXCEPT !.x = t.din.addrs[i]]
  ELSE [t EXCEPT !.x = t.s.freeblock, !.din.addrs[i] = t.s.freeblock, !.s.freeblock = @ + 1]

\* mutant: an entry that has a block gets another.
IndirectFresh(t, i) ==
  [t EXCEPT !.x = t.s.freeblock, !.s.blk[t.x][i + 1] = t.s.freeblock, !.s.freeblock = @ + 1]

\* A block for entry i of the indirect block t.x.
Indirect(t, i) ==
  IF t.s.blk[t.x][i + 1] # 0 THEN [t EXCEPT !.x = t.s.blk[t.x][i + 1]]
  ELSE [t EXCEPT !.x = t.s.freeblock, !.s.blk[t.x][i + 1] = t.s.freeblock, !.s.freeblock = @ + 1]

BlockFor(t, fbn) ==
  IF fbn < NDIRECT THEN Direct(t, fbn) ELSE Indirect(Direct(t, NDIRECT), fbn - NDIRECT)

MinOf(a, b) == IF a < b THEN a ELSE b

\* n1: up to the end of the block that has offset off.
Piece(n, off) == MinOf(n, (off \div BSIZE + 1) * BSIZE - off)

\* bcopy into the block at an offset in it.
Copied(b, at, data) == [i \in 1 .. BSIZE |-> IF i - at \in 1 .. Len(data) THEN data[i - at] ELSE b[i]]

\* The loop, at offset off; an assertion that fails ends mkfs.
RECURSIVE Append1(_, _, _)
Append1(t, off, data) ==
  IF data = <<>> \/ t.s.aborted THEN [t EXCEPT !.din.size = off]
  ELSE IF off \div BSIZE >= MAXFILE THEN [t EXCEPT !.s.aborted = TRUE]
  ELSE LET u == BlockFor(t, off \div BSIZE)
           n1 == Piece(Len(data), off)
       IN  Append1([u EXCEPT !.s.blk[u.x] = Copied(@, off % BSIZE, SubSeq(data, 1, n1))],
                   off + n1, SubSeq(data, n1 + 1, Len(data)))

iappend(s, inum, data) ==
  LET t == Append1([s |-> s, din |-> rinode(s, inum), x |-> 0], rinode(s, inum).size, data)
  IN  IF t.s.aborted THEN t.s ELSE winode(t.s, inum, t.din)

-----------------------------------------------------------------------------
(* main *)

Zeroed == [freeinode |-> 1, freeblock |-> nmeta, bitmap |-> {}, aborted |-> FALSE,
           inodes |-> [b \in inodestart .. bmapstart - 1 |-> [i \in 0 .. IPB - 1 |-> NoInode]],
           blk |-> [b \in nmeta .. FSSIZE - 1 |-> [i \in 1 .. BSIZE |-> 0]]]

\* The root directory, with . and ..
Init ==
  /\ img = iappend(iappend(ialloc(Zeroed, "dir"), ROOTINO, <<ROOTINO>>), ROOTINO, <<ROOTINO>>)
  /\ host = <<>> /\ done = FALSE

\* The content of a file, as read returns it in pieces of a block.
RECURSIVE AppendAll(_, _, _)
AppendAll(s, inum, data) ==
  IF data = <<>> THEN s
  ELSE AppendAll(iappend(s, inum, SubSeq(data, 1, MinOf(BSIZE, Len(data)))), inum,
                 SubSeq(data, MinOf(BSIZE, Len(data)) + 1, Len(data)))

\* The blocks that a file of n units, and its directory entry, may need.
Enough(n) == img.freeblock + n \div BSIZE + 4 <= FSSIZE

\* One file of the command line.
AddFile(n) ==
  /\ ~done /\ ~img.aborted /\ Enough(n) /\ img.freeinode < NINODES
  /\ \E data \in {[i \in 1 .. n |-> img.freeinode * 100 + i]} :
       /\ img' = AppendAll(iappend(ialloc(img, "file"), ROOTINO, <<img.freeinode>>), img.freeinode, data)
       /\ host' = Append(host, data)
  /\ UNCHANGED done

balloc(s, used) == IF used >= BPB THEN [s EXCEPT !.aborted = TRUE] ELSE [s EXCEPT !.bitmap = 0 .. used - 1]

\* The size of the root directory covers its blocks.
RootSize(off) == (off \div BSIZE + 1) * BSIZE

Finish ==
  /\ ~done /\ ~img.aborted
  /\ \E din \in {rinode(img, ROOTINO)} :
       img' = balloc(winode(img, ROOTINO, [din EXCEPT !.size = RootSize(@)]), img.freeblock)
  /\ done' = TRUE /\ UNCHANGED host

Next == (\E n \in SIZES : AddFile(n)) \/ Finish

Spec == Init /\ [][Next]_vars

-----------------------------------------------------------------------------
(* The image, as the kernel reads it *)

\* The block that bmap of kernel/fs.c finds, 0 if there is none.
Mapped(din, fbn) ==
  IF fbn < NDIRECT THEN din.addrs[fbn]
  ELSE IF din.addrs[NDIRECT] = 0 THEN 0 ELSE img.blk[din.addrs[NDIRECT]][fbn - NDIRECT + 1]

\* All blocks of an inode, its indirect one included, with their place in it.
Owned(inum) ==
  {<<inum, fbn, Mapped(rinode(img, inum), fbn)>> : fbn \in 0 .. MAXFILE - 1}
    \cup {<<inum, MAXFILE, rinode(img, inum).addrs[NDIRECT]>>}
Used == {o \in UNION {Owned(i) : i \in 1 .. NINODES - 1} : o[3] # 0}

Unit(din, off) == IF Mapped(din, off \div BSIZE) = 0 THEN 0
                  ELSE img.blk[Mapped(din, off \div BSIZE)][(off % BSIZE) + 1]

\* Every file of the image reads as it was when it was copied, over direct and
\* indirect blocks, and the root directory lists every inode once, after . and
\* .. and followed by free entries only.
FilesReadBack ==
  ~img.aborted =>
    /\ \A i \in 1 .. Len(host) :
         LET din == rinode(img, i + 1)
         IN  /\ [off \in 1 .. din.size |-> Unit(din, off - 1)] = host[i]
             /\ din.type = "file" /\ din.nlink = 1
    /\ LET din == rinode(img, ROOTINO)
       IN  [off \in 1 .. din.size |-> Unit(din, off - 1)] =
             [off \in 1 .. din.size |-> IF off <= 2 THEN ROOTINO
                                        ELSE IF off <= Len(host) + 2 THEN off - 1 ELSE 0]

\* In the finished image no block is in two places, and the bitmap has exactly
\* the blocks before the data and those of the inodes.  The blocks of the root
\* directory are all there, except that its size has one block too many when its
\* entries fill its blocks.
BitmapExact ==
  done /\ ~img.aborted =>
    /\ \A o, p \in Used : o # p => o[3] # p[3]
    /\ img.bitmap = (0 .. nmeta - 1) \cup {o[3] : o \in Used}
    /\ (Len(host) + 2) % BSIZE # 0 =>
         /\ rinode(img, ROOTINO).size % BSIZE = 0
         /\ \A fbn \in 0 .. rinode(img, ROOTINO).size \div BSIZE - 1 : Mapped(rinode(img, ROOTINO), fbn) # 0

\* The image is a file system: FilesReadBack and BitmapExact.
ImageSound == FilesReadBack /\ BitmapExact
=============================================================================
