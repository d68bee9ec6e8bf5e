------------------------------- MODULE Inode -------------------------------
(***************************************************************************)
(* The content of inodes: balloc, bfree, bmap, itrunc, readi and writei of *)
(* kernel/fs.c under fileread and filewrite of kernel/file.c, which writes *)
(* a few blocks per transaction.  The functions map a kernel state s to    *)
(* the next one; s.logged are the blocks of the transaction.  A unit of    *)
(* data shows the inode it was written for; 0 is a zeroed unit and a       *)
(* positive number in an indirect block an address.                        *)
(***************************************************************************)
EXTENDS Integers, FiniteSets, FiniteSetsExt

CONSTANTS
  Inum,          \* inodes 1 .. n
  NBLOCKS,       \* data blocks 1 .. NBLOCKS
  BSIZE,         \* units of a block, addresses of an indirect block
  NDIRECT,
  MAXOPBLOCKS,
  BPB,           \* blocks of one bitmap block
  Inode,         \* inode of each open file
  Request,       \* byte counts given to read and write
  UINT           \* offsets and counts are modulo UINT (2^32 in the code)

Block == 1 .. NBLOCKS
NINDIRECT == BSIZE
MAXFILE == NDIRECT + NINDIRECT
File == DOMAIN Inode
NoBlock == 0
Idle == [f |-> 0, i |-> 0, n |-> 0]

InodeSizes ==
  /\ BSIZE > 0 /\ NDIRECT > 0 /\ MAXOPBLOCKS > 5 /\ BPB > 0
  /\ UINT > 2 * MAXFILE * BSIZE /\ Request \subseteq -1 .. MAXFILE * BSIZE
  /\ \A f \in File : f # 0 /\ Inode[f] \in Inum

VARIABLES
  bitmap,        \* on disk: blocks in use
  dinode,        \* on disk: size, addrs and the indirect block
  home,          \* on disk: the content of blocks
  content,       \* the content of blocks as the buffer cache has it
  mem,           \* in memory: the inodes
  off,           \* f->off
  writing,       \* the filewrite under way: i bytes of n done
  fits,          \* the last transaction logged at most MAXOPBLOCKS blocks
  panicked

vars == <<bitmap, dinode, home, content, mem, off, writing, fits, panicked>>

Zero == [k \in 0 .. BSIZE - 1 |-> 0]
EmptyInode == [size |-> 0, addrs |-> [k \in 0 .. NDIRECT - 1 |-> NoBlock],
               indirect |-> NoBlock]

Init ==
  /\ bitmap = {}
  /\ dinode = [i \in Inum |-> EmptyInode] /\ mem = dinode
  /\ home = [b \in Block |-> Zero] /\ content = home
  /\ off = [f \in File |-> 0]
  /\ writing = Idle /\ fits = TRUE /\ panicked = ""

-----------------------------------------------------------------------------
(* Blocks *)

State == [bitmap |-> bitmap, dinode |-> dinode, content |-> content, mem |-> mem,
          logged |-> {}, panic |-> ""]

Panic(s, why) == IF s.panic = "" THEN [s EXCEPT !.panic = why] ELSE s

BBlock(b) == <<"bitmap", b \div BPB>>
IBlock(i) == <<"inode", i>>
Data(b) == <<"data", b>>
Log(s, bs) == [s EXCEPT !.logged = @ \cup bs]

\* The first free block, zeroed; NoBlock when the disk is full.
Balloc(s) ==
  LET free == Block \ s.bitmap
      b    == Min(free)
  IN  IF free = {} THEN [b |-> NoBlock, s |-> s]
      ELSE [b |-> b, s |-> Log([s EXCEPT !.bitmap = @ \cup {b}, !.content[b] = Zero],
                               {BBlock(b), Data(b)})]

Bfree(s, b) ==
  IF b \notin s.bitmap THEN Panic(s, "freeing free block")
  ELSE Log([s EXCEPT !.bitmap = @ \ {b}], {BBlock(b)})

Iupdate(s, i) == Log([s EXCEPT !.dinode[i] = s.mem[i]], {IBlock(i)})

BmapDirect(s, i, bn) ==
  LET new == Balloc(s)
  IN  IF s.mem[i].addrs[bn] # NoBlock THEN [b |-> s.mem[i].addrs[bn], s |-> s]
      ELSE [b |-> new.b, s |-> [new.s EXCEPT !.mem[i].addrs[bn] = new.b]]

\* mutant: the address of a new block is not stored in the indirect block.
BmapTableForgets(s, a, k) ==
  LET new == Balloc(s)
  IN  IF s.content[a][k] # NoBlock THEN [b |-> s.content[a][k], s |-> s] ELSE new

\* Entry k of the indirect block a.
BmapTable(s, a, k) ==
  LET new == Balloc(s)
  IN  IF s.content[a][k] # NoBlock THEN [b |-> s.content[a][k], s |-> s]
      ELSE IF new.b = NoBlock THEN new
      ELSE [b |-> new.b, s |-> Log([new.s EXCEPT !.content[a][k] = new.b], {Data(a)})]

\* The address of block bn, allocated if there is none; NoBlock when the disk
\* is full.
Bmap(s, i, bn) ==
  LET new == Balloc(s)
  IN  IF bn < NDIRECT THEN BmapDirect(s, i, bn)
      ELSE IF bn >= MAXFILE THEN [b |-> NoBlock, s |-> Panic(s, "bmap: out of range")]
      ELSE IF s.mem[i].indirect # NoBlock
           THEN BmapTable(s, s.mem[i].indirect, bn - NDIRECT)
      ELSE IF new.b = NoBlock THEN new
      ELSE BmapTable([new.s EXCEPT !.mem[i].indirect = new.b], new.b, bn - NDIRECT)

-----------------------------------------------------------------------------
(* Truncating, reading, writing *)

RECURSIVE BfreeAll(_, _)
BfreeAll(s, bs) ==
  IF bs = {} THEN s ELSE LET b == Min(bs) IN BfreeAll(Bfree(s, b), bs \ {b})

Addresses(table) == {table[k] : k \in DOMAIN table} \ {NoBlock}

Itrunc(s, i) ==
  LET ind  == s.mem[i].indirect
      data == BfreeAll(s, Addresses(s.mem[i].addrs))
      t    == IF ind = NoBlock THEN data
              ELSE Bfree(BfreeAll(data, Addresses(s.content[ind])), ind)
  IN  Iupdate([t EXCEPT !.mem[i] = EmptyInode], i)

\* readi's loop over [o, o + n), as far as blocks are found.
RECURSIVE ReadLoop(_, _, _, _)
ReadLoop(s, i, o, n) ==
  LET a == Bmap(s, i, o \div BSIZE)
      m == Min({n, BSIZE - (o % BSIZE)})
  IN  IF n = 0 THEN s
      ELSE IF a.b = NoBlock THEN a.s
      ELSE ReadLoop(a.s, i, o + m, n - m)

\* The count of readi; o and n are unsigned.
ReadCount(size, o, n) ==
  IF o > size \/ (o + n) % UINT < o THEN 0
  ELSE IF (o + n) % UINT > size THEN size - o ELSE n

Put(s, i, b, o, m) ==
  [s EXCEPT !.content[b] = [k \in 0 .. BSIZE - 1 |->
                              IF k - (o % BSIZE) \in 0 .. m - 1 THEN -i ELSE @[k]]]

\* writei's loop from o with n left.  After bad blocks copyin fails: the buffer
\* may have part of the data, which is not logged.
RECURSIVE WriteLoop(_, _, _, _, _)
WriteLoop(s, i, o, n, bad) ==
  LET a == Bmap(s, i, o \div BSIZE)
      m == Min({n, BSIZE - (o % BSIZE)})
  IN  IF n = 0 THEN [s |-> s, o |-> o]
      ELSE IF a.b = NoBlock THEN [s |-> a.s, o |-> o]
      ELSE IF bad = 0 THEN [s |-> Put(a.s, i, a.b, o, m - 1), o |-> o]
      ELSE WriteLoop(Log(Put(a.s, i, a.b, o, m), {Data(a.b)}), i, o + m, n - m, bad - 1)

\* mutant: the inode is written back only when its size has changed.
WriteiSizeOnly(s, i, o, n, bad) ==
  LET w == WriteLoop(s, i, o, n, bad)
      t == IF w.o > s.mem[i].size THEN [w.s EXCEPT !.mem[i].size = w.o] ELSE w.s
  IN  IF o > s.mem[i].size \/ (o + n) % UINT < o \/ o + n > MAXFILE * BSIZE
      THEN [s |-> s, r |-> -1]
      ELSE IF t.mem[i].size = s.mem[i].size THEN [s |-> t, r |-> w.o - o]
      ELSE [s |-> Iupdate(t, i), r |-> w.o - o]

Writei(s, i, o, n, bad) ==
  LET w == WriteLoop(s, i, o, n, bad)
      t == IF w.o > s.mem[i].size THEN [w.s EXCEPT !.mem[i].size = w.o] ELSE w.s
  IN  IF o > s.mem[i].size \/ (o + n) % UINT < o \/ o + n > MAXFILE * BSIZE
      THEN [s |-> s, r |-> -1]
      ELSE [s |-> Iupdate(t, i), r |-> w.o - o]

-----------------------------------------------------------------------------
(* Calls *)

Ready == panicked = "" /\ writing = Idle

\* The transaction that led to s commits.
Commit(s) ==
  IF s.panic # ""
  THEN panicked' = s.panic /\ UNCHANGED <<bitmap, dinode, home, content, mem, fits>>
  ELSE /\ bitmap' = s.bitmap /\ dinode' = s.dinode /\ mem' = s.mem
       /\ content' = s.content
       /\ home' = [b \in Block |-> IF Data(b) \in s.logged THEN s.content[b] ELSE home[b]]
       /\ fits' = (Cardinality(s.logged) <= MAXOPBLOCKS)
       /\ UNCHANGED panicked

\* open, which starts anew.
Open(f) ==
  /\ Ready
  /\ off' = [off EXCEPT ![f] = 0]
  /\ UNCHANGED <<bitmap, dinode, home, content, mem, writing, fits, panicked>>

\* open with O_TRUNC, here or by another process; iput of the last reference.
Truncate(i) ==
  /\ Ready
  /\ Commit(Itrunc(State, i))
  /\ UNCHANGED <<off, writing>>

\* fileread is not in a transaction: a block it allocated would be logged
\* outside of one.
FileRead(f, n) ==
  LET i == Inode[f]
      m == ReadCount(mem[i].size, off[f], n % UINT)
      s == ReadLoop(State, i, off[f], m)
  IN  /\ Ready
      /\ Commit(IF s.logged # {} THEN Panic(s, "log_write outside of trans") ELSE s)
      /\ off' = [off EXCEPT ![f] = @ + m]
      /\ UNCHANGED writing

WriteStart(f, n) ==
  /\ Ready /\ n > 0
  /\ writing' = [f |-> f, i |-> 0, n |-> n]
  /\ UNCHANGED <<bitmap, dinode, home, content, mem, off, fits, panicked>>

\* mutant: the chunk ignores the blocks of the allocator.
MaxChunkAll == (MAXOPBLOCKS - 1 - 1) * BSIZE

MaxChunk == ((MAXOPBLOCKS - 1 - 1 - 2) \div 2) * BSIZE

\* One turn of filewrite's loop: one transaction.
WriteChunk ==
  LET f  == writing.f
      n1 == Min({writing.n - writing.i, MaxChunk})
  IN  /\ panicked = "" /\ writing # Idle
      /\ \E bad \in 0 .. MAXFILE :
            LET w == Writei(State, Inode[f], off[f], n1, bad)
            IN  /\ Commit(w.s)
                /\ off' = [off EXCEPT ![f] = IF w.r > 0 THEN @ + w.r ELSE @]
                /\ writing' = IF w.r # n1 \/ writing.i + w.r = writing.n THEN Idle
                              ELSE [writing EXCEPT !.i = @ + w.r]

\* The buffer of a block is recycled: the block is read again.
Evict(b) ==
  /\ content[b] # home[b]
  /\ content' = [content EXCEPT ![b] = home[b]]
  /\ UNCHANGED <<bitmap, dinode, home, mem, off, writing, fits, panicked>>

\* Power loss: what is on the disk remains, files are opened anew.
Crash ==
  /\ content' = home /\ mem' = dinode
  /\ off' = [f \in File |-> 0]
  /\ writing' = Idle /\ fits' = TRUE /\ panicked' = ""
  /\ UNCHANGED <<bitmap, dinode, home>>

Next ==
  \/ \E f \in File : Open(f) \/ \E n \in Request : FileRead(f, n) \/ WriteStart(f, n)
  \/ WriteChunk
  \/ \E i \in Inum : Truncate(i)
  \/ \E b \in Block : Evict(b)
  \/ Crash

Spec == Init /\ [][Next]_vars

-----------------------------------------------------------------------------
(* Properties *)

\* Every variable has its type.
TypeOK ==
  LET inode == [size : 0 .. MAXFILE * BSIZE, indirect : Block \cup {NoBlock},
                addrs : [0 .. NDIRECT - 1 -> Block \cup {NoBlock}]]
  IN  /\ bitmap \subseteq Block
      /\ dinode \in [Inum -> inode] /\ mem \in [Inum -> inode]
      /\ off \in [File -> 0 .. MAXFILE * BSIZE]
      /\ writing.f \in File \cup {0} /\ writing.i \in 0 .. writing.n

\* The references to blocks on the disk, each with its place.
References ==
  UNION {{<<i, k, dinode[i].addrs[k]>> : k \in 0 .. NDIRECT - 1}
           \cup {<<i, NDIRECT, dinode[i].indirect>>}
           \cup (IF dinode[i].indirect = NoBlock THEN {}
                 ELSE {<<i, NDIRECT + 1 + k, home[dinode[i].indirect][k]>> :
                         k \in 0 .. BSIZE - 1}) : i \in Inum}

\* On the disk, whatever transaction a crash follows, a block is in use in the
\* bitmap exactly when one inode refers to it, and at one place: no block is
\* shared, leaked or free while in use, also when writei stops half way.
BlocksOwnedOnce ==
  LET refs == {r \in References : r[3] # NoBlock}
  IN  /\ {r[3] : r \in refs} = bitmap
      /\ Cardinality(refs) = Cardinality(bitmap)

\* Block bn of inode i in the inodes and the contents given.
BlockOf(inodes, blocks, i, bn) ==
  IF bn < NDIRECT THEN inodes[i].addrs[bn]
  ELSE IF inodes[i].indirect = NoBlock THEN NoBlock
  ELSE blocks[inodes[i].indirect][bn - NDIRECT]

\* Below its size a file has no hole and every byte is one that was written to
\* it, never another file's or a zeroed one: as the kernel sees it, and on the
\* disk.
FilesHoldTheirData ==
  \A i \in Inum : \A o \in 0 .. MAXFILE * BSIZE - 1 :
     /\ o < mem[i].size =>
           LET b == BlockOf(mem, content, i, o \div BSIZE)
           IN  b # NoBlock /\ content[b][o % BSIZE] = -i
     /\ o < dinode[i].size =>
           LET b == BlockOf(dinode, home, i, o \div BSIZE)
           IN  b # NoBlock /\ home[b][o % BSIZE] = -i

\* What the kernel goes by is on the disk between transactions: the inodes and
\* the indirect blocks.  (A data block may hold bytes of a write that failed.)
MetadataDurable ==
  /\ mem = dinode
  /\ \A i \in Inum : dinode[i].indirect # NoBlock =>
        content[dinode[i].indirect] = home[dinode[i].indirect]

\* A transaction logs no more blocks than begin_op reserves for it, so that
\* log_write finds room (OPBLOCKS of Log): the arithmetic of filewrite's max.
TransactionFits == fits

\* bfree, bmap and log_write do not panic.
NoPanic == panicked = ""

\* What was written is what is read, and it is on the disk: FilesHoldTheirData
\* and MetadataDurable.
FilesDurable == FilesHoldTheirData /\ MetadataDurable
=============================================================================
