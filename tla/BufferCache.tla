---------------------------- MODULE BufferCache ----------------------------
(***************************************************************************)
(* kernel/bio.c, with the sleep-lock of a buffer and the polled transfers  *)
(* of kernel/virtio_disk.c.  A process in the kernel gives up the          *)
(* processor only in sleep (see Locks), and none sleeps while it holds a   *)
(* buffer, so the calls below are those of one process at a time, and      *)
(* acquiresleep finds the lock free.  The two loops of bget go one buffer  *)
(* per step.  The callers, fs.c and log.c, write a buffer they changed, or *)
(* pin it, before they release it.                                         *)
(***************************************************************************)
EXTENDS Integers, FiniteSets

CONSTANTS
  NBUF,
  NBLOCK,      \* blocks of the disk
  CHANGED,     \* bound: blocks that are changed
  HOLD,        \* buffers a call holds at a time
  PINS,        \* blocks the log pins at a time
  BufData      \* contents that are put into a buffer

\* NBUF is three times MAXOPBLOCKS, and the blocks of one transaction are pinned
\* at a time: operations do not overlap on one CPU (Locks).
ASSUME BufferSizes ==
  /\ NBUF \in Nat \ {0} /\ NBLOCK \in Nat
  /\ HOLD \in Nat /\ PINS \in Nat /\ HOLD + PINS <= NBUF
  /\ BufData \subseteq [1 .. 2 -> Int]

Buf == 1 .. NBUF
bhead == 0
Link == {bhead} \cup Buf
Block == 0 .. NBLOCK - 1
NoBlock == NBLOCK        \* of a buffer that was never used: another device
SECTORS == 2             \* SECTORS_PER_BLOCK
Sector == 0 .. NBLOCK * SECTORS - 1
Blank == [s \in 1 .. SECTORS |-> s - 1]

VARIABLES
  next, prev,                           \* the list, from bhead
  blockno, valid, refcnt, locked, data, \* of each buffer
  dirty,       \* ghost: 1 for a buffer that was changed and not written since
  disk,        \* the sectors
  loop, at, want, \* the search of bget: which loop, at which buffer, for which block
  pinned,      \* blocks of the log that are pinned
  latest,      \* ghost: what was last put into a buffer of the block
  rank,        \* ghost: 1 for the buffer that was released longest ago
  bpanic       \* the message of a panic, or "none"

list == <<next, prev, rank>>
search == <<loop, at, want>>
bufVars == <<list, blockno, valid, refcnt, locked, data, dirty, disk, search, pinned, latest, bpanic>>

\* binit: each buffer is inserted behind bhead.
BufInit ==
  /\ next = [b \in Link |-> IF b = bhead THEN NBUF ELSE b - 1]
  /\ prev = [b \in Link |-> IF b = NBUF THEN bhead ELSE b + 1]
  /\ rank = [b \in Link |-> b]
  /\ blockno = [b \in Buf |-> NoBlock] /\ data = [b \in Buf |-> Blank]
  /\ refcnt = [b \in Buf |-> 0] /\ valid = refcnt /\ locked = refcnt /\ dirty = refcnt
  /\ disk = [k \in Sector |-> k % SECTORS] /\ latest = [m \in Block |-> Blank]
  /\ loop = "none" /\ at = bhead /\ want = NoBlock
  /\ pinned = {} /\ bpanic = "none"

-----------------------------------------------------------------------------
(* virtio_disk_rw *)

SectorOf(m, s) == m * SECTORS + s - 1
DiskRead(m) == [s \in 1 .. SECTORS |-> disk[SectorOf(m, s)]]
DiskWrite(m, d) == [k \in Sector |-> IF k \div SECTORS = m THEN d[(k % SECTORS) + 1] ELSE disk[k]]

-----------------------------------------------------------------------------
(* bget and bread *)

Holding == {b \in Buf : locked[b] = 1}
Between == bpanic = "none" /\ loop = "none"

\* No call reads a block that it holds already.
bread(m) ==
  /\ Between /\ Cardinality(Holding) < HOLD /\ \A b \in Holding : blockno[b] # m
  /\ loop' = "cached" /\ at' = next[bhead] /\ want' = m
  /\ UNCHANGED <<list, blockno, valid, refcnt, locked, data, dirty, disk, pinned, latest, bpanic>>

Goes(l, b) ==
  /\ loop' = l /\ at' = b
  /\ UNCHANGED <<want, list, blockno, valid, refcnt, locked, data, dirty, disk, pinned, latest, bpanic>>

\* acquiresleep and, unless the buffer is valid, the read.
Got(isValid) ==
  /\ locked' = [locked EXCEPT ![at] = 1] /\ valid' = [valid EXCEPT ![at] = 1]
  /\ data' = IF isValid = 1 THEN data ELSE [data EXCEPT ![at] = DiskRead(want)]
  /\ loop' = "none" /\ at' = bhead /\ want' = NoBlock
  /\ UNCHANGED <<list, dirty, disk, pinned, latest, bpanic>>

\* Is the block already cached?
SearchCached ==
  /\ bpanic = "none" /\ loop = "cached"
  /\ IF at = bhead THEN Goes("unused", prev[bhead])
     ELSE IF blockno[at] # want THEN Goes("cached", next[at])
     ELSE /\ refcnt' = [refcnt EXCEPT ![at] = @ + 1] /\ UNCHANGED blockno
          /\ Got(valid[at])

\* mutant: a recycled buffer stays valid.
StillValid(b) == valid[b]

\* b->valid of a recycled buffer.
RecycledValid(b) == 0

\* Recycle the least recently used unused buffer.
SearchUnused ==
  /\ bpanic = "none" /\ loop = "unused"
  /\ IF at = bhead
     THEN /\ bpanic' = "bget"
          /\ UNCHANGED <<list, search, blockno, valid, refcnt, locked, data, dirty, disk, pinned, latest>>
     ELSE IF refcnt[at] # 0 THEN Goes("unused", prev[at])
     ELSE /\ refcnt' = [refcnt EXCEPT ![at] = 1] /\ blockno' = [blockno EXCEPT ![at] = want]
          /\ Got(RecycledValid(at))

-----------------------------------------------------------------------------
(* What the holder of a buffer does with it *)

Change(b, d) ==
  /\ Between /\ b \in Holding /\ blockno[b] \in CHANGED
  /\ data' = [data EXCEPT ![b] = d] /\ dirty' = [dirty EXCEPT ![b] = 1]
  /\ latest' = [latest EXCEPT ![blockno[b]] = d]
  /\ UNCHANGED <<list, search, blockno, valid, refcnt, locked, disk, pinned, bpanic>>

bwrite(b) ==
  /\ Between /\ b \in Holding
  /\ disk' = DiskWrite(blockno[b], data[b]) /\ dirty' = [dirty EXCEPT ![b] = 0]
  /\ UNCHANGED <<list, search, blockno, valid, refcnt, locked, data, pinned, latest, bpanic>>

\* bpin, by log_write of a block that is new to the log.
bpin(b) ==
  /\ Between /\ b \in Holding /\ blockno[b] \notin pinned /\ Cardinality(pinned) < PINS
  /\ refcnt' = [refcnt EXCEPT ![b] = @ + 1] /\ pinned' = pinned \cup {blockno[b]}
  /\ UNCHANGED <<list, search, blockno, valid, locked, data, dirty, disk, latest, bpanic>>

\* bunpin, by install_trans after it has written the block.
bunpin(b) ==
  /\ Between /\ b \in Holding /\ blockno[b] \in pinned /\ dirty[b] = 0
  /\ refcnt' = [refcnt EXCEPT ![b] = @ - 1] /\ pinned' = pinned \ {blockno[b]}
  /\ UNCHANGED <<list, search, blockno, valid, locked, data, dirty, disk, latest, bpanic>>

\* b is taken out of the list and put in front.
NextWithout(b) == [next EXCEPT ![prev[b]] = next[b]]
PrevWithout(b) == [prev EXCEPT ![next[b]] = prev[b]]

NextFront(b, first) == [NextWithout(b) EXCEPT ![b] = first, ![bhead] = b]
PrevFront(b, first) == [PrevWithout(b) EXCEPT ![b] = bhead, ![first] = b]

\* Ghost: b was released last.
RankLast(b) ==
  [c \in Link |-> IF c = b THEN NBUF ELSE IF rank[c] > rank[b] THEN rank[c] - 1 ELSE rank[c]]

brelse(b) ==
  /\ Between /\ b \in Holding /\ (dirty[b] = 0 \/ blockno[b] \in pinned)
  /\ locked' = [locked EXCEPT ![b] = 0] /\ refcnt' = [refcnt EXCEPT ![b] = @ - 1]
  /\ IF refcnt[b] = 1
     THEN /\ next' = NextFront(b, NextWithout(b)[bhead]) /\ prev' = PrevFront(b, NextWithout(b)[bhead])
          /\ rank' = RankLast(b)
     ELSE UNCHANGED list
  /\ UNCHANGED <<search, blockno, valid, data, dirty, disk, pinned, latest, bpanic>>

BufNext ==
  \/ \E m \in Block : bread(m)
  \/ SearchCached \/ SearchUnused
  \/ \E b \in Buf : bwrite(b) \/ bpin(b) \/ bunpin(b) \/ brelse(b) \/ \E d \in BufData : Change(b, d)

BufSpec == BufInit /\ [][BufNext]_bufVars

-----------------------------------------------------------------------------
(* Properties *)

Cached(m) == {b \in Buf : blockno[b] = m}

BlockData == [1 .. SECTORS -> Int]

BufTypeOK ==
  /\ next \in [Link -> Link] /\ prev \in [Link -> Link] /\ rank \in [Link -> 0 .. NBUF]
  /\ blockno \in [Buf -> Block \cup {NoBlock}] /\ refcnt \in [Buf -> Nat]
  /\ {valid, locked, dirty} \subseteq [Buf -> {0, 1}]
  /\ data \in [Buf -> BlockData] /\ latest \in [Block -> BlockData] /\ disk \in [Sector -> Int]
  /\ loop \in {"none", "cached", "unused"} /\ at \in Link /\ want \in Block \cup {NoBlock}
  /\ pinned \subseteq Block

\* The list has every buffer once and is "sorted by how recently the buffer was
\* used": next leads to the buffer released just before, prev back, after any
\* sequence of releases.
ListSound ==
  /\ rank[bhead] = 0 /\ \A b, c \in Link : rank[b] = rank[c] => b = c
  /\ \A b \in Link : /\ rank[next[b]] = IF b = bhead THEN NBUF ELSE rank[b] - 1
                     /\ rank[prev[b]] = IF rank[b] = NBUF THEN 0 ELSE rank[b] + 1

\* A block has one buffer at most; a buffer is referred to by its holder and by
\* the log, and by none else.
BuffersExact ==
  /\ \A m \in Block : \A b, c \in Cached(m) : b = c
  /\ \A b \in Buf : refcnt[b] = locked[b] + IF blockno[b] \in pinned THEN 1 ELSE 0
  /\ \A m \in pinned : Cached(m) # {}

\* The cache is transparent: whatever was recycled in between, a buffer has what
\* was last put into its block, and so has the disk when there is no buffer.
Transparent ==
  \A m \in Block :
    /\ \A b \in Cached(m) : valid[b] = 1 /\ data[b] = latest[m]
    /\ Cached(m) = {} => DiskRead(m) = latest[m]

\* The loops of bget miss nothing: no buffer behind the search has the block,
\* and none of those used longer ago is free.
SearchExact ==
  /\ loop = "cached" => \A b \in Buf : rank[b] > rank[at] => blockno[b] # want
  /\ loop = "unused" => \A b \in Buf : /\ blockno[b] # want
                                       /\ at = bhead \/ rank[b] < rank[at] => refcnt[b] > 0

\* A buffer that differs from the disk is in use, and one in use has a block.
ChangesKept ==
  \A b \in Buf :
    /\ dirty[b] = 1 => refcnt[b] > 0
    /\ dirty[b] = 0 /\ blockno[b] \in Block => DiskRead(blockno[b]) = data[b]
    /\ refcnt[b] > 0 => blockno[b] \in Block

\* The callers keep to the limits; a search is for a block that is not held.
InLimits ==
  /\ Cardinality(pinned) <= PINS
  /\ loop # "none" => /\ want \in Block /\ Cardinality(Holding) < HOLD
                      /\ \A b \in Holding : blockno[b] # want

\* The cache behaves as the disk would: ListSound, BuffersExact, Transparent
\* and SearchExact; and bget finds a buffer as long as fewer than NBUF are held
\* or pinned.
CacheSound ==
  /\ BufTypeOK /\ ListSound /\ BuffersExact /\ Transparent /\ SearchExact
  /\ ChangesKept /\ InLimits /\ bpanic = "none"
=============================================================================
