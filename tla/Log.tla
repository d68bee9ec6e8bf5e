------------------------------- MODULE Log -------------------------------
(***************************************************************************)
(* The write-ahead log of kernel/log.c, over the part of the buffer cache  *)
(* (kernel/bio.c) and of the disk driver (kernel/virtio_disk.c) it depends *)
(* on.                                                                     *)
(*                                                                         *)
(* FS system calls bracket their updates with begin_op and end_op.  The    *)
(* last one out commits: cache blocks to the log, header to disk (the      *)
(* commit point), log blocks to their home locations, empty header to      *)
(* disk.  A block is NSECT disk sectors, written one after the other, and  *)
(* the machine may stop between any two of them; the boot that follows     *)
(* runs recover_from_log, which may itself be cut short.                   *)
(*                                                                         *)
(* Steps are what happens under one hold of log_lock, bcache.lock or a     *)
(* buffer's sleep lock, and one sector write.  This is the interleaving    *)
(* log.c is written for.                                                   *)
(***************************************************************************)
EXTENDS Naturals, Sequences, FiniteSets

CONSTANTS
  Blocks,       \* home blocks (inode, bitmap, directory, data blocks)
  Val,          \* what one sector can hold
  Proc,         \* processes
  LOGBLOCKS,    \* param.h: data blocks in the on-disk log
  MAXOPBLOCKS,  \* param.h: blocks an FS operation reserves
  OPBLOCKS,     \* distinct blocks the largest FS operation really writes
  NSECT,        \* virtio_disk.c: sectors per block
  NoBlock       \* no buffer held / block not cached

ASSUME SizeAssumption ==
  /\ LOGBLOCKS \in Nat /\ MAXOPBLOCKS \in Nat /\ OPBLOCKS \in Nat
  /\ NSECT \in Nat \ {0}
  /\ OPBLOCKS < MAXOPBLOCKS
ASSUME NoBlockAssumption == NoBlock \notin Blocks
ASSUME ProcAssumption == IsFiniteSet(Proc)
ASSUME BlocksAssumption == IsFiniteSet(Blocks)

Sector  == 1 .. NSECT
Content == [Sector -> Val]

ASSUME ContentAssumption == NoBlock \notin Content

VARIABLES
  disk,         \* home blocks on disk
  logdata,      \* the log's data blocks on disk
  hdr,          \* the log's header block on disk
  cache,        \* buffer cache: a block's buffer, or NoBlock
  refcnt,       \* b->refcnt of each block's buffer
  lh,           \* log_lh: the header in memory
  outstanding,  \* log_outstanding
  committing,   \* log_committing
  pc,           \* where each process is
  hold,         \* the buffer a process has locked and modified
  wrote,        \* the blocks a process's operation has written
  phase,        \* where commit() or recover_from_log() is
  tail, sec,    \* the loop index and sector they have reached
  recovering    \* install_trans's argument

diskVars  == <<disk, logdata, hdr>>
cacheVars == <<cache, refcnt>>
logVars   == <<lh, outstanding, committing>>
procVars  == <<pc, hold, wrote>>
ioVars    == <<phase, tail, sec, recovering>>
vars == <<diskVars, cacheVars, logVars, procVars, ioVars>>

Phases == {"read_head", "none", "write_log", "write_head", "install",
           "clear_head", "done"}

SeqSet(s) == {s[i] : i \in 1 .. Len(s)}

-----------------------------------------------------------------------------
(* mkfs zeroes the log and writes the home blocks; the kernel boots. *)

Init ==
  /\ disk \in [Blocks -> Content]
  /\ \E v \in Val : logdata = [i \in 1 .. LOGBLOCKS |-> [s \in Sector |-> v]]
  /\ hdr = <<>>
  /\ cache = [b \in Blocks |-> NoBlock]
  /\ refcnt = [b \in Blocks |-> 0]
  /\ lh = <<>> /\ outstanding = 0 /\ committing = FALSE
  /\ pc = [p \in Proc |-> "idle"]
  /\ hold = [p \in Proc |-> NoBlock]
  /\ wrote = [p \in Proc |-> {}]
  /\ phase = "read_head" /\ tail = 1 /\ sec = 1 /\ recovering = TRUE

-----------------------------------------------------------------------------
(* The buffer cache, as the log sees it. *)

\* bread: the contents of the buffer, filled from the disk if not cached.
Bread(b) == IF cache[b] = NoBlock THEN disk[b] ELSE cache[b]

\* bget recycles a buffer nobody references.
Evict(b) ==
  /\ cache[b] # NoBlock /\ refcnt[b] = 0
  /\ cache' = [cache EXCEPT ![b] = NoBlock]
  /\ UNCHANGED <<diskVars, refcnt, logVars, procVars, ioVars>>

\* readi, dirlookup: bread and brelse without writing, in or out of an
\* operation.
Read(b) ==
  /\ ~recovering
  /\ cache[b] = NoBlock
  /\ cache' = [cache EXCEPT ![b] = disk[b]]
  /\ UNCHANGED <<diskVars, refcnt, logVars, procVars, ioVars>>

-----------------------------------------------------------------------------
(* begin_op and end_op. *)

\* mutant: begin_op does not count the operation it admits.
MustWaitNoSelf ==
  \/ committing
  \/ Len(lh) + outstanding * MAXOPBLOCKS > LOGBLOCKS

MustWait ==
  \/ committing
  \/ Len(lh) + (outstanding + 1) * MAXOPBLOCKS > LOGBLOCKS

\* mutant: no wakeup.
WakeupNone(f) == f

\* wakeup(&log_lock)
Wakeup(f) == [p \in Proc |-> IF f[p] = "sleep" THEN "woken" ELSE f[p]]

BeginSleep(p) ==
  /\ ~recovering
  /\ pc[p] \in {"idle", "woken"}
  /\ MustWait
  /\ pc' = [pc EXCEPT ![p] = "sleep"]
  /\ UNCHANGED <<diskVars, cacheVars, logVars, hold, wrote, ioVars>>

BeginAdmit(p) ==
  /\ ~recovering
  /\ pc[p] \in {"idle", "woken"}
  /\ ~MustWait
  /\ outstanding' = outstanding + 1
  /\ pc' = [pc EXCEPT ![p] = "op"]
  /\ UNCHANGED <<diskVars, cacheVars, lh, committing, hold, wrote, ioVars>>

\* end_op with other operations outstanding.
EndOp(p) ==
  /\ pc[p] = "op" /\ hold[p] = NoBlock
  /\ outstanding # 1
  /\ outstanding' = outstanding - 1
  /\ pc' = Wakeup([pc EXCEPT ![p] = "idle"])
  /\ wrote' = [wrote EXCEPT ![p] = {}]
  /\ UNCHANGED <<diskVars, cacheVars, lh, committing, hold, ioVars>>

\* mutant: commit() skips a transaction of one block.
EndLastOpOffByOne(p) ==
  /\ pc[p] = "op" /\ hold[p] = NoBlock
  /\ outstanding = 1
  /\ outstanding' = 0 /\ committing' = TRUE
  /\ pc' = [pc EXCEPT ![p] = "commit"]
  /\ wrote' = [wrote EXCEPT ![p] = {}]
  /\ phase' = IF Len(lh) > 1 THEN "write_log" ELSE "done"
  /\ tail' = 1 /\ sec' = 1
  /\ UNCHANGED <<diskVars, cacheVars, lh, hold, recovering>>

\* end_op of the last operation: enter commit().
EndLastOp(p) ==
  /\ pc[p] = "op" /\ hold[p] = NoBlock
  /\ outstanding = 1
  /\ outstanding' = 0 /\ committing' = TRUE
  /\ pc' = [pc EXCEPT ![p] = "commit"]
  /\ wrote' = [wrote EXCEPT ![p] = {}]
  /\ phase' = IF Len(lh) > 0 THEN "write_log" ELSE "done"
  /\ tail' = 1 /\ sec' = 1
  /\ UNCHANGED <<diskVars, cacheVars, lh, hold, recovering>>

-----------------------------------------------------------------------------
(* An operation's updates: bread, modify, log_write, brelse. *)

Modify(p, b, c) ==
  /\ pc[p] = "op" /\ hold[p] = NoBlock
  /\ \A q \in Proc : hold[q] # b
  /\ b \in wrote[p] \/ Cardinality(wrote[p]) < OPBLOCKS
  /\ cache' = [cache EXCEPT ![b] = c]
  /\ refcnt' = [refcnt EXCEPT ![b] = @ + 1]
  /\ hold' = [hold EXCEPT ![p] = b]
  /\ UNCHANGED <<diskVars, logVars, pc, wrote, ioVars>>

\* log_write absorbs a block already in the transaction, pins and appends
\* any other; brelse follows.
LogWriteAbsorb(p) ==
  /\ hold[p] \in SeqSet(lh)
  /\ Len(lh) < LOGBLOCKS /\ outstanding >= 1
  /\ refcnt' = [refcnt EXCEPT ![hold[p]] = @ - 1]
  /\ hold' = [hold EXCEPT ![p] = NoBlock]
  /\ wrote' = [wrote EXCEPT ![p] = @ \cup {hold[p]}]
  /\ UNCHANGED <<diskVars, cache, logVars, pc, ioVars>>

LogWriteAppend(p) ==
  /\ hold[p] # NoBlock /\ hold[p] \notin SeqSet(lh)
  /\ Len(lh) < LOGBLOCKS /\ outstanding >= 1
  /\ lh' = Append(lh, hold[p])
  /\ hold' = [hold EXCEPT ![p] = NoBlock]
  /\ wrote' = [wrote EXCEPT ![p] = @ \cup {hold[p]}]
  /\ UNCHANGED <<diskVars, cacheVars, outstanding, committing, pc, ioVars>>

-----------------------------------------------------------------------------
(* Loops over the blocks of lh and the sectors of each block. *)

\* mutant: only the first sector of a block is written.
LastSectorFirst == sec = 1

\* The end of virtio_disk_rw's loop.
LastSector == sec = NSECT

\* Move to the next sector of the loop; after the last one, to phase next.
Advance(next) ==
  /\ sec' = IF LastSector THEN 1 ELSE sec + 1
  /\ tail' = IF ~LastSector THEN tail
             ELSE IF tail = Len(lh) THEN 1 ELSE tail + 1
  /\ phase' = IF LastSector /\ tail = Len(lh) THEN next ELSE phase

(* commit() *)

\* write_log: one sector of the cached block to the log.
WriteLog ==
  /\ phase = "write_log"
  /\ logdata' = [logdata EXCEPT ![tail][sec] = Bread(lh[tail])[sec]]
  /\ Advance("write_head")
  /\ UNCHANGED <<disk, hdr, cacheVars, logVars, procVars, recovering>>

\* write_head: the commit point.  The 124 bytes of the header are in the
\* block's first sector.
WriteHead ==
  /\ phase = "write_head"
  /\ hdr' = lh
  /\ phase' = "install"
  /\ UNCHANGED <<disk, logdata, cacheVars, logVars, procVars, tail, sec,
                 recovering>>

\* install_trans: copy the log block into the destination's buffer (first
\* sector), write the buffer sector by sector, then unpin and release it
\* (last sector).
Install ==
  LET b == lh[tail]
      got == IF sec = 1 THEN 1 ELSE 0
      put == IF ~LastSector THEN 0 ELSE IF recovering THEN 1 ELSE 2
  IN
  /\ phase = "install"
  /\ cache' = [cache EXCEPT ![b] = IF sec = 1 THEN logdata[tail] ELSE @]
  /\ disk' = [disk EXCEPT ![b][sec] = logdata[tail][sec]]
  /\ refcnt' = [refcnt EXCEPT ![b] = (@ + got) - put]
  /\ Advance("clear_head")
  /\ UNCHANGED <<logdata, hdr, logVars, procVars, recovering>>

\* mutant: the cleared header is not written to disk.
ClearHeadMemory ==
  /\ phase = "clear_head"
  /\ lh' = <<>>
  /\ phase' = IF recovering THEN "none" ELSE "done"
  /\ recovering' = FALSE
  /\ UNCHANGED <<diskVars, cacheVars, outstanding, committing, procVars,
                 tail, sec>>

\* log_lh.n = 0; write_head()
ClearHead ==
  /\ phase = "clear_head"
  /\ lh' = <<>> /\ hdr' = <<>>
  /\ phase' = IF recovering THEN "none" ELSE "done"
  /\ recovering' = FALSE
  /\ UNCHANGED <<disk, logdata, cacheVars, outstanding, committing, procVars,
                 tail, sec>>

\* back in end_op
CommitDone(p) ==
  /\ pc[p] = "commit" /\ phase = "done"
  /\ committing' = FALSE
  /\ pc' = Wakeup([pc EXCEPT ![p] = "idle"])
  /\ phase' = "none"
  /\ UNCHANGED <<diskVars, cacheVars, lh, outstanding, hold, wrote, tail, sec,
                 recovering>>

-----------------------------------------------------------------------------
(* Power loss, and recover_from_log at the next boot. *)

Crash ==
  /\ cache' = [b \in Blocks |-> NoBlock]
  /\ refcnt' = [b \in Blocks |-> 0]
  /\ lh' = <<>> /\ outstanding' = 0 /\ committing' = FALSE
  /\ pc' = [p \in Proc |-> "idle"]
  /\ hold' = [p \in Proc |-> NoBlock]
  /\ wrote' = [p \in Proc |-> {}]
  /\ phase' = "read_head" /\ tail' = 1 /\ sec' = 1 /\ recovering' = TRUE
  /\ UNCHANGED diskVars

ReadHead ==
  /\ phase = "read_head"
  /\ lh' = hdr
  /\ phase' = IF hdr = <<>> THEN "clear_head" ELSE "install"
  /\ UNCHANGED <<diskVars, cacheVars, outstanding, committing, procVars, tail,
                 sec, recovering>>

-----------------------------------------------------------------------------

ProcStep(p) ==
  \/ BeginSleep(p) \/ BeginAdmit(p)
  \/ EndOp(p) \/ EndLastOp(p) \/ CommitDone(p)
  \/ \E b \in Blocks, c \in Content : Modify(p, b, c)
  \/ LogWriteAbsorb(p) \/ LogWriteAppend(p)

IOStep == WriteLog \/ WriteHead \/ Install \/ ClearHead \/ ReadHead

Next ==
  \/ \E p \in Proc : ProcStep(p)
  \/ IOStep
  \/ \E b \in Blocks : Evict(b) \/ Read(b)
  \/ Crash

Spec == Init /\ [][Next]_vars

\* An operation is a finite piece of code, so it reaches its end_op; a woken
\* process is run again; the committing process goes on.
Fairness ==
  /\ WF_vars(IOStep)
  /\ \A p \in Proc :
       /\ SF_vars(EndOp(p) \/ EndLastOp(p))
       /\ WF_vars(LogWriteAbsorb(p) \/ LogWriteAppend(p))
       /\ WF_vars(CommitDone(p))
       /\ WF_vars(pc[p] = "woken" /\ (BeginSleep(p) \/ BeginAdmit(p)))

FairSpec == Spec /\ Fairness

-----------------------------------------------------------------------------
(* Properties *)

\* Every variable keeps its type.
TypeOK ==
  /\ disk \in [Blocks -> Content]
  /\ logdata \in [1 .. LOGBLOCKS -> Content]
  /\ hdr \in Seq(Blocks) /\ lh \in Seq(Blocks)
  /\ cache \in [Blocks -> Content \cup {NoBlock}]
  /\ refcnt \in [Blocks -> Nat]
  /\ outstanding \in Nat /\ committing \in BOOLEAN
  /\ pc \in [Proc -> {"idle", "sleep", "woken", "op", "commit"}]
  /\ hold \in [Proc -> Blocks \cup {NoBlock}]
  /\ wrote \in [Proc -> SUBSET Blocks]
  /\ phase \in Phases /\ recovering \in BOOLEAN
  /\ tail \in 1 .. LOGBLOCKS \cup {1} /\ sec \in Sector

InOp == {p \in Proc : pc[p] = "op"}

\* log.c's panics are out of reach: log_write is never called with a full
\* header ("too big a transaction") or outside an operation, end_op never
\* finds a commit in progress, and commit() never runs in two processes.
NoPanic ==
  /\ \A p \in Proc : hold[p] # NoBlock => Len(lh) < LOGBLOCKS /\ outstanding >= 1
  /\ InOp # {} => ~committing
  /\ \A p, q \in Proc : pc[p] = "commit" /\ pc[q] = "commit" => p = q

\* A buffer bget may recycle holds nothing the disk does not: pinning by
\* log_write and unpinning by install_trans keep every block of the
\* transaction cached until it is at home.
NoDirtyEviction ==
  ~recovering =>
    \A b \in Blocks : refcnt[b] = 0 => cache[b] \in {NoBlock, disk[b]}

Count(S, b) == IF b \in S THEN 1 ELSE 0
Held == {hold[p] : p \in Proc}
Pinned ==
  IF recovering \/ phase = "clear_head" THEN {}
  ELSE {lh[i] : i \in (IF phase = "install" THEN tail ELSE 1) .. Len(lh)}
InIO == IF phase = "install" /\ sec # 1 THEN {lh[tail]} ELSE {}

\* b->refcnt is exactly what is owed: one for the process that has the
\* buffer locked, one while the block is pinned by the transaction (log_write
\* to install_trans), one while install_trans writes it.  No reference leaks
\* and none is dropped twice.
RefcntExact ==
  \A b \in Blocks :
    refcnt[b] = Count(Held, b) + Count(Pinned, b) + Count(InIO, b)

\* Home blocks d with the log blocks l of header h installed over them.
Overlay(h, l, d) ==
  [b \in Blocks |->
     IF b \in SeqSet(h) THEN l[CHOOSE i \in 1 .. Len(h) : h[i] = b] ELSE d[b]]

\* What the next recovery would leave on disk.
Recoverable == Overlay(hdr, logdata, disk)

\* What the file system reads, or will read once recovery is over.
Visible == IF recovering THEN Recoverable ELSE [b \in Blocks |-> Bread(b)]

Store == INSTANCE AtomicStore
         WITH durable <- Recoverable, current <- Visible, active <- InOp

\* The log implements the atomic store: a group of operations becomes
\* durable in one step (write_head), no crash, in commit() or in
\* recover_from_log() included, leaves part of a group, and begin_op admits
\* nobody onto updates that are neither durable nor part of an open group.
CrashAtomic == Store!Spec

\* Once every end_op has returned and the commit is over, a crash loses
\* nothing.
QuietIsDurable ==
  phase = "none" /\ ~committing /\ InOp = {} => Visible = Recoverable

\* A process asleep in begin_op is woken: by the end_op that frees log space
\* or the one that finishes the commit (or everything starts over).
SleeperWoken == \A p \in Proc : pc[p] = "sleep" ~> pc[p] # "sleep"

-----------------------------------------------------------------------------
(* The inductive invariant behind NoPanic, RefcntExact and CrashAtomic. *)

\* Who may be where: a commit or a recovery excludes operations.
ControlInv ==
  /\ outstanding = Cardinality(InOp)
  /\ committing = (~recovering /\ phase # "none")
  /\ committing => InOp = {}
  /\ phase \in {"none", "write_log", "write_head", "done"} => ~recovering
  /\ phase = "read_head" => recovering
  /\ recovering => \A p \in Proc : pc[p] = "idle"
  /\ \A p \in Proc : hold[p] # NoBlock => pc[p] = "op"
  /\ \A p, q \in Proc : hold[p] = hold[q] /\ hold[p] # NoBlock => p = q
  /\ \A p \in Proc : pc[p] = "commit" => committing
  /\ \A p, q \in Proc : pc[p] = "commit" /\ pc[q] = "commit" => p = q

\* The log has room for all that the operations under way may still append.
Claim(p) == wrote[p] \cup ({hold[p]} \ {NoBlock})
Reserved ==
  {c \in InOp \X (1 .. MAXOPBLOCKS) : c[2] > Cardinality(wrote[c[1]])}
SpaceInv ==
  /\ \A p \in Proc : Cardinality(Claim(p)) <= OPBLOCKS
  /\ \A p \in Proc : wrote[p] \subseteq SeqSet(lh)
  /\ \A p \in Proc : pc[p] # "op" => wrote[p] = {}
  /\ Len(lh) + Cardinality(Reserved) <= LOGBLOCKS
  /\ Len(hdr) <= LOGBLOCKS

\* The two headers, and the loops over them.
NoDup(s) == \A i, j \in 1 .. Len(s) : s[i] = s[j] => i = j
HeadInv ==
  /\ NoDup(lh) /\ NoDup(hdr)
  /\ IF phase \in {"write_log", "install"} THEN tail <= Len(lh)
                                           ELSE tail = 1 /\ sec = 1
  /\ phase = "write_head" => lh # <<>>
  /\ phase = "none" /\ InOp = {} => lh = <<>>
  /\ phase \in {"done", "read_head"} => lh = <<>>
  /\ phase # "read_head" =>
       hdr = IF phase \in {"install", "clear_head"} THEN lh ELSE <<>>

\* The block at index i of the log has been copied (write_log), or installed
\* (install_trans), up to the sector reached.
Copied(i) ==
  \A s \in Sector : phase = "write_head" \/ i < tail \/ (i = tail /\ s < sec)
                    => logdata[i][s] = cache[lh[i]][s]
Installed(i) ==
  \A s \in Sector : phase = "clear_head" \/ i < tail \/ (i = tail /\ s < sec)
                    => disk[lh[i]][s] = logdata[i][s]
DataInv ==
  /\ \A b \in Blocks : refcnt[b] > 0 => cache[b] # NoBlock
  /\ \A b \in Blocks : b \notin Held \cup SeqSet(lh)
                       => cache[b] \in {NoBlock, disk[b]}
  /\ phase \in {"write_log", "write_head"} => \A i \in 1 .. Len(lh) : Copied(i)
  /\ phase \in {"install", "clear_head"} =>
       \A i \in 1 .. Len(lh) :
         /\ Installed(i)
         /\ ~recovering \/ phase = "clear_head" \/ i < tail
              => cache[lh[i]] \in {NoBlock, logdata[i]}
         /\ i = tail /\ sec # 1 => cache[lh[i]] = logdata[i]

\* The invariant of commit() and recover_from_log(): what each phase has done
\* to the header, the log, the cache and the home blocks.  It is inductive.
LogInv ==
  TypeOK /\ ControlInv /\ SpaceInv /\ HeadInv /\ RefcntExact /\ DataInv
=============================================================================
