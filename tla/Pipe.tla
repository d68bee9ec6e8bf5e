------------------------------- MODULE Pipe -------------------------------
(***************************************************************************)
(* kernel/pipe.c, with the reference counting of kernel/file.c that decides*)
(* when an end closes.  The pipe's counters only grow and are 32-bit: here *)
(* they count modulo COUNT.  pi->lock is held from the entry of a call to  *)
(* its return or its sleep; one CPU runs, so a process is killed only while*)
(* the lock is free.                                                       *)
(***************************************************************************)
EXTENDS Integers, Sequences, FiniteSets

CONSTANTS
  Proc,      \* processes
  Byte,      \* what a byte can hold
  PIPESIZE,
  COUNT,     \* bound: nread and nwrite are modulo COUNT (2^32 in the code)
  MAXN,      \* bound: bytes of one call
  Eof, Nothing,   \* what a read delivers besides bytes
  NoProc

ASSUME PipeSizes ==
  /\ PIPESIZE \in Nat \ {0} /\ COUNT \in Nat /\ MAXN \in Nat
  /\ COUNT > PIPESIZE /\ COUNT % PIPESIZE = 0
ASSUME PipeDistinct == NoProc \notin Proc /\ {Eof, Nothing} \cap Byte = {}

VARIABLES
  data, nread, nwrite, readopen, writeopen,   \* struct pipe
  allocated,      \* the page of the pipe is not free
  lock,           \* holder of pi->lock
  readers, writers,   \* processes with a descriptor of the read, write end
  pc, left,       \* where a process is in a call, and n - i
  killed,
  out             \* what the read under way delivered last

pipe == <<data, nread, nwrite, readopen, writeopen, allocated>>
fds  == <<readers, writers>>
vars == <<pipe, fds, lock, pc, left, killed, out>>

Empty == nread = nwrite
\* mutant: a full buffer takes one more byte.
FullPlusOne  == nwrite = (nread + PIPESIZE + 1) % COUNT

Full  == nwrite = (nread + PIPESIZE) % COUNT

Init ==
  /\ data \in [0 .. PIPESIZE - 1 -> Byte]
  /\ nread = 0 /\ nwrite = 0
  /\ readopen = FALSE /\ writeopen = FALSE /\ allocated = FALSE
  /\ lock = NoProc
  /\ readers = {} /\ writers = {}
  /\ pc = [p \in Proc |-> "user"] /\ left = [p \in Proc |-> 0]
  /\ killed = [p \in Proc |-> FALSE]
  /\ out = Nothing

\* pc after process p has gone to where and wakeup on the channel whose
\* sleepers are at asleep.
Wake(p, where, asleep, ready) ==
  [r \in Proc |-> IF r = p THEN where
                  ELSE IF pc[r] = asleep THEN ready ELSE pc[r]]
WakeReaders(p, where) == Wake(p, where, "rsleep", "rready")
WakeWriters(p, where) == Wake(p, where, "wsleep", "wready")

-----------------------------------------------------------------------------
(* Descriptors: pipealloc, fork and dup, fileclose, kill *)

\* pipealloc; the page kalloc returns holds anything, here what it held.  A
\* killed process without descriptors has exited: p is then a new one.
PipeAlloc(p) ==
  /\ ~allocated
  /\ allocated' = TRUE /\ readopen' = TRUE /\ writeopen' = TRUE
  /\ nread' = 0 /\ nwrite' = 0
  /\ readers' = {p} /\ writers' = {p}
  /\ killed' = [killed EXCEPT ![p] = FALSE]
  /\ UNCHANGED <<data, lock, pc, left, out>>

\* fork: a new process r has p's descriptors (filedup).
Fork(p, r) ==
  /\ lock = NoProc /\ pc[p] = "user" /\ ~killed[p] /\ pc[r] = "user"
  /\ p \in readers \cup writers /\ r \notin readers \cup writers
  /\ readers' = IF p \in readers THEN readers \cup {r} ELSE readers
  /\ writers' = IF p \in writers THEN writers \cup {r} ELSE writers
  /\ killed' = [killed EXCEPT ![r] = FALSE]
  /\ UNCHANGED <<pipe, lock, pc, left, out>>

\* mutant: pipeclose does not wake readers.
CloseWriteNoWakeup(p) ==
  /\ lock = NoProc /\ pc[p] = "user" /\ p \in writers
  /\ writers' = writers \ {p}
  /\ IF writers' # {} THEN UNCHANGED <<writeopen, allocated, pc>>
     ELSE /\ writeopen' = FALSE
          /\ pc' = pc
          /\ allocated' = readopen
  /\ UNCHANGED <<data, nread, nwrite, readopen, lock, readers, left, killed, out>>

\* fileclose by p, by close() or by kexit; with the last reference, pipeclose.
CloseWrite(p) ==
  /\ lock = NoProc /\ pc[p] = "user" /\ p \in writers
  /\ writers' = writers \ {p}
  /\ IF writers' # {} THEN UNCHANGED <<writeopen, allocated, pc>>
     ELSE /\ writeopen' = FALSE
          /\ pc' = WakeReaders(p, "user")
          /\ allocated' = readopen
  /\ UNCHANGED <<data, nread, nwrite, readopen, lock, readers, left, killed, out>>

\* mutant: pipeclose frees the pipe with the first end.
CloseReadFrees(p) ==
  /\ lock = NoProc /\ pc[p] = "user" /\ p \in readers
  /\ readers' = readers \ {p}
  /\ IF readers' # {} THEN UNCHANGED <<readopen, allocated, pc>>
     ELSE /\ readopen' = FALSE
          /\ pc' = WakeWriters(p, "user")
          /\ allocated' = FALSE
  /\ UNCHANGED <<data, nread, nwrite, writeopen, lock, writers, left, killed, out>>

CloseRead(p) ==
  /\ lock = NoProc /\ pc[p] = "user" /\ p \in readers
  /\ readers' = readers \ {p}
  /\ IF readers' # {} THEN UNCHANGED <<readopen, allocated, pc>>
     ELSE /\ readopen' = FALSE
          /\ pc' = WakeWriters(p, "user")
          /\ allocated' = writeopen
  /\ UNCHANGED <<data, nread, nwrite, writeopen, lock, writers, left, killed, out>>

\* kkill: a sleeper is made runnable.
Kill(p) ==
  /\ lock = NoProc /\ ~killed[p] /\ p \in readers \cup writers
  /\ killed' = [killed EXCEPT ![p] = TRUE]
  /\ pc' = [pc EXCEPT ![p] = CASE @ = "rsleep" -> "rready"
                               [] @ = "wsleep" -> "wready"
                               [] OTHER -> @]
  /\ UNCHANGED <<pipe, fds, lock, left, out>>

\* sleep() returns, with the lock.
Resume(p) ==
  /\ lock = NoProc /\ lock' = p
  /\ \/ pc[p] = "rready" /\ pc' = [pc EXCEPT ![p] = "rwait"]
     \/ pc[p] = "wready" /\ pc' = [pc EXCEPT ![p] = "wloop"]
  /\ UNCHANGED <<pipe, fds, left, killed, out>>

-----------------------------------------------------------------------------
(* pipewrite *)

WriteEnter(p) ==
  /\ lock = NoProc /\ pc[p] = "user" /\ p \in writers /\ ~killed[p]
  /\ lock' = p
  /\ pc' = [pc EXCEPT ![p] = "wloop"]
  /\ \E n \in 0 .. MAXN : left' = [left EXCEPT ![p] = n]
  /\ UNCHANGED <<pipe, fds, killed, out>>

InWrite(p) == lock = p /\ pc[p] = "wloop"
MayWrite(p) == left[p] > 0 /\ readopen /\ ~killed[p]

WriteFail(p) ==
  /\ InWrite(p) /\ left[p] > 0 /\ (~readopen \/ killed[p])
  /\ lock' = NoProc
  /\ pc' = [pc EXCEPT ![p] = "user"]
  /\ left' = [left EXCEPT ![p] = 0]
  /\ UNCHANGED <<pipe, fds, killed, out>>

WriteFull(p) ==
  /\ InWrite(p) /\ MayWrite(p) /\ Full
  /\ pc' = WakeReaders(p, "wsleep")
  /\ lock' = NoProc
  /\ UNCHANGED <<pipe, fds, left, killed, out>>

WriteByte(p) ==
  /\ InWrite(p) /\ MayWrite(p) /\ ~Full
  /\ \E ch \in Byte : data' = [data EXCEPT ![nwrite % PIPESIZE] = ch]
  /\ nwrite' = (nwrite + 1) % COUNT
  /\ left' = [left EXCEPT ![p] = @ - 1]
  /\ UNCHANGED <<nread, readopen, writeopen, allocated, fds, lock, pc, killed, out>>

\* All n bytes written, or copyin fails.
WriteDone(p) ==
  /\ InWrite(p)
  /\ left[p] = 0 \/ (MayWrite(p) /\ ~Full)
  /\ pc' = WakeReaders(p, "user")
  /\ lock' = NoProc
  /\ left' = [left EXCEPT ![p] = 0]
  /\ UNCHANGED <<pipe, fds, killed, out>>

-----------------------------------------------------------------------------
(* piperead *)

ReadEnter(p) ==
  /\ lock = NoProc /\ pc[p] = "user" /\ p \in readers /\ ~killed[p]
  /\ lock' = p
  /\ pc' = [pc EXCEPT ![p] = "rwait"]
  /\ \E n \in 0 .. MAXN : left' = [left EXCEPT ![p] = n]
  /\ UNCHANGED <<pipe, fds, killed, out>>

InRead(p, place) == lock = p /\ pc[p] = place

ReadSleep(p) ==
  /\ InRead(p, "rwait") /\ Empty /\ writeopen /\ ~killed[p]
  /\ pc' = [pc EXCEPT ![p] = "rsleep"]
  /\ lock' = NoProc
  /\ UNCHANGED <<pipe, fds, left, killed, out>>

ReadKilled(p) ==
  /\ InRead(p, "rwait") /\ Empty /\ writeopen /\ killed[p]
  /\ pc' = [pc EXCEPT ![p] = "user"]
  /\ lock' = NoProc
  /\ left' = [left EXCEPT ![p] = 0]
  /\ UNCHANGED <<pipe, fds, killed, out>>

\* Past the wait: nothing to come is an end of file.
ReadGo(p) ==
  /\ InRead(p, "rwait") /\ ~(Empty /\ writeopen)
  /\ pc' = [pc EXCEPT ![p] = "rcopy"]
  /\ out' = IF Empty THEN Eof ELSE out
  /\ UNCHANGED <<pipe, fds, lock, left, killed>>

ReadByte(p) ==
  /\ InRead(p, "rcopy") /\ left[p] > 0 /\ ~Empty
  /\ out' = data[nread % PIPESIZE]
  /\ nread' = (nread + 1) % COUNT
  /\ left' = [left EXCEPT ![p] = @ - 1]
  /\ UNCHANGED <<data, nwrite, readopen, writeopen, allocated, fds, lock, pc,
                 killed>>

\* mutant: piperead does not wake writers.
ReadDoneNoWakeup(p) ==
  /\ InRead(p, "rcopy")
  /\ pc' = [pc EXCEPT ![p] = "user"]
  /\ lock' = NoProc
  /\ left' = [left EXCEPT ![p] = 0]
  /\ out' = Nothing
  /\ UNCHANGED <<pipe, fds, killed>>

\* n bytes read, or no more of them, or copyout fails.
ReadDone(p) ==
  /\ InRead(p, "rcopy")
  /\ pc' = WakeWriters(p, "user")
  /\ lock' = NoProc
  /\ left' = [left EXCEPT ![p] = 0]
  /\ out' = Nothing
  /\ UNCHANGED <<pipe, fds, killed>>

-----------------------------------------------------------------------------
Write(p) == WriteFail(p) \/ WriteFull(p) \/ WriteByte(p) \/ WriteDone(p)
Read(p)  == ReadSleep(p) \/ ReadKilled(p) \/ ReadGo(p) \/ ReadByte(p) \/ ReadDone(p)
Descriptors(p) == PipeAlloc(p) \/ CloseRead(p) \/ CloseWrite(p) \/ Kill(p)

Next ==
  \E p \in Proc :
     \/ Descriptors(p) \/ \E r \in Proc : Fork(p, r)
     \/ WriteEnter(p) \/ ReadEnter(p) \/ Resume(p)
     \/ Write(p) \/ Read(p)

Spec == Init /\ [][Next]_vars

\* Calls run to their next sleep and woken processes run again; every holder
\* of a read end, unless blocked itself, goes on taking bytes or closes it.
Fairness ==
  \A p \in Proc :
     /\ WF_vars(Write(p) \/ Read(p))
     /\ SF_vars(Resume(p))
     /\ SF_vars(ReadEnter(p) \/ CloseRead(p))
     /\ SF_vars(ReadByte(p) \/ CloseRead(p))

FairSpec == Spec /\ Fairness

-----------------------------------------------------------------------------
(* Properties *)

\* Every variable has its type.
TypeOK ==
  /\ data \in [0 .. PIPESIZE - 1 -> Byte]
  /\ nread \in 0 .. COUNT - 1 /\ nwrite \in 0 .. COUNT - 1
  /\ {readopen, writeopen, allocated} \subseteq BOOLEAN
  /\ lock \in Proc \cup {NoProc}
  /\ readers \subseteq Proc /\ writers \subseteq Proc
  /\ pc \in [Proc -> {"user", "wloop", "wsleep", "wready", "rwait", "rcopy",
                      "rsleep", "rready"}]
  /\ left \in [Proc -> 0 .. MAXN]
  /\ killed \in [Proc -> BOOLEAN]
  /\ out \in Byte \cup {Eof, Nothing}

\* The bytes between the counters, oldest first.
Used == (nwrite - nread) % COUNT
Queued ==
  IF ~allocated THEN <<>>
  ELSE [i \in 1 .. Used |-> data[((nread + i - 1) % COUNT) % PIPESIZE]]

Queue == INSTANCE PipeQueue WITH q <- Queued, Capacity <- PIPESIZE

\* The ring buffer is a bounded queue, also when its counters wrap around:
\* pipewrite overwrites no unread byte, piperead delivers the oldest one, and
\* 0 is returned for an end of file only after the last byte.
IsQueue == Queue!Spec

\* No one sleeps through what it waits for: with the lock free, a sleeping
\* reader has nothing to read and a writer to wait for, a sleeping writer has
\* no room and a reader to wait for, and neither has been killed.
NoLostWakeup ==
  lock = NoProc => \A p \in Proc :
     /\ pc[p] = "rsleep" => Empty /\ writeopen /\ ~killed[p]
     /\ pc[p] = "wsleep" => Full /\ readopen /\ ~killed[p]

\* pipeclose frees the page when both ends are closed and not before, and no
\* call is then in, or asleep in, the pipe.
FreedOnce ==
  /\ readopen <=> readers # {}
  /\ writeopen <=> writers # {}
  /\ allocated <=> readopen \/ writeopen
  /\ \A p \in Proc : pc[p] # "user" => p \in readers \cup writers

\* The write of a pipe's only writer does not block for ever, its bytes are
\* read or the readers go, unless everyone who could read is stuck in a write.
\* (A second writer may take the room each time.)
WritesEnd ==
  \A p \in Proc :
     pc[p] \in {"wloop", "wsleep", "wready"} ~>
        \/ pc[p] = "user" \/ writers # {p}
        \/ readers # {} /\ \A r \in readers : pc[r] = "wsleep"
=============================================================================
