# xv6-CPUTwo in TLA+

Specifications of the xv6 kernel for the CPUTwo processor (`src/kernel`), of the
tool that makes its disk (`src/mkfs`) and of the programs that run on it and have
something to get wrong (`src/user`). TLC checks small instances; for the log, the
buffer cache, processes, pipes, open files, the console, locks and registers, TLAPS
proves the properties for every size.

## The system

One CPU runs a monolithic kernel and user processes. A trap enters the kernel
with interrupts off and `usertrap` never turns them on, so a process keeps the
CPU until it calls `sched` (in `sleep`, `yield` or `kexit`). The disk is polled.
The timer's interrupt is masked: its pending bit is polled after each system
call. Only the UART interrupts: in user mode, in `forkret`, and in the
scheduler's loop until it has run a process. `Locks` and `Context` are where
these facts are established; the other modules rely on them when they make a
system call, or the part of it up to its next sleep, one step.

The file system runs its transactions over the log, the log over the buffer cache
and the disk. Every part that waits does so with `sleep` and `wakeup`. `PROJECT.json`
lists every component, the hazards at their lines, and the source lines each
definition stands for.

## Modules

| Module | Models | Proofs |
|---|---|---|
| `Log`; `AtomicStore` | `log.c` with what it needs of `bio.c` and `virtio_disk.c`; what it promises | `LogProofs` |
| `Proc` | process table, scheduler, traps, timer, waiting for input | `ProcProofs` |
| `Pipe`; `PipeQueue` | `pipe.c`; what it promises | `PipeProofs` |
| `Locks` | `spinlock.c` under `sleep`, `yield`, `kexit`, `kwait`, `kfork`, the scheduler and interrupts | `LocksProofs` |
| `Context` | registers in `trampoline.S`, `kernelvec.S`, `swtch.S`, and the C code that fills in frames, contexts and vectors | `ContextProofs` |
| `FileSystem` | inode table, directories and links of `fs.c` and `sysfile.c` | |
| `Inode` | blocks of inodes: `balloc`, `bmap`, `itrunc`, `readi`, `writei`, `filewrite` | |
| `BufferCache` | `bio.c` | `BufferCacheProofs` |
| `Memory` | `kalloc.c`, `vm.c`, `exec.c`, `sbrk`, page faults | |
| `File` | `file.c`, descriptors in `sysfile.c`, `fork` and `exit`, ends of pipes | `FileProofs` |
| `Console`; `Terminal` | `console.c`; what it promises | `ConsoleProofs` |
| `Strings` | `string.c`, `ulib.c`, `printint` | |
| `Mkfs` | `mkfs.c` | |
| `Malloc`, `Grep`, `Shell`, `ShellRun` | `umalloc.c`, `grep.c`, the parser of `sh.c`, and how `sh.c` runs a line | |
| `MCLog`, `MCProc`, `MCPipe`, `MCFileSystem`, `MCStorage`, `MCMachine` | instances for TLC | |

Definitions whose comment starts with "mutant" are faulty variants of the
definition that follows. No specification uses them: they show that a property
can fail (`mutants` in `PROJECT.json`).

### Log

A block is a function from its sectors to values. `disk`, `logdata` and `hdr`
survive a `Crash`; everything else is lost. `cache` and `refcnt` are the buffers
of the home blocks; `Evict` is `bget` recycling a buffer with no references, at
any time. An operation is `BeginAdmit`, any number of `Modify` then `LogWrite...`
(one buffer at a time), `EndOp` or `EndLastOp`. `commit` is one step per sector:
`WriteLog`, `WriteHead`, `Install`, `ClearHead`. Recovery is `ReadHead`, then the
same `Install` and `ClearHead` with `recovering` set.

Steps are what happens under one hold of a lock. In this build operations do not
overlap (`outstanding` is at most 1): its behaviours are those with one process.
The specification keeps the overlapping operations and the sleeps that `log.c` is
written for; what holds of them holds of the build.

`OPBLOCKS` is the number of distinct blocks an operation really writes. It must
be smaller than `MAXOPBLOCKS` because `log_write` tests for a full header before
it looks for an absorbed block. That a chunk of `filewrite` keeps to
`MAXOPBLOCKS` is checked in `Inode`.

### Proc

A slot's `at` is the place where its process is or will resume: `user`,
`forkret`, the tail of `usertrap` (`sysret`, `irqret`, `tickret`), or the loop of
`kwait`, `sys_pause` or `consoleread`. `cpu`, `idx` and `found` are the scheduler.
Every step of a running process is exclusive of every other process, as in the
code; only the devices raise their bits at any time. Failures of `fork` and
`copyout` are nondeterministic; the console is one bit, "there is input".
`WFI` ends at an interrupt and not otherwise, as the comment in `scheduler` says.

### Pipe

`lock` is `pi->lock`, held from entry to return or sleep. One action moves one
byte. `readers` and `writers` are the processes with a descriptor of an end; the
last close of an end is `pipeclose`. Counters are modulo `COUNT`, a multiple of
`PIPESIZE` as 2^32 is of 512. A process is killed only while no call runs, as on
one CPU. A second CPU could kill a writer between two bytes; its `pipewrite`
would then return without waking readers.

### Locks and Context

Both model the interleavings of threads at the level of single operations.
`Locks` gives each thread the operations ahead of it (`todo`): `acquire` is two
steps, as an interrupt can come between reading the flag and clearing it. A lock
is taken and released by whichever thread runs; `p->lock` crosses `swtch`.
Processes may take any locks in any order, as no lock of one CPU is contended;
what they may not do is sleep with two, or return to user code with one, which
the code does not do either. `Context` has the register file, the frames and the
contexts; one register stands for those treated alike (`r4` for the callee-saved
ones). The flags are not part of what programs keep: `uservec` does not save
EFLAGS, and `prepare_return` clears them (`trap.c:129`).

### BufferCache

The list has its `next` and `prev`, and the two loops of `bget` go one buffer per
step. `rank`, `dirty` and `latest` are ghosts: the order of the releases, the buffers
that differ from the disk, and what was last put into a block. That a changed buffer
is written or pinned before it is released, that a call does not read a block it
holds, and how many buffers are held (`HOLD`) and pinned (`PINS`) is up to the callers
in `fs.c` and `log.c`: these are guards. `CHANGED` bounds, for TLC, the blocks that
are changed.

### File

A system call is one step, and `kexit` one per descriptor, since `fileclose` may sleep
in `begin_op`. `fileclose` and the clearing of the descriptor are one step there: only
the process itself looks at its descriptors, and it is in `kexit`.

### Console

`cons_lock` is held with interrupts off from a reader's start or wakeup to its next
sleep or return. The loop of `consoleread` goes one character per step, `consoleintr`
is one step. Indices are modulo `UINT`, a multiple of the buffer's size. Negative
counts are left out: the loop takes them as 0. `kill` finds a process between the
steps in which it runs. `Terminal` has a text, how much of it is finished, and
what each read was given.

### FileSystem, Inode, Memory

The functions of the C code map a state to the next one; a system call is one
step, except that `filewrite` is one step per transaction. On power loss the disk
is as the last transaction left it, which is what `Log` provides, and `ireclaim` runs.
Disk blocks, inodes and pages run out, and any call that may fail does.
`Inode` writes for each unit of data the inode it belongs to, so data that shows
up in another file is noticed. `Memory` counts pages; addresses are in units, and
sums wrap as `uint32` does. `FileSystem` refers to inodes and names only; content
is in `Inode`, open files in `File`.

### User programs and mkfs

`Shell` compares the recursive-descent parser with a grammar over all lines up to
a length; `ShellRun` runs parsed lines with processes, descriptors and pipes.
`Grep` compares the matcher with the meaning of patterns, and the line buffer with
the text, however `read` cuts it. `Malloc` follows the pointers of the free list.
`Strings` runs the loops on a small memory and compares with sequences.

## Runs

| Run | Checks | Instance |
|---|---|---|
| `log_safety` | `CrashAtomic`: the log implements `AtomicStore`; `QuietIsDurable`; the inductive `LogInv` (types, exact reference counts, no dirty eviction) | 2 blocks of 2 sectors, 2 values, 2 processes, room for 2 operations: group commit, absorption, torn blocks and repeated crashes occur |
| `log_space` | `NoPanic`, `SleeperWoken` | 3 processes, room for 2 operations, 4 blocks: the log fills and `begin_op` sleeps (35,026 states) |
| `proc_lifecycle` | `TypeOK`, `ParentsLive`, `PidsNameProcesses`, `NoLostWakeup`, `KilledStatus` | 3 slots, pids to 4 so that slots are reused, pauses, console, interrupts, init killed (1,238,032 states) |
| `proc_liveness` | `KilledExits`, `OrphansReaped`, `RunnableRuns` | 4 slots (init and a chain of three), pids to 4: a zombie is handed to a sleeping init (32,134 states) |
| `pipe_queue` | `IsQueue`: the ring implements `PipeQueue`; `NoLostWakeup`, `FreedOnce`, `WritesEnd` | 2 processes, 2 bytes of room, counters modulo 4, writes of 2, 2 byte values (114,816 states) |
| `fs_names` | `RefsExact`, `NamesSound` (link counts, a tree), `NoLeakedInode`, `NoPanic`, `FailureLeavesNoTrace` | 4 inodes, 2 names, 2 processes, directories that grow by a block, power loss (35,461 states) |
| `storage` | `Context`: `RegistersKept`; `Inode`: `BlocksOwnedOnce`, `FilesDurable`; `BufferCache`: `CacheSound`; `Mkfs`: `ImageSound`; `File`: `FilesSound`, `FailsClean`; `NoPanic` | 2 processes; 2 inodes over 3 blocks; 3 buffers for 4 blocks, 1 of which is changed, 2 held and 1 pinned; images of 32 blocks; 3 files, 3 descriptors, a pipe (418,316 states) |
| `machine` | `Locks`: `NoPanic`, `InterruptsSound`; `Memory`: `MemorySound`, `AllOrNothing`; `Console`: `ReadersReady`, `IsTerminal`; `StringsExact`, `HeapSound`, `TextExact` (grep, parser), `LinesRun` (shell) | 2 processes and 2 locks besides theirs; 3 processes, 22 pages; 2 readers of 1 or 3 characters, a ring of 2, indices modulo 4; memories of 5 bytes; a heap of 8 units; input of 4 characters; lines of 5; 9 lines run by 7 processes (210,355 states) |

`storage` and `machine` hold independent models side by side: `focus` says which
one a behaviour is about. Their state counts are sums, not products. `MCStorage`
extends `Context`, `File` and `BufferCache`, and `MCMachine` extends `Locks` and
`Console`, so that the properties of these five are the definitions the theorems are
about.

`CHECK_DEADLOCK FALSE`: the kernel halts when init exits, all processes may sleep
with nothing to come, programs end, and a tiny disk or heap may leave no call.

The bounds are chosen so that each limit is hit: rings and tables fill, counters
wrap, slots, blocks, inodes and pages are used again, and memory runs out in every
allocation. `MAXPID` ends forking, so `OrphansReaped` says that zombies are reaped
once processes stop being created: `kwait` takes the first zombie of the table, and
new ones in lower slots may go before. `WritesEnd` is about a lone writer: two may
starve one another.

Four runs exhibit disagreements between the code and what the repository says
of it (`findings`):

- `proc_pause`: with every process asleep, nothing polls the timer, `ticks` stops
  and `pause` does not return until a key is pressed.
- `proc_idle`: an interrupt between the scan of a slot and `WFI` leaves a runnable
  process waiting for the next interrupt.
- `proc_preempt`: a program without system calls is never preempted, which the
  test `preempt` of `usertests` needs.
- `proc_kill_zero`: `kill(0)` marks a free slot, and the next process there is born
  killed.

## Fairness

- `Log`: the committing process goes on, a woken process runs, and an operation
  reaches its `end_op`. An operation is finite code; strong fairness says so.
  `begin_op` may be overtaken for ever, so only being woken is claimed.
- `Proc`, `KernelFairSpec`: the scheduler and kernel code go on, the timer fires
  again and again, pending interrupts are taken. Nothing is asked of the user.
- `Proc`, `FairSpec`: moreover a program does not compute for ever, and init
  calls `wait` again and again with a null status pointer, as `user/init.c` does.
- `Pipe`: calls run on, woken processes run, and a process with a read end that is
  not blocked takes bytes or closes it.

## Proofs

All theorems hold for every value of the constants under the assumptions named in
the modules (`SizeAssumption`, `ProcSizes`, `PipeSizes` and the like: sizes are
natural numbers, `OPBLOCKS < MAXOPBLOCKS`, `COUNT` is a multiple of `PIPESIZE`,
`TICKS > MAXPAUSE`, `HOLD + PINS <= NBUF`, `UINT` is a multiple of the console's
buffer; processes and blocks are finite sets). Every inductive invariant was checked
with TLC too: `LogInv` in `log_safety`, `CacheSound` and `FilesSound` in `storage`,
`ReadersReady` in `machine`, those of `Locks` (3 processes, 544,807 states) and `Context` (2 processes, 156,761 states), and
those of `Proc` and `Pipe` on the instances of `proc_lifecycle` and `pipe_queue`.

| Theorem | States |
|---|---|
| `LogInvariant`, `TypeCorrect`, `RefcntsExact`, `NeverEvictsDirty`, `NeverPanics`, `QuietDurable` | `LogInv` and what follows from it |
| `Refinement` | the log implements the atomic store. Its commit is `WriteHead`; the other steps of commit and recovery stutter |
| `ProcTypes`, `ProcOneRunning`, `ProcParentsLive`, `ProcPids`, `ProcNoLostWakeup`; `ProcKilledStatus` | invariants of the process table; what a step may do to the status of a killed process |
| `PipeTypes`, `PipeFreedOnce`, `PipeNoLostWakeup`; `PipeIsQueue` | invariants of the pipe; the ring implements the queue |
| `LocksInvariant`, `LocksNeverPanic`, `LocksInterrupts` | no panic of `spinlock.c` or `sched`; interrupts are off while a lock is held and in traps, on while the scheduler idles |
| `CacheIsSound` | a block has one buffer, with what was last put into the block; the list is in order of release; `bget` does not panic |
| `FilesAreSound`; `FailuresAreClean` | references, descriptors, ends of pipes and inodes agree, and `file.c` does not panic; a call that fails leaves them alone |
| `ConsoleReadersReady`; `ConsoleIsTerminal` | no reader misses its wakeup and a full buffer can be read; the ring implements `Terminal` |
| `UserRegisters`, `KernelThreads`, `TrapVectors`, `ContextSafe` | programs and kernel threads find what they left, traps find their vector |

**Log.** `NoPanic` alone is not inductive: that `log_write` finds room depends on the
space reserved for all that the admitted operations may still write (`SpaceInv`:
header length plus unused reservations fits the log), and reservations depend on
who is in an operation (`ControlInv`). `CrashAtomic` needs what each phase has
already copied (`DataInv`: `Copied`, `Installed`) and which header is on disk in
which phase (`HeadInv`). The steps that need no counting and the refinement come
first; the cardinalities of `SpaceInv` and `RefcntExact` follow.

**Proc.** Besides the properties, that init is live (`kexit` panics rather than let it
go, so `reparent` always has somebody to give orphans to), that a free slot has no
parent, and that `c->proc` follows the CPU.

**Pipe.** A sleeper may be owed a wakeup while a call is under way: `SleepInv` says who
owes it. The refinement maps the ring to the sequence from `nread` to `nwrite`.

**Locks.** `NoPanic` says nothing about where a thread is, so the invariant does: each
thread that runs is at a point of `sleep`, `yield`, `kexit`, `wakeup`, `kwait`, `kfork`,
`acquire` or `release`, and each point has its set of locks (`InSleep`, `InYield`, ...);
a thread that does not run is new or behind the `swtch` of `sched` (`WaitInv`), and the
lock the scheduler expects back is the one the running process got (`PlaceInv`).
`noff = Cardinality(locked)` then needs no owner. Interrupts need the saved flags:
what `push_off` read, what `sched` keeps across `swtch`, and `intena` in between are
off in a trap (`ProcFlags`, `SavedFlags`) and on in the scheduler until it has found a
process (`SchedFlags`).

**Context.** A frame holds its program's registers except while the program runs or
before `exec` has loaded it (`FrameInv`); a thread that does not run has its registers
in its context, the one that runs in the CPU (`ThreadInv`); the vector, the page
table and the interrupt flag follow the place (`CpuInv`).

**BufferCache.** `CacheSound` is inductive. Its parts need each other: that a cached
block is the latest one rests on there being one buffer for it (`BuffersExact`), which
`bget` keeps because its first loop has seen every buffer when the second begins
(`SearchExact`), which rests on `next` and `prev` going through all of them in order
(`ListSound`, by rank, so that no path has to be followed); a recycled buffer may be
forgotten because it does not differ from the disk (`ChangesKept`). `bget` does not
panic by counting: a buffer that is neither held nor pinned exists as
`HOLD + PINS <= NBUF` (`SomeFree`), and the second loop stops at it. That `brelse`
leaves the list in order (`FrontSound`) is proved for any list and any buffer in it.

**File.** `FilesSound` is inductive. References are counted as sets of pairs of a
process and a descriptor (`Refs`), so that `fork`, which copies a whole table, adds to
each file the number of its descriptors in that table; `exit` needs that a process
without a status has no descriptors. `pipeclose` frees a page once because an end has
one file.

**Console.** `ReadersReady` is inductive. The refinement maps the ring to the sequence
from `cons_r` to `cons_e`; it needs that two positions less than a buffer apart have
different slots, also where the indices wrap (`SlotsApart`, `WrapKeepsSlot`), and that
the line being edited has no newline in it, so that `^U` erases all of it (`WholeLine`).

Only model-checked:

- liveness (`SleeperWoken`, `KilledExits`, `OrphansReaped`, `RunnableRuns`,
  `WritesEnd`), which is out of the prover's reach;
- `FileSystem`, `Inode`, `Memory`, `Mkfs`, `Malloc`, `Grep`, `Shell`, `ShellRun`,
  `Strings`: their loops are recursive operators, and what a recursion computes needs
  induction over data, which the provers cannot do.

## Limits

What the instances or the abstraction leave out:

- A process is not interrupted in a trap, so sleep-locks are never contended and
  waiting for one is not modelled.
- `NBUF` equals `LOGBLOCKS`; the panic of `bget` is out of reach only because one
  operation at a time pins at most `MAXOPBLOCKS` buffers.
- A removed current directory: `create` in it leaves an inode without a name, and its
  ".." may name an inode that was freed since, at which `ilock` panics. `NoPanic` of
  `FileSystem` excepts it; in the instance that ".." is the root.
- `NINODE` (50) is below `NFILE` (100): `iget` panics when more inodes are open.
  `nlink` is a short without a check.
- `mkfs` rounds the size of the root directory up and leaves a hole when its entries
  fill their blocks exactly (`mkfs.c:168`), and does not compare `freeblock` with `FSSIZE`.
- `malloc` of sizes near 2^32 wraps `nunits` (`umalloc.c:69`).
- `grep` takes a line longer than its buffer as the end of input and does not look at
  a last line without a newline: `TextExact` is about
  the lines that end in one, up to there.
- `sh`: of several output redirections the first one wins.
- `kfree` fills pages with junk; the content of pages is not modelled.

## Not modelled

Boot (`main.c`, `entry.S`, and the register writes of `start.c`), output (polled,
byte by byte; `uartwrite` is never called), the format loop of `printf`, ELF decoding,
`procdump`, and user programs without state of their own: see `components` in
`PROJECT.json`.
