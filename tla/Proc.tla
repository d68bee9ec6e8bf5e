------------------------------- MODULE Proc -------------------------------
(***************************************************************************)
(* Processes and the scheduler: kernel/proc.c with the parts of            *)
(* kernel/trap.c, kernel/sysproc.c, kernel/plic.c and kernel/console.c     *)
(* that make processes run, sleep, wake, die and be reaped.                *)
(*                                                                         *)
(* The machine has one CPU.  A trap enters the kernel with interrupts off  *)
(* and usertrap never turns them on, so a process keeps the CPU from one   *)
(* call of sched() to the next.  Device interrupts are taken in user mode, *)
(* in the scheduler's scan until it has run a process (switching back      *)
(* leaves interrupts off until the next intr_on), and while it idles.  The *)
(* timer's interrupt is masked (plicinit): its pending bit is polled.      *)
(***************************************************************************)
EXTENDS Integers, FiniteSets

CONSTANTS
  NPROC,      \* param.h: slots of the process table
  MAXPID,     \* bound: pids handed out
  TICKS,      \* bound: ticks counts modulo TICKS (2^32 in the code)
  MAXPAUSE,   \* bound: longest pause
  Calls,      \* the system calls programs make
  KillPids,   \* the pids kill is called with
  Irqs        \* whether devices interrupt

ASSUME ProcSizes ==
  /\ NPROC \in Nat \ {0} /\ MAXPID \in Nat \ {0}
  /\ MAXPAUSE \in Nat /\ TICKS \in Nat /\ TICKS > MAXPAUSE

Slot == 1 .. NPROC
InitProc == 1                  \* userinit's process: slot 1, pid 1
NoSlot == 0
NoChan == 0                    \* a process sleeps in kwait on its own address
TicksChan == NPROC + 1
ConsChan  == NPROC + 2

VARIABLES
  state, chan, pid, parent, killed, xstate,  \* struct proc
  at,             \* where a process is, or will resume
  ticks0, dur,    \* sys_pause's start and length
  cpu,            \* "scan", "run", "wfi" or "panic"
  cur,            \* c->proc
  idx, found,     \* the scheduler's loop
  nextpid, ticks,
  timer,          \* the timer's pending bit
  irq,            \* an unmasked device's pending bit
  line            \* cons_r # cons_w: input to be read

procVars  == <<state, chan, pid, parent, killed, xstate>>
userVars  == <<at, ticks0, dur>>
schedVars == <<cpu, cur, idx, found>>
devVars   == <<ticks, timer, irq, line>>
vars == <<procVars, userVars, schedVars, nextpid, devVars>>

Init ==
  /\ state = [s \in Slot |-> IF s = InitProc THEN "RUNNABLE" ELSE "UNUSED"]
  /\ chan = [s \in Slot |-> NoChan]
  /\ pid = [s \in Slot |-> IF s = InitProc THEN 1 ELSE 0]
  /\ parent = [s \in Slot |-> NoSlot]
  /\ killed = [s \in Slot |-> FALSE]
  /\ xstate = [s \in Slot |-> 0]
  /\ at = [s \in Slot |-> "forkret"]
  /\ ticks0 = [s \in Slot |-> 0] /\ dur = [s \in Slot |-> 0]
  /\ cpu = "scan" /\ cur = NoSlot /\ idx = 1 /\ found = FALSE
  /\ nextpid = 2 /\ ticks = 0
  /\ timer = FALSE /\ irq = FALSE /\ line = FALSE

-----------------------------------------------------------------------------
(* sleep, wakeup, sched *)

\* The table after wakeup on each channel of C by the current process (or by
\* an interrupt in the scheduler, where there is none).
Wakeup(st, C) ==
  [s \in Slot |-> IF s # cur /\ st[s] = "SLEEPING" /\ chan[s] \in C
                  THEN "RUNNABLE" ELSE st[s]]

\* mutant: the scheduler skips a slot.
SchedSkips ==
  /\ cpu' = "scan" /\ cur' = NoSlot /\ found' = TRUE
  /\ idx' = cur + 2

\* mutant: the scan starts over after every process.
SchedFromStart ==
  /\ cpu' = "scan" /\ cur' = NoSlot /\ found' = TRUE
  /\ idx' = 1

\* swtch to the scheduler, which goes on after the slot it had dispatched.
Sched ==
  /\ cpu' = "scan" /\ cur' = NoSlot /\ found' = TRUE
  /\ idx' = cur + 1

Sleep(p, c) ==
  /\ state' = [state EXCEPT ![p] = "SLEEPING"]
  /\ chan' = [chan EXCEPT ![p] = c]
  /\ Sched

\* mutant: clockintr does not wake sleepers.
ClockIntrNoWakeup(st) ==
  /\ ticks' = (ticks + 1) % TICKS
  /\ timer' = FALSE
  /\ state' = st

\* clockintr's effect on the table st.
ClockIntr(st) ==
  /\ ticks' = (ticks + 1) % TICKS
  /\ timer' = FALSE
  /\ state' = Wakeup(st, {TicksChan})

-----------------------------------------------------------------------------
(* scheduler *)

Dispatch ==
  /\ cpu = "scan" /\ idx <= NPROC /\ state[idx] = "RUNNABLE"
  /\ state' = [state EXCEPT ![idx] = "RUNNING"]
  /\ chan' = [chan EXCEPT ![idx] = NoChan]      \* sleep()'s tidy up
  /\ cpu' = "run" /\ cur' = idx
  /\ UNCHANGED <<pid, parent, killed, xstate, userVars, idx, found, nextpid,
                 devVars>>

ScanNext ==
  /\ cpu = "scan" /\ idx <= NPROC /\ state[idx] # "RUNNABLE"
  /\ idx' = idx + 1
  /\ UNCHANGED <<procVars, userVars, cpu, cur, found, nextpid, devVars>>

ScanAgain ==
  /\ cpu = "scan" /\ idx > NPROC /\ found
  /\ idx' = 1 /\ found' = FALSE
  /\ UNCHANGED <<procVars, userVars, cpu, cur, nextpid, devVars>>

Wfi ==
  /\ cpu = "scan" /\ idx > NPROC /\ ~found
  /\ cpu' = "wfi"
  /\ UNCHANGED <<procVars, userVars, cur, idx, found, nextpid, devVars>>

-----------------------------------------------------------------------------
(* The devices, external to the kernel. *)

TimerFires ==
  /\ ~timer /\ timer' = TRUE
  /\ UNCHANGED <<procVars, userVars, schedVars, nextpid, ticks, irq, line>>

DeviceRaises ==
  /\ Irqs /\ ~irq /\ irq' = TRUE
  /\ UNCHANGED <<procVars, userVars, schedVars, nextpid, ticks, timer, line>>

\* devintr: consoleintr may complete a line and wake its readers; a pending
\* timer bit is handled along with the device that interrupted.
DevIntr ==
  /\ irq /\ irq' = FALSE
  /\ \E whole \in BOOLEAN :
       LET st == IF whole THEN Wakeup(state, {ConsChan}) ELSE state
       IN  /\ line' = (line \/ whole)
           /\ IF timer THEN ClockIntr(st)
                       ELSE state' = st /\ UNCHANGED <<ticks, timer>>
  /\ UNCHANGED <<chan, pid, parent, killed, xstate, ticks0, dur, nextpid>>

\* Through kernelvec and kerneltrap: in the scheduler's scan, and in forkret,
\* which releases p->lock with the scheduler's intena.
KernelIntr ==
  /\ \/ cpu = "scan" /\ ~found
     \/ cpu = "run" /\ at[cur] = "forkret"
  /\ DevIntr
  /\ UNCHANGED <<at, schedVars>>

\* Out of WFI, to the top of the scheduler's loop.
WakeIntr ==
  /\ cpu = "wfi"
  /\ DevIntr
  /\ cpu' = "scan" /\ idx' = 1 /\ found' = FALSE
  /\ UNCHANGED <<at, cur>>

\* In user mode, through uservec and usertrap.
UserIntr ==
  /\ cpu = "run" /\ at[cur] = "user"
  /\ DevIntr
  /\ at' = [at EXCEPT ![cur] = IF timer THEN "tickret" ELSE "irqret"]
  /\ UNCHANGED schedVars

-----------------------------------------------------------------------------
(* usertrap: the way into the kernel and the way out of it *)

In(p, place) == cpu = "run" /\ cur = p /\ at[p] = place

\* A system call's result is returned through the tail of usertrap.
Return(p) == at' = [at EXCEPT ![p] = "sysret"]

Children(p) == {s \in Slot : parent[s] = p}

\* mutant: orphans keep their parent.
ExitNoReparent(p, status) ==
  IF p = InitProc
  THEN /\ cpu' = "panic"                                   \* "init exiting"
       /\ UNCHANGED <<procVars, userVars, cur, idx, found>>
  ELSE /\ parent' = parent
       /\ state' = [Wakeup(state, {parent[p]} \cup
                              (IF Children(p) # {} THEN {InitProc} ELSE {}))
                      EXCEPT ![p] = "ZOMBIE"]
       /\ xstate' = [xstate EXCEPT ![p] = status]
       /\ Sched
       /\ UNCHANGED <<chan, pid, killed, userVars>>

\* mutant: reparent does not wake init.
ExitNoInitWakeup(p, status) ==
  IF p = InitProc
  THEN /\ cpu' = "panic"                                   \* "init exiting"
       /\ UNCHANGED <<procVars, userVars, cur, idx, found>>
  ELSE /\ parent' = [s \in Slot |-> IF parent[s] = p THEN InitProc ELSE parent[s]]
       /\ state' = [Wakeup(state, {parent[p]})
                      EXCEPT ![p] = "ZOMBIE"]
       /\ xstate' = [xstate EXCEPT ![p] = status]
       /\ Sched
       /\ UNCHANGED <<chan, pid, killed, userVars>>

\* kexit: orphans go to init, which is woken once for each; so is the parent.
Exit(p, status) ==
  IF p = InitProc
  THEN /\ cpu' = "panic"                                   \* "init exiting"
       /\ UNCHANGED <<procVars, userVars, cur, idx, found>>
  ELSE /\ parent' = [s \in Slot |-> IF parent[s] = p THEN InitProc ELSE parent[s]]
       /\ state' = [Wakeup(state, {parent[p]} \cup
                              (IF Children(p) # {} THEN {InitProc} ELSE {}))
                      EXCEPT ![p] = "ZOMBIE"]
       /\ xstate' = [xstate EXCEPT ![p] = status]
       /\ Sched
       /\ UNCHANGED <<chan, pid, killed, userVars>>

\* mutant: usertrap does not look at killed before the call.
CallKilled(p, c) == c \in Calls /\ In(p, "user")

\* The call named c is made by p, which has not been killed.
Call(p, c) == c \in Calls /\ In(p, "user") /\ ~killed[p]

\* A killed process exits at its next system call.
SyscallKilled(p) ==
  /\ In(p, "user") /\ killed[p]
  /\ Exit(p, -1)
  /\ UNCHANGED <<nextpid, devVars>>

\* A page fault that vmfault resolves, or a fault that kills.
Fault(p) ==
  /\ "fault" \in Calls /\ In(p, "user")
  /\ \E k \in {killed[p], TRUE} : killed' = [killed EXCEPT ![p] = k]
  /\ at' = [at EXCEPT ![p] = "irqret"]
  /\ UNCHANGED <<state, chan, pid, parent, xstate, ticks0, dur, schedVars,
                 nextpid, devVars>>

InTail(p) == \E place \in {"sysret", "irqret", "tickret"} : In(p, place)

TailKilled(p) ==
  /\ InTail(p) /\ killed[p]
  /\ Exit(p, -1)
  /\ UNCHANGED <<nextpid, devVars>>

\* yield, after a timer tick taken by devintr or polled here
TailYield(p) ==
  /\ InTail(p) /\ ~killed[p]
  /\ \/ /\ at[p] = "tickret"
        /\ state' = [state EXCEPT ![p] = "RUNNABLE"]
        /\ UNCHANGED <<ticks, timer>>
     \/ /\ at[p] = "sysret" /\ timer
        /\ ClockIntr([state EXCEPT ![p] = "RUNNABLE"])
  /\ at' = [at EXCEPT ![p] = "user"]
  /\ Sched
  /\ UNCHANGED <<chan, pid, parent, killed, xstate, ticks0, dur, nextpid, irq,
                 line>>

\* prepare_return, from usertrap's tail or from forkret
TailReturn(p) ==
  /\ \/ In(p, "forkret")
     \/ /\ InTail(p) /\ ~killed[p]
        /\ at[p] # "tickret" /\ ~(at[p] = "sysret" /\ timer)
  /\ at' = [at EXCEPT ![p] = "user"]
  /\ UNCHANGED <<procVars, ticks0, dur, schedVars, nextpid, devVars>>

-----------------------------------------------------------------------------
(* System calls *)

\* A call that changes none of this state: getpid, uptime, ...
Getpid(p) ==
  /\ Call(p, "getpid")
  /\ Return(p)
  /\ UNCHANGED <<procVars, ticks0, dur, schedVars, nextpid, devVars>>

SysExit(p) ==
  /\ Call(p, "exit")
  /\ Exit(p, 0)
  /\ UNCHANGED <<nextpid, devVars>>

Unused == {s \in Slot : state[s] = "UNUSED"}
First(S) == CHOOSE s \in S : \A t \in S : s <= t

\* mutant: allocpid does not advance nextpid.
ForkSamePid(p) ==
  /\ Call(p, "fork") /\ Unused # {} /\ nextpid <= MAXPID
  /\ LET np == First(Unused)
     IN  /\ state' = [state EXCEPT ![np] = "RUNNABLE"]
         /\ pid' = [pid EXCEPT ![np] = nextpid]
         /\ parent' = [parent EXCEPT ![np] = p]
         /\ at' = [at EXCEPT ![np] = "forkret", ![p] = "sysret"]
  /\ nextpid' = nextpid
  /\ UNCHANGED <<chan, killed, xstate, ticks0, dur, schedVars, devVars>>

\* kfork, with allocproc and allocpid.  killed keeps what the slot held.
Fork(p) ==
  /\ Call(p, "fork") /\ Unused # {} /\ nextpid <= MAXPID
  /\ LET np == First(Unused)
     IN  /\ state' = [state EXCEPT ![np] = "RUNNABLE"]
         /\ pid' = [pid EXCEPT ![np] = nextpid]
         /\ parent' = [parent EXCEPT ![np] = p]
         /\ at' = [at EXCEPT ![np] = "forkret", ![p] = "sysret"]
  /\ nextpid' = nextpid + 1
  /\ UNCHANGED <<chan, killed, xstate, ticks0, dur, schedVars, devVars>>

\* Memory runs out in allocproc or uvmcopy: freeproc, but the pid is spent.
ForkNoMemory(p) ==
  /\ Call(p, "fork") /\ Unused # {} /\ nextpid <= MAXPID
  /\ killed' = [killed EXCEPT ![First(Unused)] = FALSE]
  /\ nextpid' = nextpid + 1
  /\ Return(p)
  /\ UNCHANGED <<state, chan, pid, parent, xstate, ticks0, dur, schedVars,
                 devVars>>

ForkNoSlot(p) ==
  /\ Call(p, "fork") /\ Unused = {}
  /\ Return(p)
  /\ UNCHANGED <<procVars, ticks0, dur, schedVars, nextpid, devVars>>
SysWait(p) ==
  /\ Call(p, "wait")
  /\ at' = [at EXCEPT ![p] = "wait"]
  /\ UNCHANGED <<procVars, ticks0, dur, schedVars, nextpid, devVars>>

Zombies(p) == {s \in Children(p) : state[s] = "ZOMBIE"}

\* kwait finds the first exited child and frees it (freeproc).
WaitReap(p) ==
  /\ In(p, "wait") /\ Zombies(p) # {}
  /\ LET pp == First(Zombies(p))
     IN  /\ state' = [state EXCEPT ![pp] = "UNUSED"]
         /\ pid' = [pid EXCEPT ![pp] = 0]
         /\ parent' = [parent EXCEPT ![pp] = NoSlot]
         /\ chan' = [chan EXCEPT ![pp] = NoChan]
         /\ killed' = [killed EXCEPT ![pp] = FALSE]
         /\ xstate' = [xstate EXCEPT ![pp] = 0]
  /\ Return(p)
  /\ UNCHANGED <<ticks0, dur, schedVars, nextpid, devVars>>

\* No child to wait for, or killed; or copyout of a child's status fails.
WaitFail(p) ==
  /\ In(p, "wait")
  /\ \/ Zombies(p) # {}
     \/ Children(p) = {}
     \/ killed[p]
  /\ Return(p)
  /\ UNCHANGED <<procVars, ticks0, dur, schedVars, nextpid, devVars>>

WaitSleep(p) ==
  /\ In(p, "wait") /\ Zombies(p) = {} /\ Children(p) # {} /\ ~killed[p]
  /\ Sleep(p, p)
  /\ UNCHANGED <<pid, parent, killed, xstate, userVars, nextpid, devVars>>

SysPause(p) ==
  /\ Call(p, "pause")
  /\ \E n \in 0 .. MAXPAUSE : dur' = [dur EXCEPT ![p] = n]
  /\ ticks0' = [ticks0 EXCEPT ![p] = ticks]
  /\ at' = [at EXCEPT ![p] = "pause"]
  /\ UNCHANGED <<procVars, schedVars, nextpid, devVars>>

Elapsed(p) == (ticks - ticks0[p]) % TICKS >= dur[p]

PauseReturn(p) ==
  /\ In(p, "pause") /\ (Elapsed(p) \/ killed[p])
  /\ ticks0' = [ticks0 EXCEPT ![p] = 0] /\ dur' = [dur EXCEPT ![p] = 0]
  /\ Return(p)
  /\ UNCHANGED <<procVars, schedVars, nextpid, devVars>>

PauseSleep(p) ==
  /\ In(p, "pause") /\ ~Elapsed(p) /\ ~killed[p]
  /\ Sleep(p, TicksChan)
  /\ UNCHANGED <<pid, parent, killed, xstate, userVars, nextpid, devVars>>

\* mutant: kkill does not wake a sleeper.
SysKillNoWake(p) ==
  /\ Call(p, "kill")
  /\ \E k \in KillPids :
       LET match == {s \in Slot : pid[s] = k}
       IN  IF match = {}
           THEN UNCHANGED <<state, killed>>
           ELSE LET v == First(match)
                IN  killed' = [killed EXCEPT ![v] = TRUE] /\ state' = state
  /\ Return(p)
  /\ UNCHANGED <<chan, pid, parent, xstate, ticks0, dur, schedVars, nextpid,
                 devVars>>

\* kkill: the first slot with that pid.
SysKill(p) ==
  /\ Call(p, "kill")
  /\ \E k \in KillPids :
       LET match == {s \in Slot : pid[s] = k}
       IN  IF match = {}
           THEN UNCHANGED <<state, killed>>
           ELSE LET v == First(match)
                IN  /\ killed' = [killed EXCEPT ![v] = TRUE]
                    /\ state' = [state EXCEPT ![v] =
                                   IF @ = "SLEEPING" THEN "RUNNABLE" ELSE @]
  /\ Return(p)
  /\ UNCHANGED <<chan, pid, parent, xstate, ticks0, dur, schedVars, nextpid,
                 devVars>>

SysRead(p) ==
  /\ Call(p, "read")
  /\ at' = [at EXCEPT ![p] = "read"]
  /\ UNCHANGED <<procVars, ticks0, dur, schedVars, nextpid, devVars>>

\* consoleread takes a line, which may leave more; or it takes all there is,
\* no newline in it, and goes on; or it has been killed while it waited.
ReadReturn(p) ==
  /\ In(p, "read")
  /\ \/ line /\ line' \in BOOLEAN
     \/ ~line /\ killed[p] /\ UNCHANGED line
  /\ Return(p)
  /\ UNCHANGED <<procVars, ticks0, dur, schedVars, nextpid, ticks, timer, irq>>

ReadMore(p) ==
  /\ In(p, "read") /\ line
  /\ line' = FALSE
  /\ UNCHANGED <<procVars, userVars, schedVars, nextpid, ticks, timer, irq>>

ReadSleep(p) ==
  /\ In(p, "read") /\ ~line /\ ~killed[p]
  /\ Sleep(p, ConsChan)
  /\ UNCHANGED <<pid, parent, killed, xstate, userVars, nextpid, devVars>>

-----------------------------------------------------------------------------
UserTrap(p) ==
  \/ SyscallKilled(p) \/ Fault(p) \/ Getpid(p) \/ SysExit(p)
  \/ Fork(p) \/ ForkNoMemory(p) \/ ForkNoSlot(p)
  \/ SysWait(p) \/ SysPause(p) \/ SysKill(p) \/ SysRead(p)

KernelStep(p) ==
  \/ TailKilled(p) \/ TailYield(p) \/ TailReturn(p)
  \/ WaitReap(p) \/ WaitFail(p) \/ WaitSleep(p)
  \/ PauseReturn(p) \/ PauseSleep(p)
  \/ ReadReturn(p) \/ ReadMore(p) \/ ReadSleep(p)

SchedStep == Dispatch \/ ScanNext \/ ScanAgain \/ Wfi

Interrupt == KernelIntr \/ WakeIntr \/ UserIntr

Next ==
  \/ cpu # "panic" /\ (TimerFires \/ DeviceRaises)
  \/ SchedStep \/ Interrupt
  \/ \E p \in Slot : UserTrap(p) \/ KernelStep(p)

Spec == Init /\ [][Next]_vars

\* The kernel runs on, the timer keeps firing and pending interrupts are
\* taken.  Nothing is asked of devices or of user programs.
KernelFairness ==
  /\ WF_vars(SchedStep) /\ WF_vars(TimerFires) /\ WF_vars(Interrupt)
  /\ \A p \in Slot : WF_vars(KernelStep(p))

KernelFairSpec == Spec /\ KernelFairness

\* Moreover programs do not compute for ever without a system call, and init
\* waits again and again, as user/init.c does.
FairSpec ==
  /\ KernelFairSpec
  /\ \A p \in Slot : WF_vars(UserTrap(p))
  /\ SF_vars(SysWait(InitProc))
  /\ SF_vars(WaitReap(InitProc))

-----------------------------------------------------------------------------
(* Properties *)

States == {"UNUSED", "SLEEPING", "RUNNABLE", "RUNNING", "ZOMBIE"}
Places == {"forkret", "user", "sysret", "irqret", "tickret", "wait", "pause",
           "read"}

\* Every variable has its type.
TypeOK ==
  /\ state \in [Slot -> States]
  /\ chan \in [Slot -> 0 .. NPROC + 2]
  /\ pid \in [Slot -> 0 .. MAXPID]
  /\ parent \in [Slot -> 0 .. NPROC]
  /\ killed \in [Slot -> BOOLEAN]
  /\ xstate \in [Slot -> {-1, 0}]
  /\ at \in [Slot -> Places]
  /\ ticks0 \in [Slot -> 0 .. TICKS - 1] /\ dur \in [Slot -> 0 .. MAXPAUSE]
  /\ cpu \in {"scan", "run", "wfi", "panic"}
  /\ cur \in 0 .. NPROC /\ idx \in 1 .. NPROC + 1 /\ found \in BOOLEAN
  /\ nextpid \in 1 .. MAXPID + 1 /\ ticks \in 0 .. TICKS - 1
  /\ timer \in BOOLEAN /\ irq \in BOOLEAN /\ line \in BOOLEAN

Live(s) == state[s] \notin {"UNUSED", "ZOMBIE"}

\* Exactly the current process is RUNNING: scheduler, sched and the exits and
\* sleeps that lead to it keep c->proc and p->state in step.
OneRunning ==
  \A s \in Slot : state[s] = "RUNNING" <=> cpu \in {"run", "panic"} /\ s = cur

\* The parent of every process, zombies included, is a live process that can
\* still wait for it: reparent leaves no child of an exiting process behind.
ParentsLive ==
  \A s \in Slot : state[s] # "UNUSED" /\ s # InitProc =>
     parent[s] \in Slot /\ Live(parent[s]) /\ parent[s] # s

\* Pids name processes: no two slots in use share one, and kill and wait
\* never meet the pid of a freed slot.
PidsNameProcesses ==
  /\ \A s \in Slot : pid[s] = 0 <=> state[s] = "UNUSED"
  /\ \A s, t \in Slot : pid[s] = pid[t] /\ pid[s] # 0 => s = t
  /\ \A s \in Slot : pid[s] < nextpid

\* No wakeup is lost: whoever sleeps has not been killed, and what it sleeps
\* for (an exited child, a tick, a line of input) has not happened yet.
NoLostWakeup ==
  \A s \in Slot : state[s] = "SLEEPING" =>
     /\ ~killed[s]
     /\ chan[s] = s => Children(s) # {} /\ Zombies(s) = {}
     /\ chan[s] = TicksChan => ~Elapsed(s)
     /\ chan[s] = ConsChan => ~line

\* A process killed before it exits is seen by its parent to exit with -1,
\* even when it was about to call exit itself (usertrap looks at killed first).
KilledStatus ==
  [][\A s \in Slot : state[s] # "ZOMBIE" /\ state'[s] = "ZOMBIE" /\ killed[s]
        => xstate'[s] = -1]_vars

\* The kernel halts when init exits.
Halted == cpu = "panic"

\* A killed process exits, whatever it was sleeping for.
KilledExits ==
  \A s \in Slot : Live(s) /\ killed[s] ~> ~Live(s) \/ Halted

\* A zombie that init has inherited, or forked, is reaped.
OrphansReaped ==
  \A s \in Slot : state[s] = "ZOMBIE" /\ parent[s] = InitProc
                    ~> state[s] = "UNUSED" \/ Halted

\* A runnable process gets the CPU.
RunnableRuns ==
  \A s \in Slot : state[s] = "RUNNABLE" ~> state[s] # "RUNNABLE" \/ Halted

\* A process that pauses for n ticks goes on when they have passed.
PauseEnds ==
  \A s \in Slot : at[s] = "pause" ~> at[s] # "pause" \/ Halted

\* The CPU idles only when there is nothing to run.
IdleMeansNothingToRun ==
  cpu = "wfi" => \A s \in Slot : state[s] # "RUNNABLE"

\* kill marks the process that has the pid it is given: a slot without a
\* process carries no mark into the process that fork puts there.
KillMarksProcesses ==
  \A s \in Slot : state[s] = "UNUSED" => ~killed[s]
=============================================================================
