------------------------------- MODULE Locks -------------------------------
(***************************************************************************)
(* Spin locks and interrupts on the one CPU: kernel/spinlock.c, under      *)
(* sleep, yield, sched and the scheduler of kernel/proc.c and the traps of *)
(* kernel/trap.c.  A thread is the scheduler or the kernel side of a       *)
(* process; todo is what it still executes of the function it is in.       *)
(* Between two steps an interrupt may come when they are enabled; its      *)
(* handler is one step, as it runs with interrupts off.                    *)
(***************************************************************************)
EXTENDS Integers, Sequences, FiniteSets

CONSTANTS
  NPROC,
  DevLocks,    \* locks that interrupt handlers also take: cons_lock, tickslock
  OtherLocks   \* locks that only processes take

ASSUME LocksSizes == NPROC \in Nat \ {0}

Proc == 1 .. NPROC
Scheduler == 0
ProcLock(p) == <<"proc", p>>
DevLock == {<<"dev", l>> : l \in DevLocks}
OtherLock == {<<"other", l>> : l \in OtherLocks}
NoLock == <<"none", 0>>

VARIABLES
  locked,      \* locks held, all of them by this CPU
  noff, intena, \* of struct cpu
  ie,          \* interrupts are enabled
  cur,         \* the thread that runs
  todo,        \* operations ahead of each thread
  old,         \* local of push_off in the running thread
  saved,       \* local intena of sched in each process
  state,
  mode,        \* a process is in user code, in a trap, or new (forkret)
  found,       \* local of scheduler
  panicked

cpu == <<noff, intena, ie>>
vars == <<locked, cpu, cur, todo, old, saved, state, mode, found, panicked>>

-----------------------------------------------------------------------------
(* Functions as sequences of operations *)

Op(name, lk) == [op |-> name, lk |-> lk]
Do(name) == Op(name, NoLock)
Acq(lk) == Op("acquire", lk)
Rel(lk) == Op("release", lk)

\* acquire: push_off reads the flag, then the rest of push_off and the lock.
Acquire(lk) == <<Do("get"), Acq(lk)>>
Release(lk) == <<Rel(lk)>>

\* mutant: sleep keeps the lock it was given.
SleepHolding(p, lk) ==
  <<Do("get"), Acq(ProcLock(p)), Do("SLEEPING"), Do("sched"), Do("restore"), Rel(ProcLock(p))>>

Sleep(p, lk) ==
  <<Do("get"), Acq(ProcLock(p)), Rel(lk), Do("SLEEPING"), Do("sched"), Do("restore"),
    Rel(ProcLock(p)), Do("get"), Acq(lk)>>

Yield(p) ==
  <<Do("get"), Acq(ProcLock(p)), Do("RUNNABLE"), Do("sched"), Do("restore"), Rel(ProcLock(p))>>

\* The end of kexit, with lk = wait_lock held.
Exit(p, lk) ==
  <<Do("get"), Acq(ProcLock(p)), Do("ZOMBIE"), Rel(lk), Do("sched"), Do("restore")>>

\* One turn of wakeup, kill or kwait, and the end of kfork of process q.
Other(q, op) == <<Do("get"), Acq(ProcLock(q)), Op(op, ProcLock(q)), Rel(ProcLock(q))>>
Wakeup(q) == Other(q, "wakeup")
Wait(q) == Other(q, "wait")
Fork(q) == Other(q, "fork")

\* The scheduler's endless loop, a turn of the loop inside it, and its end.
Scan == <<Do("on")>>
Turn(p) == <<Do("get"), Acq(ProcLock(p)), Op("run", ProcLock(p)), Rel(ProcLock(p)),
             Op("next", ProcLock(p))>>
Idle == <<Do("idle")>>

-----------------------------------------------------------------------------
(* Operations *)

Init ==
  /\ locked = {} /\ noff = 0 /\ intena = FALSE /\ ie = FALSE
  /\ cur = Scheduler /\ found = FALSE /\ old = FALSE /\ panicked = "none"
  /\ saved = [p \in Proc |-> FALSE]
  /\ state = [p \in Proc |-> IF p = 1 THEN "RUNNABLE" ELSE "UNUSED"]
  /\ mode = [p \in Proc |-> "new"]
  /\ todo = [t \in {Scheduler} \cup Proc |->
               IF t = Scheduler THEN Scan ELSE Release(ProcLock(t))]

Does(name) == panicked = "none" /\ todo[cur] # <<>> /\ Head(todo[cur]).op = name
Lk == Head(todo[cur]).lk
Advance == todo' = [todo EXCEPT ![cur] = Tail(@)]
Panic(why) == panicked' = why /\ UNCHANGED <<locked, cpu, cur, todo, saved, state>>

\* push_off: int old = intr_get()
Get ==
  /\ Does("get")
  /\ old' = ie /\ Advance
  /\ UNCHANGED <<locked, cpu, cur, saved, state, mode, found, panicked>>

\* The rest of push_off; holding, and the compare-and-swap.
AcquireRest ==
  /\ Does("acquire")
  /\ IF Lk \in locked THEN Panic("acquire")
     ELSE /\ ie' = FALSE /\ intena' = (IF noff = 0 THEN old ELSE intena) /\ noff' = noff + 1
          /\ locked' = locked \cup {Lk} /\ Advance
          /\ UNCHANGED <<cur, saved, state, panicked>>
  /\ UNCHANGED <<old, mode, found>>

NoffAfterPop == noff - 1

IeAfterPop == ie \/ (noff = 1 /\ intena)

\* release with its pop_off.
ReleaseAll ==
  /\ Does("release")
  /\ IF Lk \notin locked THEN Panic("release")
     ELSE IF ie THEN Panic("pop_off - interruptible")
     ELSE IF noff < 1 THEN Panic("pop_off")
     ELSE /\ locked' = locked \ {Lk} /\ noff' = NoffAfterPop
          /\ ie' = IeAfterPop /\ Advance
          /\ UNCHANGED <<intena, cur, saved, state, panicked>>
  /\ UNCHANGED <<old, mode, found>>

\* p->state = ... of the running process.
Mark ==
  /\ \E s \in {"SLEEPING", "RUNNABLE", "ZOMBIE"} :
       Does(s) /\ state' = [state EXCEPT ![cur] = s]
  /\ Advance
  /\ UNCHANGED <<locked, cpu, cur, old, saved, mode, found, panicked>>

\* sched up to swtch.
SchedOut ==
  /\ Does("sched")
  /\ IF ProcLock(cur) \notin locked THEN Panic("sched p->lock")
     ELSE IF noff # 1 THEN Panic("sched locks")
     ELSE IF state[cur] = "RUNNING" THEN Panic("sched RUNNING")
     ELSE IF ie THEN Panic("sched interruptible")
     ELSE /\ saved' = [saved EXCEPT ![cur] = intena] /\ cur' = Scheduler /\ Advance
          /\ UNCHANGED <<locked, cpu, state, panicked>>
  /\ UNCHANGED <<old, mode, found>>

\* mutant: sched does not restore intena.
SchedInNot ==
  /\ Does("restore") /\ Advance
  /\ UNCHANGED <<locked, cpu, cur, old, saved, state, mode, found, panicked>>

\* The end of sched, once swtch returns.
SchedIn ==
  /\ Does("restore")
  /\ intena' = saved[cur] /\ Advance
  /\ UNCHANGED <<locked, noff, ie, cur, old, saved, state, mode, found, panicked>>

DoWakeup ==
  /\ Does("wakeup") /\ Advance
  /\ state' = [state EXCEPT ![Lk[2]] = IF @ = "SLEEPING" THEN "RUNNABLE" ELSE @]
  /\ UNCHANGED <<locked, cpu, cur, old, saved, mode, found, panicked>>

\* kwait frees an exited child.
DoWait ==
  /\ Does("wait") /\ Advance
  /\ state' = [state EXCEPT ![Lk[2]] = IF @ = "ZOMBIE" THEN "UNUSED" ELSE @]
  /\ UNCHANGED <<locked, cpu, cur, old, saved, mode, found, panicked>>

\* A new process starts in forkret with its lock held by the scheduler.
DoFork ==
  /\ Does("fork")
  /\ IF state[Lk[2]] = "UNUSED"
     THEN /\ state' = [state EXCEPT ![Lk[2]] = "RUNNABLE"]
          /\ mode' = [mode EXCEPT ![Lk[2]] = "new"]
          /\ todo' = [todo EXCEPT ![cur] = Tail(@), ![Lk[2]] = Release(Lk)]
     ELSE Advance /\ UNCHANGED <<state, mode>>
  /\ UNCHANGED <<locked, cpu, cur, old, saved, found, panicked>>

-----------------------------------------------------------------------------
(* The scheduler *)

IntrOn == TRUE

ScheduleOn ==
  /\ Does("on") /\ todo' = [todo EXCEPT ![cur] = Turn(1)]
  /\ ie' = IntrOn /\ found' = FALSE
  /\ UNCHANGED <<locked, noff, intena, cur, old, saved, state, mode, panicked>>

ScheduleRun ==
  /\ Does("run") /\ Advance
  /\ IF state[Lk[2]] = "RUNNABLE"
     THEN state' = [state EXCEPT ![Lk[2]] = "RUNNING"] /\ cur' = Lk[2] /\ found' = TRUE
     ELSE UNCHANGED <<state, cur, found>>
  /\ UNCHANGED <<locked, cpu, old, saved, mode, panicked>>

\* p++ and the condition of the loop over the processes.
ScheduleNext ==
  /\ Does("next")
  /\ todo' = [todo EXCEPT ![cur] = IF Lk[2] < NPROC THEN Turn(Lk[2] + 1) ELSE Idle]
  /\ UNCHANGED <<locked, cpu, cur, old, saved, state, mode, found, panicked>>

\* WFI when nothing was found, and back to the start.
ScheduleIdle ==
  /\ Does("idle")
  /\ todo' = [todo EXCEPT ![cur] = Scan]
  /\ UNCHANGED <<locked, cpu, cur, old, saved, state, mode, found, panicked>>

-----------------------------------------------------------------------------
(* Kernel code of a process, traps and interrupts *)

InKernel == panicked = "none" /\ cur # Scheduler /\ todo[cur] = <<>> /\ mode[cur] # "user"

\* The process takes and releases locks, wakes others, sleeps with one lock,
\* yields and forks with none; with wait_lock it waits, or exits unless it is
\* init.
Code ==
  /\ InKernel
  /\ \E f \in {Acquire(lk) : lk \in (DevLock \cup OtherLock) \ locked}
              \cup {Release(lk) : lk \in locked}
              \cup {Wakeup(q) : q \in Proc \ {cur}}
              \cup {Sleep(cur, lk) : lk \in {l \in locked : locked = {l}}}
              \cup {Exit(cur, lk) : lk \in {l \in OtherLock : locked = {l} /\ cur # 1}}
              \cup {Wait(q) : q \in {r \in Proc \ {cur} : \E l \in OtherLock : locked = {l}}}
              \cup (IF locked = {} THEN {Yield(cur)} \cup {Fork(q) : q \in Proc \ {cur}} ELSE {}) :
        todo' = [todo EXCEPT ![cur] = f]
  /\ UNCHANGED <<locked, cpu, cur, old, saved, state, mode, found, panicked>>

\* prepare_return and userret: interrupts are on in user code.
ReturnToUser ==
  /\ InKernel /\ locked = {}
  /\ mode' = [mode EXCEPT ![cur] = "user"] /\ ie' = TRUE
  /\ UNCHANGED <<locked, noff, intena, cur, todo, old, saved, state, found, panicked>>

\* A system call, fault or interrupt in user code: uservec runs usertrap with
\* interrupts off; devintr's locks are those of Code.
UserTrap ==
  /\ panicked = "none" /\ cur # Scheduler /\ mode[cur] = "user"
  /\ mode' = [mode EXCEPT ![cur] = "trap"] /\ ie' = FALSE
  /\ UNCHANGED <<locked, noff, intena, cur, todo, old, saved, state, found, panicked>>

\* kernelvec, kerneltrap and devintr: the handler takes a device lock and, in
\* wakeup, the lock of every other process, and returns with interrupts on.
KernelTrap ==
  /\ panicked = "none" /\ ie /\ (cur # Scheduler => mode[cur] # "user")
  /\ IF locked \cap (DevLock \cup {ProcLock(p) : p \in Proc \ {cur}}) # {} THEN Panic("acquire")
     ELSE /\ \E woken \in SUBSET {p \in Proc \ {cur} : state[p] = "SLEEPING"} :
               state' = [p \in Proc |-> IF p \in woken THEN "RUNNABLE" ELSE state[p]]
          /\ intena' = IF noff = 0 THEN FALSE ELSE intena
          /\ UNCHANGED <<locked, noff, ie, cur, todo, saved, panicked>>
  /\ UNCHANGED <<old, mode, found>>

Next ==
  \/ Get \/ AcquireRest \/ ReleaseAll \/ Mark \/ SchedOut \/ SchedIn \/ DoWakeup \/ DoWait \/ DoFork
  \/ ScheduleOn \/ ScheduleRun \/ ScheduleNext \/ ScheduleIdle
  \/ Code \/ ReturnToUser \/ UserTrap \/ KernelTrap

Spec == Init /\ [][Next]_vars

-----------------------------------------------------------------------------
(* Properties *)

Lock == {ProcLock(p) : p \in Proc} \cup DevLock \cup OtherLock

\* Every variable has its type.
TypeOK ==
  /\ locked \subseteq Lock /\ noff \in Nat
  /\ intena \in BOOLEAN /\ ie \in BOOLEAN /\ old \in BOOLEAN /\ found \in BOOLEAN
  /\ cur \in {Scheduler} \cup Proc /\ saved \in [Proc -> BOOLEAN]
  /\ state \in [Proc -> {"UNUSED", "RUNNABLE", "RUNNING", "SLEEPING", "ZOMBIE"}]
  /\ mode \in [Proc -> {"new", "user", "trap"}]

\* None of the panics of acquire, release, pop_off and sched happens, in any
\* interleaving of threads and interrupts: a lock taken by one thread and
\* released by another (p->lock across swtch) is counted right.  Every variable
\* has its type.
NoPanic == TypeOK /\ panicked = "none"

\* While a lock is held interrupts are off, so that no handler of this CPU can
\* spin on it ("disable interrupts to avoid deadlock"), and noff is the number
\* of locks held whichever thread took them.
HeldMeansOff == noff = Cardinality(locked) /\ (locked # {} => ~ie)

\* Once a process has trapped, interrupts stay off until it returns to user
\* code, whatever it slept or yielded in between ("intena is a property of
\* this kernel thread, not this CPU"): system calls are not interrupted.
TrapsStayOff == cur # Scheduler /\ mode[cur] = "trap" => ~ie

\* The scheduler waits for an interrupt only with interrupts enabled, also
\* after threads that left the CPU with interrupts off.
IdleInterruptible == Does("idle") /\ ~found => ie

\* acquire and release keep interrupts off exactly as long as they have to:
\* HeldMeansOff, TrapsStayOff and IdleInterruptible.
InterruptsSound == HeldMeansOff /\ TrapsStayOff /\ IdleInterruptible
=============================================================================
