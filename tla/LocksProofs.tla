---------------------------- MODULE LocksProofs ----------------------------
(***************************************************************************)
(* Theorems about Locks, for any number of processes and any locks: no     *)
(* interleaving of threads and interrupts reaches a panic of spinlock.c or *)
(* sched, and interrupts are on and off where they have to be.             *)
(***************************************************************************)
EXTENDS Locks, TLAPS

Thread == {Scheduler} \cup Proc
Plain == DevLock \cup OtherLock

\* Points inside a function: what is left of it after 1, 2, ... operations.
Acquire2(lk) == <<Acq(lk)>>

Sleep7(p, lk) == <<Rel(ProcLock(p)), Do("get"), Acq(lk)>>
Sleep6(p, lk) == <<Do("restore"), Rel(ProcLock(p)), Do("get"), Acq(lk)>>
Sleep5(p, lk) == <<Do("sched"), Do("restore"), Rel(ProcLock(p)), Do("get"), Acq(lk)>>
Sleep4(p, lk) == <<Do("SLEEPING"), Do("sched"), Do("restore"), Rel(ProcLock(p)), Do("get"), Acq(lk)>>
Sleep3(p, lk) == <<Rel(lk), Do("SLEEPING"), Do("sched"), Do("restore"), Rel(ProcLock(p)), Do("get"),
                   Acq(lk)>>
Sleep2(p, lk) == <<Acq(ProcLock(p)), Rel(lk), Do("SLEEPING"), Do("sched"), Do("restore"),
                   Rel(ProcLock(p)), Do("get"), Acq(lk)>>

Yield5(p) == <<Do("restore"), Rel(ProcLock(p))>>
Yield4(p) == <<Do("sched"), Do("restore"), Rel(ProcLock(p))>>
Yield3(p) == <<Do("RUNNABLE"), Do("sched"), Do("restore"), Rel(ProcLock(p))>>
Yield2(p) == <<Acq(ProcLock(p)), Do("RUNNABLE"), Do("sched"), Do("restore"), Rel(ProcLock(p))>>

Exit6 == <<Do("restore")>>
Exit5 == <<Do("sched"), Do("restore")>>
Exit4(lk) == <<Rel(lk), Do("sched"), Do("restore")>>
Exit3(lk) == <<Do("ZOMBIE"), Rel(lk), Do("sched"), Do("restore")>>
Exit2(p, lk) == <<Acq(ProcLock(p)), Do("ZOMBIE"), Rel(lk), Do("sched"), Do("restore")>>

Other3(q, op) == <<Op(op, ProcLock(q)), Rel(ProcLock(q))>>
Other2(q, op) == <<Acq(ProcLock(q)), Op(op, ProcLock(q)), Rel(ProcLock(q))>>
Turn5(p) == <<Op("next", ProcLock(p))>>
Turn4(p) == <<Rel(ProcLock(p)), Op("next", ProcLock(p))>>
Turn3(p) == <<Op("run", ProcLock(p)), Rel(ProcLock(p)), Op("next", ProcLock(p))>>
Turn2(p) == <<Acq(ProcLock(p)), Op("run", ProcLock(p)), Rel(ProcLock(p)), Op("next", ProcLock(p))>>

\* The next operation of p is op.
At(p, op) == todo[p] # <<>> /\ Head(todo[p]).op = op

\* Every variable has its type.
Types ==
  /\ locked \subseteq Lock
  /\ intena \in BOOLEAN /\ ie \in BOOLEAN /\ old \in BOOLEAN /\ found \in BOOLEAN
  /\ cur \in Thread /\ saved \in [Proc -> BOOLEAN]
  /\ state \in [Proc -> {"UNUSED", "RUNNABLE", "RUNNING", "SLEEPING", "ZOMBIE"}]
  /\ mode \in [Proc -> {"new", "user", "trap"}]
  /\ todo = [t \in Thread |-> todo[t]]

\* No panic, and interrupts are off while a lock is held.
CpuInv == panicked = "none" /\ (locked # {} => ~ie)

\* What noff = Cardinality(locked) says without cardinalities (lemma
\* CountInvCounted of LocksProofs).
Counted ==
  /\ noff \in Nat /\ (noff = 0 <=> locked = {})
  /\ noff = 1 <=> \E lk : locked = {lk}

\* The points of the scheduler and the locks held at each.
Scanning ==
  \/ todo[Scheduler] \in {Scan, Idle} /\ locked = {}
  \/ \E p \in Proc :
       \/ todo[Scheduler] \in {Turn(p), Turn2(p), Turn5(p)} /\ locked = {}
       \/ todo[Scheduler] \in {Turn3(p), Turn4(p)} /\ locked = {ProcLock(p)}

\* The points of a process that runs and the locks held at each: between
\* functions, in acquire or release; in sleep, yield, exit; in wakeup or kfork.
Plainly(p) ==
  \/ todo[p] = <<>> /\ locked \subseteq Plain
  \/ \E lk \in Plain \ locked : todo[p] \in {Acquire(lk), Acquire2(lk)} /\ locked \subseteq Plain
  \/ \E lk \in locked : todo[p] = Release(lk) /\ locked \ {lk} \subseteq Plain
InSleep(p) ==
  \E lk \in Plain :
    \/ todo[p] \in {Sleep(p, lk), Sleep2(p, lk)} /\ locked = {lk}
    \/ todo[p] = Sleep3(p, lk) /\ locked = {lk, ProcLock(p)}
    \/ todo[p] \in {Sleep4(p, lk), Sleep6(p, lk), Sleep7(p, lk)} /\ locked = {ProcLock(p)}
    \/ todo[p] = Sleep5(p, lk) /\ locked = {ProcLock(p)} /\ state[p] # "RUNNING"
InYield(p) ==
  \/ todo[p] \in {Yield(p), Yield2(p)} /\ locked = {}
  \/ todo[p] \in {Yield3(p), Yield5(p)} /\ locked = {ProcLock(p)}
  \/ todo[p] = Yield4(p) /\ locked = {ProcLock(p)} /\ state[p] # "RUNNING"
InExit(p) ==
  \/ \E lk \in Plain :
       \/ todo[p] \in {Exit(p, lk), Exit2(p, lk)} /\ locked = {lk}
       \/ todo[p] = Exit3(lk) /\ locked = {lk, ProcLock(p)}
       \/ todo[p] = Exit4(lk) /\ locked = {lk, ProcLock(p)} /\ state[p] = "ZOMBIE"
  \/ todo[p] = Exit5 /\ locked = {ProcLock(p)} /\ state[p] = "ZOMBIE"
InOther(p) ==
  \E q \in Proc \ {p}, op \in {"wakeup", "wait", "fork"} :
    \/ todo[p] \in {Other(q, op), Other2(q, op)} /\ locked \subseteq Plain
    \/ /\ todo[p] = Other3(q, op) /\ ProcLock(q) \in locked
       /\ locked \ {ProcLock(q)} \subseteq Plain

InCode(p) == Plainly(p) \/ InSleep(p) \/ InYield(p) \/ InExit(p) \/ InOther(p)

\* The thread that runs is at one of its points; the scheduler that gave the
\* CPU to a process waits in its loop with the lock of that process.
PlaceInv ==
  /\ cur = Scheduler => Scanning
  /\ \A p \in Proc : p = cur => todo[Scheduler] = Turn4(p) /\ InCode(p)

\* A process that does not run is new, or in sched.
Waits(p) ==
  \/ todo[p] = Release(ProcLock(p)) /\ mode[p] = "new"
  \/ todo[p] = Yield5(p)
  \/ \E lk \in Plain : todo[p] = Sleep6(p, lk)
  \/ todo[p] = Exit6 /\ state[p] \in {"ZOMBIE", "UNUSED"}
WaitInv == \A p \in Proc : p # cur => Waits(p) /\ mode[p] # "user"

\* Until it finds a process the scheduler runs with interrupts on, or with the
\* flag saved that turns them on.
SchedFlags ==
  cur = Scheduler /\ ~found /\ ~At(cur, "on") =>
    (noff = 0 => ie) /\ (noff = 1 => intena) /\ (At(cur, "acquire") => old)

\* User code holds no lock; in a trap, interrupts are off and so is the flag
\* that pop_off would restore.
ProcFlags ==
  cur # Scheduler =>
    /\ found
    /\ mode[cur] = "user" => todo[cur] = <<>> /\ locked = {}
    /\ mode[cur] = "trap" =>
         /\ ~ie
         /\ At(cur, "restore") \/ noff = 0 \/ ~intena
         /\ At(cur, "acquire") => ~old

\* And the one that sched restores.
SavedFlags == \A p \in Proc : mode[p] = "trap" /\ At(p, "restore") => ~saved[p]
FlagInv == SchedFlags /\ ProcFlags /\ SavedFlags

StepInv == Types /\ CpuInv /\ PlaceInv /\ WaitInv /\ FlagInv

-----------------------------------------------------------------------------
(* Where a function goes *)

\* Fields of operations.
LEMMA OpFields ==
  \A n, lk : /\ Op(n, lk).op = n /\ Op(n, lk).lk = lk /\ Do(n).op = n
             /\ Acq(lk).op = "acquire" /\ Acq(lk).lk = lk
             /\ Rel(lk).op = "release" /\ Rel(lk).lk = lk
BY Zenon DEF Op, Do, Acq, Rel

\* The first operation of a point, and the point after it.
LEMMA AcquirePlaces ==
  \A lk : /\ Acquire(lk) # <<>> /\ Head(Acquire(lk)) = Do("get") /\ Tail(Acquire(lk)) = Acquire2(lk)
          /\ Acquire2(lk) # <<>> /\ Head(Acquire2(lk)) = Acq(lk) /\ Tail(Acquire2(lk)) = <<>>
          /\ Release(lk) # <<>> /\ Head(Release(lk)) = Rel(lk) /\ Tail(Release(lk)) = <<>>
BY DEF Acquire, Acquire2, Release, Do, Acq, Rel

LEMMA SleepPlaces ==
  \A p, lk :
    /\ Sleep(p, lk) # <<>> /\ Head(Sleep(p, lk)) = Do("get") /\ Tail(Sleep(p, lk)) = Sleep2(p, lk)
    /\ Sleep2(p, lk) # <<>> /\ Head(Sleep2(p, lk)) = Acq(ProcLock(p)) /\ Tail(Sleep2(p, lk)) = Sleep3(p, lk)
    /\ Sleep3(p, lk) # <<>> /\ Head(Sleep3(p, lk)) = Rel(lk) /\ Tail(Sleep3(p, lk)) = Sleep4(p, lk)
    /\ Sleep4(p, lk) # <<>> /\ Head(Sleep4(p, lk)) = Do("SLEEPING") /\ Tail(Sleep4(p, lk)) = Sleep5(p, lk)
    /\ Sleep5(p, lk) # <<>> /\ Head(Sleep5(p, lk)) = Do("sched") /\ Tail(Sleep5(p, lk)) = Sleep6(p, lk)
    /\ Sleep6(p, lk) # <<>> /\ Head(Sleep6(p, lk)) = Do("restore") /\ Tail(Sleep6(p, lk)) = Sleep7(p, lk)
    /\ Sleep7(p, lk) # <<>> /\ Head(Sleep7(p, lk)) = Rel(ProcLock(p)) /\ Tail(Sleep7(p, lk)) = Acquire(lk)
BY DEF Sleep, Sleep2, Sleep3, Sleep4, Sleep5, Sleep6, Sleep7, Acquire, Acq, Do

LEMMA YieldPlaces ==
  \A p :
    /\ Yield(p) # <<>> /\ Head(Yield(p)) = Do("get") /\ Tail(Yield(p)) = Yield2(p)
    /\ Yield2(p) # <<>> /\ Head(Yield2(p)) = Acq(ProcLock(p)) /\ Tail(Yield2(p)) = Yield3(p)
    /\ Yield3(p) # <<>> /\ Head(Yield3(p)) = Do("RUNNABLE") /\ Tail(Yield3(p)) = Yield4(p)
    /\ Yield4(p) # <<>> /\ Head(Yield4(p)) = Do("sched") /\ Tail(Yield4(p)) = Yield5(p)
    /\ Yield5(p) # <<>> /\ Head(Yield5(p)) = Do("restore") /\ Tail(Yield5(p)) = Release(ProcLock(p))
BY DEF Yield, Yield2, Yield3, Yield4, Yield5, Release, Rel

LEMMA ExitPlaces ==
  \A p, lk :
    /\ Exit(p, lk) # <<>> /\ Head(Exit(p, lk)) = Do("get") /\ Tail(Exit(p, lk)) = Exit2(p, lk)
    /\ Exit2(p, lk) # <<>> /\ Head(Exit2(p, lk)) = Acq(ProcLock(p)) /\ Tail(Exit2(p, lk)) = Exit3(lk)
    /\ Exit3(lk) # <<>> /\ Head(Exit3(lk)) = Do("ZOMBIE") /\ Tail(Exit3(lk)) = Exit4(lk)
    /\ Exit4(lk) # <<>> /\ Head(Exit4(lk)) = Rel(lk) /\ Tail(Exit4(lk)) = Exit5
    /\ Exit5 # <<>> /\ Head(Exit5) = Do("sched") /\ Tail(Exit5) = Exit6
    /\ Exit6 # <<>> /\ Head(Exit6) = Do("restore")
BY DEF Exit, Exit2, Exit3, Exit4, Exit5, Exit6

LEMMA OtherPlaces ==
  \A q :
    /\ Wakeup(q) = Other(q, "wakeup") /\ Wait(q) = Other(q, "wait") /\ Fork(q) = Other(q, "fork")
    /\ \A op :
       /\ Other(q, op) # <<>> /\ Head(Other(q, op)) = Do("get") /\ Tail(Other(q, op)) = Other2(q, op)
       /\ Other2(q, op) # <<>> /\ Head(Other2(q, op)) = Acq(ProcLock(q)) /\ Tail(Other2(q, op)) = Other3(q, op)
       /\ Other3(q, op) # <<>> /\ Head(Other3(q, op)) = Op(op, ProcLock(q))
       /\ Tail(Other3(q, op)) = Release(ProcLock(q))
BY DEF Wakeup, Wait, Fork, Other, Other2, Other3, Release, Rel

LEMMA TurnPlaces ==
  \A p :
    /\ Turn(p) # <<>> /\ Head(Turn(p)) = Do("get") /\ Tail(Turn(p)) = Turn2(p)
    /\ Turn2(p) # <<>> /\ Head(Turn2(p)) = Acq(ProcLock(p)) /\ Tail(Turn2(p)) = Turn3(p)
    /\ Turn3(p) # <<>> /\ Head(Turn3(p)) = Op("run", ProcLock(p)) /\ Tail(Turn3(p)) = Turn4(p)
    /\ Turn4(p) # <<>> /\ Head(Turn4(p)) = Rel(ProcLock(p)) /\ Tail(Turn4(p)) = Turn5(p)
    /\ Turn5(p) # <<>> /\ Head(Turn5(p)) = Op("next", ProcLock(p))
    /\ Scan # <<>> /\ Head(Scan) = Do("on") /\ Idle # <<>> /\ Head(Idle) = Do("idle")
BY DEF Turn, Turn2, Turn3, Turn4, Turn5, Scan, Idle, Do

\* Locks of processes, devices and others differ.
LEMMA LockNames ==
  /\ \A p \in Proc : ProcLock(p) \in Lock /\ ProcLock(p) \notin Plain /\ ProcLock(p)[2] = p
  /\ \A p, q \in Proc : ProcLock(p) = ProcLock(q) => p = q
  /\ Plain \subseteq Lock
  /\ Scheduler \notin Proc
BY DEF ProcLock, Lock, Plain, DevLock, OtherLock, Scheduler, Proc

\* A step moves the thread that runs and no other.
LEMMA Advanced ==
  ASSUME Types, NEW f, todo' = [todo EXCEPT ![cur] = f]
  PROVE  /\ todo'[cur] = f /\ \A t \in Thread : t # cur => todo'[t] = todo[t]
         /\ todo' = [t \in Thread |-> todo'[t]]
BY Zenon DEF Types

\* The operation that the scheduler does tells where it is.
LEMMA WhereScheduler ==
  ASSUME Scanning, cur = Scheduler
  PROVE  /\ Does("on") => todo[cur] = Scan /\ locked = {}
         /\ Does("idle") => todo[cur] = Idle /\ locked = {}
         /\ Does("get") => \E p \in Proc : todo[cur] = Turn(p) /\ locked = {}
         /\ Does("acquire") => \E p \in Proc : todo[cur] = Turn2(p) /\ locked = {}
         /\ Does("run") => \E p \in Proc : todo[cur] = Turn3(p) /\ locked = {ProcLock(p)}
         /\ Does("release") => \E p \in Proc : todo[cur] = Turn4(p) /\ locked = {ProcLock(p)}
         /\ Does("next") => \E p \in Proc : todo[cur] = Turn5(p) /\ locked = {}
         /\ \A op \in {"SLEEPING", "RUNNABLE", "ZOMBIE", "sched", "restore", "wakeup",
                      "wait", "fork"} : ~Does(op)
BY TurnPlaces, OpFields, SMTT(30) DEF Scanning, Does

\* The operation that a process does tells where it is.
LEMMA WhereProcess ==
  ASSUME NEW p \in Proc, p = cur, InCode(p)
  PROVE  /\ Does("get") =>
              \/ \E lk \in Plain \ locked : todo[p] = Acquire(lk) /\ locked \subseteq Plain
              \/ \E lk \in Plain : todo[p] = Sleep(p, lk) /\ locked = {lk}
              \/ todo[p] = Yield(p) /\ locked = {}
              \/ \E lk \in Plain : todo[p] = Exit(p, lk) /\ locked = {lk}
              \/ \E q \in Proc \ {p}, op \in {"wakeup", "wait", "fork"} :
                   todo[p] = Other(q, op) /\ locked \subseteq Plain
         /\ Does("acquire") =>
              \/ \E lk \in Plain \ locked : todo[p] = Acquire2(lk) /\ locked \subseteq Plain
              \/ \E lk \in Plain : todo[p] = Sleep2(p, lk) /\ locked = {lk}
              \/ todo[p] = Yield2(p) /\ locked = {}
              \/ \E lk \in Plain : todo[p] = Exit2(p, lk) /\ locked = {lk}
              \/ \E q \in Proc \ {p}, op \in {"wakeup", "wait", "fork"} :
                   todo[p] = Other2(q, op) /\ locked \subseteq Plain
         /\ Does("release") =>
              \/ \E lk \in locked : todo[p] = Release(lk) /\ locked \ {lk} \subseteq Plain
              \/ \E lk \in Plain : todo[p] = Sleep3(p, lk) /\ locked = {lk, ProcLock(p)}
              \/ \E lk \in Plain : todo[p] = Sleep7(p, lk) /\ locked = {ProcLock(p)}
              \/ \E lk \in Plain : /\ todo[p] = Exit4(lk) /\ locked = {lk, ProcLock(p)}
                                   /\ state[p] = "ZOMBIE"
         /\ Does("SLEEPING") => \E lk \in Plain : todo[p] = Sleep4(p, lk) /\ locked = {ProcLock(p)}
         /\ Does("RUNNABLE") => todo[p] = Yield3(p) /\ locked = {ProcLock(p)}
         /\ Does("ZOMBIE") => \E lk \in Plain : todo[p] = Exit3(lk) /\ locked = {lk, ProcLock(p)}
         /\ Does("sched") =>
              /\ locked = {ProcLock(p)} /\ state[p] # "RUNNING"
              /\ \/ \E lk \in Plain : todo[p] = Sleep5(p, lk)
                 \/ todo[p] = Yield4(p)
                 \/ todo[p] = Exit5 /\ state[p] = "ZOMBIE"
         /\ Does("restore") =>
              /\ locked = {ProcLock(p)}
              /\ todo[p] = Yield5(p) \/ \E lk \in Plain : todo[p] = Sleep6(p, lk)
         /\ \A op \in {"wakeup", "wait", "fork"} : Does(op) =>
              \E q \in Proc \ {p} : /\ todo[p] = Other3(q, op) /\ ProcLock(q) \in locked
                                      /\ locked \ {ProcLock(q)} \subseteq Plain
         /\ \A op \in {"on", "idle", "run", "next"} : ~Does(op)
<1>1. CASE Plainly(p) BY <1>1, AcquirePlaces, OpFields DEF Plainly, Does
<1>2. CASE InSleep(p)
  <2>1. PICK lk \in Plain :
          \/ todo[p] \in {Sleep(p, lk), Sleep2(p, lk)} /\ locked = {lk}
          \/ todo[p] = Sleep3(p, lk) /\ locked = {lk, ProcLock(p)}
          \/ todo[p] \in {Sleep4(p, lk), Sleep6(p, lk), Sleep7(p, lk)} /\ locked = {ProcLock(p)}
          \/ todo[p] = Sleep5(p, lk) /\ locked = {ProcLock(p)} /\ state[p] # "RUNNING"
    BY <1>2, Zenon DEF InSleep
  <2>2. /\ Head(Sleep(p, lk)).op = "get" /\ Head(Sleep2(p, lk)).op = "acquire"
        /\ Head(Sleep3(p, lk)).op = "release" /\ Head(Sleep4(p, lk)).op = "SLEEPING"
        /\ Head(Sleep5(p, lk)).op = "sched" /\ Head(Sleep6(p, lk)).op = "restore"
        /\ Head(Sleep7(p, lk)).op = "release"
    BY SleepPlaces, OpFields
  <2> QED BY <2>1, <2>2, SMTT(30) DEF Does
<1>3. CASE InYield(p) BY <1>3, YieldPlaces, OpFields, SMTT(30) DEF InYield, Does
<1>4. CASE InExit(p)
  <2>1. CASE todo[p] = Exit5 /\ locked = {ProcLock(p)} /\ state[p] = "ZOMBIE"
    BY <2>1, ExitPlaces, OpFields, SMTT(30) DEF Does
  <2>2. CASE \E lk \in Plain :
               \/ todo[p] \in {Exit(p, lk), Exit2(p, lk)} /\ locked = {lk}
               \/ todo[p] = Exit3(lk) /\ locked = {lk, ProcLock(p)}
               \/ todo[p] = Exit4(lk) /\ locked = {lk, ProcLock(p)} /\ state[p] = "ZOMBIE"
    <3>1. PICK lk \in Plain :
            \/ todo[p] \in {Exit(p, lk), Exit2(p, lk)} /\ locked = {lk}
            \/ todo[p] = Exit3(lk) /\ locked = {lk, ProcLock(p)}
            \/ todo[p] = Exit4(lk) /\ locked = {lk, ProcLock(p)} /\ state[p] = "ZOMBIE"
      BY <2>2, Zenon
    <3>2. /\ Head(Exit(p, lk)).op = "get" /\ Head(Exit2(p, lk)).op = "acquire"
          /\ Head(Exit3(lk)).op = "ZOMBIE" /\ Head(Exit4(lk)).op = "release"
      BY ExitPlaces, OpFields
    <3> QED BY <3>1, <3>2, Zenon DEF Does
  <2> QED BY <1>4, <2>1, <2>2, Zenon DEF InExit
<1>5. CASE InOther(p)
  <2>1. PICK q \in Proc \ {p}, op \in {"wakeup", "wait", "fork"} :
          \/ todo[p] \in {Other(q, op), Other2(q, op)} /\ locked \subseteq Plain
          \/ /\ todo[p] = Other3(q, op) /\ ProcLock(q) \in locked
             /\ locked \ {ProcLock(q)} \subseteq Plain
    BY <1>5, Zenon DEF InOther
  <2>0. /\ Head(Other(q, op)).op = "get" /\ Head(Other2(q, op)).op = "acquire"
        /\ Head(Other3(q, op)).op = op
    BY OtherPlaces, OpFields
  <2>2. CASE todo[p] = Other(q, op) /\ locked \subseteq Plain
    BY <2>0, <2>2, Zenon DEF Does
  <2>3. CASE todo[p] = Other2(q, op) /\ locked \subseteq Plain
    BY <2>0, <2>3, Zenon DEF Does
  <2>4. CASE /\ todo[p] = Other3(q, op) /\ ProcLock(q) \in locked
             /\ locked \ {ProcLock(q)} \subseteq Plain
    BY <2>0, <2>4, Zenon DEF Does
  <2> QED BY <2>1, <2>2, <2>3, <2>4, Zenon
<1> QED BY <1>1, <1>2, <1>3, <1>4, <1>5, Zenon DEF InCode

-----------------------------------------------------------------------------
(* Initial states and the steps *)

\* The invariant holds when main enters the scheduler.
LEMMA InitInv == ASSUME NPROC \in Nat \ {0}, Init PROVE StepInv
<1>1. Types
  BY Zenon DEF Init, Types, Thread, Proc, Scheduler
<1>2. CpuInv BY Zenon DEF Init, CpuInv
<1>3. todo[Scheduler] = Scan /\ \A p \in Proc : todo[p] = Release(ProcLock(p))
  BY LockNames, Zenon DEF Init
<1>4. PlaceInv BY <1>3, LockNames, Zenon DEF Init, PlaceInv, Scanning
<1>5. WaitInv BY <1>3, LockNames, Zenon DEF Init, WaitInv, Waits
<1>6. FlagInv
  BY <1>3, LockNames, TurnPlaces, OpFields, Zenon
  DEF Init, FlagInv, SchedFlags, ProcFlags, SavedFlags, At
<1> QED BY <1>1, <1>2, <1>4, <1>5, <1>6, Zenon DEF StepInv

\* What the places of the invariant say of the two kinds of thread.
LEMMA Threads ==
  ASSUME StepInv
  PROVE  /\ cur = Scheduler => Scanning
         /\ cur # Scheduler => cur \in Proc
         /\ \A p \in Proc : p = cur => todo[Scheduler] = Turn4(p) /\ InCode(p)
BY Zenon DEF StepInv, Types, PlaceInv, Thread, CpuInv

\* push_off reads the flag.
LEMMA GetInv == ASSUME StepInv, Counted, Get PROVE StepInv'
<1> USE DEF Get, cpu
<1>1. /\ todo'[cur] = Tail(todo[cur]) /\ \A t \in Thread : t # cur => todo'[t] = todo[t]
      /\ todo' = [t \in Thread |-> todo'[t]]
  BY Advanced, Zenon DEF StepInv, Advance
<1>2. Types' BY <1>1, Zenon DEF StepInv, Types
<1>3. CpuInv' BY Zenon DEF StepInv, CpuInv
<1>4. WaitInv' BY <1>1, Zenon DEF StepInv, WaitInv, Waits, Thread
<1>5. CASE cur = Scheduler
  <2>1. PICK p \in Proc : todo[cur] = Turn(p) /\ locked = {}
    BY <1>5, Threads, WhereScheduler, Zenon
  <2>2. todo'[cur] = Turn2(p) /\ todo[cur] # <<>> BY <1>1, <2>1, TurnPlaces, Zenon
  <2>3. PlaceInv' BY <1>5, <2>1, <2>2, LockNames, Zenon DEF PlaceInv, Scanning
  <2>4. noff = 0 /\ At(cur, "get") /\ At(cur, "acquire")'
    BY <2>1, <2>2, TurnPlaces, OpFields, SMTT(30) DEF At, Counted
  <2>5. SchedFlags' BY <2>4, Zenon DEF StepInv, FlagInv, SchedFlags, At
  <2>6. ProcFlags' BY <1>5, Zenon DEF ProcFlags
  <2>7. SavedFlags'
    BY <1>1, <1>5, LockNames, Zenon DEF StepInv, FlagInv, SavedFlags, At, Thread
  <2> QED BY <1>2, <1>3, <1>4, <2>3, <2>5, <2>6, <2>7, Zenon DEF StepInv, FlagInv
<1>6. CASE cur # Scheduler
  <2>1. PICK p \in Proc : p = cur /\ todo'[Scheduler] = Turn4(p)
    BY <1>1, <1>6, Threads, Zenon DEF Thread
  <2>2. InCode(p)' /\ At(p, "acquire")'
    <3>0. todo'[p] = Tail(todo[p]) /\ locked' = locked BY <1>1, <2>1, Zenon
    <3>1. CASE \E lk \in Plain \ locked : todo[p] = Acquire(lk) /\ locked \subseteq Plain
      BY <1>1, <2>1, <3>1, AcquirePlaces, OpFields, SMTT(30) DEF InCode, Plainly, At
    <3>2. CASE \E lk \in Plain : todo[p] = Sleep(p, lk) /\ locked = {lk}
      <4>1. PICK lk \in Plain : todo[p] = Sleep(p, lk) /\ locked = {lk} BY <3>2, Zenon
      <4>2. todo'[p] = Sleep2(p, lk) /\ locked' = {lk} BY <3>0, <4>1, SleepPlaces, Zenon
      <4>3. InSleep(p)' BY <4>2, Zenon DEF InSleep
      <4>4. At(p, "acquire")' BY <4>2, SleepPlaces, OpFields DEF At
      <4> QED BY <4>3, <4>4, Zenon DEF InCode
    <3>3. CASE todo[p] = Yield(p) /\ locked = {}
      <4>1. todo'[p] = Yield2(p) BY <3>0, <3>3, YieldPlaces, Zenon
      <4>2. InYield(p)' BY <3>0, <3>3, <4>1, Zenon DEF InYield
      <4>3. At(p, "acquire")' BY <4>1, YieldPlaces, OpFields DEF At
      <4> QED BY <4>2, <4>3, Zenon DEF InCode
    <3>4. CASE \E lk \in Plain : todo[p] = Exit(p, lk) /\ locked = {lk}
      <4>1. PICK lk \in Plain : todo[p] = Exit(p, lk) /\ locked = {lk} BY <3>4, Zenon
      <4>2. todo'[p] = Exit2(p, lk) /\ locked' = {lk} BY <3>0, <4>1, ExitPlaces, Zenon
      <4>3. InExit(p)' BY <4>2, Zenon DEF InExit
      <4>4. At(p, "acquire")' BY <4>2, ExitPlaces, OpFields DEF At
      <4> QED BY <4>3, <4>4, Zenon DEF InCode
    <3>5. CASE \E q \in Proc \ {p}, op \in {"wakeup", "wait", "fork"} :
                 todo[p] = Other(q, op) /\ locked \subseteq Plain
      <4>1. PICK q \in Proc \ {p}, op \in {"wakeup", "wait", "fork"} :
              todo[p] = Other(q, op) /\ locked \subseteq Plain
        BY <3>5, Zenon
      <4>2. todo'[p] = Other2(q, op) BY <3>0, <4>1, OtherPlaces, Zenon
      <4>3. InOther(p)' BY <3>0, <4>1, <4>2, Zenon DEF InOther
      <4>4. At(p, "acquire")' BY <4>2, OtherPlaces, OpFields DEF At
      <4> QED BY <4>3, <4>4, Zenon DEF InCode
    <3> QED BY <2>1, <1>6, Threads, WhereProcess, <3>1, <3>2, <3>3, <3>4, <3>5, Zenon
  <2>3. PlaceInv' BY <1>6, <2>1, <2>2, Zenon DEF PlaceInv
  <2>4. SchedFlags' BY <1>6, Zenon DEF SchedFlags
  <2>5. ProcFlags' BY <2>1, <2>2, Zenon DEF StepInv, FlagInv, ProcFlags, At, Does
  <2>6. SavedFlags'
    BY <1>1, <2>1, <2>2, Zenon DEF StepInv, FlagInv, SavedFlags, At, Thread
  <2> QED BY <1>2, <1>3, <1>4, <2>3, <2>4, <2>5, <2>6, Zenon DEF StepInv, FlagInv
<1> QED BY <1>5, <1>6, Zenon

\* acquire: the lock is not held yet, so holding() does not panic.
LEMMA AcquireInv == ASSUME StepInv, Counted, AcquireRest PROVE StepInv'
<1>1. CASE cur = Scheduler
  <2>1. PICK p \in Proc : todo[cur] = Turn2(p) /\ locked = {}
    BY <1>1, Threads, WhereScheduler, Zenon DEF AcquireRest
  <2>2. Lk = ProcLock(p) /\ Tail(todo[cur]) = Turn3(p) /\ noff = 0 /\ At(cur, "acquire")
    BY <2>1, TurnPlaces, OpFields DEF Lk, At, Counted
  <2>3. /\ ie' = FALSE /\ intena' = old /\ noff' = 1 /\ locked' = {ProcLock(p)} /\ Advance
        /\ UNCHANGED <<cur, saved, state, panicked, old, mode, found>>
    BY <2>1, <2>2 DEF AcquireRest
  <2>4. /\ todo'[cur] = Turn3(p) /\ \A t \in Thread : t # cur => todo'[t] = todo[t]
        /\ todo' = [t \in Thread |-> todo'[t]]
    BY <2>2, <2>3, Advanced, Zenon DEF StepInv, Advance
  <2>5. Types' BY <2>3, <2>4, LockNames, ZenonT(60) DEF StepInv, Types
  <2>6. CpuInv' BY <2>3, Zenon DEF StepInv, CpuInv
  <2>7. WaitInv' BY <2>3, <2>4, Zenon DEF StepInv, WaitInv, Waits, Thread
  <2>8. PlaceInv' BY <1>1, <2>3, <2>4, LockNames, Zenon DEF PlaceInv, Scanning
  <2>9. SchedFlags'
    <3>1. ~At(cur, "acquire")' BY <2>3, <2>4, TurnPlaces, OpFields DEF At
    <3> QED BY <2>2, <2>3, <3>1 DEF StepInv, FlagInv, SchedFlags, At
  <2>10. ProcFlags' BY <1>1, <2>3, Zenon DEF ProcFlags
  <2>11. SavedFlags'
    BY <1>1, <2>3, <2>4, LockNames, Zenon DEF StepInv, FlagInv, SavedFlags, At, Thread
  <2> QED BY <2>5, <2>6, <2>7, <2>8, <2>9, <2>10, <2>11, Zenon DEF StepInv, FlagInv
<1>2. CASE cur # Scheduler
  <2>1. PICK p \in Proc : p = cur /\ todo[Scheduler] = Turn4(p) /\ InCode(p)
    BY <1>2, Threads, Zenon
  <2>2. At(p, "acquire") /\ todo[p] # <<>> BY <2>1, Zenon DEF AcquireRest, Does, At
  <2> DEFINE f == Tail(todo[p])
  <2>3. PICK lk \in Lock \ locked :
          /\ Lk = lk
          /\ (f = <<>> \/ Head(f).op \notin {"acquire", "restore"})
          /\ \/ f = <<>> /\ locked \cup {lk} \subseteq Plain
             \/ \E l \in Plain : f = Sleep3(p, l) /\ lk = ProcLock(p) /\ locked = {l}
             \/ f = Yield3(p) /\ lk = ProcLock(p) /\ locked = {}
             \/ \E l \in Plain : f = Exit3(l) /\ lk = ProcLock(p) /\ locked = {l}
             \/ \E q \in Proc \ {p}, op \in {"wakeup", "wait", "fork"} :
                  f = Other3(q, op) /\ lk = ProcLock(q) /\ locked \subseteq Plain
    <3> USE <2>1 DEF Lk
    <3>1. CASE \E lk \in Plain \ locked : todo[p] = Acquire2(lk) /\ locked \subseteq Plain
      <4>1. PICK l \in Plain \ locked : todo[p] = Acquire2(l) /\ locked \subseteq Plain BY <3>1, Zenon
      <4>2. Head(todo[p]).lk = l /\ Tail(todo[p]) = <<>> BY <4>1, AcquirePlaces, OpFields
      <4>3. l \in Lock \ locked /\ locked \cup {l} \subseteq Plain BY <4>1, LockNames, Zenon
      <4> QED BY <4>2, <4>3, Zenon
    <3>2. CASE \E lk \in Plain : todo[p] = Sleep2(p, lk) /\ locked = {lk}
      <4>1. PICK l \in Plain : todo[p] = Sleep2(p, l) /\ locked = {l} BY <3>2, Zenon
      <4>2. /\ Head(todo[p]).lk = ProcLock(p) /\ Tail(todo[p]) = Sleep3(p, l)
            /\ Head(Sleep3(p, l)).op = "release"
        BY <4>1, SleepPlaces, OpFields, SMTT(30)
      <4> QED BY <4>1, <4>2, LockNames, SMTT(30)
    <3>3. CASE todo[p] = Yield2(p) /\ locked = {}
      <4>1. /\ Head(todo[p]).lk = ProcLock(p) /\ Tail(todo[p]) = Yield3(p)
            /\ Head(Yield3(p)).op = "RUNNABLE"
        BY <3>3, YieldPlaces, OpFields, SMTT(30)
      <4> QED BY <3>3, <4>1, LockNames, ZenonT(30)
    <3>4. CASE \E lk \in Plain : todo[p] = Exit2(p, lk) /\ locked = {lk}
      <4>1. PICK l \in Plain : todo[p] = Exit2(p, l) /\ locked = {l} BY <3>4, Zenon
      <4>2. /\ Head(todo[p]).lk = ProcLock(p) /\ Tail(todo[p]) = Exit3(l)
            /\ Head(Exit3(l)).op = "ZOMBIE"
        BY <4>1, ExitPlaces, OpFields, SMTT(30)
      <4> QED BY <4>1, <4>2, LockNames, SMTT(30)
    <3>5. CASE \E q \in Proc \ {p}, op \in {"wakeup", "wait", "fork"} :
                 todo[p] = Other2(q, op) /\ locked \subseteq Plain
      <4>1. PICK q \in Proc \ {p}, op \in {"wakeup", "wait", "fork"} :
              todo[p] = Other2(q, op) /\ locked \subseteq Plain
        BY <3>5, Zenon
      <4>2. /\ Head(todo[p]).lk = ProcLock(q) /\ Tail(todo[p]) = Other3(q, op)
            /\ Head(Other3(q, op)).op = op
        BY <4>1, OtherPlaces, OpFields
      <4> QED BY <4>1, <4>2, LockNames, Zenon
    <3> QED BY WhereProcess, <3>1, <3>2, <3>3, <3>4, <3>5, Zenon DEF AcquireRest
  <2> HIDE DEF f
  <2>4. /\ ie' = FALSE /\ intena' = (IF noff = 0 THEN old ELSE intena) /\ noff' = noff + 1
        /\ locked' = locked \cup {lk} /\ Advance
        /\ UNCHANGED <<cur, saved, state, panicked, old, mode, found>>
    BY <2>3, Zenon DEF AcquireRest
  <2>5. /\ todo'[p] = f /\ \A t \in Thread : t # cur => todo'[t] = todo[t]
        /\ todo' = [t \in Thread |-> todo'[t]]
    BY <2>1, <2>4, Advanced, Zenon DEF StepInv, Advance, f
  <2>6. Types' BY <2>3, <2>4, <2>5, Zenon DEF StepInv, Types
  <2>7. CpuInv' BY <2>4, Zenon DEF StepInv, CpuInv
  <2>8. WaitInv' BY <2>4, <2>5, Zenon DEF StepInv, WaitInv, Waits, Thread
  <2>9. InCode(p)'
    <3>1. CASE f = <<>> /\ locked \cup {lk} \subseteq Plain
      BY <2>4, <2>5, <3>1, Zenon DEF InCode, Plainly
    <3>2. CASE \E l \in Plain : f = Sleep3(p, l) /\ lk = ProcLock(p) /\ locked = {l}
      <4>1. InSleep(p)' BY <2>4, <2>5, <3>2, Zenon DEF InSleep
      <4> QED BY <4>1, Zenon DEF InCode
    <3>3. CASE f = Yield3(p) /\ lk = ProcLock(p) /\ locked = {}
      BY <2>4, <2>5, <3>3, Zenon DEF InCode, InYield
    <3>4. CASE \E l \in Plain : f = Exit3(l) /\ lk = ProcLock(p) /\ locked = {l}
      <4>1. InExit(p)' BY <2>4, <2>5, <3>4, Zenon DEF InExit
      <4> QED BY <4>1, Zenon DEF InCode
    <3>5. CASE \E q \in Proc \ {p}, op \in {"wakeup", "wait", "fork"} :
                 f = Other3(q, op) /\ lk = ProcLock(q) /\ locked \subseteq Plain
      <4>1. InOther(p)' BY <2>4, <2>5, <3>5, Zenon DEF InOther
      <4> QED BY <4>1, Zenon DEF InCode
    <3> QED BY <2>3, <3>1, <3>2, <3>3, <3>4, <3>5, Zenon
  <2>10. PlaceInv'
    BY <1>2, <2>1, <2>4, <2>5, <2>9, LockNames, Zenon DEF PlaceInv, Thread
  <2>11. ~At(p, "acquire")' /\ ~At(p, "restore")' BY <2>3, <2>5, Zenon DEF At
  <2>12. SchedFlags' BY <1>2, <2>4, Zenon DEF SchedFlags
  <2>13. ProcFlags'
    <3>1. ~At(p, "restore") BY <2>2, Zenon DEF At
    <3> QED BY <2>1, <2>2, <2>4, <2>11, <3>1, Zenon DEF StepInv, FlagInv, ProcFlags, At
  <2>14. SavedFlags'
    BY <2>1, <2>4, <2>5, <2>11, Zenon DEF StepInv, FlagInv, SavedFlags, At, Thread
  <2> QED BY <2>6, <2>7, <2>8, <2>10, <2>12, <2>13, <2>14, Zenon DEF StepInv, FlagInv
<1> QED BY <1>1, <1>2, Zenon

\* release and pop_off: the lock is held, noff is positive and interrupts
\* are off, so none of the three panics happens.
LEMMA ReleaseInv == ASSUME StepInv, Counted, ReleaseAll PROVE StepInv'
<1>0. ASSUME NEW lk \in locked, Lk = lk
      PROVE  /\ ~ie /\ noff \in Nat \ {0} /\ locked' = locked \ {lk} /\ noff' = noff - 1
             /\ ie' = (noff = 1 /\ intena) /\ Advance
             /\ UNCHANGED <<intena, cur, saved, state, panicked, old, mode, found>>
  <2>1. ~ie /\ ie \in BOOLEAN BY <1>0, Zenon DEF StepInv, CpuInv, Types
  <2>2. noff \in Nat /\ noff # 0 BY <1>0, Zenon DEF Counted
  <2>3. ~(noff < 1) BY <2>2, SMTT(30)
  <2> QED BY <1>0, <2>1, <2>2, <2>3, Zenon DEF ReleaseAll, NoffAfterPop, IeAfterPop
<1>1. CASE cur = Scheduler
  <2>1. PICK p \in Proc : todo[cur] = Turn4(p) /\ locked = {ProcLock(p)}
    BY <1>1, Threads, WhereScheduler, Zenon DEF ReleaseAll
  <2>2. Lk = ProcLock(p) /\ Tail(todo[cur]) = Turn5(p) /\ At(cur, "release")
    BY <2>1, TurnPlaces, OpFields DEF Lk, At
  <2>3. noff = 1 BY <2>1, Zenon DEF Counted
  <2>4. /\ ie' = intena /\ noff' = 0 /\ locked' = {} /\ Advance
        /\ UNCHANGED <<intena, cur, saved, state, panicked, old, mode, found>>
    BY <1>0, <2>1, <2>2, <2>3, SMTT(30) DEF StepInv, Types
  <2>5. /\ todo'[cur] = Turn5(p) /\ \A t \in Thread : t # cur => todo'[t] = todo[t]
        /\ todo' = [t \in Thread |-> todo'[t]]
    BY <2>2, <2>4, Advanced, Zenon DEF StepInv, Advance
  <2>6. Types' BY <2>4, <2>5, Zenon DEF StepInv, Types
  <2>7. CpuInv' BY <2>4, Zenon DEF StepInv, CpuInv
  <2>8. WaitInv' BY <2>4, <2>5, Zenon DEF StepInv, WaitInv, Waits, Thread
  <2>9. PlaceInv' BY <1>1, <2>4, <2>5, LockNames, Zenon DEF PlaceInv, Scanning
  <2>10. SchedFlags'
    <3>1. ~At(cur, "acquire")' BY <2>4, <2>5, TurnPlaces, OpFields DEF At
    <3> QED BY <2>2, <2>3, <2>4, <3>1, Zenon DEF StepInv, FlagInv, SchedFlags, At
  <2>11. ProcFlags' BY <1>1, <2>4, Zenon DEF ProcFlags
  <2>12. SavedFlags'
    BY <1>1, <2>4, <2>5, LockNames, Zenon DEF StepInv, FlagInv, SavedFlags, At, Thread
  <2> QED BY <2>6, <2>7, <2>8, <2>9, <2>10, <2>11, <2>12, Zenon DEF StepInv, FlagInv
<1>2. CASE cur # Scheduler
  <2>1. PICK p \in Proc : p = cur /\ todo[Scheduler] = Turn4(p) /\ InCode(p)
    BY <1>2, Threads, Zenon
  <2>2. At(p, "release") /\ todo[p] # <<>> BY <2>1, Zenon DEF ReleaseAll, Does, At
  <2> DEFINE f == Tail(todo[p])
  <2>3. PICK lk \in locked :
          /\ Lk = lk
          /\ (f = <<>> \/ Head(f).op \notin {"acquire", "restore"})
          /\ \/ f = <<>> /\ locked \ {lk} \subseteq Plain
             \/ \E l \in Plain : f = Sleep4(p, l) /\ locked \ {lk} = {ProcLock(p)}
             \/ \E l \in Plain : f = Acquire(l) /\ locked \ {lk} = {}
             \/ f = Exit5 /\ locked \ {lk} = {ProcLock(p)} /\ state[p] = "ZOMBIE"
    <3> USE <2>1 DEF Lk
    <3>1. CASE \E lk \in locked : todo[p] = Release(lk) /\ locked \ {lk} \subseteq Plain
      <4>1. PICK l \in locked : todo[p] = Release(l) /\ locked \ {l} \subseteq Plain BY <3>1, Zenon
      <4>2. Head(todo[p]).lk = l /\ Tail(todo[p]) = <<>> BY <4>1, AcquirePlaces, OpFields, SMTT(30)
      <4> QED BY <4>1, <4>2, Zenon
    <3>2. CASE \E lk \in Plain : todo[p] = Sleep3(p, lk) /\ locked = {lk, ProcLock(p)}
      <4>1. PICK l \in Plain : todo[p] = Sleep3(p, l) /\ locked = {l, ProcLock(p)} BY <3>2, Zenon
      <4>2. /\ Head(todo[p]).lk = l /\ Tail(todo[p]) = Sleep4(p, l)
            /\ Head(Sleep4(p, l)).op = "SLEEPING"
        BY <4>1, SleepPlaces, OpFields, SMTT(30)
      <4>3. locked \ {l} = {ProcLock(p)} /\ l \in locked BY <4>1, LockNames, Zenon
      <4> QED BY <4>2, <4>3, Zenon
    <3>3. CASE \E lk \in Plain : todo[p] = Sleep7(p, lk) /\ locked = {ProcLock(p)}
      <4>1. PICK l \in Plain : todo[p] = Sleep7(p, l) /\ locked = {ProcLock(p)} BY <3>3, Zenon
      <4>2. Head(todo[p]).lk = ProcLock(p) /\ Tail(todo[p]) = Acquire(l)
        BY <4>1, SleepPlaces, OpFields
      <4>3. Head(Acquire(l)).op = "get" BY AcquirePlaces, OpFields
      <4>4. locked \ {ProcLock(p)} = {} /\ ProcLock(p) \in locked BY <4>1, Zenon
      <4> QED BY <4>2, <4>3, <4>4, Zenon
    <3>4. CASE \E lk \in Plain : /\ todo[p] = Exit4(lk) /\ locked = {lk, ProcLock(p)}
                                 /\ state[p] = "ZOMBIE"
      <4>1. PICK l \in Plain : todo[p] = Exit4(l) /\ locked = {l, ProcLock(p)} /\ state[p] = "ZOMBIE"
        BY <3>4, Zenon
      <4>2. Head(todo[p]).lk = l /\ Tail(todo[p]) = Exit5 /\ Head(Exit5).op = "sched"
        BY <4>1, ExitPlaces, OpFields, SMTT(30)
      <4>3. locked \ {l} = {ProcLock(p)} /\ l \in locked BY <4>1, LockNames, ZenonT(60)
      <4> QED BY <4>1, <4>2, <4>3, Zenon
    <3> QED BY WhereProcess, <3>1, <3>2, <3>3, <3>4, Zenon DEF ReleaseAll
  <2> HIDE DEF f
  <2>4. /\ ~ie /\ noff \in Nat \ {0} /\ locked' = locked \ {lk} /\ noff' = noff - 1
        /\ ie' = (noff = 1 /\ intena) /\ Advance
        /\ UNCHANGED <<intena, cur, saved, state, panicked, old, mode, found>>
    BY <1>0, <2>3, Zenon
  <2>5. /\ todo'[p] = f /\ \A t \in Thread : t # cur => todo'[t] = todo[t]
        /\ todo' = [t \in Thread |-> todo'[t]]
    BY <2>1, <2>4, Advanced, Zenon DEF StepInv, Advance, f
  <2>6. Types' BY <2>3, <2>4, <2>5, Zenon DEF StepInv, Types
  <2>7. CpuInv'
    <3>1. noff = 1 => locked' = {}
      <4>1. SUFFICES ASSUME noff = 1 PROVE locked' = {} OBVIOUS
      <4>2. PICK l : locked = {l} BY <4>1, Zenon DEF Counted
      <4> QED BY <2>4, <4>2, Zenon
    <3>2. noff # 1 => ~ie' BY <2>4, Zenon
    <3> QED BY <2>4, <3>1, <3>2, Zenon DEF StepInv, CpuInv
  <2>8. WaitInv' BY <2>4, <2>5, Zenon DEF StepInv, WaitInv, Waits, Thread
  <2>9. InCode(p)'
    <3>1. CASE f = <<>> /\ locked \ {lk} \subseteq Plain
      BY <2>4, <2>5, <3>1, Zenon DEF InCode, Plainly
    <3>2. CASE \E l \in Plain : f = Sleep4(p, l) /\ locked \ {lk} = {ProcLock(p)}
      <4>1. InSleep(p)' BY <2>4, <2>5, <3>2, Zenon DEF InSleep
      <4> QED BY <4>1, Zenon DEF InCode
    <3>3. CASE \E l \in Plain : f = Acquire(l) /\ locked \ {lk} = {}
      BY <2>4, <2>5, <3>3, Zenon DEF InCode, Plainly
    <3>4. CASE f = Exit5 /\ locked \ {lk} = {ProcLock(p)} /\ state[p] = "ZOMBIE"
      BY <2>4, <2>5, <3>4, Zenon DEF InCode, InExit
    <3> QED BY <2>3, <3>1, <3>2, <3>3, <3>4, Zenon
  <2>10. PlaceInv'
    BY <1>2, <2>1, <2>4, <2>5, <2>9, LockNames, Zenon DEF PlaceInv, Thread
  <2>11. ~At(p, "acquire")' /\ ~At(p, "restore")' BY <2>3, <2>5, Zenon DEF At
  <2>12. SchedFlags' BY <1>2, <2>4, Zenon DEF SchedFlags
  <2>13. ProcFlags'
    <3>1. ~At(p, "restore") BY <2>2, Zenon DEF At
    <3> QED BY <2>1, <2>2, <2>4, <2>11, <3>1, Zenon DEF StepInv, FlagInv, ProcFlags, At
  <2>14. SavedFlags'
    BY <2>1, <2>4, <2>5, <2>11, Zenon DEF StepInv, FlagInv, SavedFlags, At, Thread
  <2> QED BY <2>6, <2>7, <2>8, <2>10, <2>12, <2>13, <2>14, Zenon DEF StepInv, FlagInv
<1> QED BY <1>1, <1>2, Zenon

\* sleep, yield and exit set the state.
LEMMA MarkInv == ASSUME StepInv, Counted, Mark PROVE StepInv'
<1>1. PICK s \in {"SLEEPING", "RUNNABLE", "ZOMBIE"} : Does(s) /\ state' = [state EXCEPT ![cur] = s]
  BY Zenon DEF Mark
<1>2. cur # Scheduler BY <1>1, Threads, WhereScheduler, Zenon
<1>3. PICK p \in Proc : p = cur /\ todo[Scheduler] = Turn4(p) /\ InCode(p)
  BY <1>2, Threads, Zenon
<1>4. At(p, s) /\ todo[p] # <<>> BY <1>1, <1>3, Zenon DEF Does, At
<1>5. PICK f :
        /\ Tail(todo[p]) = f /\ f # <<>> /\ Head(f).op \in {"sched", "release"}
        /\ \/ locked = {ProcLock(p)} /\ \E l \in Plain : f = Sleep5(p, l)
           \/ locked = {ProcLock(p)} /\ f = Yield4(p)
           \/ s = "ZOMBIE" /\ \E l \in Plain : f = Exit4(l) /\ locked = {l, ProcLock(p)}
  <2>1. CASE s = "SLEEPING"
    <3>1. PICK l \in Plain : todo[p] = Sleep4(p, l) /\ locked = {ProcLock(p)}
      BY <1>1, <1>3, <2>1, WhereProcess, Zenon
    <3>2. /\ Tail(todo[p]) = Sleep5(p, l) /\ Sleep5(p, l) # <<>>
          /\ Head(Sleep5(p, l)).op = "sched"
      BY <3>1, SleepPlaces, OpFields
    <3> QED BY <3>1, <3>2, Zenon
  <2>2. CASE s = "RUNNABLE"
    <3>1. todo[p] = Yield3(p) /\ locked = {ProcLock(p)}
      BY <1>1, <1>3, <2>2, WhereProcess, Zenon
    <3>2. Tail(todo[p]) = Yield4(p) /\ Yield4(p) # <<>> /\ Head(Yield4(p)).op = "sched"
      BY <3>1, YieldPlaces, OpFields
    <3> QED BY <3>1, <3>2, Zenon
  <2>3. CASE s = "ZOMBIE"
    <3>1. PICK l \in Plain : todo[p] = Exit3(l) /\ locked = {l, ProcLock(p)}
      BY <1>1, <1>3, <2>3, WhereProcess, Zenon
    <3>2. Tail(todo[p]) = Exit4(l) /\ Exit4(l) # <<>> /\ Head(Exit4(l)) = Rel(l)
      BY <3>1, ExitPlaces, Zenon
    <3>3. Head(Exit4(l)).op = "release" BY <3>2, OpFields, Zenon
    <3> QED BY <2>3, <3>1, <3>2, <3>3, Zenon
  <2> QED BY <2>1, <2>2, <2>3, Zenon
<1>6. Advance /\ UNCHANGED <<locked, noff, intena, ie, cur, old, saved, mode, found, panicked>>
  BY Zenon DEF Mark, cpu
<1>7. /\ todo'[p] = f /\ \A t \in Thread : t # cur => todo'[t] = todo[t]
      /\ todo' = [t \in Thread |-> todo'[t]]
  BY <1>3, <1>5, <1>6, Advanced, Zenon DEF StepInv, Advance
<1>8. state'[p] = s /\ \A q \in Proc : q # p => state'[q] = state[q]
  BY <1>1, <1>3, Zenon DEF StepInv, Types
<1>9. Types' BY <1>1, <1>6, <1>7, Zenon DEF StepInv, Types
<1>10. CpuInv' BY <1>6, Zenon DEF StepInv, CpuInv
<1>11. WaitInv' BY <1>3, <1>6, <1>7, <1>8, SMTT(30) DEF StepInv, WaitInv, Waits, Thread
<1>12. InCode(p)'
  <2>1. CASE locked = {ProcLock(p)} /\ \E l \in Plain : f = Sleep5(p, l)
    <3>1. InSleep(p)' BY <1>5, <1>6, <1>7, <1>8, <2>1, Zenon DEF InSleep
    <3> QED BY <3>1, Zenon DEF InCode
  <2>2. CASE locked = {ProcLock(p)} /\ f = Yield4(p)
    BY <1>5, <1>6, <1>7, <1>8, <2>2, Zenon DEF InCode, InYield
  <2>3. CASE s = "ZOMBIE" /\ \E l \in Plain : f = Exit4(l) /\ locked = {l, ProcLock(p)}
    <3>1. InExit(p)' BY <1>6, <1>7, <1>8, <2>3, Zenon DEF InExit
    <3> QED BY <3>1, Zenon DEF InCode
  <2> QED BY <1>5, <2>1, <2>2, <2>3, Zenon
<1>13. PlaceInv' BY <1>2, <1>3, <1>6, <1>7, <1>12, Zenon DEF PlaceInv, Thread
<1>14. ~At(p, "acquire")' /\ ~At(p, "restore")' BY <1>5, <1>7, Zenon DEF At
<1>15. SchedFlags' BY <1>2, <1>6, Zenon DEF SchedFlags
<1>16. ProcFlags'
  <2>1. ~At(p, "restore") BY <1>4, Zenon DEF At
  <2> QED BY <1>3, <1>4, <1>6, <1>14, <2>1, Zenon DEF StepInv, FlagInv, ProcFlags, At
<1>17. SavedFlags'
  BY <1>3, <1>6, <1>7, <1>14, Zenon DEF StepInv, FlagInv, SavedFlags, At, Thread
<1> QED BY <1>9, <1>10, <1>11, <1>13, <1>15, <1>16, <1>17, Zenon DEF StepInv, FlagInv

\* sched: p->lock is the only lock held, the state is not RUNNING and
\* interrupts are off, so none of the four panics happens.
LEMMA SchedOutInv == ASSUME StepInv, Counted, SchedOut PROVE StepInv'
<1>1. cur # Scheduler BY Threads, WhereScheduler, Zenon DEF SchedOut
<1>2. PICK p \in Proc : p = cur /\ todo[Scheduler] = Turn4(p) /\ InCode(p)
  BY <1>1, Threads, Zenon
<1>3. At(p, "sched") /\ todo[p] # <<>> BY <1>2, Zenon DEF SchedOut, Does, At
<1>4. /\ locked = {ProcLock(p)} /\ state[p] # "RUNNING"
      /\ \/ \E lk \in Plain : todo[p] = Sleep5(p, lk)
         \/ todo[p] = Yield4(p)
         \/ todo[p] = Exit5 /\ state[p] = "ZOMBIE"
  BY <1>2, WhereProcess, Zenon DEF SchedOut
<1>5. noff = 1 /\ ~ie BY <1>4, Zenon DEF StepInv, CpuInv, Counted
<1>6. /\ saved' = [saved EXCEPT ![p] = intena] /\ cur' = Scheduler /\ Advance
      /\ UNCHANGED <<locked, noff, intena, ie, state, panicked, old, mode, found>>
  BY <1>2, <1>4, <1>5, Zenon DEF SchedOut, cpu
<1>7. /\ todo'[p] = Tail(todo[p]) /\ \A t \in Thread : t # p => todo'[t] = todo[t]
      /\ todo' = [t \in Thread |-> todo'[t]]
  BY <1>2, <1>6, Advanced, Zenon DEF StepInv, Advance
<1>8. Types' BY <1>6, <1>7, Zenon DEF StepInv, Types, Thread
<1>9. CpuInv' BY <1>6, Zenon DEF StepInv, CpuInv
<1>10. PlaceInv' BY <1>2, <1>4, <1>6, <1>7, LockNames, Zenon DEF PlaceInv, Scanning, Thread
<1>11. mode[p] # "user" BY <1>1, <1>2, <1>3, Zenon DEF StepInv, FlagInv, ProcFlags
<1>12. Waits(p)'
  <2>1. CASE \E lk \in Plain : todo[p] = Sleep5(p, lk)
    <3>1. PICK lk \in Plain : todo[p] = Sleep5(p, lk) BY <2>1, Zenon
    <3>2. todo'[p] = Sleep6(p, lk) BY <1>7, <3>1, SleepPlaces, Zenon
    <3> QED BY <3>2, Zenon DEF Waits
  <2>2. CASE todo[p] = Yield4(p)
    <3>1. todo'[p] = Yield5(p) BY <1>7, <2>2, YieldPlaces, Zenon
    <3> QED BY <3>1, Zenon DEF Waits
  <2>3. CASE todo[p] = Exit5 /\ state[p] = "ZOMBIE"
    <3>1. todo'[p] = Exit6 BY <1>7, <2>3, ExitPlaces, Zenon
    <3> QED BY <1>6, <2>3, <3>1, Zenon DEF Waits
  <2> QED BY <1>4, <2>1, <2>2, <2>3, Zenon
<1>13. WaitInv'
  <2>1. ASSUME NEW q \in Proc, q # p PROVE Waits(q)' /\ mode'[q] # "user"
    BY <1>2, <1>6, <1>7, <2>1, Zenon DEF StepInv, WaitInv, Waits, Thread
  <2> QED BY <1>6, <1>11, <1>12, <2>1, Zenon DEF WaitInv
<1>14. SchedFlags' BY <1>1, <1>6, Zenon DEF StepInv, FlagInv, SchedFlags, ProcFlags
<1>15. ProcFlags' BY <1>6, Zenon DEF ProcFlags
<1>16. SavedFlags'
  <2>1. mode[p] = "trap" => ~intena
    BY <1>1, <1>2, <1>3, <1>5 DEF StepInv, FlagInv, ProcFlags, At
  <2>2. saved'[p] = intena /\ \A q \in Proc : q # p => saved'[q] = saved[q]
    BY <1>6, Zenon DEF StepInv, Types
  <2> QED BY <1>6, <1>7, <2>1, <2>2, Zenon DEF StepInv, FlagInv, SavedFlags, At, Thread
<1> QED BY <1>8, <1>9, <1>10, <1>13, <1>14, <1>15, <1>16, Zenon DEF StepInv, FlagInv

\* sched restores the intena of this thread.
LEMMA SchedInInv == ASSUME StepInv, Counted, SchedIn PROVE StepInv'
<1>1. cur # Scheduler BY Threads, WhereScheduler, Zenon DEF SchedIn
<1>2. PICK p \in Proc : p = cur /\ todo[Scheduler] = Turn4(p) /\ InCode(p)
  BY <1>1, Threads, Zenon
<1>3. At(p, "restore") /\ todo[p] # <<>> BY <1>2, Zenon DEF SchedIn, Does, At
<1>4. PICK f :
        /\ Tail(todo[p]) = f /\ Head(f).op = "release" /\ locked = {ProcLock(p)}
        /\ f = Release(ProcLock(p)) \/ \E l \in Plain : f = Sleep7(p, l)
  <2>1. /\ locked = {ProcLock(p)}
        /\ todo[p] = Yield5(p) \/ \E l \in Plain : todo[p] = Sleep6(p, l)
    BY <1>2, WhereProcess, Zenon DEF SchedIn
  <2>2. CASE todo[p] = Yield5(p)
    <3>1. Tail(todo[p]) = Release(ProcLock(p)) BY <2>2, YieldPlaces, Zenon
    <3>2. Head(Release(ProcLock(p))).op = "release" BY AcquirePlaces, OpFields
    <3> QED BY <2>1, <3>1, <3>2, Zenon
  <2>3. CASE \E l \in Plain : todo[p] = Sleep6(p, l)
    <3>1. PICK l \in Plain : todo[p] = Sleep6(p, l) BY <2>3, Zenon
    <3>2. Tail(todo[p]) = Sleep7(p, l) /\ Head(Sleep7(p, l)).op = "release"
      BY <3>1, SleepPlaces, OpFields, SMTT(30)
    <3> QED BY <2>1, <3>2, ZenonT(30)
  <2> QED BY <2>1, <2>2, <2>3, Zenon
<1>5. /\ intena' = saved[p] /\ Advance
      /\ UNCHANGED <<locked, noff, ie, cur, old, saved, state, mode, found, panicked>>
  BY <1>2, Zenon DEF SchedIn
<1>6. /\ todo'[p] = f /\ \A t \in Thread : t # cur => todo'[t] = todo[t]
      /\ todo' = [t \in Thread |-> todo'[t]]
  BY <1>2, <1>4, <1>5, Advanced, Zenon DEF StepInv, Advance
<1>7. Types' BY <1>5, <1>6, Zenon DEF StepInv, Types
<1>8. CpuInv' BY <1>5, Zenon DEF StepInv, CpuInv
<1>9. WaitInv' BY <1>5, <1>6, Zenon DEF StepInv, WaitInv, Waits, Thread
<1>10. InCode(p)'
  <2>1. CASE f = Release(ProcLock(p))
    <3>1. Plainly(p)' BY <1>4, <1>5, <1>6, <2>1, Zenon DEF Plainly
    <3> QED BY <3>1, Zenon DEF InCode
  <2>2. CASE \E l \in Plain : f = Sleep7(p, l)
    <3>1. InSleep(p)' BY <1>4, <1>5, <1>6, <2>2, Zenon DEF InSleep
    <3> QED BY <3>1, Zenon DEF InCode
  <2> QED BY <1>4, <2>1, <2>2, Zenon
<1>11. PlaceInv' BY <1>1, <1>2, <1>5, <1>6, <1>10, Zenon DEF PlaceInv, Thread
<1>12. ~At(p, "acquire")' /\ ~At(p, "restore")' BY <1>4, <1>6, Zenon DEF At
<1>13. SchedFlags' BY <1>1, <1>5, Zenon DEF SchedFlags
<1>14. ProcFlags'
  <2>1. mode[p] = "trap" => ~saved[p] BY <1>3, Zenon DEF StepInv, FlagInv, SavedFlags
  <2> QED BY <1>2, <1>3, <1>5, <1>12, <2>1, Zenon DEF StepInv, FlagInv, ProcFlags, At
<1>15. SavedFlags'
  BY <1>2, <1>5, <1>6, <1>12, Zenon DEF StepInv, FlagInv, SavedFlags, At, Thread
<1> QED BY <1>7, <1>8, <1>9, <1>11, <1>13, <1>14, <1>15, Zenon DEF StepInv, FlagInv

\* wakeup, kwait or kfork in p, at its step on another process q, under q's lock.
Serving(p, q, op) ==
  /\ p = cur /\ todo[Scheduler] = Turn4(p)
  /\ Lk = ProcLock(q) /\ Lk[2] = q /\ Tail(todo[p]) = Release(ProcLock(q))
  /\ Head(Release(ProcLock(q))).op = "release"
  /\ ProcLock(q) \in locked /\ locked \ {ProcLock(q)} \subseteq Plain
  /\ At(p, op) /\ todo[p] # <<>>

\* Where these run.
LEMMA OnOther ==
  ASSUME StepInv, Counted, NEW op \in {"wakeup", "wait", "fork"}, Does(op)
  PROVE  /\ cur # Scheduler
         /\ \E p \in Proc : \E q \in Proc \ {p} : Serving(p, q, op)
<1>1. cur # Scheduler BY Threads, WhereScheduler, Zenon
<1>2. PICK p \in Proc : p = cur /\ todo[Scheduler] = Turn4(p) /\ InCode(p)
  BY <1>1, Threads, ZenonT(30)
<1>3. PICK q \in Proc \ {p} : /\ todo[p] = Other3(q, op) /\ ProcLock(q) \in locked
                              /\ locked \ {ProcLock(q)} \subseteq Plain
  BY <1>2, WhereProcess, SMTT(30)
<1>4. Lk = ProcLock(q) /\ Tail(todo[p]) = Release(ProcLock(q))
  <2>1. Head(Other3(q, op)) = Op(op, ProcLock(q)) /\ Tail(Other3(q, op)) = Release(ProcLock(q))
    BY OtherPlaces, Zenon
  <2>2. Op(op, ProcLock(q)).lk = ProcLock(q) BY OpFields
  <2> QED BY <1>2, <1>3, <2>1, <2>2, Zenon DEF Lk
<1>5. Head(Release(ProcLock(q))).op = "release" BY AcquirePlaces, OpFields
<1>6. At(p, op) /\ todo[p] # <<>> BY <1>2, Zenon DEF Does, At
<1>7. Serving(p, q, op) BY <1>2, <1>3, <1>4, <1>5, <1>6, LockNames, Zenon DEF Serving
<1> QED BY <1>1, <1>7, Zenon

\* wakeup and kwait set the state of another process.
LEMMA WakeupInv == ASSUME StepInv, Counted, DoWakeup \/ DoWait PROVE StepInv'
<1>0. PICK op \in {"wakeup", "wait"} : Does(op) BY Zenon DEF DoWakeup, DoWait
<1>1. cur # Scheduler BY <1>0, OnOther, Zenon
<1>2. PICK p \in Proc : \E q \in Proc \ {p} : Serving(p, q, op) BY <1>0, OnOther, Zenon
<1>3. PICK q \in Proc \ {p} :
        /\ p = cur /\ todo[Scheduler] = Turn4(p)
        /\ Lk = ProcLock(q) /\ Lk[2] = q /\ Tail(todo[p]) = Release(ProcLock(q))
        /\ Head(Release(ProcLock(q))).op = "release"
        /\ ProcLock(q) \in locked /\ locked \ {ProcLock(q)} \subseteq Plain
        /\ At(p, op) /\ todo[p] # <<>>
  BY <1>2, Zenon DEF Serving
<1>4. /\ \/ state' = [state EXCEPT ![q] = IF @ = "SLEEPING" THEN "RUNNABLE" ELSE @]
         \/ state' = [state EXCEPT ![q] = IF @ = "ZOMBIE" THEN "UNUSED" ELSE @]
      /\ Advance
      /\ UNCHANGED <<locked, noff, intena, ie, cur, old, saved, mode, found, panicked>>
  BY <1>3, Zenon DEF DoWakeup, DoWait, cpu
<1>5. /\ todo'[p] = Release(ProcLock(q)) /\ \A t \in Thread : t # cur => todo'[t] = todo[t]
      /\ todo' = [t \in Thread |-> todo'[t]]
  BY <1>3, <1>4, Advanced, Zenon DEF StepInv, Advance
<1>6. \A r \in Proc : state[r] \in {"ZOMBIE", "UNUSED"} => state'[r] \in {"ZOMBIE", "UNUSED"}
  BY <1>4, Zenon DEF StepInv, Types
<1>7. Types'
  <2>1. state' \in [Proc -> {"UNUSED", "RUNNABLE", "RUNNING", "SLEEPING", "ZOMBIE"}]
    BY <1>4, Zenon DEF StepInv, Types
  <2> QED BY <1>4, <1>5, <2>1, Zenon DEF StepInv, Types
<1>8. CpuInv' BY <1>4, Zenon DEF StepInv, CpuInv
<1>9. WaitInv' BY <1>4, <1>5, <1>6, ZenonT(30) DEF StepInv, WaitInv, Waits, Thread
<1>10. InCode(p)' BY <1>3, <1>4, <1>5, Zenon DEF InCode, Plainly
<1>11. PlaceInv' BY <1>1, <1>3, <1>4, <1>5, <1>10, Zenon DEF PlaceInv, Thread
<1>12. ~At(p, "acquire")' /\ ~At(p, "restore")' BY <1>3, <1>5, Zenon DEF At
<1>13. SchedFlags' BY <1>1, <1>4, Zenon DEF SchedFlags
<1>14. ProcFlags'
  BY <1>3, <1>4, <1>12, Zenon DEF StepInv, FlagInv, ProcFlags, At
<1>15. SavedFlags'
  BY <1>3, <1>4, <1>5, <1>12, Zenon DEF StepInv, FlagInv, SavedFlags, At, Thread
<1> QED BY <1>7, <1>8, <1>9, <1>11, <1>13, <1>14, <1>15, Zenon DEF StepInv, FlagInv

\* kfork makes a process that starts in forkret.
LEMMA ForkInv == ASSUME StepInv, Counted, DoFork PROVE StepInv'
<1>1. cur # Scheduler BY OnOther, Zenon DEF DoFork
<1>2. PICK p \in Proc : \E q \in Proc \ {p} : Serving(p, q, "fork") BY OnOther, Zenon DEF DoFork
<1>3. PICK q \in Proc \ {p} :
        /\ p = cur /\ todo[Scheduler] = Turn4(p)
        /\ Lk = ProcLock(q) /\ Lk[2] = q /\ Tail(todo[p]) = Release(ProcLock(q))
        /\ Head(Release(ProcLock(q))).op = "release"
        /\ ProcLock(q) \in locked /\ locked \ {ProcLock(q)} \subseteq Plain
        /\ At(p, "fork") /\ todo[p] # <<>>
  BY <1>2, Zenon DEF Serving
<1>4. UNCHANGED <<locked, noff, intena, ie, cur, old, saved, found, panicked>>
  BY Zenon DEF DoFork, cpu
<1>5. /\ todo'[p] = Release(ProcLock(q))
      /\ \A t \in Thread \ {p, q} : todo'[t] = todo[t]
      /\ todo' = [t \in Thread |-> todo'[t]]
      /\ \A r \in Proc \ {q} : state'[r] = state[r] /\ mode'[r] = mode[r]
      /\ \/ todo'[q] = Release(ProcLock(q)) /\ mode'[q] = "new"
         \/ todo'[q] = todo[q] /\ mode'[q] = mode[q] /\ state'[q] = state[q]
      /\ state' \in [Proc -> {"UNUSED", "RUNNABLE", "RUNNING", "SLEEPING", "ZOMBIE"}]
      /\ mode' \in [Proc -> {"new", "user", "trap"}]
  <2>1. CASE state[q] = "UNUSED"
    <3>1. /\ state' = [state EXCEPT ![q] = "RUNNABLE"] /\ mode' = [mode EXCEPT ![q] = "new"]
          /\ todo' = [todo EXCEPT ![p] = Tail(@), ![q] = Release(ProcLock(q))]
      BY <1>3, <2>1, Zenon DEF DoFork
    <3> QED BY <1>3, <3>1, Zenon DEF StepInv, Types, Thread
  <2>2. CASE state[q] # "UNUSED"
    <3>1. Advance /\ UNCHANGED <<state, mode>> BY <1>3, <2>2, Zenon DEF DoFork
    <3> QED BY <1>3, <3>1, Advanced, Zenon DEF StepInv, Types, Thread, Advance
  <2> QED BY <2>1, <2>2, Zenon
<1>6. Types' BY <1>4, <1>5, Zenon DEF StepInv, Types
<1>7. CpuInv' BY <1>4, Zenon DEF StepInv, CpuInv
<1>8. WaitInv'
  <2>1. ASSUME NEW r \in Proc \ {p} PROVE Waits(r)' /\ mode'[r] # "user"
    BY <1>3, <1>4, <1>5, <2>1, SMTT(30) DEF StepInv, WaitInv, Waits, Thread
  <2> QED BY <1>3, <1>4, <2>1, Zenon DEF WaitInv
<1>9. InCode(p)' BY <1>3, <1>4, <1>5, Zenon DEF InCode, Plainly
<1>10. PlaceInv' BY <1>1, <1>3, <1>4, <1>5, <1>9, LockNames, Zenon DEF PlaceInv, Thread
<1>11. ~At(p, "acquire")' /\ ~At(p, "restore")' BY <1>3, <1>5, Zenon DEF At
<1>12. SchedFlags' BY <1>1, <1>4, Zenon DEF SchedFlags
<1>13. ProcFlags'
  BY <1>3, <1>4, <1>5, <1>11, Zenon DEF StepInv, FlagInv, ProcFlags, At
<1>14. SavedFlags'
  BY <1>3, <1>4, <1>5, <1>11 DEF StepInv, FlagInv, SavedFlags, At, Thread
<1> QED BY <1>6, <1>7, <1>8, <1>10, <1>12, <1>13, <1>14, Zenon DEF StepInv, FlagInv

\* The scheduler turns interrupts on, goes to the next process, and idles.
LEMMA ScheduleInv ==
  ASSUME NPROC \in Nat \ {0}, StepInv, Counted, ScheduleOn \/ ScheduleNext \/ ScheduleIdle
  PROVE  StepInv'
<1>1. Does("on") \/ Does("next") \/ Does("idle") BY Zenon DEF ScheduleOn, ScheduleNext, ScheduleIdle
<1>2. cur = Scheduler
  <2>1. cur # Scheduler => cur \in Proc /\ InCode(cur) BY Threads, Zenon
  <2> QED BY <1>1, <2>1, WhereProcess, Zenon
<1>3. locked = {} /\ noff = 0 BY <1>1, <1>2, Threads, WhereScheduler, Zenon DEF Counted
<1>4. PICK f : /\ todo' = [todo EXCEPT ![cur] = f]
               /\ f \in {Scan, Idle} \/ \E p \in Proc : f = Turn(p)
               /\ \/ f = Scan /\ UNCHANGED <<ie, found>>
                  \/ ie' = TRUE /\ found' = FALSE
                  \/ ~At(cur, "on") /\ UNCHANGED <<ie, found>>
  <2>1. CASE ScheduleOn
    <3>1. 1 \in Proc BY DEF Proc
    <3> QED BY <2>1, <3>1, Zenon DEF ScheduleOn, IntrOn
  <2>2. CASE ScheduleNext
    <3>1. PICK p \in Proc : todo[cur] = Turn5(p)
      BY <1>2, <2>2, Threads, WhereScheduler, Zenon DEF ScheduleNext
    <3>2. Lk = ProcLock(p) /\ ~At(cur, "on") BY <3>1, TurnPlaces, OpFields DEF Lk, At
    <3>3. Lk[2] = p /\ (p < NPROC => p + 1 \in Proc) BY <3>2, LockNames DEF Proc
    <3> QED BY <2>2, <3>2, <3>3, Zenon DEF ScheduleNext, cpu
  <2>3. CASE ScheduleIdle BY <2>3, Zenon DEF ScheduleIdle, cpu
  <2> QED BY <2>1, <2>2, <2>3, Zenon
<1>5. UNCHANGED <<locked, noff, intena, cur, old, saved, state, mode, panicked>>
  BY Zenon DEF ScheduleOn, ScheduleNext, ScheduleIdle, cpu
<1>6. /\ todo'[cur] = f /\ \A t \in Thread : t # cur => todo'[t] = todo[t]
      /\ todo' = [t \in Thread |-> todo'[t]]
  BY <1>4, Advanced, Zenon DEF StepInv
<1>7. Types' BY <1>4, <1>5, <1>6, Zenon DEF StepInv, Types
<1>8. CpuInv' BY <1>3, <1>5, Zenon DEF StepInv, CpuInv
<1>9. WaitInv' BY <1>5, <1>6, Zenon DEF StepInv, WaitInv, Waits, Thread
<1>10. PlaceInv' BY <1>2, <1>3, <1>4, <1>5, <1>6, LockNames, Zenon DEF PlaceInv, Scanning
<1>11. (f = Scan => At(cur, "on")') /\ ~At(cur, "acquire")'
  BY <1>4, <1>5, <1>6, TurnPlaces, OpFields, SMTT(30) DEF At
<1>12. SchedFlags'
  BY <1>3, <1>4, <1>5, <1>11 DEF StepInv, FlagInv, SchedFlags
<1>13. ProcFlags' BY <1>2, <1>5, Zenon DEF ProcFlags
<1>14. SavedFlags'
  BY <1>2, <1>5, <1>6, LockNames, Zenon DEF StepInv, FlagInv, SavedFlags, At, Thread
<1> QED BY <1>7, <1>8, <1>9, <1>10, <1>12, <1>13, <1>14, Zenon DEF StepInv, FlagInv

\* The scheduler gives the CPU, and the lock, to a process.
LEMMA ScheduleRunInv == ASSUME StepInv, Counted, ScheduleRun PROVE StepInv'
<1>1. cur = Scheduler
  <2>1. cur # Scheduler => cur \in Proc /\ InCode(cur) BY Threads, Zenon
  <2> QED BY <2>1, WhereProcess, Zenon DEF ScheduleRun
<1>2. PICK p \in Proc : todo[cur] = Turn3(p) /\ locked = {ProcLock(p)}
  BY <1>1, Threads, WhereScheduler, ZenonT(30) DEF ScheduleRun
<1>3. Lk = ProcLock(p) /\ Tail(todo[cur]) = Turn4(p) /\ At(cur, "run")
  BY <1>2, TurnPlaces, OpFields DEF Lk, At
<1>4. Lk[2] = p BY <1>3, LockNames, Zenon
<1>5. UNCHANGED <<locked, noff, intena, ie, old, saved, mode, panicked>> /\ Advance
  BY Zenon DEF ScheduleRun, cpu
<1>6. /\ todo'[Scheduler] = Turn4(p) /\ \A t \in Proc : todo'[t] = todo[t]
      /\ todo' = [t \in Thread |-> todo'[t]]
  BY <1>1, <1>3, <1>5, Advanced, LockNames, Zenon DEF StepInv, Advance, Thread
<1>7. CpuInv' BY <1>5, Zenon DEF StepInv, CpuInv
<1>8. SavedFlags' BY <1>5, <1>6, Zenon DEF StepInv, FlagInv, SavedFlags, At
<1>9. CASE state[p] = "RUNNABLE"
  <2>1. state' = [state EXCEPT ![p] = "RUNNING"] /\ cur' = p /\ found' = TRUE
    BY <1>4, <1>9, Zenon DEF ScheduleRun
  <2>2. \A q \in Proc : q # p => state'[q] = state[q] BY <2>1, Zenon DEF StepInv, Types
  <2>3. Types' BY <1>5, <1>6, <2>1, Zenon DEF StepInv, Types, Thread
  <2>4. WaitInv' BY <1>1, <1>5, <1>6, <2>1, <2>2, LockNames, SMTT(30) DEF StepInv, WaitInv, Waits
  <2>5. /\ mode[p] # "user"
        /\ \/ todo[p] = Release(ProcLock(p)) /\ mode[p] = "new"
           \/ todo[p] = Yield5(p)
           \/ \E lk \in Plain : todo[p] = Sleep6(p, lk)
    BY <1>1, <1>9, LockNames, Zenon DEF StepInv, WaitInv, Waits
  <2>6. InCode(p)'
    <3>1. CASE todo[p] = Release(ProcLock(p))
      <4>1. Plainly(p)' BY <1>2, <1>5, <1>6, <3>1, Zenon DEF Plainly
      <4> QED BY <4>1, Zenon DEF InCode
    <3>2. CASE todo[p] = Yield5(p) BY <1>2, <1>5, <1>6, <3>2, Zenon DEF InCode, InYield
    <3>3. CASE \E lk \in Plain : todo[p] = Sleep6(p, lk)
      <4>1. InSleep(p)' BY <1>2, <1>5, <1>6, <3>3, Zenon DEF InSleep
      <4> QED BY <4>1, Zenon DEF InCode
    <3> QED BY <2>5, <3>1, <3>2, <3>3, Zenon
  <2>7. PlaceInv' BY <1>6, <2>1, <2>6, LockNames, Zenon DEF PlaceInv
  <2>8. SchedFlags' BY <2>1, LockNames, Zenon DEF SchedFlags
  <2>9. mode[p] = "trap" => At(p, "restore")' /\ ~At(p, "acquire")'
    <3>1. CASE todo[p] = Yield5(p) BY <1>6, <3>1, YieldPlaces, OpFields, SMTT(30) DEF At
    <3>2. CASE \E lk \in Plain : todo[p] = Sleep6(p, lk)
      <4>1. PICK lk \in Plain : todo[p] = Sleep6(p, lk) BY <3>2, Zenon
      <4> QED BY <1>6, <4>1, SleepPlaces, OpFields DEF At
    <3> QED BY <2>5, <3>1, <3>2, Zenon
  <2>10. ~ie BY <1>2, Zenon DEF StepInv, CpuInv
  <2>11. ProcFlags' BY <1>5, <2>1, <2>5, <2>9, <2>10, Zenon DEF ProcFlags, At
  <2> QED BY <1>7, <1>8, <2>3, <2>4, <2>7, <2>8, <2>11, ZenonT(30) DEF StepInv, FlagInv
<1>10. CASE state[p] # "RUNNABLE"
  <2>1. UNCHANGED <<state, cur, found>> BY <1>4, <1>10, Zenon DEF ScheduleRun
  <2>2. Types' BY <1>5, <1>6, <2>1, Zenon DEF StepInv, Types
  <2>3. WaitInv' BY <1>5, <1>6, <2>1, Zenon DEF StepInv, WaitInv, Waits
  <2>4. PlaceInv' BY <1>1, <1>2, <1>5, <1>6, <2>1, LockNames, Zenon DEF PlaceInv, Scanning
  <2>5. ~At(cur, "acquire")' BY <1>1, <1>6, <2>1, TurnPlaces, OpFields, SMTT(30) DEF At
  <2>6. SchedFlags' BY <1>3, <1>5, <2>1, <2>5, Zenon DEF StepInv, FlagInv, SchedFlags, At
  <2>7. ProcFlags' BY <1>1, <2>1, Zenon DEF ProcFlags
  <2> QED BY <1>7, <1>8, <2>2, <2>3, <2>4, <2>6, <2>7, Zenon DEF StepInv, FlagInv
<1> QED BY <1>9, <1>10, Zenon

\* Between two functions a process holds no lock of a process.
LEMMA Between ==
  ASSUME StepInv, Counted, NEW p \in Proc, p = cur, todo[p] = <<>>
  PROVE  locked \subseteq Plain
<1>1. InCode(p) BY Threads, Zenon
<1>2. CASE Plainly(p) BY <1>2, AcquirePlaces, ZenonT(30) DEF Plainly
<1>3. CASE InSleep(p) BY <1>3, SleepPlaces DEF InSleep
<1>4. CASE InYield(p) BY <1>4, YieldPlaces, Zenon DEF InYield
<1>5. CASE InExit(p) BY <1>5, ExitPlaces, ZenonT(30) DEF InExit
<1>6. CASE InOther(p) BY <1>6, OtherPlaces, Zenon DEF InOther
<1> QED BY <1>1, <1>2, <1>3, <1>4, <1>5, <1>6, Zenon DEF InCode

\* A process enters a function of the kernel.
LEMMA CodeInv == ASSUME StepInv, Counted, Code PROVE StepInv'
<1>1. PICK p \in Proc : p = cur /\ todo[Scheduler] = Turn4(p)
  BY Threads, Zenon DEF Code, InKernel
<1>2. todo[p] = <<>> /\ cur # Scheduler /\ mode[p] # "user" /\ locked \subseteq Plain
  BY <1>1, Between, Zenon DEF Code, InKernel
<1>3. PICK f :
        /\ todo' = [todo EXCEPT ![cur] = f]
        /\ \/ \E lk \in Plain \ locked : f = Acquire(lk)
           \/ \E lk \in locked : f = Release(lk)
           \/ \E lk \in locked : f = Sleep(p, lk) /\ locked = {lk}
           \/ \E q \in Proc \ {p}, op \in {"wakeup", "wait", "fork"} : f = Other(q, op)
           \/ f = Yield(p) /\ locked = {}
           \/ \E lk \in locked : f = Exit(p, lk) /\ locked = {lk}
  <2>1. PICK f : /\ todo' = [todo EXCEPT ![cur] = f]
                 /\ \/ f \in {Acquire(lk) : lk \in Plain \ locked}
                    \/ f \in {Release(lk) : lk \in locked}
                    \/ f \in {Sleep(cur, lk) : lk \in {l \in locked : locked = {l}}}
                    \/ f \in {Exit(cur, lk) : lk \in {l \in OtherLock : locked = {l} /\ cur # 1}}
                    \/ f \in {Wakeup(q) : q \in Proc \ {cur}} \cup {Fork(q) : q \in Proc \ {cur}}
                    \/ f \in {Wait(q) : q \in {r \in Proc \ {cur} : \E l \in OtherLock : locked = {l}}}
                    \/ f = Yield(cur) /\ locked = {}
    BY Zenon DEF Code, Plain
  <2>2. f \in {Wakeup(q) : q \in Proc \ {cur}} \cup {Fork(q) : q \in Proc \ {cur}} =>
          \E q \in Proc \ {p}, op \in {"wakeup", "wait", "fork"} : f = Other(q, op)
    BY <1>1, Zenon DEF Wakeup, Fork
  <2>3. f \in {Wait(q) : q \in {r \in Proc \ {cur} : \E l \in OtherLock : locked = {l}}} =>
          \E q \in Proc \ {p}, op \in {"wakeup", "wait", "fork"} : f = Other(q, op)
    BY <1>1, Zenon DEF Wait
  <2>4. f \in {Exit(cur, lk) : lk \in {l \in OtherLock : locked = {l} /\ cur # 1}} =>
          \E lk \in locked : f = Exit(p, lk) /\ locked = {lk}
    BY <1>1, Zenon
  <2> QED BY <1>1, <2>1, <2>2, <2>3, <2>4, Zenon
<1>4. UNCHANGED <<locked, noff, intena, ie, cur, old, saved, state, mode, found, panicked>>
  BY Zenon DEF Code, cpu
<1>5. /\ todo'[p] = f /\ \A t \in Thread : t # cur => todo'[t] = todo[t]
      /\ todo' = [t \in Thread |-> todo'[t]]
  BY <1>1, <1>3, Advanced, Zenon DEF StepInv
<1>6. Types' BY <1>4, <1>5, Zenon DEF StepInv, Types
<1>7. CpuInv' BY <1>4, Zenon DEF StepInv, CpuInv
<1>8. WaitInv' BY <1>4, <1>5, ZenonT(30) DEF StepInv, WaitInv, Waits, Thread
<1>9. InCode(p)' /\ ~At(p, "acquire")' /\ ~At(p, "restore")'
  <2>1. CASE \E lk \in Plain \ locked : f = Acquire(lk)
    <3>1. Plainly(p)' BY <1>2, <1>4, <1>5, <2>1, Zenon DEF Plainly
    <3> QED BY <1>5, <2>1, <3>1, AcquirePlaces, OpFields DEF InCode, At
  <2>2. CASE \E lk \in locked : f = Release(lk)
    <3>1. Plainly(p)' BY <1>2, <1>4, <1>5, <2>2, Zenon DEF Plainly
    <3> QED BY <1>5, <2>2, <3>1, AcquirePlaces, OpFields, SMTT(30) DEF InCode, At
  <2>3. CASE \E lk \in locked : f = Sleep(p, lk) /\ locked = {lk}
    <3>1. InSleep(p)' BY <1>2, <1>4, <1>5, <2>3, Zenon DEF InSleep
    <3>2. ~At(p, "acquire")' /\ ~At(p, "restore")'
      BY <1>5, <2>3, SleepPlaces, OpFields DEF At
    <3> QED BY <3>1, <3>2, Zenon DEF InCode
  <2>4. CASE \E q \in Proc \ {p}, op \in {"wakeup", "wait", "fork"} : f = Other(q, op)
    <3>1. InOther(p)' BY <1>2, <1>4, <1>5, <2>4, Zenon DEF InOther
    <3>2. ~At(p, "acquire")' /\ ~At(p, "restore")'
      BY <1>5, <2>4, OtherPlaces, OpFields DEF At
    <3> QED BY <3>1, <3>2, Zenon DEF InCode
  <2>5. CASE f = Yield(p) /\ locked = {}
    <3>1. InYield(p)' BY <1>4, <1>5, <2>5, Zenon DEF InYield
    <3>2. ~At(p, "acquire")' /\ ~At(p, "restore")'
      BY <1>5, <2>5, YieldPlaces, OpFields DEF At
    <3> QED BY <3>1, <3>2, Zenon DEF InCode
  <2>6. CASE \E lk \in locked : f = Exit(p, lk) /\ locked = {lk}
    <3>1. InExit(p)' BY <1>2, <1>4, <1>5, <2>6, Zenon DEF InExit
    <3>2. ~At(p, "acquire")' /\ ~At(p, "restore")'
      BY <1>5, <2>6, ExitPlaces, OpFields, SMTT(30) DEF At
    <3> QED BY <3>1, <3>2, Zenon DEF InCode
  <2> QED BY <1>3, <2>1, <2>2, <2>3, <2>4, <2>5, <2>6, Zenon
<1>10. PlaceInv' BY <1>1, <1>2, <1>4, <1>5, <1>9, Zenon DEF PlaceInv, Thread
<1>11. SchedFlags' BY <1>2, <1>4, Zenon DEF SchedFlags
<1>12. ProcFlags'
  BY <1>1, <1>2, <1>4, <1>9, Zenon DEF StepInv, FlagInv, ProcFlags, At
<1>13. SavedFlags'
  BY <1>1, <1>4, <1>5, <1>9, Zenon DEF StepInv, FlagInv, SavedFlags, At, Thread
<1> QED BY <1>6, <1>7, <1>8, <1>10, <1>11, <1>12, <1>13, Zenon DEF StepInv, FlagInv

\* A process returns to user code, or traps.
LEMMA UserInv == ASSUME StepInv, Counted, ReturnToUser \/ UserTrap PROVE StepInv'
<1>1. cur # Scheduler BY Zenon DEF ReturnToUser, UserTrap, InKernel
<1>2. PICK p \in Proc : p = cur /\ InCode(p) BY <1>1, Threads, Zenon
<1>3. todo[p] = <<>> /\ locked = {} /\ noff = 0
  <2>1. todo[p] = <<>> /\ locked = {}
    BY <1>1, <1>2, Zenon DEF StepInv, FlagInv, ProcFlags, ReturnToUser, UserTrap, InKernel
  <2> QED BY <2>1, Zenon DEF Counted
<1>4. PICK m \in {"user", "trap"} :
        /\ mode' = [mode EXCEPT ![p] = m] /\ ie' = (m = "user")
        /\ UNCHANGED <<locked, noff, intena, cur, todo, old, saved, state, found, panicked>>
  BY <1>2, Zenon DEF ReturnToUser, UserTrap
<1>5. mode'[p] = m /\ \A q \in Proc : q # p => mode'[q] = mode[q]
  BY <1>4, Zenon DEF StepInv, Types
<1>6. Types' BY <1>4, Zenon DEF StepInv, Types
<1>7. CpuInv' BY <1>3, <1>4, Zenon DEF StepInv, CpuInv
<1>8. WaitInv' BY <1>2, <1>4, <1>5, Zenon DEF StepInv, WaitInv, Waits
<1>9. InCode(p)' BY <1>3, <1>4, Zenon DEF InCode, Plainly
<1>10. PlaceInv' BY <1>1, <1>2, <1>4, <1>9, Zenon DEF StepInv, PlaceInv
<1>11. SchedFlags' BY <1>1, <1>4, Zenon DEF SchedFlags
<1>12. ProcFlags' BY <1>2, <1>3, <1>4, <1>5, Zenon DEF StepInv, FlagInv, ProcFlags, At
<1>13. SavedFlags' BY <1>3, <1>4, <1>5, Zenon DEF StepInv, FlagInv, SavedFlags, At
<1> QED BY <1>6, <1>7, <1>8, <1>10, <1>11, <1>12, <1>13, Zenon DEF StepInv, FlagInv

\* An interrupt comes in the kernel; no lock is held, so its handler finds
\* every lock free.
LEMMA KernelTrapInv == ASSUME StepInv, Counted, KernelTrap PROVE StepInv'
<1>1. ie /\ locked = {} /\ noff = 0 BY Zenon DEF StepInv, CpuInv, KernelTrap, Counted
<1>2. PICK woken \in SUBSET {p \in Proc \ {cur} : state[p] = "SLEEPING"} :
        state' = [p \in Proc |-> IF p \in woken THEN "RUNNABLE" ELSE state[p]]
  BY <1>1, Zenon DEF KernelTrap
<1>3. intena' = FALSE /\ UNCHANGED <<locked, noff, ie, cur, todo, saved, panicked, old, mode, found>>
  BY <1>1, Zenon DEF KernelTrap
<1>4. /\ \A p \in Proc : state[p] \in {"ZOMBIE", "UNUSED"} => state'[p] \in {"ZOMBIE", "UNUSED"}
      /\ \A p \in Proc : p = cur => state'[p] = state[p]
      /\ state' \in [Proc -> {"UNUSED", "RUNNABLE", "RUNNING", "SLEEPING", "ZOMBIE"}]
  BY <1>2, Zenon DEF StepInv, Types
<1>5. Types' BY <1>3, <1>4, Zenon DEF StepInv, Types
<1>6. CpuInv' BY <1>3, Zenon DEF StepInv, CpuInv
<1>7. WaitInv' BY <1>3, <1>4, Zenon DEF StepInv, WaitInv, Waits
<1>8. PlaceInv'
  <2>1. Scanning => Scanning' BY <1>3, Zenon DEF Scanning
  <2>2. ASSUME NEW p \in Proc, p = cur PROVE todo'[Scheduler] = Turn4(p) /\ InCode(p)'
    <3>1. todo'[Scheduler] = Turn4(p) /\ InCode(p) /\ state'[p] = state[p]
      BY <1>3, <1>4, <2>2, Zenon DEF StepInv, PlaceInv
    <3>2. Plainly(p) => Plainly(p)' BY <1>3, Zenon DEF Plainly
    <3>3. InSleep(p) => InSleep(p)' BY <1>3, <3>1, Zenon DEF InSleep
    <3>4. InYield(p) => InYield(p)' BY <1>3, <3>1, Zenon DEF InYield
    <3>5. InExit(p) => InExit(p)' BY <1>3, <3>1, Zenon DEF InExit
    <3>6. InOther(p) => InOther(p)' BY <1>3, Zenon DEF InOther
    <3> QED BY <3>1, <3>2, <3>3, <3>4, <3>5, <3>6, Zenon DEF InCode
  <2> QED BY <1>3, <2>1, <2>2, Zenon DEF StepInv, PlaceInv
<1>9. FlagInv'
  BY <1>1, <1>3 DEF StepInv, FlagInv, SchedFlags, ProcFlags, SavedFlags, At
<1> QED BY <1>5, <1>6, <1>7, <1>8, <1>9, Zenon DEF StepInv
-----------------------------------------------------------------------------
(* Lemmas that count *)

INSTANCE FiniteSetTheorems

\* noff is the number of locks held, whichever threads took them.
CountInv == IsFiniteSet(locked) /\ noff = Cardinality(locked)

\* The inductive invariant.
LocksInv == StepInv /\ CountInv

-----------------------------------------------------------------------------
(* Counting *)

LEMMA CountInvCounted == ASSUME CountInv PROVE Counted
<1>1. Cardinality(locked) \in Nat BY FS_CardinalityType, Zenon DEF CountInv
<1>2. Cardinality(locked) = 0 <=> locked = {} BY FS_EmptySet, Zenon DEF CountInv
<1>3. Cardinality(locked) = 1 <=> \E lk : locked = {lk} BY FS_Singleton, Zenon DEF CountInv
<1> QED BY <1>1, <1>2, <1>3, Zenon DEF CountInv, Counted

\* Only acquire and release change noff and the locks held; as no step
\* panics, they do it together.
LEMMA CountStep ==
  ASSUME CountInv, [Next]_vars, panicked' = "none"
  PROVE  CountInv'
<1>1. CASE AcquireRest
  <2>1. PICK lk : lk = Lk OBVIOUS
  <2>2. lk \notin locked /\ noff' = noff + 1 /\ locked' = locked \cup {lk}
    BY <1>1, <2>1, Zenon DEF AcquireRest, Panic
  <2>3. IsFiniteSet(locked \cup {lk}) /\ Cardinality(locked \cup {lk}) = Cardinality(locked) + 1
    BY <2>2, FS_AddElement, Zenon DEF CountInv
  <2> QED BY <2>2, <2>3, Zenon DEF CountInv
<1>2. CASE ReleaseAll
  <2>1. PICK lk : lk = Lk OBVIOUS
  <2>2. lk \in locked /\ noff' = noff - 1 /\ locked' = locked \ {lk}
    BY <1>2, <2>1, Zenon DEF ReleaseAll, Panic, NoffAfterPop
  <2>3. IsFiniteSet(locked \ {lk}) /\ Cardinality(locked \ {lk}) = Cardinality(locked) - 1
    BY <2>2, FS_RemoveElement, Zenon DEF CountInv
  <2> QED BY <2>2, <2>3, Zenon DEF CountInv
<1>3. CASE UNCHANGED <<locked, noff>> BY <1>3, Zenon DEF CountInv
<1>4. AcquireRest \/ ReleaseAll \/ UNCHANGED <<locked, noff>>
  <2>1. Get \/ Mark \/ SchedIn \/ DoWakeup \/ DoWait \/ DoFork => UNCHANGED <<locked, noff>>
    BY Zenon DEF Get, Mark, SchedIn, DoWakeup, DoWait, DoFork, cpu
  <2>2. SchedOut \/ KernelTrap => UNCHANGED <<locked, noff>>
    BY ZenonT(30) DEF SchedOut, KernelTrap, Panic, cpu
  <2>3. ScheduleOn \/ ScheduleRun \/ ScheduleNext \/ ScheduleIdle => UNCHANGED <<locked, noff>>
    BY Zenon DEF ScheduleOn, ScheduleRun, ScheduleNext, ScheduleIdle, cpu
  <2>4. Code \/ ReturnToUser \/ UserTrap \/ UNCHANGED vars => UNCHANGED <<locked, noff>>
    BY Zenon DEF Code, ReturnToUser, UserTrap, vars, cpu
  <2> QED BY <2>1, <2>2, <2>3, <2>4, ZenonT(30) DEF Next
<1> QED BY <1>1, <1>2, <1>3, <1>4, Zenon

-----------------------------------------------------------------------------
(* The invariant *)

LEMMA NextStep ==
  ASSUME NPROC \in Nat \ {0}, StepInv, Counted, [Next]_vars
  PROVE  StepInv'
<1>1. CASE UNCHANGED vars
  <2>0. UNCHANGED <<locked, noff, intena, ie, cur, todo, old, saved, state, mode, found, panicked>>
    BY <1>1, Zenon DEF vars, cpu
  <2>1. Types' BY <2>0, Zenon DEF StepInv, Types
  <2>2. CpuInv' BY <2>0, Zenon DEF StepInv, CpuInv
  <2>3. WaitInv' BY <2>0, Zenon DEF StepInv, WaitInv, Waits
  <2>4. PlaceInv'
    <3>1. Scanning => Scanning' BY <2>0, Zenon DEF Scanning
    <3>2. ASSUME NEW p \in Proc PROVE InCode(p) => InCode(p)'
      <4>1. Plainly(p) => Plainly(p)' BY <2>0, Zenon DEF Plainly
      <4>2. InSleep(p) => InSleep(p)' BY <2>0, Zenon DEF InSleep
      <4>3. InYield(p) => InYield(p)' BY <2>0, Zenon DEF InYield
      <4>4. InExit(p) => InExit(p)' BY <2>0, Zenon DEF InExit
      <4>5. InOther(p) => InOther(p)' BY <2>0, Zenon DEF InOther
      <4> QED BY <4>1, <4>2, <4>3, <4>4, <4>5, ZenonT(30) DEF InCode
    <3> QED BY <2>0, <3>1, <3>2, Zenon DEF StepInv, PlaceInv
  <2>5. FlagInv' BY <2>0, ZenonT(30) DEF StepInv, FlagInv, SchedFlags, ProcFlags, SavedFlags, At
  <2> QED BY <2>1, <2>2, <2>3, <2>4, <2>5, Zenon DEF StepInv
<1>2. CASE Next
  BY <1>2, GetInv, AcquireInv, ReleaseInv, MarkInv, SchedOutInv, SchedInInv, WakeupInv, ForkInv,
     ScheduleInv, ScheduleRunInv, CodeInv, UserInv, KernelTrapInv, SMTT(30)
  DEF Next
<1> QED BY <1>1, <1>2, Zenon

\* LocksInv is inductive: every thread is at a point of its function whose
\* locks are the ones held, and the flags that push_off and sched saved are
\* the ones pop_off will need.
THEOREM LocksInvariant == Spec => []LocksInv
<1>1. Init => LocksInv
  <2>1. Init => StepInv BY InitInv, LocksSizes, Zenon
  <2>2. Init => CountInv BY FS_EmptySet, Zenon DEF Init, CountInv
  <2> QED BY <2>1, <2>2, Zenon DEF LocksInv
<1>2. LocksInv /\ [Next]_vars => LocksInv'
  <2>1. SUFFICES ASSUME StepInv, CountInv, [Next]_vars PROVE StepInv' /\ CountInv'
    BY Zenon DEF LocksInv
  <2>2. StepInv' BY <2>1, CountInvCounted, NextStep, LocksSizes, Zenon
  <2>3. panicked' = "none" BY <2>2, Zenon DEF StepInv, CpuInv
  <2> QED BY <2>1, <2>2, <2>3, CountStep, Zenon
<1> QED BY <1>1, <1>2, PTL DEF Spec

-----------------------------------------------------------------------------
(* What follows from it *)

\* NoPanic: acquire, release, pop_off and sched never panic, and every variable
\* has its type.
THEOREM LocksNeverPanic == Spec => []NoPanic
<1>1. LocksInv => NoPanic
  BY CountInvCounted, Zenon DEF LocksInv, StepInv, Types, Thread, Counted, CpuInv, TypeOK, NoPanic
<1> QED BY <1>1, LocksInvariant, PTL

\* InterruptsSound: noff counts the locks held and interrupts are off while
\* one is held, traps are not interrupted, and the scheduler waits for an
\* interrupt only with interrupts on.
THEOREM LocksInterrupts == Spec => []InterruptsSound
<1>1. ASSUME LocksInv PROVE InterruptsSound
  <2>0. StepInv /\ CountInv /\ Counted BY <1>1, CountInvCounted, Zenon DEF LocksInv
  <2>1. HeldMeansOff BY <2>0, Zenon DEF StepInv, CpuInv, CountInv, HeldMeansOff
  <2>2. TrapsStayOff BY <2>0, Zenon DEF StepInv, FlagInv, ProcFlags, TrapsStayOff
  <2>3. IdleInterruptible
    <3>1. SUFFICES ASSUME Does("idle"), ~found PROVE ie BY Zenon DEF IdleInterruptible
    <3>2. cur = Scheduler BY <2>0, <3>1, Zenon DEF StepInv, FlagInv, ProcFlags
    <3>3. todo[cur] = Idle /\ locked = {} BY <2>0, <3>1, <3>2, Threads, WhereScheduler, ZenonT(30)
    <3>4. noff = 0 /\ ~At(cur, "on") BY <2>0, <3>3, TurnPlaces, OpFields DEF At, Counted
    <3> QED BY <2>0, <3>1, <3>2, <3>4, Zenon DEF StepInv, FlagInv, SchedFlags
  <2> QED BY <2>1, <2>2, <2>3, Zenon DEF InterruptsSound
<1> QED BY <1>1, LocksInvariant, PTL
=============================================================================
