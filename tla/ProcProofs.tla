----------------------------- MODULE ProcProofs -----------------------------
(***************************************************************************)
(* Theorems about Proc, for any size of the process table, any number of   *)
(* pids and any width of ticks: the scheduler and the process table agree, *)
(* every process has a live parent, pids are unique, and no wakeup is lost.*)
(***************************************************************************)
EXTENDS Proc, TLAPS, WellFoundedInduction

\* c->proc names the process that runs, and none while the scheduler does.
CurInv ==
  /\ cpu \in {"run", "panic"} => cur \in Slot
  /\ cpu \in {"scan", "wfi"} => cur = NoSlot

\* init never exits (kexit panics), so it is there to inherit orphans, and
\* freeproc leaves no parent in a free slot.
TreeInv ==
  /\ Live(InitProc)
  /\ \A s \in Slot : state[s] = "UNUSED" => parent[s] = NoSlot

\* NoLostWakeup, with the children spelt out.
Waits(s) ==
  /\ ~killed[s]
  /\ chan[s] = s => /\ \E c \in Slot : parent[c] = s
                    /\ \A c \in Slot : parent[c] = s => state[c] # "ZOMBIE"
  /\ chan[s] = TicksChan => ~Elapsed(s)
  /\ chan[s] = ConsChan => ~line
SleepInv == \A s \in Slot : state[s] = "SLEEPING" => Waits(s)

ProcInv ==
  /\ TypeOK /\ CurInv /\ TreeInv
  /\ OneRunning /\ ParentsLive /\ PidsNameProcesses /\ SleepInv

-----------------------------------------------------------------------------
(* The first slot of a set *)

LEMMA FirstIn ==
  ASSUME NEW S, S \subseteq Nat, S # {}
  PROVE  First(S) \in S
<1> DEFINE R == OpToRel(<, Nat)
<1>1. \E x \in S : \A y \in S : ~ (<<y, x>> \in R)
  <2>1. IsWellFoundedOn(R, Nat)
    BY NatLessThanWellFounded, Zenon
  <2> HIDE DEF R
  <2> QED BY <2>1, WFMin, Zenon
<1>2. R = {ss \in Nat \X Nat : ss[1] < ss[2]}
  BY Zenon DEF OpToRel
<1> HIDE DEF R
<1>3. \A a, b \in Nat : a < b => <<a, b>> \in R
  BY <1>2, Zenon
<1>4. PICK x \in S : \A y \in S : ~ (<<y, x>> \in R)
  BY <1>1, Zenon
<1>5. \A y \in S : ~ (y < x)
  BY <1>3, <1>4, Zenon
<1>6. \A y \in S : x <= y
  BY <1>5
<1> QED BY <1>6, Zenon DEF First

LEMMA SlotFacts ==
  /\ Slot \subseteq Nat /\ InitProc \in Slot /\ NoSlot \notin Slot
  /\ TicksChan \notin Slot /\ ConsChan \notin Slot /\ TicksChan # ConsChan
BY ProcSizes DEF Slot, InitProc, NoSlot, TicksChan, ConsChan

LEMMA RangeFacts ==
  /\ Slot \subseteq 0 .. NPROC /\ NoSlot \in 0 .. NPROC /\ InitProc \in 0 .. NPROC
  /\ Slot \subseteq 0 .. NPROC + 2
  /\ NoChan \in 0 .. NPROC + 2 /\ TicksChan \in 0 .. NPROC + 2
  /\ ConsChan \in 0 .. NPROC + 2
  /\ 0 \in 0 .. MAXPID /\ 0 \in 0 .. TICKS - 1 /\ 0 \in 0 .. MAXPAUSE
  /\ 1 \in 1 .. NPROC + 1
  /\ \A s \in Slot : s + 1 \in 1 .. NPROC + 1
  /\ \A i \in 1 .. NPROC + 1 : i <= NPROC => i \in Slot /\ i + 1 \in 1 .. NPROC + 1
  /\ \A n \in 1 .. MAXPID + 1 :
        n <= MAXPID => n \in 0 .. MAXPID /\ n + 1 \in 1 .. MAXPID + 1
BY ProcSizes DEF Slot, InitProc, NoSlot, NoChan, TicksChan, ConsChan

LEMMA TickFact ==
  ASSUME NEW t \in 0 .. TICKS - 1
  PROVE  (t + 1) % TICKS \in 0 .. TICKS - 1
BY ProcSizes

LEMMA FirstUnused ==
  ASSUME Unused # {}
  PROVE  First(Unused) \in Slot /\ state[First(Unused)] = "UNUSED"
<1>1. Unused \subseteq Nat
  BY SlotFacts, Zenon DEF Unused
<1>2. First(Unused) \in Unused
  BY <1>1, FirstIn, Zenon
<1> QED BY <1>2, Zenon DEF Unused

LEMMA FirstZombie ==
  ASSUME NEW p, Zombies(p) # {}
  PROVE  /\ First(Zombies(p)) \in Slot
         /\ state[First(Zombies(p))] = "ZOMBIE" /\ parent[First(Zombies(p))] = p
<1>1. Zombies(p) \subseteq Nat
  BY SlotFacts, Zenon DEF Zombies, Children
<1>2. First(Zombies(p)) \in Zombies(p)
  BY <1>1, FirstIn, Zenon
<1> QED BY <1>2, Zenon DEF Zombies, Children

LEMMA FirstPid ==
  ASSUME NEW k, NEW S, S = {s \in Slot : pid[s] = k}, S # {}
  PROVE  First(S) \in Slot /\ pid[First(S)] = k
<1>1. S \subseteq Nat
  BY SlotFacts, Zenon
<1>2. First(S) \in S
  BY <1>1, FirstIn, Zenon
<1> QED BY <1>2, Zenon

-----------------------------------------------------------------------------
(* The three ways to kexit *)

ExitStep(p) ==
  /\ cpu = "run" /\ cur = p
  /\ \E status \in {-1, 0} : Exit(p, status)
  /\ UNCHANGED <<nextpid, devVars>>

LEMMA ExitSteps ==
  ASSUME NEW p \in Slot, SyscallKilled(p) \/ SysExit(p) \/ TailKilled(p)
  PROVE  ExitStep(p)
BY Zenon DEF SyscallKilled, SysExit, TailKilled, ExitStep, Call, InTail, In

\* init panics and changes nothing else.
ExitPanics(p) ==
  /\ cpu' = "panic"
  /\ UNCHANGED <<procVars, userVars, cur, idx, found>>

\* Any other process becomes a zombie, its children become init's, and its
\* parent and, if there were children, init are woken.
ExitWakes(p, s) ==
  /\ s # p /\ state[s] = "SLEEPING"
  /\ chan[s] = parent[p] \/ (Children(p) # {} /\ chan[s] = InitProc)
ExitLeaves(p) ==
  /\ p # InitProc
  /\ state' \in [Slot -> States] /\ state'[p] = "ZOMBIE"
  /\ \A s \in Slot \ {p} :
        state'[s] = IF ExitWakes(p, s) THEN "RUNNABLE" ELSE state[s]
  /\ parent' \in [Slot -> 0 .. NPROC]
  /\ \A s \in Slot : parent'[s] = IF parent[s] = p THEN InitProc ELSE parent[s]
  /\ \E status \in {-1, 0} : xstate' = [xstate EXCEPT ![p] = status]
  /\ Sched
  /\ UNCHANGED <<chan, pid, killed, userVars>>

ExitHere(p) ==
  /\ cpu = "run" /\ cur = p
  /\ UNCHANGED <<nextpid, devVars>>
  /\ ExitPanics(p) \/ ExitLeaves(p)

LEMMA ExitEffect ==
  ASSUME TypeOK, NEW p \in Slot, ExitStep(p)
  PROVE  ExitHere(p)
<1>1. PICK status \in {-1, 0} : Exit(p, status)
  BY Zenon DEF ExitStep
<1>2. CASE p = InitProc
  BY <1>1, <1>2, Zenon DEF Exit, ExitStep, ExitHere, ExitPanics
<1>3. CASE p # InitProc
  <2> DEFINE C == {parent[p]} \cup (IF Children(p) # {} THEN {InitProc} ELSE {})
             W == Wakeup(state, C)
  <2>1. state' = [W EXCEPT ![p] = "ZOMBIE"]
    BY <1>1, <1>3, Zenon DEF Exit
  <2>2. /\ W \in [Slot -> States]
        /\ \A s \in Slot \ {p} :
              W[s] = IF ExitWakes(p, s) THEN "RUNNABLE" ELSE state[s]
    BY Zenon DEF Wakeup, ExitWakes, TypeOK, States, ExitStep
  <2> HIDE DEF W
  <2>3. /\ state' \in [Slot -> States] /\ state'[p] = "ZOMBIE"
        /\ \A s \in Slot \ {p} : state'[s] = W[s]
    BY <2>1, <2>2, Zenon DEF States
  <2>4. /\ parent' = [s \in Slot |-> IF parent[s] = p THEN InitProc ELSE parent[s]]
        /\ Sched /\ xstate' = [xstate EXCEPT ![p] = status]
        /\ UNCHANGED <<chan, pid, killed, userVars>>
    BY <1>1, <1>3, Zenon DEF Exit
  <2>5. parent' \in [Slot -> 0 .. NPROC]
    BY <2>4, ProcSizes DEF TypeOK, InitProc
  <2>6. ExitLeaves(p)
    BY <1>3, <2>2, <2>3, <2>4, <2>5, Zenon DEF ExitLeaves
  <2> QED BY <2>6, Zenon DEF ExitHere, ExitStep
<1> QED BY <1>2, <1>3, Zenon

-----------------------------------------------------------------------------
(* Interrupts *)

\* An interrupt only makes sleepers runnable, and all of those whose condition
\* it changes.
Interrupted ==
  /\ UNCHANGED <<chan, parent, killed, ticks0, dur>>
  /\ \A s \in Slot : state'[s] = "ZOMBIE" => state[s] = "ZOMBIE"
  /\ \A s \in Slot : state'[s] = "SLEEPING" =>
        /\ state[s] = "SLEEPING"
        /\ chan[s] = TicksChan => ticks' = ticks
        /\ chan[s] = ConsChan => line' = line

LEMMA WakeupEffect ==
  ASSUME TypeOK, CurInv, OneRunning, NEW C,
         NEW st \in [Slot -> States], \A s \in Slot : st[s] = "SLEEPING" => s # cur
  PROVE  /\ Wakeup(st, C) \in [Slot -> States]
         /\ \A s \in Slot : Wakeup(st, C)[s] = "SLEEPING" =>
               st[s] = "SLEEPING" /\ chan[s] \notin C
         /\ \A s \in Slot : Wakeup(st, C)[s] = "ZOMBIE" => st[s] = "ZOMBIE"
BY Zenon DEF Wakeup, States

LEMMA DevIntrEffect ==
  ASSUME ProcInv, DevIntr
  PROVE  Interrupted
<1> USE DEF ProcInv
<1>1. state \in [Slot -> States] /\ \A s \in Slot : state[s] = "SLEEPING" => s # cur
  BY SlotFacts, Zenon DEF TypeOK, CurInv, OneRunning
<1>2. PICK whole \in BOOLEAN :
         LET st == IF whole THEN Wakeup(state, {ConsChan}) ELSE state
         IN  /\ line' = (line \/ whole)
             /\ IF timer THEN ClockIntr(st)
                         ELSE state' = st /\ UNCHANGED <<ticks, timer>>
  BY Zenon DEF DevIntr
<1> DEFINE st == IF whole THEN Wakeup(state, {ConsChan}) ELSE state
<1>3. /\ st \in [Slot -> States]
      /\ \A s \in Slot : st[s] = "ZOMBIE" => state[s] = "ZOMBIE"
      /\ \A s \in Slot : st[s] = "SLEEPING" =>
            state[s] = "SLEEPING" /\ (whole => chan[s] # ConsChan)
  BY <1>1, WakeupEffect
<1>4. /\ line' = (line \/ whole)
      /\ IF timer THEN ClockIntr(st)
                  ELSE state' = st /\ UNCHANGED <<ticks, timer>>
  BY <1>2, Zenon
<1> HIDE DEF st
<1>5. \A s \in Slot : st[s] = "SLEEPING" => s # cur
  BY <1>1, <1>3, Zenon
<1>6. CASE timer
  <2>1. state' = Wakeup(st, {TicksChan})
    BY <1>4, <1>6, Zenon DEF ClockIntr
  <2> QED BY <1>3, <1>4, <1>5, <2>1, WakeupEffect DEF Interrupted, DevIntr, TypeOK
<1>7. CASE ~timer
  BY <1>3, <1>4, <1>7, Zenon DEF Interrupted, DevIntr, TypeOK
<1> QED BY <1>6, <1>7, Zenon

LEMMA InterruptedSleep ==
  ASSUME ProcInv, Interrupted
  PROVE  SleepInv'
BY ZenonT(30) DEF ProcInv, SleepInv, Waits, Elapsed, Interrupted

-----------------------------------------------------------------------------
(* One lemma for each conjunct: every step keeps it. *)

\* The cpu and c->proc change together.
LEMMA StepCur ==
  ASSUME ProcInv, Next
  PROVE  CurInv'
<1> USE DEF ProcInv, TypeOK, CurInv, NoSlot,
       procVars, userVars, schedVars, devVars
<1>1. ASSUME TimerFires PROVE CurInv'
  BY <1>1, SlotFacts, Zenon DEF TimerFires
<1>2. ASSUME DeviceRaises PROVE CurInv'
  BY <1>2, SlotFacts, Zenon DEF DeviceRaises
<1>3. ASSUME Dispatch PROVE CurInv'
  BY <1>3, ProcSizes DEF Dispatch, Slot
<1>4. ASSUME ScanNext PROVE CurInv'
  BY <1>4, SlotFacts, Zenon DEF ScanNext
<1>5. ASSUME ScanAgain PROVE CurInv'
  BY <1>5, SlotFacts, Zenon DEF ScanAgain
<1>6. ASSUME Wfi PROVE CurInv'
  BY <1>6, SlotFacts, Zenon DEF Wfi
<1>7. ASSUME KernelIntr PROVE CurInv'
  BY <1>7, SlotFacts, Zenon DEF KernelIntr, DevIntr, ClockIntr, Wakeup
<1>8. ASSUME WakeIntr PROVE CurInv'
  BY <1>8, SlotFacts, Zenon DEF WakeIntr, DevIntr, ClockIntr, Wakeup
<1>9. ASSUME UserIntr PROVE CurInv'
  BY <1>9, SlotFacts, Zenon DEF UserIntr, DevIntr, ClockIntr, Wakeup
<1>10. ASSUME NEW p \in Slot, ExitStep(p) PROVE CurInv'
  <2>1. ExitHere(p)
    BY <1>10, ExitEffect, Zenon
  <2> QED BY <2>1, SlotFacts, Zenon DEF ExitHere, ExitPanics, ExitLeaves, Sched
<1>11. ASSUME NEW p \in Slot, Fault(p) PROVE CurInv'
  BY <1>11, SlotFacts, Zenon DEF Fault, In
<1>12. ASSUME NEW p \in Slot, Getpid(p) PROVE CurInv'
  BY <1>12, SlotFacts, Zenon DEF Getpid, Call, In, Return
<1>13. ASSUME NEW p \in Slot, Fork(p) PROVE CurInv'
  BY <1>13, FirstUnused, SlotFacts, Zenon DEF Fork, Call, In
<1>14. ASSUME NEW p \in Slot, ForkNoMemory(p) PROVE CurInv'
  BY <1>14, FirstUnused, SlotFacts, Zenon DEF ForkNoMemory, Call, In, Return
<1>15. ASSUME NEW p \in Slot, ForkNoSlot(p) PROVE CurInv'
  BY <1>15, SlotFacts, Zenon DEF ForkNoSlot, Call, In, Return
<1>16. ASSUME NEW p \in Slot, SysWait(p) PROVE CurInv'
  BY <1>16, SlotFacts, Zenon DEF SysWait, Call, In
<1>17. ASSUME NEW p \in Slot, SysPause(p) PROVE CurInv'
  BY <1>17, SlotFacts, Zenon DEF SysPause, Call, In
<1>18. ASSUME NEW p \in Slot, SysKill(p) PROVE CurInv'
  BY <1>18, FirstPid, SlotFacts, Zenon DEF SysKill, Call, In, Return
<1>19. ASSUME NEW p \in Slot, SysRead(p) PROVE CurInv'
  BY <1>19, SlotFacts, Zenon DEF SysRead, Call, In
<1>20. ASSUME NEW p \in Slot, TailYield(p) PROVE CurInv'
  BY <1>20, SlotFacts, Zenon DEF TailYield, InTail, In, ClockIntr, Wakeup, Sched
<1>21. ASSUME NEW p \in Slot, TailReturn(p) PROVE CurInv'
  BY <1>21, SlotFacts, Zenon DEF TailReturn, InTail, In
<1>22. ASSUME NEW p \in Slot, WaitReap(p) PROVE CurInv'
  BY <1>22, FirstZombie, SlotFacts, Zenon DEF WaitReap, In, Return
<1>23. ASSUME NEW p \in Slot, WaitFail(p) PROVE CurInv'
  BY <1>23, SlotFacts, Zenon DEF WaitFail, In, Return
<1>24. ASSUME NEW p \in Slot, WaitSleep(p) PROVE CurInv'
  BY <1>24, SlotFacts, Zenon DEF WaitSleep, In, Sleep, Sched
<1>25. ASSUME NEW p \in Slot, PauseReturn(p) PROVE CurInv'
  BY <1>25, SlotFacts, Zenon DEF PauseReturn, In, Return
<1>26. ASSUME NEW p \in Slot, PauseSleep(p) PROVE CurInv'
  BY <1>26, SlotFacts, Zenon DEF PauseSleep, In, Sleep, Sched
<1>27. ASSUME NEW p \in Slot, ReadReturn(p) PROVE CurInv'
  BY <1>27, SlotFacts, Zenon DEF ReadReturn, In, Return
<1>28. ASSUME NEW p \in Slot, ReadMore(p) PROVE CurInv'
  BY <1>28, SlotFacts, Zenon DEF ReadMore, In
<1>29. ASSUME NEW p \in Slot, ReadSleep(p) PROVE CurInv'
  BY <1>29, SlotFacts, Zenon DEF ReadSleep, In, Sleep, Sched
<1> QED BY <1>1, <1>2, <1>3, <1>4, <1>5, <1>6, <1>7, <1>8, <1>9, <1>10, <1>11,
       <1>12, <1>13, <1>14, <1>15, <1>16, <1>17, <1>18, <1>19, <1>20, <1>21,
       <1>22, <1>23, <1>24, <1>25, <1>26, <1>27, <1>28, <1>29, ExitSteps, Zenon
        DEF Next, SchedStep, Interrupt, UserTrap, KernelStep

\* A process is RUNNING from dispatch to sched.
LEMMA StepRunning ==
  ASSUME ProcInv, Next
  PROVE  OneRunning'
<1> USE DEF ProcInv, TypeOK, CurInv, OneRunning, States,
       procVars, userVars, schedVars, devVars
<1>1. ASSUME TimerFires PROVE OneRunning'
  BY <1>1, SlotFacts, Zenon DEF TimerFires
<1>2. ASSUME DeviceRaises PROVE OneRunning'
  BY <1>2, SlotFacts, Zenon DEF DeviceRaises
<1>3. ASSUME Dispatch PROVE OneRunning'
  BY <1>3, SlotFacts, Zenon DEF Dispatch
<1>4. ASSUME ScanNext PROVE OneRunning'
  BY <1>4, SlotFacts, Zenon DEF ScanNext
<1>5. ASSUME ScanAgain PROVE OneRunning'
  BY <1>5, SlotFacts, Zenon DEF ScanAgain
<1>6. ASSUME Wfi PROVE OneRunning'
  BY <1>6, SlotFacts, Zenon DEF Wfi
<1>7. ASSUME KernelIntr PROVE OneRunning'
  BY <1>7, SlotFacts DEF KernelIntr, DevIntr, ClockIntr, Wakeup
<1>8. ASSUME WakeIntr PROVE OneRunning'
  BY <1>8, SlotFacts DEF WakeIntr, DevIntr, ClockIntr, Wakeup
<1>9. ASSUME UserIntr PROVE OneRunning'
  BY <1>9, SlotFacts DEF UserIntr, DevIntr, ClockIntr, Wakeup
<1>10. ASSUME NEW p \in Slot, ExitStep(p) PROVE OneRunning'
  <2>1. ExitHere(p)
    BY <1>10, ExitEffect, Zenon
  <2> QED BY <2>1, SlotFacts, Zenon DEF ExitHere, ExitPanics, ExitLeaves, Sched
<1>11. ASSUME NEW p \in Slot, Fault(p) PROVE OneRunning'
  BY <1>11, SlotFacts, Zenon DEF Fault, In
<1>12. ASSUME NEW p \in Slot, Getpid(p) PROVE OneRunning'
  BY <1>12, SlotFacts, Zenon DEF Getpid, Call, In, Return
<1>13. ASSUME NEW p \in Slot, Fork(p) PROVE OneRunning'
  BY <1>13, FirstUnused, SlotFacts, Zenon DEF Fork, Call, In
<1>14. ASSUME NEW p \in Slot, ForkNoMemory(p) PROVE OneRunning'
  BY <1>14, FirstUnused, SlotFacts, Zenon DEF ForkNoMemory, Call, In, Return
<1>15. ASSUME NEW p \in Slot, ForkNoSlot(p) PROVE OneRunning'
  BY <1>15, SlotFacts, Zenon DEF ForkNoSlot, Call, In, Return
<1>16. ASSUME NEW p \in Slot, SysWait(p) PROVE OneRunning'
  BY <1>16, SlotFacts, Zenon DEF SysWait, Call, In
<1>17. ASSUME NEW p \in Slot, SysPause(p) PROVE OneRunning'
  BY <1>17, SlotFacts, Zenon DEF SysPause, Call, In
<1>18. ASSUME NEW p \in Slot, SysKill(p) PROVE OneRunning'
  BY <1>18, FirstPid, SlotFacts DEF SysKill, Call, In, Return
<1>19. ASSUME NEW p \in Slot, SysRead(p) PROVE OneRunning'
  BY <1>19, SlotFacts, Zenon DEF SysRead, Call, In
<1>20. ASSUME NEW p \in Slot, TailYield(p) PROVE OneRunning'
  BY <1>20, SlotFacts, Zenon DEF TailYield, InTail, In, ClockIntr, Wakeup, Sched
<1>21. ASSUME NEW p \in Slot, TailReturn(p) PROVE OneRunning'
  BY <1>21, SlotFacts, Zenon DEF TailReturn, InTail, In
<1>22. ASSUME NEW p \in Slot, WaitReap(p) PROVE OneRunning'
  BY <1>22, FirstZombie, SlotFacts, ZenonT(30) DEF WaitReap, In, Return
<1>23. ASSUME NEW p \in Slot, WaitFail(p) PROVE OneRunning'
  BY <1>23, SlotFacts, Zenon DEF WaitFail, In, Return
<1>24. ASSUME NEW p \in Slot, WaitSleep(p) PROVE OneRunning'
  BY <1>24, SlotFacts, Zenon DEF WaitSleep, In, Sleep, Sched
<1>25. ASSUME NEW p \in Slot, PauseReturn(p) PROVE OneRunning'
  BY <1>25, SlotFacts, Zenon DEF PauseReturn, In, Return
<1>26. ASSUME NEW p \in Slot, PauseSleep(p) PROVE OneRunning'
  BY <1>26, SlotFacts, Zenon DEF PauseSleep, In, Sleep, Sched
<1>27. ASSUME NEW p \in Slot, ReadReturn(p) PROVE OneRunning'
  BY <1>27, SlotFacts, Zenon DEF ReadReturn, In, Return
<1>28. ASSUME NEW p \in Slot, ReadMore(p) PROVE OneRunning'
  BY <1>28, SlotFacts, Zenon DEF ReadMore, In
<1>29. ASSUME NEW p \in Slot, ReadSleep(p) PROVE OneRunning'
  BY <1>29, SlotFacts, Zenon DEF ReadSleep, In, Sleep, Sched
<1> QED BY <1>1, <1>2, <1>3, <1>4, <1>5, <1>6, <1>7, <1>8, <1>9, <1>10, <1>11,
       <1>12, <1>13, <1>14, <1>15, <1>16, <1>17, <1>18, <1>19, <1>20, <1>21,
       <1>22, <1>23, <1>24, <1>25, <1>26, <1>27, <1>28, <1>29, ExitSteps, ZenonT(30)
        DEF Next, SchedStep, Interrupt, UserTrap, KernelStep

\* Exits leave init alone and freeproc clears parent.
LEMMA StepTree ==
  ASSUME ProcInv, Next
  PROVE  TreeInv'
<1> USE DEF ProcInv, TypeOK, CurInv, OneRunning, TreeInv, Live, States,
       procVars, userVars, schedVars, devVars
<1>1. ASSUME TimerFires PROVE TreeInv'
  BY <1>1, SlotFacts, Zenon DEF TimerFires
<1>2. ASSUME DeviceRaises PROVE TreeInv'
  BY <1>2, SlotFacts, Zenon DEF DeviceRaises
<1>3. ASSUME Dispatch PROVE TreeInv'
  BY <1>3, SlotFacts, Zenon DEF Dispatch
<1>4. ASSUME ScanNext PROVE TreeInv'
  BY <1>4, SlotFacts, Zenon DEF ScanNext
<1>5. ASSUME ScanAgain PROVE TreeInv'
  BY <1>5, SlotFacts, Zenon DEF ScanAgain
<1>6. ASSUME Wfi PROVE TreeInv'
  BY <1>6, SlotFacts, Zenon DEF Wfi
<1>7. ASSUME KernelIntr PROVE TreeInv'
  BY <1>7, SlotFacts, SMTT(30) DEF KernelIntr, DevIntr, ClockIntr, Wakeup
<1>8. ASSUME WakeIntr PROVE TreeInv'
  BY <1>8, SlotFacts, SMTT(30) DEF WakeIntr, DevIntr, ClockIntr, Wakeup
<1>9. ASSUME UserIntr PROVE TreeInv'
  BY <1>9, SlotFacts, SMTT(30) DEF UserIntr, DevIntr, ClockIntr, Wakeup
<1>10. ASSUME NEW p \in Slot, ExitStep(p) PROVE TreeInv'
  <2>1. ExitHere(p)
    BY <1>10, ExitEffect, Zenon
  <2> QED BY <2>1, SlotFacts, SMTT(30) DEF ExitHere, ExitPanics, ExitLeaves, ExitWakes, Sched
<1>11. ASSUME NEW p \in Slot, Fault(p) PROVE TreeInv'
  BY <1>11, SlotFacts, Zenon DEF Fault, In
<1>12. ASSUME NEW p \in Slot, Getpid(p) PROVE TreeInv'
  BY <1>12, SlotFacts, Zenon DEF Getpid, Call, In, Return
<1>13. ASSUME NEW p \in Slot, Fork(p) PROVE TreeInv'
  BY <1>13, FirstUnused, SlotFacts, Zenon DEF Fork, Call, In
<1>14. ASSUME NEW p \in Slot, ForkNoMemory(p) PROVE TreeInv'
  BY <1>14, FirstUnused, SlotFacts, Zenon DEF ForkNoMemory, Call, In, Return
<1>15. ASSUME NEW p \in Slot, ForkNoSlot(p) PROVE TreeInv'
  BY <1>15, SlotFacts, Zenon DEF ForkNoSlot, Call, In, Return
<1>16. ASSUME NEW p \in Slot, SysWait(p) PROVE TreeInv'
  BY <1>16, SlotFacts, Zenon DEF SysWait, Call, In
<1>17. ASSUME NEW p \in Slot, SysPause(p) PROVE TreeInv'
  BY <1>17, SlotFacts, Zenon DEF SysPause, Call, In
<1>18. ASSUME NEW p \in Slot, SysKill(p) PROVE TreeInv'
  BY <1>18, FirstPid, SlotFacts, SMTT(30) DEF SysKill, Call, In, Return
<1>19. ASSUME NEW p \in Slot, SysRead(p) PROVE TreeInv'
  BY <1>19, SlotFacts, Zenon DEF SysRead, Call, In
<1>20. ASSUME NEW p \in Slot, TailYield(p) PROVE TreeInv'
  BY <1>20, SlotFacts, ZenonT(30) DEF TailYield, InTail, In, ClockIntr, Wakeup, Sched
<1>21. ASSUME NEW p \in Slot, TailReturn(p) PROVE TreeInv'
  BY <1>21, SlotFacts, Zenon DEF TailReturn, InTail, In
<1>22. ASSUME NEW p \in Slot, WaitReap(p) PROVE TreeInv'
  BY <1>22, FirstZombie, SlotFacts, SMTT(30) DEF WaitReap, In, Return
<1>23. ASSUME NEW p \in Slot, WaitFail(p) PROVE TreeInv'
  BY <1>23, SlotFacts, Zenon DEF WaitFail, In, Return
<1>24. ASSUME NEW p \in Slot, WaitSleep(p) PROVE TreeInv'
  BY <1>24, SlotFacts, Zenon DEF WaitSleep, In, Sleep, Sched
<1>25. ASSUME NEW p \in Slot, PauseReturn(p) PROVE TreeInv'
  BY <1>25, SlotFacts, Zenon DEF PauseReturn, In, Return
<1>26. ASSUME NEW p \in Slot, PauseSleep(p) PROVE TreeInv'
  BY <1>26, SlotFacts, Zenon DEF PauseSleep, In, Sleep, Sched
<1>27. ASSUME NEW p \in Slot, ReadReturn(p) PROVE TreeInv'
  BY <1>27, SlotFacts, Zenon DEF ReadReturn, In, Return
<1>28. ASSUME NEW p \in Slot, ReadMore(p) PROVE TreeInv'
  BY <1>28, SlotFacts, Zenon DEF ReadMore, In
<1>29. ASSUME NEW p \in Slot, ReadSleep(p) PROVE TreeInv'
  BY <1>29, SlotFacts, Zenon DEF ReadSleep, In, Sleep, Sched
<1> QED BY <1>1, <1>2, <1>3, <1>4, <1>5, <1>6, <1>7, <1>8, <1>9, <1>10, <1>11,
       <1>12, <1>13, <1>14, <1>15, <1>16, <1>17, <1>18, <1>19, <1>20, <1>21,
       <1>22, <1>23, <1>24, <1>25, <1>26, <1>27, <1>28, <1>29, ExitSteps, ZenonT(30)
        DEF Next, SchedStep, Interrupt, UserTrap, KernelStep

\* Parents are live: reparent, fork and kwait.
LEMMA StepParents ==
  ASSUME ProcInv, Next
  PROVE  ParentsLive'
<1> USE DEF ProcInv, TypeOK, CurInv, OneRunning, TreeInv, ParentsLive, Live, States,
       procVars, userVars, schedVars, devVars
<1>1. ASSUME TimerFires PROVE ParentsLive'
  BY <1>1, SlotFacts, Zenon DEF TimerFires
<1>2. ASSUME DeviceRaises PROVE ParentsLive'
  BY <1>2, SlotFacts, Zenon DEF DeviceRaises
<1>3. ASSUME Dispatch PROVE ParentsLive'
  BY <1>3, SlotFacts, ZenonT(30) DEF Dispatch
<1>4. ASSUME ScanNext PROVE ParentsLive'
  BY <1>4, SlotFacts, Zenon DEF ScanNext
<1>5. ASSUME ScanAgain PROVE ParentsLive'
  BY <1>5, SlotFacts, Zenon DEF ScanAgain
<1>6. ASSUME Wfi PROVE ParentsLive'
  BY <1>6, SlotFacts, Zenon DEF Wfi
<1>7. ASSUME KernelIntr PROVE ParentsLive'
  BY <1>7, SlotFacts, SMTT(30) DEF KernelIntr, DevIntr, ClockIntr, Wakeup
<1>8. ASSUME WakeIntr PROVE ParentsLive'
  BY <1>8, SlotFacts, SMTT(30) DEF WakeIntr, DevIntr, ClockIntr, Wakeup
<1>9. ASSUME UserIntr PROVE ParentsLive'
  BY <1>9, SlotFacts DEF UserIntr, DevIntr, ClockIntr, Wakeup
<1>10. ASSUME NEW p \in Slot, ExitStep(p) PROVE ParentsLive'
  <2>1. ExitHere(p)
    BY <1>10, ExitEffect, Zenon
  <2> QED BY <2>1, SlotFacts DEF ExitHere, ExitPanics, ExitLeaves, ExitWakes, Sched
<1>11. ASSUME NEW p \in Slot, Fault(p) PROVE ParentsLive'
  BY <1>11, SlotFacts, Zenon DEF Fault, In
<1>12. ASSUME NEW p \in Slot, Getpid(p) PROVE ParentsLive'
  BY <1>12, SlotFacts, Zenon DEF Getpid, Call, In, Return
<1>13. ASSUME NEW p \in Slot, Fork(p) PROVE ParentsLive'
  BY <1>13, FirstUnused, SlotFacts, ZenonT(30) DEF Fork, Call, In
<1>14. ASSUME NEW p \in Slot, ForkNoMemory(p) PROVE ParentsLive'
  BY <1>14, FirstUnused, SlotFacts, Zenon DEF ForkNoMemory, Call, In, Return
<1>15. ASSUME NEW p \in Slot, ForkNoSlot(p) PROVE ParentsLive'
  BY <1>15, SlotFacts, Zenon DEF ForkNoSlot, Call, In, Return
<1>16. ASSUME NEW p \in Slot, SysWait(p) PROVE ParentsLive'
  BY <1>16, SlotFacts, Zenon DEF SysWait, Call, In
<1>17. ASSUME NEW p \in Slot, SysPause(p) PROVE ParentsLive'
  BY <1>17, SlotFacts, Zenon DEF SysPause, Call, In
<1>18. ASSUME NEW p \in Slot, SysKill(p) PROVE ParentsLive'
  BY <1>18, FirstPid, SlotFacts, SMTT(30) DEF SysKill, Call, In, Return
<1>19. ASSUME NEW p \in Slot, SysRead(p) PROVE ParentsLive'
  BY <1>19, SlotFacts, Zenon DEF SysRead, Call, In
<1>20. ASSUME NEW p \in Slot, TailYield(p) PROVE ParentsLive'
  BY <1>20, SlotFacts DEF TailYield, InTail, In, ClockIntr, Wakeup, Sched
<1>21. ASSUME NEW p \in Slot, TailReturn(p) PROVE ParentsLive'
  BY <1>21, SlotFacts, Zenon DEF TailReturn, InTail, In
<1>22. ASSUME NEW p \in Slot, WaitReap(p) PROVE ParentsLive'
  BY <1>22, FirstZombie, SlotFacts, SMTT(30) DEF WaitReap, In, Return
<1>23. ASSUME NEW p \in Slot, WaitFail(p) PROVE ParentsLive'
  BY <1>23, SlotFacts, Zenon DEF WaitFail, In, Return
<1>24. ASSUME NEW p \in Slot, WaitSleep(p) PROVE ParentsLive'
  BY <1>24, SlotFacts, ZenonT(30) DEF WaitSleep, In, Sleep, Sched
<1>25. ASSUME NEW p \in Slot, PauseReturn(p) PROVE ParentsLive'
  BY <1>25, SlotFacts, Zenon DEF PauseReturn, In, Return
<1>26. ASSUME NEW p \in Slot, PauseSleep(p) PROVE ParentsLive'
  BY <1>26, SlotFacts, ZenonT(30) DEF PauseSleep, In, Sleep, Sched
<1>27. ASSUME NEW p \in Slot, ReadReturn(p) PROVE ParentsLive'
  BY <1>27, SlotFacts, Zenon DEF ReadReturn, In, Return
<1>28. ASSUME NEW p \in Slot, ReadMore(p) PROVE ParentsLive'
  BY <1>28, SlotFacts, Zenon DEF ReadMore, In
<1>29. ASSUME NEW p \in Slot, ReadSleep(p) PROVE ParentsLive'
  BY <1>29, SlotFacts, ZenonT(60) DEF ReadSleep, In, Sleep, Sched
<1> QED BY <1>1, <1>2, <1>3, <1>4, <1>5, <1>6, <1>7, <1>8, <1>9, <1>10, <1>11,
       <1>12, <1>13, <1>14, <1>15, <1>16, <1>17, <1>18, <1>19, <1>20, <1>21,
       <1>22, <1>23, <1>24, <1>25, <1>26, <1>27, <1>28, <1>29, ExitSteps, ZenonT(30)
        DEF Next, SchedStep, Interrupt, UserTrap, KernelStep

\* Pids are fresh at fork and go with freeproc.
LEMMA StepPids ==
  ASSUME ProcInv, Next
  PROVE  PidsNameProcesses'
<1> USE DEF ProcInv, TypeOK, CurInv, OneRunning, PidsNameProcesses, States,
       procVars, userVars, schedVars, devVars
<1>1. ASSUME TimerFires PROVE PidsNameProcesses'
  BY <1>1, SlotFacts, Zenon DEF TimerFires
<1>2. ASSUME DeviceRaises PROVE PidsNameProcesses'
  BY <1>2, SlotFacts, Zenon DEF DeviceRaises
<1>3. ASSUME Dispatch PROVE PidsNameProcesses'
  BY <1>3, SlotFacts, Zenon DEF Dispatch
<1>4. ASSUME ScanNext PROVE PidsNameProcesses'
  BY <1>4, SlotFacts, Zenon DEF ScanNext
<1>5. ASSUME ScanAgain PROVE PidsNameProcesses'
  BY <1>5, SlotFacts, Zenon DEF ScanAgain
<1>6. ASSUME Wfi PROVE PidsNameProcesses'
  BY <1>6, SlotFacts, Zenon DEF Wfi
<1>7. ASSUME KernelIntr PROVE PidsNameProcesses'
  BY <1>7, SlotFacts, SMTT(30) DEF KernelIntr, DevIntr, ClockIntr, Wakeup
<1>8. ASSUME WakeIntr PROVE PidsNameProcesses'
  BY <1>8, SlotFacts, SMTT(30) DEF WakeIntr, DevIntr, ClockIntr, Wakeup
<1>9. ASSUME UserIntr PROVE PidsNameProcesses'
  BY <1>9, SlotFacts, SMTT(30) DEF UserIntr, DevIntr, ClockIntr, Wakeup
<1>10. ASSUME NEW p \in Slot, ExitStep(p) PROVE PidsNameProcesses'
  <2>1. ExitHere(p)
    BY <1>10, ExitEffect, Zenon
  <2> QED BY <2>1, SlotFacts DEF ExitHere, ExitPanics, ExitLeaves, ExitWakes, Sched
<1>11. ASSUME NEW p \in Slot, Fault(p) PROVE PidsNameProcesses'
  BY <1>11, SlotFacts, Zenon DEF Fault, In
<1>12. ASSUME NEW p \in Slot, Getpid(p) PROVE PidsNameProcesses'
  BY <1>12, SlotFacts, Zenon DEF Getpid, Call, In, Return
<1>13. ASSUME NEW p \in Slot, Fork(p) PROVE PidsNameProcesses'
  BY <1>13, FirstUnused, SlotFacts, SMTT(30) DEF Fork, Call, In
<1>14. ASSUME NEW p \in Slot, ForkNoMemory(p) PROVE PidsNameProcesses'
  BY <1>14, FirstUnused, SlotFacts, SMTT(30) DEF ForkNoMemory, Call, In, Return
<1>15. ASSUME NEW p \in Slot, ForkNoSlot(p) PROVE PidsNameProcesses'
  BY <1>15, SlotFacts, Zenon DEF ForkNoSlot, Call, In, Return
<1>16. ASSUME NEW p \in Slot, SysWait(p) PROVE PidsNameProcesses'
  BY <1>16, SlotFacts, Zenon DEF SysWait, Call, In
<1>17. ASSUME NEW p \in Slot, SysPause(p) PROVE PidsNameProcesses'
  BY <1>17, SlotFacts, Zenon DEF SysPause, Call, In
<1>18. ASSUME NEW p \in Slot, SysKill(p) PROVE PidsNameProcesses'
  BY <1>18, FirstPid, SlotFacts, SMTT(30) DEF SysKill, Call, In, Return
<1>19. ASSUME NEW p \in Slot, SysRead(p) PROVE PidsNameProcesses'
  BY <1>19, SlotFacts, Zenon DEF SysRead, Call, In
<1>20. ASSUME NEW p \in Slot, TailYield(p) PROVE PidsNameProcesses'
  BY <1>20, SlotFacts, ZenonT(30) DEF TailYield, InTail, In, ClockIntr, Wakeup, Sched
<1>21. ASSUME NEW p \in Slot, TailReturn(p) PROVE PidsNameProcesses'
  BY <1>21, SlotFacts, Zenon DEF TailReturn, InTail, In
<1>22. ASSUME NEW p \in Slot, WaitReap(p) PROVE PidsNameProcesses'
  BY <1>22, FirstZombie, SlotFacts, SMTT(30) DEF WaitReap, In, Return
<1>23. ASSUME NEW p \in Slot, WaitFail(p) PROVE PidsNameProcesses'
  BY <1>23, SlotFacts, Zenon DEF WaitFail, In, Return
<1>24. ASSUME NEW p \in Slot, WaitSleep(p) PROVE PidsNameProcesses'
  BY <1>24, SlotFacts, Zenon DEF WaitSleep, In, Sleep, Sched
<1>25. ASSUME NEW p \in Slot, PauseReturn(p) PROVE PidsNameProcesses'
  BY <1>25, SlotFacts, Zenon DEF PauseReturn, In, Return
<1>26. ASSUME NEW p \in Slot, PauseSleep(p) PROVE PidsNameProcesses'
  BY <1>26, SlotFacts, Zenon DEF PauseSleep, In, Sleep, Sched
<1>27. ASSUME NEW p \in Slot, ReadReturn(p) PROVE PidsNameProcesses'
  BY <1>27, SlotFacts, Zenon DEF ReadReturn, In, Return
<1>28. ASSUME NEW p \in Slot, ReadMore(p) PROVE PidsNameProcesses'
  BY <1>28, SlotFacts, Zenon DEF ReadMore, In
<1>29. ASSUME NEW p \in Slot, ReadSleep(p) PROVE PidsNameProcesses'
  BY <1>29, SlotFacts, Zenon DEF ReadSleep, In, Sleep, Sched
<1> QED BY <1>1, <1>2, <1>3, <1>4, <1>5, <1>6, <1>7, <1>8, <1>9, <1>10, <1>11,
       <1>12, <1>13, <1>14, <1>15, <1>16, <1>17, <1>18, <1>19, <1>20, <1>21,
       <1>22, <1>23, <1>24, <1>25, <1>26, <1>27, <1>28, <1>29, ExitSteps, Zenon
        DEF Next, SchedStep, Interrupt, UserTrap, KernelStep

\* Whoever makes a condition true wakes its sleepers.
LEMMA StepSleep ==
  ASSUME ProcInv, Next
  PROVE  SleepInv'
<1> USE DEF ProcInv, TypeOK, CurInv, OneRunning, TreeInv, ParentsLive,
            SleepInv, Waits, Live, States, Elapsed,
       procVars, userVars, schedVars, devVars
<1>1. ASSUME TimerFires PROVE SleepInv'
  BY <1>1, SlotFacts, SMTT(30) DEF TimerFires
<1>2. ASSUME DeviceRaises PROVE SleepInv'
  BY <1>2, SlotFacts, SMTT(30) DEF DeviceRaises
<1>3. ASSUME Dispatch PROVE SleepInv'
  BY <1>3, SlotFacts, SMTT(30) DEF Dispatch
<1>4. ASSUME ScanNext PROVE SleepInv'
  BY <1>4, SlotFacts, SMTT(30) DEF ScanNext
<1>5. ASSUME ScanAgain PROVE SleepInv'
  BY <1>5, SlotFacts, SMTT(30) DEF ScanAgain
<1>6. ASSUME Wfi PROVE SleepInv'
  BY <1>6, SlotFacts, SMTT(30) DEF Wfi
<1>7. ASSUME KernelIntr PROVE SleepInv'
  BY <1>7, DevIntrEffect, InterruptedSleep, Zenon DEF KernelIntr
<1>8. ASSUME WakeIntr PROVE SleepInv'
  BY <1>8, DevIntrEffect, InterruptedSleep, Zenon DEF WakeIntr
<1>9. ASSUME UserIntr PROVE SleepInv'
  BY <1>9, DevIntrEffect, InterruptedSleep, Zenon DEF UserIntr
<1>10. ASSUME NEW p \in Slot, ExitStep(p) PROVE SleepInv'
  <2>1. ExitHere(p)
    BY <1>10, ExitEffect, Zenon
  <2>2. CASE ExitPanics(p)
    BY <2>1, <2>2, SMTT(30) DEF ExitHere, ExitPanics
  <2>3. CASE ExitLeaves(p)
    <3> SUFFICES ASSUME NEW s \in Slot, state'[s] = "SLEEPING"
                 PROVE  Waits(s)'
      OBVIOUS
    <3>1. s # p /\ state[s] = "SLEEPING" /\ ~ExitWakes(p, s)
      BY <2>3, Zenon DEF ExitLeaves
    <3>2. /\ ~killed'[s] /\ (chan'[s] = TicksChan => ~Elapsed(s)')
          /\ (chan'[s] = ConsChan => ~line')
      BY <2>1, <2>3, <3>1, Zenon DEF ExitHere, ExitLeaves
    <3>3. ASSUME chan[s] = s PROVE \E c \in Slot : parent'[c] = s
      BY <2>3, <3>1, <3>3, SMTT(30) DEF ExitLeaves
    <3>4. ASSUME chan[s] = s, NEW c \in Slot, parent'[c] = s, state'[c] = "ZOMBIE"
          PROVE  FALSE
      <4>1. parent[c] = s \/ (parent[c] = p /\ s = InitProc)
        BY <2>3, <3>4, Zenon DEF ExitLeaves
      <4>2. CASE parent[c] = p /\ s = InitProc
        BY <3>1, <3>4, <4>2, Zenon DEF ExitWakes, Children
      <4>3. CASE parent[c] = s /\ c = p
        BY <3>1, <3>4, <4>3, Zenon DEF ExitWakes
      <4>4. CASE parent[c] = s /\ c # p
        BY <2>3, <3>1, <3>4, <4>4, SMTT(30) DEF ExitLeaves
      <4> QED BY <4>1, <4>2, <4>3, <4>4, Zenon
    <3>5. chan'[s] = chan[s]
      BY <2>3, Zenon DEF ExitLeaves
    <3> QED BY <3>2, <3>3, <3>4, <3>5, Zenon
  <2> QED BY <2>1, <2>2, <2>3, Zenon DEF ExitHere
<1>11. ASSUME NEW p \in Slot, Fault(p) PROVE SleepInv'
  BY <1>11, SlotFacts, SMTT(30) DEF Fault, In
<1>12. ASSUME NEW p \in Slot, Getpid(p) PROVE SleepInv'
  BY <1>12, SlotFacts, SMTT(30) DEF Getpid, Call, In, Return
<1>13. ASSUME NEW p \in Slot, Fork(p) PROVE SleepInv'
  BY <1>13, FirstUnused, SlotFacts, SMTT(30) DEF Fork, Call, In
<1>14. ASSUME NEW p \in Slot, ForkNoMemory(p) PROVE SleepInv'
  BY <1>14, FirstUnused, SlotFacts, SMTT(30) DEF ForkNoMemory, Call, In, Return
<1>15. ASSUME NEW p \in Slot, ForkNoSlot(p) PROVE SleepInv'
  BY <1>15, SlotFacts, SMTT(30) DEF ForkNoSlot, Call, In, Return
<1>16. ASSUME NEW p \in Slot, SysWait(p) PROVE SleepInv'
  BY <1>16, SlotFacts, SMTT(30) DEF SysWait, Call, In
<1>17. ASSUME NEW p \in Slot, SysPause(p) PROVE SleepInv'
  BY <1>17, SlotFacts, SMTT(30) DEF SysPause, Call, In
<1>18. ASSUME NEW p \in Slot, SysKill(p) PROVE SleepInv'
  BY <1>18, FirstPid, SlotFacts, SMTT(30) DEF SysKill, Call, In, Return
<1>19. ASSUME NEW p \in Slot, SysRead(p) PROVE SleepInv'
  BY <1>19, SlotFacts, SMTT(30) DEF SysRead, Call, In
<1>20. ASSUME NEW p \in Slot, TailYield(p) PROVE SleepInv'
  <2> DEFINE st == [state EXCEPT ![p] = "RUNNABLE"]
  <2>1. /\ st \in [Slot -> States] /\ \A s \in Slot : st[s] = "SLEEPING" => s # cur
        /\ \A s \in Slot : st[s] = "SLEEPING" => state[s] = "SLEEPING"
        /\ \A s \in Slot : st[s] = "ZOMBIE" => state[s] = "ZOMBIE"
        /\ UNCHANGED <<chan, parent, killed, ticks0, dur, line>>
    BY <1>20, SMTT(30) DEF TailYield, InTail, In
  <2>2. (state' = st /\ UNCHANGED ticks) \/ state' = Wakeup(st, {TicksChan})
    BY <1>20, Zenon DEF TailYield, ClockIntr
  <2> HIDE DEF st
  <2>3. Interrupted
    BY <2>1, <2>2, WakeupEffect, SMTT(30) DEF Interrupted
  <2> QED BY <2>3, InterruptedSleep, Zenon
<1>21. ASSUME NEW p \in Slot, TailReturn(p) PROVE SleepInv'
  BY <1>21, SlotFacts, SMTT(30) DEF TailReturn, InTail, In
<1>22. ASSUME NEW p \in Slot, WaitReap(p) PROVE SleepInv'
  BY <1>22, FirstZombie, SlotFacts, SMTT(30) DEF WaitReap, In, Return
<1>23. ASSUME NEW p \in Slot, WaitFail(p) PROVE SleepInv'
  BY <1>23, SlotFacts, SMTT(30) DEF WaitFail, In, Return
<1>24. ASSUME NEW p \in Slot, WaitSleep(p) PROVE SleepInv'
  <2>1. state' = [state EXCEPT ![p] = "SLEEPING"] /\ chan' = [chan EXCEPT ![p] = p]
    BY <1>24, Zenon DEF WaitSleep, Sleep
  <2>2. UNCHANGED <<parent, killed, ticks0, dur, ticks, line>>
    BY <1>24, Zenon DEF WaitSleep
  <2>3. \A s \in Slot \ {p} : state'[s] = "SLEEPING" => Waits(s)'
    BY <2>1, <2>2, SMTT(30)
  <2>4. /\ \E c \in Slot : parent[c] = p
        /\ \A c \in Slot : parent[c] = p => state[c] # "ZOMBIE"
        /\ ~killed[p]
    BY <1>24, SMTT(30) DEF WaitSleep, Children, Zombies
  <2>5. Waits(p)'
    BY <2>1, <2>2, <2>4, SlotFacts, SMTT(30)
  <2> QED BY <2>3, <2>5, SMTT(30)
<1>25. ASSUME NEW p \in Slot, PauseReturn(p) PROVE SleepInv'
  BY <1>25, SlotFacts, SMTT(30) DEF PauseReturn, In, Return
<1>26. ASSUME NEW p \in Slot, PauseSleep(p) PROVE SleepInv'
  BY <1>26, SlotFacts, SMTT(30) DEF PauseSleep, In, Sleep, Sched
<1>27. ASSUME NEW p \in Slot, ReadReturn(p) PROVE SleepInv'
  BY <1>27, SlotFacts, SMTT(30) DEF ReadReturn, In, Return
<1>28. ASSUME NEW p \in Slot, ReadMore(p) PROVE SleepInv'
  BY <1>28, SlotFacts, SMTT(30) DEF ReadMore, In
<1>29. ASSUME NEW p \in Slot, ReadSleep(p) PROVE SleepInv'
  BY <1>29, SlotFacts, SMTT(30) DEF ReadSleep, In, Sleep, Sched
<1> QED BY <1>1, <1>2, <1>3, <1>4, <1>5, <1>6, <1>7, <1>8, <1>9, <1>10, <1>11,
       <1>12, <1>13, <1>14, <1>15, <1>16, <1>17, <1>18, <1>19, <1>20, <1>21,
       <1>22, <1>23, <1>24, <1>25, <1>26, <1>27, <1>28, <1>29, ExitSteps, ZenonT(30)
        DEF Next, SchedStep, Interrupt, UserTrap, KernelStep

\* Every step keeps every variable in its type.
LEMMA StepType ==
  ASSUME ProcInv, Next
  PROVE  TypeOK'
<1> USE DEF ProcInv, TypeOK, States, Places,
       procVars, userVars, schedVars, devVars
<1>1. ASSUME TimerFires PROVE TypeOK'
  BY <1>1, RangeFacts, Zenon DEF TimerFires
<1>2. ASSUME DeviceRaises PROVE TypeOK'
  BY <1>2, RangeFacts, Zenon DEF DeviceRaises
<1>3. ASSUME Dispatch PROVE TypeOK'
  <2>1. state' \in [Slot -> States]
    BY <1>3, RangeFacts, Zenon DEF Dispatch
  <2>2. chan' \in [Slot -> 0 .. NPROC + 2]
    BY <1>3, RangeFacts, Zenon DEF Dispatch
  <2>3. cpu' \in {"scan", "run", "wfi", "panic"}
    BY <1>3, RangeFacts, Zenon DEF Dispatch
  <2>4. cur' \in 0 .. NPROC
    BY <1>3, RangeFacts, Zenon DEF Dispatch
  <2> QED BY <1>3, <2>1, <2>2, <2>3, <2>4, Zenon DEF Dispatch
<1>4. ASSUME ScanNext PROVE TypeOK'
  <2>1. idx' \in 1 .. NPROC + 1
    BY <1>4, RangeFacts, Zenon DEF ScanNext
  <2> QED BY <1>4, <2>1, Zenon DEF ScanNext
<1>5. ASSUME ScanAgain PROVE TypeOK'
  <2>1. idx' \in 1 .. NPROC + 1
    BY <1>5, RangeFacts, Zenon DEF ScanAgain
  <2>2. found' \in BOOLEAN
    BY <1>5, RangeFacts, Zenon DEF ScanAgain
  <2> QED BY <1>5, <2>1, <2>2, Zenon DEF ScanAgain
<1>6. ASSUME Wfi PROVE TypeOK'
  BY <1>6, RangeFacts, Zenon DEF Wfi
<1>7. ASSUME KernelIntr PROVE TypeOK'
  <2>1. state' \in [Slot -> States]
    BY <1>7, RangeFacts, TickFact, ZenonT(30) DEF KernelIntr, DevIntr, ClockIntr, Wakeup
  <2>2. ticks' \in 0 .. TICKS - 1
    BY <1>7, RangeFacts, TickFact, Zenon DEF KernelIntr, DevIntr, ClockIntr, Wakeup
  <2>3. timer' \in BOOLEAN
    BY <1>7, RangeFacts, TickFact, Zenon DEF KernelIntr, DevIntr, ClockIntr, Wakeup
  <2>4. irq' \in BOOLEAN
    BY <1>7, RangeFacts, TickFact, Zenon DEF KernelIntr, DevIntr, ClockIntr, Wakeup
  <2>5. line' \in BOOLEAN
    BY <1>7, RangeFacts, TickFact, Zenon DEF KernelIntr, DevIntr, ClockIntr, Wakeup
  <2> QED BY <1>7, <2>1, <2>2, <2>3, <2>4, <2>5, Zenon DEF KernelIntr, DevIntr,
         ClockIntr, Wakeup
<1>8. ASSUME WakeIntr PROVE TypeOK'
  <2>1. state' \in [Slot -> States]
    BY <1>8, RangeFacts, TickFact, Zenon DEF WakeIntr, DevIntr, ClockIntr, Wakeup
  <2>2. ticks' \in 0 .. TICKS - 1
    BY <1>8, RangeFacts, TickFact, Zenon DEF WakeIntr, DevIntr, ClockIntr, Wakeup
  <2>3. timer' \in BOOLEAN
    BY <1>8, RangeFacts, TickFact, Zenon DEF WakeIntr, DevIntr, ClockIntr, Wakeup
  <2>4. irq' \in BOOLEAN
    BY <1>8, RangeFacts, TickFact, Zenon DEF WakeIntr, DevIntr, ClockIntr, Wakeup
  <2>5. line' \in BOOLEAN
    BY <1>8, RangeFacts, TickFact, Zenon DEF WakeIntr, DevIntr, ClockIntr, Wakeup
  <2>6. cpu' \in {"scan", "run", "wfi", "panic"}
    BY <1>8, RangeFacts, TickFact, Zenon DEF WakeIntr, DevIntr, ClockIntr, Wakeup
  <2>7. cur' \in 0 .. NPROC
    BY <1>8, RangeFacts, TickFact, Zenon DEF WakeIntr, DevIntr, ClockIntr, Wakeup
  <2>8. idx' \in 1 .. NPROC + 1
    BY <1>8, RangeFacts, TickFact, Zenon DEF WakeIntr, DevIntr, ClockIntr, Wakeup
  <2>9. found' \in BOOLEAN
    BY <1>8, RangeFacts, TickFact, Zenon DEF WakeIntr, DevIntr, ClockIntr, Wakeup
  <2> QED BY <1>8, <2>1, <2>2, <2>3, <2>4, <2>5, <2>6, <2>7, <2>8, <2>9, Zenon
         DEF WakeIntr, DevIntr, ClockIntr, Wakeup
<1>9. ASSUME UserIntr PROVE TypeOK'
  <2>1. state' \in [Slot -> States]
    BY <1>9, RangeFacts, TickFact, ZenonT(30) DEF UserIntr, DevIntr, ClockIntr, Wakeup
  <2>2. ticks' \in 0 .. TICKS - 1
    BY <1>9, RangeFacts, TickFact, Zenon DEF UserIntr, DevIntr, ClockIntr, Wakeup
  <2>3. timer' \in BOOLEAN
    BY <1>9, RangeFacts, TickFact, Zenon DEF UserIntr, DevIntr, ClockIntr, Wakeup
  <2>4. irq' \in BOOLEAN
    BY <1>9, RangeFacts, TickFact, Zenon DEF UserIntr, DevIntr, ClockIntr, Wakeup
  <2>5. line' \in BOOLEAN
    BY <1>9, RangeFacts, TickFact, Zenon DEF UserIntr, DevIntr, ClockIntr, Wakeup
  <2>6. at' \in [Slot -> Places]
    BY <1>9, RangeFacts, TickFact, Zenon DEF UserIntr, DevIntr, ClockIntr, Wakeup
  <2> QED BY <1>9, <2>1, <2>2, <2>3, <2>4, <2>5, <2>6, Zenon DEF UserIntr,
         DevIntr, ClockIntr, Wakeup
<1>10. ASSUME NEW p \in Slot, ExitStep(p) PROVE TypeOK'
  <2>1. ExitHere(p)
    BY <1>10, ExitEffect, Zenon
  <2>2. CASE ExitPanics(p)
    BY <2>1, <2>2, Zenon DEF ExitHere, ExitPanics
  <2>3. CASE ExitLeaves(p)
    <3>1. xstate' \in [Slot -> {-1, 0}]
      BY <2>3, Zenon DEF ExitLeaves
    <3>2. /\ cur' \in 0 .. NPROC /\ idx' \in 1 .. NPROC + 1
          /\ found' \in BOOLEAN /\ cpu' = "scan"
      BY <2>1, <2>3, RangeFacts, Zenon DEF ExitHere, ExitLeaves, Sched
    <3> QED BY <2>1, <2>3, <3>1, <3>2, Zenon DEF ExitHere, ExitLeaves
  <2> QED BY <2>1, <2>2, <2>3, Zenon DEF ExitHere
<1>11. ASSUME NEW p \in Slot, Fault(p) PROVE TypeOK'
  <2>1. killed' \in [Slot -> BOOLEAN]
    BY <1>11, RangeFacts, Zenon DEF Fault, In
  <2>2. at' \in [Slot -> Places]
    BY <1>11, RangeFacts, Zenon DEF Fault, In
  <2> QED BY <1>11, <2>1, <2>2, Zenon DEF Fault, In
<1>12. ASSUME NEW p \in Slot, Getpid(p) PROVE TypeOK'
  BY <1>12, RangeFacts, Zenon DEF Getpid, Call, In, Return
<1>13. ASSUME NEW p \in Slot, Fork(p) PROVE TypeOK'
  <2>1. state' \in [Slot -> States]
    BY <1>13, RangeFacts, FirstUnused, Zenon DEF Fork, Call, In
  <2>2. pid' \in [Slot -> 0 .. MAXPID]
    BY <1>13, RangeFacts, FirstUnused, Zenon DEF Fork, Call, In
  <2>3. parent' \in [Slot -> 0 .. NPROC]
    BY <1>13, RangeFacts, FirstUnused, Zenon DEF Fork, Call, In
  <2>4. at' \in [Slot -> Places]
    BY <1>13, RangeFacts, FirstUnused, Zenon DEF Fork, Call, In
  <2>5. nextpid' \in 1 .. MAXPID + 1
    BY <1>13, RangeFacts, FirstUnused, Zenon DEF Fork, Call, In
  <2> QED BY <1>13, <2>1, <2>2, <2>3, <2>4, <2>5, Zenon DEF Fork, Call, In
<1>14. ASSUME NEW p \in Slot, ForkNoMemory(p) PROVE TypeOK'
  <2>1. killed' \in [Slot -> BOOLEAN]
    BY <1>14, RangeFacts, FirstUnused, Zenon DEF ForkNoMemory, Call, In, Return
  <2>2. nextpid' \in 1 .. MAXPID + 1
    BY <1>14, RangeFacts, FirstUnused, Zenon DEF ForkNoMemory, Call, In, Return
  <2>3. at' \in [Slot -> Places]
    BY <1>14, RangeFacts, FirstUnused, Zenon DEF ForkNoMemory, Call, In, Return
  <2> QED BY <1>14, <2>1, <2>2, <2>3, Zenon DEF ForkNoMemory, Call, In, Return
<1>15. ASSUME NEW p \in Slot, ForkNoSlot(p) PROVE TypeOK'
  BY <1>15, RangeFacts, Zenon DEF ForkNoSlot, Call, In, Return
<1>16. ASSUME NEW p \in Slot, SysWait(p) PROVE TypeOK'
  BY <1>16, RangeFacts, Zenon DEF SysWait, Call, In
<1>17. ASSUME NEW p \in Slot, SysPause(p) PROVE TypeOK'
  <2>1. dur' \in [Slot -> 0 .. MAXPAUSE]
    BY <1>17, RangeFacts, Zenon DEF SysPause, Call, In
  <2>2. ticks0' \in [Slot -> 0 .. TICKS - 1]
    BY <1>17, RangeFacts, Zenon DEF SysPause, Call, In
  <2>3. at' \in [Slot -> Places]
    BY <1>17, RangeFacts, Zenon DEF SysPause, Call, In
  <2> QED BY <1>17, <2>1, <2>2, <2>3, Zenon DEF SysPause, Call, In
<1>18. ASSUME NEW p \in Slot, SysKill(p) PROVE TypeOK'
  <2>1. state' \in [Slot -> States]
    BY <1>18, RangeFacts, FirstPid, SMTT(30) DEF SysKill, Call, In, Return
  <2>2. killed' \in [Slot -> BOOLEAN]
    <3>1. killed' = killed \/ \E v : killed' = [killed EXCEPT ![v] = TRUE]
      BY <1>18, Zenon DEF SysKill
    <3> QED BY <3>1, Zenon
  <2>3. at' \in [Slot -> Places]
    BY <1>18, RangeFacts, FirstPid, Zenon DEF SysKill, Call, In, Return
  <2> QED BY <1>18, <2>1, <2>2, <2>3, ZenonT(30) DEF SysKill, Call, In, Return
<1>19. ASSUME NEW p \in Slot, SysRead(p) PROVE TypeOK'
  BY <1>19, RangeFacts, Zenon DEF SysRead, Call, In
<1>20. ASSUME NEW p \in Slot, TailYield(p) PROVE TypeOK'
  <2>1. state' \in [Slot -> States]
    BY <1>20, RangeFacts, TickFact, Zenon DEF TailYield, InTail, In, ClockIntr, Wakeup, Sched
  <2>2. ticks' \in 0 .. TICKS - 1
    BY <1>20, RangeFacts, TickFact, Zenon DEF TailYield, InTail, In, ClockIntr, Wakeup, Sched
  <2>3. timer' \in BOOLEAN
    BY <1>20, RangeFacts, TickFact, Zenon DEF TailYield, InTail, In, ClockIntr, Wakeup, Sched
  <2>4. at' \in [Slot -> Places]
    BY <1>20, RangeFacts, TickFact, Zenon DEF TailYield, InTail, In, ClockIntr, Wakeup, Sched
  <2>5. cpu' \in {"scan", "run", "wfi", "panic"}
    BY <1>20, RangeFacts, TickFact, Zenon DEF TailYield, InTail, In, ClockIntr, Wakeup, Sched
  <2>6. cur' \in 0 .. NPROC
    BY <1>20, RangeFacts, TickFact, Zenon DEF TailYield, InTail, In, ClockIntr, Wakeup, Sched
  <2>7. idx' \in 1 .. NPROC + 1
    BY <1>20, RangeFacts, TickFact, Zenon DEF TailYield, InTail, In, ClockIntr, Wakeup, Sched
  <2>8. found' \in BOOLEAN
    BY <1>20, RangeFacts, TickFact, Zenon DEF TailYield, InTail, In, ClockIntr, Wakeup, Sched
  <2> QED BY <1>20, <2>1, <2>2, <2>3, <2>4, <2>5, <2>6, <2>7, <2>8, ZenonT(30) DEF
         TailYield, InTail, In, ClockIntr, Wakeup, Sched
<1>21. ASSUME NEW p \in Slot, TailReturn(p) PROVE TypeOK'
  BY <1>21, RangeFacts, Zenon DEF TailReturn, InTail, In
<1>22. ASSUME NEW p \in Slot, WaitReap(p) PROVE TypeOK'
  <2>1. state' \in [Slot -> States]
    BY <1>22, RangeFacts, FirstZombie, Zenon DEF WaitReap, In, Return
  <2>2. pid' \in [Slot -> 0 .. MAXPID]
    BY <1>22, RangeFacts, FirstZombie, Zenon DEF WaitReap, In, Return
  <2>3. parent' \in [Slot -> 0 .. NPROC]
    BY <1>22, RangeFacts, FirstZombie, Zenon DEF WaitReap, In, Return
  <2>4. chan' \in [Slot -> 0 .. NPROC + 2]
    BY <1>22, RangeFacts, FirstZombie, Zenon DEF WaitReap, In, Return
  <2>5. killed' \in [Slot -> BOOLEAN]
    BY <1>22, RangeFacts, FirstZombie, Zenon DEF WaitReap, In, Return
  <2>6. xstate' \in [Slot -> {-1, 0}]
    BY <1>22, RangeFacts, FirstZombie, Zenon DEF WaitReap, In, Return
  <2>7. at' \in [Slot -> Places]
    BY <1>22, RangeFacts, FirstZombie, Zenon DEF WaitReap, In, Return
  <2> QED BY <1>22, <2>1, <2>2, <2>3, <2>4, <2>5, <2>6, <2>7, ZenonT(30) DEF
         WaitReap, In, Return
<1>23. ASSUME NEW p \in Slot, WaitFail(p) PROVE TypeOK'
  BY <1>23, RangeFacts, Zenon DEF WaitFail, In, Return
<1>24. ASSUME NEW p \in Slot, WaitSleep(p) PROVE TypeOK'
  <2>1. state' \in [Slot -> States]
    BY <1>24, RangeFacts, Zenon DEF WaitSleep, In, Sleep, Sched
  <2>2. chan' \in [Slot -> 0 .. NPROC + 2]
    BY <1>24, RangeFacts, Zenon DEF WaitSleep, In, Sleep, Sched
  <2>3. cpu' \in {"scan", "run", "wfi", "panic"}
    BY <1>24, RangeFacts, Zenon DEF WaitSleep, In, Sleep, Sched
  <2>4. cur' \in 0 .. NPROC
    BY <1>24, RangeFacts, Zenon DEF WaitSleep, In, Sleep, Sched
  <2>5. idx' \in 1 .. NPROC + 1
    BY <1>24, RangeFacts, Zenon DEF WaitSleep, In, Sleep, Sched
  <2>6. found' \in BOOLEAN
    BY <1>24, RangeFacts, Zenon DEF WaitSleep, In, Sleep, Sched
  <2> QED BY <1>24, <2>1, <2>2, <2>3, <2>4, <2>5, <2>6, Zenon DEF WaitSleep, In,
         Sleep, Sched
<1>25. ASSUME NEW p \in Slot, PauseReturn(p) PROVE TypeOK'
  <2>1. ticks0' \in [Slot -> 0 .. TICKS - 1]
    BY <1>25, RangeFacts, Zenon DEF PauseReturn, In, Return
  <2>2. dur' \in [Slot -> 0 .. MAXPAUSE]
    BY <1>25, RangeFacts, Zenon DEF PauseReturn, In, Return
  <2>3. at' \in [Slot -> Places]
    BY <1>25, RangeFacts, Zenon DEF PauseReturn, In, Return
  <2> QED BY <1>25, <2>1, <2>2, <2>3, Zenon DEF PauseReturn, In, Return
<1>26. ASSUME NEW p \in Slot, PauseSleep(p) PROVE TypeOK'
  <2>1. state' \in [Slot -> States]
    BY <1>26, RangeFacts, Zenon DEF PauseSleep, In, Sleep, Sched
  <2>2. chan' \in [Slot -> 0 .. NPROC + 2]
    BY <1>26, RangeFacts, Zenon DEF PauseSleep, In, Sleep, Sched
  <2>3. cpu' \in {"scan", "run", "wfi", "panic"}
    BY <1>26, RangeFacts, Zenon DEF PauseSleep, In, Sleep, Sched
  <2>4. cur' \in 0 .. NPROC
    BY <1>26, RangeFacts, Zenon DEF PauseSleep, In, Sleep, Sched
  <2>5. idx' \in 1 .. NPROC + 1
    BY <1>26, RangeFacts, Zenon DEF PauseSleep, In, Sleep, Sched
  <2>6. found' \in BOOLEAN
    BY <1>26, RangeFacts, Zenon DEF PauseSleep, In, Sleep, Sched
  <2> QED BY <1>26, <2>1, <2>2, <2>3, <2>4, <2>5, <2>6, ZenonT(30) DEF PauseSleep,
         In, Sleep, Sched
<1>27. ASSUME NEW p \in Slot, ReadReturn(p) PROVE TypeOK'
  BY <1>27, RangeFacts, Zenon DEF ReadReturn, In, Return
<1>28. ASSUME NEW p \in Slot, ReadMore(p) PROVE TypeOK'
  BY <1>28, RangeFacts, Zenon DEF ReadMore, In
<1>29. ASSUME NEW p \in Slot, ReadSleep(p) PROVE TypeOK'
  <2>1. state' \in [Slot -> States]
    BY <1>29, RangeFacts, Zenon DEF ReadSleep, In, Sleep, Sched
  <2>2. chan' \in [Slot -> 0 .. NPROC + 2]
    BY <1>29, RangeFacts, Zenon DEF ReadSleep, In, Sleep, Sched
  <2>3. cpu' \in {"scan", "run", "wfi", "panic"}
    BY <1>29, RangeFacts, Zenon DEF ReadSleep, In, Sleep, Sched
  <2>4. cur' \in 0 .. NPROC
    BY <1>29, RangeFacts, Zenon DEF ReadSleep, In, Sleep, Sched
  <2>5. idx' \in 1 .. NPROC + 1
    BY <1>29, RangeFacts, Zenon DEF ReadSleep, In, Sleep, Sched
  <2>6. found' \in BOOLEAN
    BY <1>29, RangeFacts, Zenon DEF ReadSleep, In, Sleep, Sched
  <2> QED BY <1>29, <2>1, <2>2, <2>3, <2>4, <2>5, <2>6, ZenonT(30) DEF ReadSleep, In,
         Sleep, Sched
<1> QED BY <1>1, <1>2, <1>3, <1>4, <1>5, <1>6, <1>7, <1>8, <1>9, <1>10, <1>11,
       <1>12, <1>13, <1>14, <1>15, <1>16, <1>17, <1>18, <1>19, <1>20, <1>21,
       <1>22, <1>23, <1>24, <1>25, <1>26, <1>27, <1>28, <1>29, ExitSteps, ZenonT(30)
        DEF Next, SchedStep, Interrupt, UserTrap, KernelStep


-----------------------------------------------------------------------------
LEMMA ProcInvInit ==
  ASSUME Init
  PROVE  ProcInv
<1> USE SlotFacts DEF Init, NoSlot, InitProc
<1>1. TypeOK
  <2>1. /\ pid \in [Slot -> 0 .. MAXPID] /\ nextpid \in 1 .. MAXPID + 1
        /\ parent \in [Slot -> 0 .. NPROC] /\ cur \in 0 .. NPROC
        /\ idx \in 1 .. NPROC + 1
    BY ProcSizes, SMTT(30)
  <2>2. chan \in [Slot -> 0 .. NPROC + 2]
    BY RangeFacts, Zenon
  <2>3. /\ ticks0 \in [Slot -> 0 .. TICKS - 1] /\ dur \in [Slot -> 0 .. MAXPAUSE]
        /\ ticks \in 0 .. TICKS - 1
    BY RangeFacts, Zenon
  <2>4. state \in [Slot -> States] /\ at \in [Slot -> Places]
    BY Zenon DEF States, Places
  <2>5. /\ killed \in [Slot -> BOOLEAN] /\ xstate \in [Slot -> {-1, 0}]
        /\ found \in BOOLEAN /\ timer \in BOOLEAN /\ irq \in BOOLEAN /\ line \in BOOLEAN
        /\ cpu \in {"scan", "run", "wfi", "panic"}
    BY Zenon
  <2> QED BY <2>1, <2>2, <2>3, <2>4, <2>5, Zenon DEF TypeOK
<1>2. CurInv /\ TreeInv /\ OneRunning /\ ParentsLive
  BY Zenon DEF CurInv, TreeInv, OneRunning, ParentsLive, Live
<1>3. PidsNameProcesses
  BY DEF PidsNameProcesses
<1>4. SleepInv
  BY Zenon DEF SleepInv
<1> QED BY <1>1, <1>2, <1>3, <1>4, Zenon DEF ProcInv

LEMMA ProcInvStep ==
  ASSUME ProcInv, [Next]_vars
  PROVE  ProcInv'
<1>1. CASE Next
  BY <1>1, StepType, StepCur, StepTree, StepRunning, StepParents, StepPids,
     StepSleep, Zenon DEF ProcInv
<1>2. CASE UNCHANGED vars
  <2>1. UNCHANGED <<procVars, userVars, schedVars, nextpid, devVars>>
    BY <1>2, Zenon DEF vars
  <2>2. TypeOK' BY <2>1, Zenon DEF procVars, userVars, schedVars, devVars, ProcInv, TypeOK
  <2>3. CurInv' /\ OneRunning' BY <2>1, Zenon DEF procVars, schedVars, ProcInv, CurInv, OneRunning
  <2>4. TreeInv' /\ ParentsLive' BY <2>1, Zenon DEF procVars, ProcInv, TreeInv, Live, ParentsLive
  <2>5. PidsNameProcesses' BY <2>1, Zenon DEF procVars, ProcInv, PidsNameProcesses
  <2>6. SleepInv'
    BY <2>1, Zenon DEF procVars, userVars, devVars, ProcInv, SleepInv, Waits, Elapsed
  <2> QED BY <2>2, <2>3, <2>4, <2>5, <2>6, Zenon DEF ProcInv
<1> QED BY <1>1, <1>2, Zenon

\* The inductive invariant of the process table: besides the properties, that
\* init is live and that c->proc follows the cpu.
THEOREM ProcInvariant == Spec => []ProcInv
<1> QED BY ProcInvInit, ProcInvStep, PTL DEF Spec

\* The process table is type correct: the scheduler's index, pids, channels and
\* the wrapping tick counter stay in range.
THEOREM ProcTypes == Spec => []TypeOK
<1>1. ProcInv => TypeOK
  BY Zenon DEF ProcInv
<1> QED BY <1>1, ProcInvariant, PTL

\* Exactly the current process is RUNNING.
THEOREM ProcOneRunning == Spec => []OneRunning
<1>1. ProcInv => OneRunning
  BY Zenon DEF ProcInv
<1> QED BY <1>1, ProcInvariant, PTL

\* kexit and reparent leave every process a live parent that can wait for it.
THEOREM ProcParentsLive == Spec => []ParentsLive
<1>1. ProcInv => ParentsLive
  BY Zenon DEF ProcInv
<1> QED BY <1>1, ProcInvariant, PTL

\* allocpid and freeproc keep pids unique and free slots without one.
THEOREM ProcPids == Spec => []PidsNameProcesses
<1>1. ProcInv => PidsNameProcesses
  BY Zenon DEF ProcInv
<1> QED BY <1>1, ProcInvariant, PTL

\* No exit, tick, line of input or kill is slept through, however the exits,
\* the interrupts and the calls interleave.
THEOREM ProcNoLostWakeup == Spec => []NoLostWakeup
<1>1. ProcInv => NoLostWakeup
  BY Zenon DEF ProcInv, SleepInv, Waits, NoLostWakeup, Children, Zombies
<1> QED BY <1>1, ProcInvariant, PTL

-----------------------------------------------------------------------------
(* The status of the killed *)

\* One step of KilledStatus.
KilledSeen ==
  \A s \in Slot : state[s] # "ZOMBIE" /\ state'[s] = "ZOMBIE" /\ killed[s]
                  => xstate'[s] = -1

LEMMA ExitStatus ==
  ASSUME TypeOK, NEW p \in Slot, NEW status, cur = p, Exit(p, status),
         killed[p] => status = -1
  PROVE  KilledSeen
<1>1. CASE p = InitProc
  BY <1>1, Zenon DEF Exit, KilledSeen, procVars
<1>2. CASE p # InitProc
  <2> DEFINE C == {parent[p]} \cup (IF Children(p) # {} THEN {InitProc} ELSE {})
             W == Wakeup(state, C)
  <2>1. state' = [W EXCEPT ![p] = "ZOMBIE"] /\ xstate' = [xstate EXCEPT ![p] = status]
    BY <1>2, Zenon DEF Exit
  <2>2. DOMAIN W = Slot /\ \A s \in Slot : W[s] = "ZOMBIE" => state[s] = "ZOMBIE"
    BY Zenon DEF Wakeup
  <2> HIDE DEF W
  <2> QED BY <2>1, <2>2, Zenon DEF KilledSeen, TypeOK
<1> QED BY <1>1, <1>2, Zenon

\* usertrap looks at killed before and after every call.
LEMMA StepKilled ==
  ASSUME ProcInv, Next
  PROVE  KilledSeen
<1> USE DEF ProcInv, TypeOK, States, KilledSeen,
       procVars, userVars, schedVars, devVars
<1>1. ASSUME TimerFires PROVE KilledSeen
  BY <1>1, Zenon DEF TimerFires
<1>2. ASSUME DeviceRaises PROVE KilledSeen
  BY <1>2, Zenon DEF DeviceRaises
<1>3. ASSUME Dispatch PROVE KilledSeen
  BY <1>3, Zenon DEF Dispatch
<1>4. ASSUME ScanNext PROVE KilledSeen
  BY <1>4, Zenon DEF ScanNext
<1>5. ASSUME ScanAgain PROVE KilledSeen
  BY <1>5, Zenon DEF ScanAgain
<1>6. ASSUME Wfi PROVE KilledSeen
  BY <1>6, Zenon DEF Wfi
<1>7. ASSUME KernelIntr PROVE KilledSeen
  BY <1>7, DevIntrEffect, Zenon DEF KernelIntr, Interrupted, KilledSeen
<1>8. ASSUME WakeIntr PROVE KilledSeen
  BY <1>8, DevIntrEffect, Zenon DEF WakeIntr, Interrupted, KilledSeen
<1>9. ASSUME UserIntr PROVE KilledSeen
  BY <1>9, DevIntrEffect, Zenon DEF UserIntr, Interrupted, KilledSeen
<1>10. ASSUME NEW p \in Slot, SyscallKilled(p) PROVE KilledSeen
  BY <1>10, ExitStatus, Zenon DEF SyscallKilled, Call, InTail, In
<1>11. ASSUME NEW p \in Slot, SysExit(p) PROVE KilledSeen
  BY <1>11, ExitStatus, Zenon DEF SysExit, Call, InTail, In
<1>12. ASSUME NEW p \in Slot, TailKilled(p) PROVE KilledSeen
  BY <1>12, ExitStatus, Zenon DEF TailKilled, Call, InTail, In
<1>13. ASSUME NEW p \in Slot, Fault(p) PROVE KilledSeen
  BY <1>13, Zenon DEF Fault, In
<1>14. ASSUME NEW p \in Slot, Getpid(p) PROVE KilledSeen
  BY <1>14, Zenon DEF Getpid, Call, In, Return
<1>15. ASSUME NEW p \in Slot, Fork(p) PROVE KilledSeen
  BY <1>15, FirstUnused, Zenon DEF Fork, Call, In
<1>16. ASSUME NEW p \in Slot, ForkNoMemory(p) PROVE KilledSeen
  BY <1>16, FirstUnused, Zenon DEF ForkNoMemory, Call, In, Return
<1>17. ASSUME NEW p \in Slot, ForkNoSlot(p) PROVE KilledSeen
  BY <1>17, Zenon DEF ForkNoSlot, Call, In, Return
<1>18. ASSUME NEW p \in Slot, SysWait(p) PROVE KilledSeen
  BY <1>18, Zenon DEF SysWait, Call, In
<1>19. ASSUME NEW p \in Slot, SysPause(p) PROVE KilledSeen
  BY <1>19, Zenon DEF SysPause, Call, In
<1>20. ASSUME NEW p \in Slot, SysKill(p) PROVE KilledSeen
  BY <1>20, FirstPid, SMTT(30) DEF SysKill, Call, In, Return
<1>21. ASSUME NEW p \in Slot, SysRead(p) PROVE KilledSeen
  BY <1>21, Zenon DEF SysRead, Call, In
<1>22. ASSUME NEW p \in Slot, TailYield(p) PROVE KilledSeen
  BY <1>22, Zenon DEF TailYield, InTail, In, ClockIntr, Wakeup, Sched
<1>23. ASSUME NEW p \in Slot, TailReturn(p) PROVE KilledSeen
  BY <1>23, Zenon DEF TailReturn, InTail, In
<1>24. ASSUME NEW p \in Slot, WaitReap(p) PROVE KilledSeen
  BY <1>24, FirstZombie, Zenon DEF WaitReap, In, Return
<1>25. ASSUME NEW p \in Slot, WaitFail(p) PROVE KilledSeen
  BY <1>25, Zenon DEF WaitFail, In, Return
<1>26. ASSUME NEW p \in Slot, WaitSleep(p) PROVE KilledSeen
  BY <1>26, Zenon DEF WaitSleep, In, Sleep, Sched
<1>27. ASSUME NEW p \in Slot, PauseReturn(p) PROVE KilledSeen
  BY <1>27, Zenon DEF PauseReturn, In, Return
<1>28. ASSUME NEW p \in Slot, PauseSleep(p) PROVE KilledSeen
  BY <1>28, Zenon DEF PauseSleep, In, Sleep, Sched
<1>29. ASSUME NEW p \in Slot, ReadReturn(p) PROVE KilledSeen
  BY <1>29, Zenon DEF ReadReturn, In, Return
<1>30. ASSUME NEW p \in Slot, ReadMore(p) PROVE KilledSeen
  BY <1>30, Zenon DEF ReadMore, In
<1>31. ASSUME NEW p \in Slot, ReadSleep(p) PROVE KilledSeen
  BY <1>31, Zenon DEF ReadSleep, In, Sleep, Sched
<1> QED BY <1>1, <1>2, <1>3, <1>4, <1>5, <1>6, <1>7, <1>8, <1>9, <1>10, <1>11,
       <1>12, <1>13, <1>14, <1>15, <1>16, <1>17, <1>18, <1>19, <1>20, <1>21,
       <1>22, <1>23, <1>24, <1>25, <1>26, <1>27, <1>28, <1>29, <1>30, <1>31, ZenonT(30)
        DEF Next, SchedStep, Interrupt, UserTrap, KernelStep

\* A process killed before it exits is seen to exit with -1.
THEOREM ProcKilledStatus == Spec => KilledStatus
<1>1. ASSUME ProcInv, [Next]_vars PROVE [KilledSeen]_vars
  BY <1>1, StepKilled, Zenon
<1> QED BY <1>1, ProcInvariant, PTL DEF Spec, KilledStatus, KilledSeen
=============================================================================
