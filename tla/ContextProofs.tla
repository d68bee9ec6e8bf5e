--------------------------- MODULE ContextProofs ---------------------------
(***************************************************************************)
(* Theorems about Context, for any number of processes: programs find      *)
(* their registers as they left them, kernel threads their stack and the   *)
(* registers that C keeps, and traps find the right vector.                *)
(***************************************************************************)
EXTENDS Context, TLAPS

\* The kernel threads.
Thread == Proc \cup {Scheduler}

\* Where the CPU or a thread can be.
UserPlace == {<<"user", 0>>, <<"user", 1>>}
InProc == {"syscall", "usertrap", "forkret", "returning", "prepared"}
Place == UserPlace \cup {At("none", 0), At("scheduler", 0)}
           \cup {At(where, p) : where \in InProc, p \in Proc}

\* What can be in a register.
Value ==
  Place \cup {Hart, Junk, <<"result", 0>>, <<"argc", 0>>, <<"argv", 0>>}
    \cup {Kstack(t) : t \in Thread} \cup {Kernel(t, r) : t \in Thread, r \in Reg}
    \cup {<<"data", r>> : r \in Reg} \cup {<<"pid", p>> : p \in Proc}

\* A trap frame.
Frame == [epc : Place, sp0 : Value, hart : Value, regs : [Reg -> Value]]

\* What a program has in its registers.
Program == [regs : [Reg -> Value], pc : Place]

\* Every variable has its type.
Types ==
  /\ reg \in [Reg -> Value] /\ pc \in Place /\ epc \in Place
  /\ satp \in 0 .. NPROC /\ proc \in 0 .. NPROC
  /\ evec \in {"uservec", "kernelvec"} /\ ie \in BOOLEAN
  /\ state \in [Proc -> {"UNUSED", "RUNNABLE", "RUNNING", "SLEEPING", "ZOMBIE"}]
  /\ trapframe \in [Proc -> Frame]
  /\ user \in [Proc -> Program]
  /\ thread \in [Thread -> [r4 : Value, sp : Value]]
  /\ DOMAIN context = Thread
  /\ \A t \in Thread : DOMAIN context[t] = {"lr", "sp", "r4", "r11"}

\* The thread that runs.
Current == IF InUser THEN proc ELSE pc[2]

\* Where the CPU is, and what it runs with.
CpuInv ==
  /\ pc # At("none", 0)
  /\ pc # At("scheduler", 0) => proc \in Proc /\ state[proc] = "RUNNING"
  /\ InUser => ie /\ satp = proc
  /\ ~InUser => satp = 0
  /\ ~InUser /\ pc # At("scheduler", 0) => pc[2] = proc
  /\ pc[1] = "prepared" => ~ie /\ epc = trapframe[proc].epc
  /\ evec = IF InUser \/ pc[1] = "prepared" THEN "uservec" ELSE "kernelvec"
  /\ InUser \/ pc[1] = "prepared" =>
       trapframe[proc].sp0 = Kstack(proc) /\ trapframe[proc].hart = Hart

\* A trap frame has the registers of its program, but while that runs, or
\* before it is loaded.
FrameOf(p) == /\ trapframe[p].regs = user[p].regs /\ trapframe[p].epc = user[p].pc
              /\ user[p].pc \in UserPlace
New(p) == /\ trapframe[p] = NoFrame /\ user[p].regs = NoFrame.regs
          /\ IF Current = p THEN pc = At("forkret", p) ELSE context[p].lr = At("forkret", p)
FrameInv ==
  /\ InUser => reg = user[proc].regs /\ pc = user[proc].pc
  /\ \A p \in Proc : state[p] # "UNUSED" /\ ~(InUser /\ p = proc) => New(p) \/ FrameOf(p)

\* The registers of a kernel thread are in the CPU or in its context.
Stacks == \A t \in Thread : thread[t].sp = Kstack(t)
OnCpu ==
  ~InUser => reg["r11"] = Hart /\ reg["sp"] = Kstack(pc[2]) /\ reg["r4"] = thread[pc[2]].r4
Waiting(t) ==
  /\ context[t].r4 = thread[t].r4 /\ context[t].sp = Kstack(t) /\ context[t].r11 = Hart
  /\ IF t = Scheduler THEN context[t].lr = At("scheduler", 0)
     ELSE context[t].lr \in {At(where, t) : where \in {"syscall", "usertrap", "forkret"}}
Waits(t) == t # Current /\ (t = Scheduler \/ state[t] # "UNUSED")
ThreadInv == Stacks /\ OnCpu /\ \A t \in Thread : Waits(t) => Waiting(t)

\* The inductive invariant.
ContextInv == Types /\ CpuInv /\ FrameInv /\ ThreadInv

-----------------------------------------------------------------------------
(* Places and values *)

\* The scheduler is the thread that is no process.
LEMMA ThreadFacts ==
  ASSUME NPROC \in Nat
  PROVE  /\ Scheduler \notin Proc /\ Proc \subseteq 0 .. NPROC /\ 0 \in 0 .. NPROC
         /\ Proc \subseteq Thread /\ Scheduler \in Thread /\ 0 \in Thread /\ 0 \notin Proc
         /\ \A t \in Thread : t = Scheduler \/ t \in Proc
         /\ \A n \in 0 .. NPROC : n = 0 \/ n \in Proc
BY DEF Proc, Thread, Scheduler

\* A place tells where it is, and whose it is.
LEMMA PlaceFacts ==
  /\ \A x \in Place :
       \/ x \in UserPlace /\ x[1] = "user"
       \/ x = At("none", 0) /\ x[1] = "none" /\ x[2] = 0
       \/ x = At("scheduler", 0) /\ x[1] = "scheduler" /\ x[2] = 0
       \/ x[1] \in InProc /\ x[2] \in Proc /\ x = At(x[1], x[2])
  /\ At("none", 0) \in Place /\ At("scheduler", 0) \in Place /\ UserPlace \subseteq Place
  /\ \A where \in InProc, p \in Proc : At(where, p) \in Place
  /\ \A where, t : At(where, t)[1] = where /\ At(where, t)[2] = t
  /\ \A x \in UserPlace : x[1] = "user"
  /\ <<"user", 0>> \in UserPlace /\ <<"user", 1>> \in UserPlace
BY DEF Place, UserPlace, InProc, At

\* User code is not in the kernel.
LEMMA UserFacts ==
  ASSUME NEW x \in Place, x[1] = "user"
  PROVE  x \in UserPlace /\ x # At("scheduler", 0)
BY PlaceFacts DEF InProc

\* What steps put into registers is a value.
LEMMA ValueFacts ==
  /\ Place \subseteq Value /\ Hart \in Value /\ Junk \in Value
  /\ <<"result", 0>> \in Value /\ <<"argc", 0>> \in Value /\ <<"argv", 0>> \in Value
  /\ \A t \in Thread : Kstack(t) \in Value
  /\ \A t \in Thread, r \in Reg : Kernel(t, r) \in Value
  /\ \A r \in Reg : <<"data", r>> \in Value
  /\ \A p \in Proc : <<"pid", p>> \in Value
BY DEF Value

-----------------------------------------------------------------------------
(* What a step writes has its type. *)

\* syscall stores a result in the trap frame ...
LEMMA ResultFrame ==
  ASSUME NEW f \in [Proc -> Frame], NEW p \in Proc, NEW v \in Value
  PROVE  [f EXCEPT ![p].regs.r0 = v] \in [Proc -> Frame]
<1>1. [f[p].regs EXCEPT !["r0"] = v] \in [Reg -> Value]
  BY Zenon DEF Frame, Reg
<1>2. [f[p] EXCEPT !.regs = [f[p].regs EXCEPT !["r0"] = v]] \in Frame
  BY <1>1, Zenon DEF Frame
<1> QED BY <1>1, <1>2, Zenon

\* ... which the program will find in r0.
LEMMA ResultUser ==
  ASSUME NEW f \in [Proc -> Program], NEW p \in Proc, NEW v \in Value
  PROVE  [f EXCEPT ![p].regs.r0 = v] \in [Proc -> Program]
<1>1. [f[p].regs EXCEPT !["r0"] = v] \in [Reg -> Value]
  BY Zenon DEF Program, Reg
<1>2. [f[p] EXCEPT !.regs = [f[p].regs EXCEPT !["r0"] = v]] \in Program
  BY <1>1, Zenon DEF Program
<1> QED BY <1>1, <1>2, Zenon

\* exec writes a frame.
LEMMA ExecTypes ==
  ASSUME NEW p \in Proc, trapframe \in [Proc -> Frame], user \in [Proc -> Program]
  PROVE  Executed(p) \in [Proc -> Frame] /\ ExecutedUser(p) \in [Proc -> Program]
<1>1. \A g \in [Reg -> Value] : ExecRegs(g) \in [Reg -> Value]
  BY ValueFacts, Zenon DEF ExecRegs, Reg
<1>2. Entry \in Place
  BY PlaceFacts, Zenon DEF Entry
<1>3. [trapframe[p] EXCEPT !.epc = Entry, !.regs = ExecRegs(trapframe[p].regs)] \in Frame
  BY <1>1, <1>2, Zenon DEF Frame
<1>4. [regs |-> ExecRegs(user[p].regs), pc |-> Entry] \in Program
  BY <1>1, <1>2, Zenon DEF Program
<1> QED BY <1>3, <1>4, Zenon DEF Executed, ExecutedUser

\* uservec writes a frame.
LEMMA TrapTypes ==
  ASSUME NEW p \in Proc, trapframe \in [Proc -> Frame], reg \in [Reg -> Value], NEW x \in Place
  PROVE  [trapframe EXCEPT ![p].regs = UserVecSaves, ![p].epc = x] \in [Proc -> Frame]
<1>1. UserVecSaves \in [Reg -> Value]
  BY Zenon DEF UserVecSaves
<1>2. [trapframe[p] EXCEPT !.regs = UserVecSaves, !.epc = x] \in Frame
  BY <1>1, Zenon DEF Frame
<1> QED BY <1>2, Zenon

\* prepare_return writes a frame.
LEMMA PrepareTypes ==
  ASSUME NPROC \in Nat, NEW p \in Proc, trapframe \in [Proc -> Frame]
  PROVE  [trapframe EXCEPT ![p].sp0 = Kstack(p), ![p].hart = Hart] \in [Proc -> Frame]
<1>1. [trapframe[p] EXCEPT !.sp0 = Kstack(p), !.hart = Hart] \in Frame
  BY ValueFacts, ThreadFacts, Zenon DEF Frame
<1> QED BY <1>1, Zenon

\* kfork writes the child's frame and the parent's result.
LEMMA ForkTypes ==
  ASSUME NEW p \in Proc, NEW q \in Proc, p # q, NEW v \in Value,
         trapframe \in [Proc -> Frame], user \in [Proc -> Program]
  PROVE  /\ [trapframe EXCEPT ![p].regs.r0 = v, ![q] = ForkFrame(p)] \in [Proc -> Frame]
         /\ [user EXCEPT ![p].regs.r0 = v,
                         ![q] = [user[p] EXCEPT !.regs.r0 = <<"result", 0>>]] \in [Proc -> Program]
<1>1. <<"result", 0>> \in Value
  BY ValueFacts, Zenon
<1>2. [trapframe EXCEPT ![p].regs.r0 = <<"result", 0>>][p] \in Frame
  BY <1>1, ResultFrame
<1>3. ForkFrame(p) \in Frame
  BY <1>2, Zenon DEF ForkFrame
<1>4. [user EXCEPT ![p].regs.r0 = <<"result", 0>>][p] \in Program
  BY <1>1, ResultUser
<1>5. [user[p] EXCEPT !.regs.r0 = <<"result", 0>>] \in Program
  BY <1>4, Zenon
<1>6. [trapframe EXCEPT ![p].regs.r0 = v] \in [Proc -> Frame]
  BY ResultFrame, Zenon
<1>7. [user EXCEPT ![p].regs.r0 = v] \in [Proc -> Program]
  BY ResultUser, Zenon
<1> QED BY <1>3, <1>5, <1>6, <1>7, Zenon

\* In the parent, kfork changes the result only.
LEMMA ForkParent ==
  ASSUME trapframe \in [Proc -> Frame], user \in [Proc -> Program],
         NEW p \in Proc, NEW q \in Proc, p # q, NEW v, NEW child, NEW code,
         trapframe' = [trapframe EXCEPT ![p].regs.r0 = v, ![q] = child],
         user' = [user EXCEPT ![p].regs.r0 = v, ![q] = code]
  PROVE  /\ trapframe'[p].regs = [trapframe[p].regs EXCEPT !["r0"] = v]
         /\ trapframe'[p].epc = trapframe[p].epc
         /\ user'[p].regs = [user[p].regs EXCEPT !["r0"] = v] /\ user'[p].pc = user[p].pc
BY ZenonT(30) DEF Frame, Program

\* The context of a process that does not run has the registers of its thread.
LEMMA Suspended ==
  ASSUME NPROC \in Nat, ContextInv, NEW p \in Proc, p # Current, state[p] # "UNUSED"
  PROVE  /\ context[p].r4 = thread[p].r4 /\ context[p].sp = Kstack(p) /\ context[p].r11 = Hart
         /\ context[p].lr \in {At("syscall", p), At("usertrap", p), At("forkret", p)}
         /\ context[p].lr \in Place /\ thread[p].r4 \in Value
<1>1. p \in Thread /\ p # Scheduler
  BY ThreadFacts, Zenon
<1>2. /\ context[p].r4 = thread[p].r4 /\ context[p].sp = Kstack(p) /\ context[p].r11 = Hart
      /\ context[p].lr \in {At(where, p) : where \in {"syscall", "usertrap", "forkret"}}
  BY <1>1, Zenon DEF ContextInv, ThreadInv, Waits, Waiting
<1>3. PICK where \in {"syscall", "usertrap", "forkret"} : context[p].lr = At(where, p)
  BY <1>2, Zenon
<1>4. context[p].lr \in Place
  BY <1>3, PlaceFacts DEF InProc
<1>5. thread[p].r4 \in Value
  BY <1>1, Zenon DEF ContextInv, Types
<1> QED BY <1>2, <1>3, <1>4, <1>5, Zenon

\* While a process runs the context of the scheduler has its registers.
LEMMA SchedulerWaits ==
  ASSUME NPROC \in Nat, ContextInv, Current # Scheduler
  PROVE  /\ context[Scheduler].r4 = thread[Scheduler].r4
         /\ context[Scheduler].sp = Kstack(Scheduler) /\ context[Scheduler].r11 = Hart /\ context[Scheduler].lr = At("scheduler", 0)
BY ThreadFacts, Zenon DEF ContextInv, ThreadInv, Waits, Waiting

\* A process in the kernel runs without user memory, and past forkret its
\* frame has the registers of its program.
LEMMA InKernel ==
  ASSUME NPROC \in Nat, ContextInv, NEW where \in InProc, pc = At(where, proc)
  PROVE  /\ ~InUser /\ proc \in Proc /\ Current = proc /\ Current # Scheduler
         /\ state[proc] = "RUNNING" /\ pc[1] = where /\ pc[2] = proc /\ satp = 0
         /\ where # "forkret" => FrameOf(proc)
<1>1. pc[1] = where /\ pc[2] = proc /\ ~InUser
  BY PlaceFacts, Zenon DEF InUser, InProc
<1>2. pc # At("scheduler", 0)
  BY <1>1, PlaceFacts DEF InProc
<1>3. proc \in Proc /\ state[proc] = "RUNNING" /\ Current = proc /\ satp = 0
  BY <1>1, <1>2, Zenon DEF ContextInv, CpuInv, Current
<1>4. where # "forkret" => ~New(proc)
  BY <1>1, <1>3, PlaceFacts, SMTT(30) DEF New
<1> QED BY <1>1, <1>3, <1>4, ThreadFacts, Zenon DEF ContextInv, FrameInv

-----------------------------------------------------------------------------
(* Steps *)

\* Steps keep the types.
LEMMA TypesKept ==
  ASSUME NPROC \in Nat, ContextInv, [Next]_vars
  PROVE  Types'
<1> USE ThreadFacts, PlaceFacts, ValueFacts
<1> USE DEF ContextInv, Types, CpuInv, InUser, InProc
<1>1. CASE UserCode
  BY <1>1, Zenon DEF UserCode, Reg, Frame, Program
<1>2. CASE KernelVec
  BY <1>2 DEF KernelVec, Saved, Reg, Frame, Program
<1>3. CASE Syscall
  <2> USE <1>3 DEF Syscall, Call, Compute, Computed, Kept
  <2>1. proc \in Proc
    OBVIOUS
  <2>2. reg' \in [Reg -> Value]
    BY <2>1 DEF Reg, Frame
  <2>3. pc' \in Place
    BY <2>1, Zenon
  <2>4. trapframe' \in [Proc -> Frame]
    BY <2>1, ResultFrame, Zenon
  <2>5. user' \in [Proc -> Program]
    BY <2>1, ResultUser, Zenon
  <2>6. thread' \in [Thread -> [r4 : Value, sp : Value]]
    BY <2>1, Zenon DEF Reg
  <2> QED BY <2>1, <2>2, <2>3, <2>4, <2>5, <2>6, Zenon
<1>4. CASE Exec
  <2> USE <1>4 DEF Exec, Call, Compute, Computed, Kept
  <2>1. proc \in Proc
    OBVIOUS
  <2>2. reg' \in [Reg -> Value]
    BY <2>1 DEF Reg, Frame
  <2>3. pc' \in Place
    BY <2>1, Zenon
  <2>4. trapframe' \in [Proc -> Frame]
    BY <2>1, ExecTypes, Zenon
  <2>5. user' \in [Proc -> Program]
    BY <2>1, ExecTypes, Zenon
  <2>6. thread' \in [Thread -> [r4 : Value, sp : Value]]
    BY <2>1, Zenon DEF Reg
  <2> QED BY <2>1, <2>2, <2>3, <2>4, <2>5, <2>6, Zenon
<1>5. CASE Scan
  BY <1>5, SMTT(30) DEF Scan, Reg, Frame, Program
<1>6. CASE Forkret
  <2> USE <1>6 DEF Forkret, Compute, Computed, Kept, NoFrame
  <2>1. proc \in Proc
    OBVIOUS
  <2>2. reg' \in [Reg -> Value]
    BY <2>1, SMTT(30) DEF Reg, Frame
  <2>3. pc' \in Place
    BY <2>1, Zenon
  <2>4. trapframe' \in [Proc -> Frame]
    BY <2>1, ExecTypes, SMTT(30)
  <2>5. user' \in [Proc -> Program]
    BY <2>1, ExecTypes, SMTT(30)
  <2>6. thread' \in [Thread -> [r4 : Value, sp : Value]]
    BY <2>1, Zenon DEF Reg
  <2> QED BY <2>1, <2>2, <2>3, <2>4, <2>5, <2>6, Zenon
<1>7. CASE PrepareReturn
  <2> USE <1>7 DEF PrepareReturn, OffBeforeReturn
  <2>1. proc \in Proc
    OBVIOUS
  <2>2. pc' \in Place
    BY <2>1, Zenon
  <2>3. epc' \in Place
    BY <2>1, Zenon DEF Frame
  <2>4. trapframe' \in [Proc -> Frame]
    BY <2>1, PrepareTypes, Zenon
  <2> QED BY <2>1, <2>2, <2>3, <2>4, Zenon
<1>8. CASE Userret
  BY <1>8 DEF Userret, Reg, Frame, Program
<1>9. ASSUME NEW cause \in {"syscall", "usertrap"}, UserTrap(cause) PROVE Types'
  <2> USE <1>9 DEF UserTrap, UserVec, TrapVector, Kept
  <2>1. proc \in Proc /\ satp = proc
    OBVIOUS
  <2>2. reg' \in [Reg -> Value]
    BY <2>1, Zenon DEF Reg, Frame
  <2>3. pc' \in Place
    BY <2>1, Zenon
  <2>4. epc' \in Place
    BY <2>1, Zenon DEF Frame
  <2>5. satp' \in 0 .. NPROC
    BY <2>1, Zenon
  <2>6. trapframe' \in [Proc -> Frame]
    BY <2>1, TrapTypes, ZenonT(30)
  <2>7. thread' \in [Thread -> [r4 : Value, sp : Value]]
    BY <2>1, Zenon DEF Reg
  <2> QED BY <2>1, <2>2, <2>3, <2>4, <2>5, <2>6, <2>7, Zenon
<1>10. ASSUME NEW q \in Proc, Fork(q) PROVE Types'
  <2> USE <1>10 DEF Fork, Call, Compute, Computed, Kept, NewContext
  <2>1. proc \in Proc /\ state[proc] = "RUNNING" /\ proc # q
    OBVIOUS
  <2>2. reg' \in [Reg -> Value]
    BY <2>1 DEF Reg, Frame
  <2>3. pc' \in Place
    BY <2>1, Zenon
  <2>4. state' \in [Proc -> {"UNUSED", "RUNNABLE", "RUNNING", "SLEEPING", "ZOMBIE"}]
    BY <2>1, Zenon
  <2>5. trapframe' \in [Proc -> Frame]
    BY <2>1, ForkTypes, Zenon
  <2>6. user' \in [Proc -> Program]
    BY <2>1, ForkTypes, Zenon
  <2>7. thread' \in [Thread -> [r4 : Value, sp : Value]]
    BY <2>1, ZenonT(30) DEF Reg
  <2>8. DOMAIN context' = Thread /\ \A t \in Thread : DOMAIN context'[t] = {"lr", "sp", "r4", "r11"}
    BY <2>1, Zenon
  <2> QED BY <2>1, <2>2, <2>3, <2>4, <2>5, <2>6, <2>7, <2>8, Zenon
<1>11. ASSUME NEW q \in Proc, Run(q) PROVE Types'
  <2> USE <1>11 DEF Run, Swtch, Switched
  <2>1. q \in Thread /\ Current = Scheduler /\ q # Scheduler /\ state[q] # "UNUSED"
    BY SMTT(30) DEF Current
  <2>2. /\ \A r \in {"sp", "r4", "r11"} : context[q][r] \in Value
       /\ context[q].lr \in Place
    BY <2>1, Suspended
  <2>3. reg' \in [Reg -> Value]
    BY <2>1, <2>2 DEF Reg, Frame
  <2>4. pc' \in Place
    BY <2>1, <2>2, Zenon
  <2>5. proc' \in 0 .. NPROC
    BY <2>1, <2>2, Zenon
  <2>6. state' \in [Proc -> {"UNUSED", "RUNNABLE", "RUNNING", "SLEEPING", "ZOMBIE"}]
    BY <2>1, <2>2, Zenon
  <2>7. DOMAIN context' = Thread /\ \A t \in Thread : DOMAIN context'[t] = {"lr", "sp", "r4", "r11"}
    BY <2>1, <2>2, Zenon
  <2> QED BY <2>1, <2>2, <2>3, <2>4, <2>5, <2>6, <2>7, Zenon
<1>12. ASSUME NEW s \in {"RUNNABLE", "SLEEPING", "ZOMBIE"}, Sched(s) PROVE Types'
  <2> USE <1>12 DEF Sched, Swtch, Switched
  <2>1. proc \in Proc
    OBVIOUS
  <2>2. /\ \A r \in {"sp", "r4", "r11"} : context[Scheduler][r] \in Value
       /\ context[Scheduler].lr \in Place
    BY <2>1, SchedulerWaits, SMTT(30) DEF Current
  <2>3. reg' \in [Reg -> Value]
    BY <2>1, <2>2, SMTT(30) DEF Reg, Frame
  <2>4. pc' \in Place
    BY <2>1, <2>2, Zenon
  <2>5. state' \in [Proc -> {"UNUSED", "RUNNABLE", "RUNNING", "SLEEPING", "ZOMBIE"}]
    BY <2>1, <2>2, Zenon
  <2>6. DOMAIN context' = Thread /\ \A t \in Thread : DOMAIN context'[t] = {"lr", "sp", "r4", "r11"}
    BY <2>1, <2>2, Zenon
  <2> QED BY <2>1, <2>2, <2>3, <2>4, <2>5, <2>6, Zenon
<1>13. CASE UNCHANGED vars
  BY <1>13, Zenon DEF vars, cpu
<1> HIDE ThreadFacts, PlaceFacts, ValueFacts DEF ContextInv, Types, CpuInv, InUser, InProc
<1> QED BY <1>1, <1>2, <1>3, <1>4, <1>5, <1>6, <1>7, <1>8, <1>9, <1>10, <1>11, <1>12, <1>13, ZenonT(60) DEF Next

\* Steps keep the page table, the vectors and the place of the CPU.
LEMMA CpuInvKept ==
  ASSUME NPROC \in Nat, ContextInv, [Next]_vars
  PROVE  CpuInv'
<1> USE ThreadFacts, PlaceFacts
<1> USE DEF ContextInv, Types, CpuInv, InUser, InProc, Frame
<1>1. CASE UserCode
  BY <1>1, SMTT(30) DEF UserCode
<1>2. CASE KernelVec
  BY <1>2, Zenon DEF KernelVec, Saved
<1>3. CASE Syscall
  BY <1>3 DEF Syscall, Call, Compute, Computed, Kept
<1>4. CASE Exec
  BY <1>4 DEF Exec, Call, Compute, Computed, Kept, Executed, ExecutedUser, ExecRegs, Entry
<1>5. CASE Scan
  BY <1>5 DEF Scan
<1>6. CASE Forkret
  BY <1>6 DEF Forkret, Compute, Computed, Kept, Executed, ExecutedUser, ExecRegs, Entry, NoFrame
<1>7. CASE PrepareReturn
  BY <1>7, SMTT(30) DEF PrepareReturn, OffBeforeReturn
<1>8. CASE Userret
  <2>1. pc = At("prepared", proc) /\ "prepared" \in InProc
    BY <1>8, Zenon DEF Userret
  <2>2. FrameOf(proc) /\ proc \in Proc /\ state[proc] = "RUNNING" /\ pc[1] = "prepared"
    BY <2>1, InKernel, Zenon
  <2>3. pc' \in UserPlace /\ pc'[1] = "user"
    BY <1>8, <2>2 DEF Userret, FrameOf
  <2> QED BY <1>8, <2>2, <2>3, SMTT(30) DEF Userret
<1>9. ASSUME NEW cause \in {"syscall", "usertrap"}, UserTrap(cause) PROVE CpuInv'
  <2>1. proc \in Proc /\ state[proc] = "RUNNING"
    BY <1>9, UserFacts, Zenon DEF UserTrap
  <2>2. /\ pc' = At(cause, proc) /\ proc' = proc /\ state' = state
        /\ satp' = 0 /\ evec' = "kernelvec"
    BY <1>9, Zenon DEF UserTrap, UserVec, TrapVector
  <2>3. pc'[1] = cause /\ pc'[2] = proc
    BY <2>2 DEF At
  <2>4. pc' # At("none", 0) /\ pc' # At("scheduler", 0) /\ ~InUser' /\ pc'[1] # "prepared"
    <3> HIDE ThreadFacts, PlaceFacts DEF ContextInv, Types, CpuInv, InUser
    <3> QED BY <2>2, <2>3 DEF At, InUser
  <2> QED BY <2>1, <2>2, <2>3, <2>4, Zenon
<1>10. ASSUME NEW q \in Proc, Fork(q) PROVE CpuInv'
  BY <1>10, SMTT(30) DEF Fork, Call, Compute, Computed, Kept, ForkFrame, NewContext
<1>11. ASSUME NEW q \in Proc, Run(q) PROVE CpuInv'
  <2>1. Current = Scheduler /\ q # Current /\ state[q] # "UNUSED" /\ ~InUser /\ satp = 0
    BY <1>11, SMTT(30) DEF Run, Current
  <2>2. pc' \in {At("syscall", q), At("usertrap", q), At("forkret", q)}
    BY <1>11, <2>1, Suspended, Zenon DEF Run, Swtch
  <2>3. pc'[1] \in {"syscall", "usertrap", "forkret"} /\ pc'[2] = q
    BY <2>2, SMTT(30)
  <2> QED BY <1>11, <2>1, <2>2, <2>3, SMTT(30) DEF Run
<1>12. ASSUME NEW s \in {"RUNNABLE", "SLEEPING", "ZOMBIE"}, Sched(s) PROVE CpuInv'
  <2>1. PICK where \in {"syscall", "usertrap"} : pc = At(where, proc)
    BY <1>12, Zenon DEF Sched
  <2>2. ~InUser /\ proc \in Proc /\ Current # Scheduler /\ pc[1] = where /\ satp = 0
    BY <2>1, InKernel, Zenon
  <2>3. pc' = At("scheduler", 0)
    BY <1>12, <2>2, SchedulerWaits, Zenon DEF Sched, Swtch
  <2> QED BY <1>12, <2>2, <2>3, SMTT(30) DEF Sched
<1>13. CASE UNCHANGED vars
  BY <1>13, Zenon DEF vars, cpu
<1> HIDE ThreadFacts, PlaceFacts DEF ContextInv, Types, CpuInv, InUser, InProc, Frame
<1> QED BY <1>1, <1>2, <1>3, <1>4, <1>5, <1>6, <1>7, <1>8, <1>9, <1>10, <1>11, <1>12, <1>13, ZenonT(60) DEF Next

-----------------------------------------------------------------------------
(* Frames and threads *)

\* Steps keep the registers of every program in its frame or in the CPU.
LEMMA FrameInvKept ==
  ASSUME NPROC \in Nat, ContextInv, [Next]_vars
  PROVE  FrameInv'
<1> USE ThreadFacts, PlaceFacts
<1> USE DEF ContextInv, Types, CpuInv, InUser, InProc
<1>1. CASE UserCode
  BY <1>1, SMTT(30) DEF UserCode, FrameInv, FrameOf, New, Current
<1>2. CASE KernelVec
  BY <1>2 DEF KernelVec, Saved, FrameInv, FrameOf, New, Current
<1>3. CASE Syscall
  <2>1. /\ FrameOf(proc) /\ proc \in Proc /\ Current = proc /\ ~InUser
       /\ state[proc] = "RUNNING"
    BY <1>3, InKernel, Zenon DEF Syscall, Call
  <2>2. ~InUser' /\ proc' = proc /\ Current' = proc
    BY <1>3, <2>1 DEF Syscall, Call, Current
  <2>3. FrameOf(proc)'
    BY <1>3, <2>1, <2>2 DEF Syscall, Call, FrameOf, Frame, Program, Reg
  <2>4. ASSUME NEW p \in Proc, p # proc, state'[p] # "UNUSED" PROVE New(p)' \/ FrameOf(p)'
    <3>1. New(p) \/ FrameOf(p)
      BY <1>3, <2>4, <2>1, Zenon DEF Syscall, Call, FrameInv
    <3>2. /\ trapframe'[p] = trapframe[p] /\ user'[p] = user[p]
          /\ context'[p] = context[p] /\ Current # p /\ Current' # p
      BY <1>3, <2>4, <2>1, <2>2, SMTT(30) DEF Syscall, Call
    <3> QED BY <3>1, <3>2, Zenon DEF New, FrameOf
  <2> QED BY <2>2, <2>3, <2>4, SMTT(30) DEF FrameInv
<1>4. CASE Exec
  <2>1. /\ FrameOf(proc) /\ proc \in Proc /\ Current = proc /\ ~InUser
       /\ state[proc] = "RUNNING"
    BY <1>4, InKernel, Zenon DEF Exec, Call
  <2>2. ~InUser' /\ proc' = proc /\ Current' = proc
    BY <1>4, <2>1 DEF Exec, Call, Current
  <2>3. FrameOf(proc)'
    BY <1>4, <2>1, <2>2 DEF Exec, Call, Executed, ExecutedUser, Entry, FrameOf, Frame, Program, Reg
  <2>4. ASSUME NEW p \in Proc, p # proc, state'[p] # "UNUSED" PROVE New(p)' \/ FrameOf(p)'
    <3>1. New(p) \/ FrameOf(p)
      BY <1>4, <2>4, <2>1, Zenon DEF Exec, Call, FrameInv
    <3>2. /\ trapframe'[p] = trapframe[p] /\ user'[p] = user[p]
          /\ context'[p] = context[p] /\ Current # p /\ Current' # p
      BY <1>4, <2>4, <2>1, <2>2 DEF Exec, Call, Executed, ExecutedUser
    <3> QED BY <3>1, <3>2, Zenon DEF New, FrameOf
  <2> QED BY <2>2, <2>3, <2>4, SMTT(30) DEF FrameInv
<1>5. CASE Scan
  BY <1>5 DEF Scan, FrameInv, FrameOf, New, Current
<1>6. CASE Forkret
  <2>1. "forkret" \in InProc /\ pc = At("forkret", proc)
    BY <1>6, Zenon DEF Forkret
  <2>2. proc \in Proc /\ Current = proc /\ ~InUser /\ state[proc] = "RUNNING"
    BY <2>1, InKernel, Zenon
  <2>3. ~InUser' /\ proc' = proc /\ Current' = proc
    BY <1>6, <2>2 DEF Forkret, Current
  <2>4. New(proc) \/ FrameOf(proc)
    BY <2>2, Zenon DEF FrameInv
  <2>5. FrameOf(proc)'
    <3>1. CASE trapframe[proc] = NoFrame
      <4>0. trapframe[proc] \in Frame
        BY <2>2, ZenonT(30)
      <4>1. NoFrame.epc \notin UserPlace
        BY DEF NoFrame
      <4>2. user[proc].regs = trapframe[proc].regs
        BY <2>4, <3>1, <4>1, Zenon DEF New, FrameOf
      <4>3. trapframe'[proc].regs = ExecRegs(trapframe[proc].regs) /\ trapframe'[proc].epc = Entry
        BY <1>6, <2>2, <3>1, <4>0, SMTT(30) DEF Forkret, Executed, Frame
      <4>4. user'[proc] = [regs |-> ExecRegs(user[proc].regs), pc |-> Entry]
        BY <1>6, <2>2, <3>1, SMTT(30) DEF Forkret, ExecutedUser
      <4> QED BY <2>3, <4>2, <4>3, <4>4 DEF FrameOf, Entry
    <3>2. CASE trapframe[proc] # NoFrame
      BY <1>6, <2>3, <2>4, <3>2, Zenon DEF Forkret, New, FrameOf
    <3> QED BY <3>1, <3>2, Zenon
  <2>6. ASSUME NEW p \in Proc, p # proc, state'[p] # "UNUSED" PROVE New(p)' \/ FrameOf(p)'
    <3>1. New(p) \/ FrameOf(p)
      BY <1>6, <2>6, <2>2, Zenon DEF Forkret, FrameInv
    <3>2. /\ trapframe'[p] = trapframe[p] /\ user'[p] = user[p]
          /\ context'[p] = context[p] /\ Current # p /\ Current' # p
      BY <1>6, <2>6, <2>2, <2>3 DEF Forkret, Executed, ExecutedUser
    <3> QED BY <3>1, <3>2, Zenon DEF New, FrameOf
  <2> QED BY <2>3, <2>5, <2>6, SMTT(30) DEF FrameInv
<1>7. CASE PrepareReturn
  <2>1. PICK where \in {"usertrap", "returning"} : pc = At(where, proc)
    BY <1>7, Zenon DEF PrepareReturn
  <2>2. FrameOf(proc) /\ proc \in Proc /\ Current = proc /\ ~InUser
    BY <2>1, InKernel, Zenon
  <2>3. ~InUser' /\ proc' = proc /\ Current' = proc
    BY <1>7, <2>2 DEF PrepareReturn, Current
  <2>4. FrameOf(proc)'
    BY <1>7, <2>2, <2>3, SMTT(30) DEF PrepareReturn, FrameOf, Frame
  <2>5. ASSUME NEW p \in Proc, p # proc, state'[p] # "UNUSED" PROVE New(p)' \/ FrameOf(p)'
    <3>1. New(p) \/ FrameOf(p)
      BY <1>7, <2>5, <2>2, Zenon DEF PrepareReturn, FrameInv
    <3>2. /\ trapframe'[p] = trapframe[p] /\ user'[p] = user[p]
          /\ context'[p] = context[p] /\ Current # p /\ Current' # p
      BY <1>7, <2>5, <2>2, <2>3, SMTT(30) DEF PrepareReturn
    <3> QED BY <3>1, <3>2, Zenon DEF New, FrameOf
  <2> QED BY <2>3, <2>4, <2>5 DEF FrameInv
<1>8. CASE Userret
  <2>1. pc = At("prepared", proc) /\ "prepared" \in InProc
    BY <1>8, Zenon DEF Userret
  <2>2. /\ FrameOf(proc) /\ proc \in Proc /\ Current = proc /\ ~InUser
       /\ pc[1] = "prepared" /\ proc' = proc
    BY <1>8, <2>1, InKernel, Zenon DEF Userret
  <2>3. InUser' /\ Current' = proc /\ reg' = user'[proc].regs /\ pc' = user'[proc].pc
    BY <1>8, <2>2 DEF Userret, FrameOf, Current
  <2>4. ASSUME NEW p \in Proc, p # proc, state'[p] # "UNUSED" PROVE New(p)' \/ FrameOf(p)'
    <3>1. New(p) \/ FrameOf(p)
      BY <1>8, <2>4, <2>2, Zenon DEF Userret, FrameInv
    <3>2. /\ trapframe'[p] = trapframe[p] /\ user'[p] = user[p]
          /\ context'[p] = context[p] /\ Current # p /\ Current' # p
      BY <1>8, <2>4, <2>2, <2>3, Zenon DEF Userret
    <3> QED BY <3>1, <3>2, Zenon DEF New, FrameOf
  <2> QED BY <2>2, <2>3, <2>4, Zenon DEF FrameInv
<1>9. ASSUME NEW cause \in {"syscall", "usertrap"}, UserTrap(cause) PROVE FrameInv'
  <2>0. InUser /\ pc \in UserPlace /\ pc # At("scheduler", 0)
    BY <1>9, UserFacts, Zenon DEF UserTrap
  <2>1. /\ proc \in Proc /\ satp = proc /\ InUser /\ Current = proc
       /\ reg = user[proc].regs /\ pc = user[proc].pc /\ pc \in UserPlace
    BY <2>0, ZenonT(30) DEF FrameInv, Current
  <2>2. ~InUser' /\ proc' = proc /\ Current' = proc
    BY <1>9, <2>1, SMTT(30) DEF UserTrap, Current
  <2>3. UserVecSaves = reg
    BY Zenon DEF UserVecSaves
  <2>4. FrameOf(proc)'
    BY <1>9, <2>1, <2>2, <2>3, SMTT(30) DEF UserTrap, UserVec, FrameOf, Frame
  <2>5. ASSUME NEW p \in Proc, p # proc, state'[p] # "UNUSED" PROVE New(p)' \/ FrameOf(p)'
    <3>1. New(p) \/ FrameOf(p)
      BY <1>9, <2>5, <2>1, Zenon DEF UserTrap, FrameInv
    <3>2. /\ trapframe'[p] = trapframe[p] /\ user'[p] = user[p]
          /\ context'[p] = context[p] /\ Current # p /\ Current' # p
      BY <1>9, <2>5, <2>1, <2>2, SMTT(30) DEF UserTrap, UserVec
    <3> QED BY <3>1, <3>2, Zenon DEF New, FrameOf
  <2> QED BY <2>2, <2>4, <2>5, SMTT(30) DEF FrameInv
<1>10. ASSUME NEW q \in Proc, Fork(q) PROVE FrameInv'
  <2>1. /\ FrameOf(proc) /\ proc \in Proc /\ Current = proc /\ ~InUser
       /\ state[proc] = "RUNNING"
    BY <1>10, InKernel, Zenon DEF Fork, Call
  <2>2. ~InUser' /\ proc' = proc /\ Current' = proc
    BY <1>10, <2>1 DEF Fork, Call, Current
  <2>0. q # proc
    BY <1>10, <2>1, Zenon DEF Fork
  <2>3. FrameOf(proc)'
    <3>1. /\ trapframe' = [trapframe EXCEPT ![proc].regs.r0 = <<"pid", q>>, ![q] = ForkFrame(proc)]
          /\ user' = [user EXCEPT ![proc].regs.r0 = <<"pid", q>>,
                                  ![q] = [user[proc] EXCEPT !.regs.r0 = <<"result", 0>>]]
      BY <1>10, Zenon DEF Fork, Call
    <3>2. /\ trapframe'[proc].regs = [trapframe[proc].regs EXCEPT !["r0"] = <<"pid", q>>]
          /\ trapframe'[proc].epc = trapframe[proc].epc
          /\ user'[proc].regs = [user[proc].regs EXCEPT !["r0"] = <<"pid", q>>]
          /\ user'[proc].pc = user[proc].pc
      BY <2>0, <2>1, <3>1, ForkParent, Zenon
    <3> QED BY <2>1, <2>2, <3>2 DEF FrameOf
  <2>4. FrameOf(q)'
    <3>2. /\ trapframe'[q] = [trapframe[proc] EXCEPT !.regs.r0 = <<"result", 0>>]
          /\ user'[q] = [user[proc] EXCEPT !.regs.r0 = <<"result", 0>>]
      BY <1>10, <2>0, SMTT(30) DEF Fork, Call, ForkFrame
    <3>3. trapframe[proc] \in Frame /\ user[proc] \in Program
      BY <2>1, Zenon
    <3> QED BY <2>1, <3>2, <3>3 DEF FrameOf, Frame, Program, Reg
  <2>5. ASSUME NEW p \in Proc, p # proc, state'[p] # "UNUSED", p # q PROVE New(p)' \/ FrameOf(p)'
    <3>1. New(p) \/ FrameOf(p)
      BY <1>10, <2>5, <2>1 DEF Fork, Call, FrameInv
    <3>2. /\ trapframe'[p] = trapframe[p] /\ user'[p] = user[p]
          /\ context'[p] = context[p] /\ Current # p /\ Current' # p
      BY <1>10, <2>5, <2>1, <2>2 DEF Fork, Call
    <3> QED BY <3>1, <3>2, Zenon DEF New, FrameOf
  <2>6. ASSUME NEW p \in Proc, state'[p] # "UNUSED" PROVE New(p)' \/ FrameOf(p)'
    <3>1. CASE p = proc
      BY <2>2, <2>3, <3>1, Zenon DEF FrameOf
    <3>2. CASE p = q
      BY <2>4, <3>2, Zenon
    <3> QED BY <2>5, <2>6, <3>1, <3>2, Zenon
  <2> QED BY <2>2, <2>6, Zenon DEF FrameInv
<1>11. ASSUME NEW q \in Proc, Run(q) PROVE FrameInv'
  <2>1. Current = Scheduler /\ q # Current /\ state[q] # "UNUSED" /\ ~InUser
    BY <1>11, SMTT(30) DEF Run, Current
  <2>2. /\ pc' = context[q].lr /\ pc' \in {At("syscall", q), At("usertrap", q), At("forkret", q)}
       /\ proc' = q
    BY <1>11, <2>1, Suspended, Zenon DEF Run, Swtch
  <2>3. ~InUser' /\ Current' = q
    BY <2>2, SMTT(30) DEF Current
  <2>4. ASSUME NEW p \in Proc, state'[p] # "UNUSED" PROVE New(p)' \/ FrameOf(p)'
    <3>1. New(p) \/ FrameOf(p)
      BY <1>11, <2>1, <2>4, SMTT(30) DEF Run, FrameInv
    <3>2. /\ trapframe'[p] = trapframe[p] /\ user'[p] = user[p]
          /\ context'[p] = context[p] /\ Current # p
      <4>1. p # Scheduler /\ p \in Thread
        <5> HIDE PlaceFacts DEF ContextInv, Types, CpuInv
        <5> QED BY <2>4, ThreadFacts, ZenonT(30)
      <4> QED BY <1>11, <2>1, <4>1, Zenon DEF Run, Swtch
    <3> QED BY <2>2, <2>3, <3>1, <3>2, ZenonT(30) DEF New, FrameOf
  <2> QED BY <2>3, <2>4, Zenon DEF FrameInv
<1>12. ASSUME NEW s \in {"RUNNABLE", "SLEEPING", "ZOMBIE"}, Sched(s) PROVE FrameInv'
  <2>1. PICK where \in {"syscall", "usertrap"} : pc = At(where, proc)
    BY <1>12, Zenon DEF Sched
  <2>2. FrameOf(proc) /\ proc \in Proc /\ Current = proc /\ Current # Scheduler /\ ~InUser
    BY <2>1, InKernel, Zenon
  <2>3. pc' = At("scheduler", 0) /\ proc' = proc
    BY <1>12, <2>2, SchedulerWaits, Zenon DEF Sched, Swtch
  <2>4. ~InUser' /\ Current' = 0
    BY <2>3, SMTT(30) DEF Current
  <2>5. FrameOf(proc)'
    BY <1>12, <2>2, <2>3, Zenon DEF Sched, FrameOf
  <2>6. ASSUME NEW p \in Proc, p # proc, state'[p] # "UNUSED" PROVE New(p)' \/ FrameOf(p)'
    <3>1. New(p) \/ FrameOf(p)
      BY <1>12, <2>6, <2>2, SMTT(30) DEF Sched, FrameInv
    <3>2. /\ trapframe'[p] = trapframe[p] /\ user'[p] = user[p]
          /\ context'[p] = context[p] /\ Current # p /\ Current' # p
      BY <1>12, <2>6, <2>2, <2>4, SMTT(30) DEF Sched, Swtch
    <3> QED BY <3>1, <3>2, ZenonT(30) DEF New, FrameOf
  <2> QED BY <2>3, <2>4, <2>5, <2>6, SMTT(30) DEF FrameInv
<1>13. CASE UNCHANGED vars
  BY <1>13, ZenonT(30) DEF vars, cpu, FrameInv, FrameOf, New, Current
<1> HIDE ThreadFacts, PlaceFacts DEF ContextInv, Types, CpuInv, InUser, InProc
<1> QED BY <1>1, <1>2, <1>3, <1>4, <1>5, <1>6, <1>7, <1>8, <1>9, <1>10, <1>11, <1>12, <1>13, ZenonT(60) DEF Next

\* A thread that waits, and that a step does not concern, still waits with its
\* registers.
LEMMA StillWaiting ==
  ASSUME NPROC \in Nat, ContextInv, context' = context, Current' = Current,
         \A t \in Thread : t # Current => thread'[t] = thread[t],
         \A p \in Proc : state'[p] # "UNUSED" => state[p] # "UNUSED"
  PROVE  \A t \in Thread : Waits(t)' => Waiting(t)'
<1>1. \A t \in Thread : Waits(t) => Waiting(t)
  BY Zenon DEF ContextInv, ThreadInv
<1>2. ASSUME NEW t \in Thread, Waits(t)' PROVE Waiting(t)'
  <2>1. Waits(t) /\ thread'[t] = thread[t]
    BY <1>2, ThreadFacts, Zenon DEF Waits
  <2> QED BY <1>1, <2>1, Zenon DEF Waiting
<1> QED BY <1>2, Zenon

\* C expects its stack and what it had in r4.
LEMMA KeptFields == \A t, v : Kept(t, v).sp = Kstack(t) /\ Kept(t, v).r4 = v
BY DEF Kept

\* swtch loads the registers of the new thread ...
LEMMA SwtchLoads ==
  ASSUME NEW t, NEW n, Swtch(t, n)
  PROVE  /\ reg'["sp"] = context[n].sp /\ reg'["r4"] = context[n].r4
         /\ reg'["r11"] = context[n].r11
BY DEF Swtch, Switched, Reg

\* ... and saves those of the old one.
LEMMA SwtchSaves ==
  ASSUME NEW t \in Thread, NEW n, Swtch(t, n), DOMAIN context = Thread,
         DOMAIN context[t] = {"lr", "sp", "r4", "r11"}
  PROVE  /\ context'[t].lr = pc /\ context'[t].r4 = reg["r4"]
         /\ context'[t].sp = reg["sp"] /\ context'[t].r11 = reg["r11"]
         /\ \A u \in Thread \ {t} : context'[u] = context[u]
<1>1. context'[t] = [r \in {"lr", "sp", "r4", "r11"} |->
                       IF r = "lr" THEN pc ELSE IF r \in Switched THEN reg[r] ELSE context[t][r]]
  BY Zenon DEF Swtch
<1>2. \A u \in Thread \ {t} : context'[u] = context[u]
  BY Zenon DEF Swtch
<1> QED BY <1>1, <1>2 DEF Switched

\* C code of the process that runs keeps the stack and what swtch relies on.
LEMMA ComputeOnCpu ==
  ASSUME OnCpu, ~InUser, pc[2] = proc, pc'[2] = proc, Compute(proc),
         thread'[proc] = Kept(proc, Kernel(proc, "r4"))
  PROVE  OnCpu'
<1>1. reg' = [r \in Reg |-> IF r \in {"sp", "r11"} THEN reg[r] ELSE Kernel(proc, r)]
  BY Zenon DEF Compute
<1>2. reg'["sp"] = reg["sp"] /\ reg'["r11"] = reg["r11"] /\ reg'["r4"] = Kernel(proc, "r4")
  BY <1>1 DEF Reg
<1>3. thread'[proc].r4 = Kernel(proc, "r4")
  BY KeptFields, Zenon
<1>4. reg["r11"] = Hart /\ reg["sp"] = Kstack(proc)
  BY Zenon DEF OnCpu
<1> QED BY <1>2, <1>3, <1>4, Zenon DEF OnCpu

\* The scheduler switches to a process that waits, and waits itself.
LEMMA RunKeepsThreads ==
  ASSUME NPROC \in Nat, ContextInv, NEW q \in Proc, Run(q)
  PROVE  ThreadInv'
<1>1. /\ pc = At("scheduler", 0) /\ state[q] = "RUNNABLE" /\ Swtch(Scheduler, q)
      /\ state' = [state EXCEPT ![q] = "RUNNING"] /\ thread' = thread
  BY Zenon DEF Run
<1>2. ~InUser /\ pc[2] = Scheduler /\ Current = Scheduler /\ q # Current
  <2>1. pc[1] = "scheduler" /\ pc[2] = Scheduler
    BY <1>1, PlaceFacts, Zenon DEF Scheduler
  <2> QED BY <2>1, ThreadFacts, Zenon DEF InUser, Current
<1>3. /\ Stacks /\ OnCpu /\ \A t \in Thread : Waits(t) => Waiting(t)
      /\ DOMAIN context = Thread /\ DOMAIN context[Scheduler] = {"lr", "sp", "r4", "r11"}
      /\ state \in [Proc -> {"UNUSED", "RUNNABLE", "RUNNING", "SLEEPING", "ZOMBIE"}]
  BY ThreadFacts, Zenon DEF ContextInv, ThreadInv, Types
<1>4. /\ context[q].r4 = thread[q].r4 /\ context[q].sp = Kstack(q) /\ context[q].r11 = Hart
      /\ context[q].lr \in {At("syscall", q), At("usertrap", q), At("forkret", q)}
  BY <1>1, <1>2, Suspended, Zenon
<1>5. pc'[2] = q /\ ~InUser' /\ Current' = q
  <2>1. pc' = context[q].lr
    BY <1>1, Zenon DEF Swtch
  <2>2. pc'[2] = q /\ pc'[1] \in {"syscall", "usertrap", "forkret"}
    BY <1>4, <2>1 DEF At
  <2> QED BY <2>2, Zenon DEF InUser, Current
<1>6. OnCpu'
  BY <1>1, <1>4, <1>5, SwtchLoads, Zenon DEF OnCpu
<1>7. /\ context'[Scheduler].lr = pc /\ context'[Scheduler].r4 = reg["r4"]
      /\ context'[Scheduler].sp = reg["sp"] /\ context'[Scheduler].r11 = reg["r11"]
      /\ \A t \in Proc : context'[t] = context[t]
  BY <1>1, <1>3, ThreadFacts, SwtchSaves, ZenonT(30)
<1>8. Waiting(Scheduler)'
  <2>1. reg["r11"] = Hart /\ reg["sp"] = Kstack(Scheduler) /\ reg["r4"] = thread[Scheduler].r4
    BY <1>2, <1>3, Zenon DEF OnCpu
  <2> QED BY <1>1, <1>7, <2>1, Zenon DEF Waiting
<1>9. ASSUME NEW t \in Proc, Waits(t)' PROVE Waiting(t)'
  <2>1. t # q /\ t # Scheduler
    BY <1>5, <1>9, ThreadFacts, Zenon DEF Waits
  <2>2. state[t] # "UNUSED"
    BY <1>1, <1>3, <1>9, <2>1, Zenon DEF Waits
  <2>3. Waiting(t)
    BY <1>2, <1>3, <2>1, <2>2, ThreadFacts, Zenon DEF Waits
  <2> QED BY <1>1, <1>7, <2>3, Zenon DEF Waiting
<1> QED BY <1>1, <1>3, <1>6, <1>8, <1>9, ThreadFacts, Zenon DEF ThreadInv, Stacks

\* sched switches from a process to the scheduler.
LEMMA SchedKeepsThreads ==
  ASSUME NPROC \in Nat, ContextInv, NEW s \in {"RUNNABLE", "SLEEPING", "ZOMBIE"}, Sched(s)
  PROVE  ThreadInv'
<1>1. /\ Swtch(proc, Scheduler) /\ state' = [state EXCEPT ![proc] = s]
      /\ thread' = thread /\ proc' = proc
  BY Zenon DEF Sched
<1>2. PICK where \in {"syscall", "usertrap"} : pc = At(where, proc)
  BY Zenon DEF Sched
<1>3. ~InUser /\ proc \in Proc /\ Current = proc /\ Current # Scheduler /\ pc[2] = proc
  <2>1. where \in InProc
    BY <1>2, Zenon DEF InProc
  <2> QED BY <1>2, <2>1, InKernel, Zenon
<1>4. /\ Stacks /\ OnCpu /\ \A t \in Thread : Waits(t) => Waiting(t)
      /\ DOMAIN context = Thread /\ DOMAIN context[proc] = {"lr", "sp", "r4", "r11"}
      /\ state \in [Proc -> {"UNUSED", "RUNNABLE", "RUNNING", "SLEEPING", "ZOMBIE"}]
  BY <1>3, ThreadFacts, Zenon DEF ContextInv, ThreadInv, Types
<1>5. /\ context[Scheduler].r4 = thread[Scheduler].r4 /\ context[Scheduler].r11 = Hart
      /\ context[Scheduler].sp = Kstack(Scheduler) /\ context[Scheduler].lr = At("scheduler", 0)
  BY <1>3, SchedulerWaits, Zenon
<1>6. pc'[2] = Scheduler /\ ~InUser' /\ Current' = Scheduler
  <2>1. pc' = At("scheduler", 0)
    BY <1>1, <1>5, Zenon DEF Swtch
  <2>2. pc'[1] = "scheduler" /\ pc'[2] = Scheduler
    BY <2>1, PlaceFacts, Zenon DEF Scheduler
  <2> QED BY <2>2, Zenon DEF InUser, Current
<1>7. OnCpu'
  BY <1>1, <1>5, <1>6, SwtchLoads, Zenon DEF OnCpu
<1>8. /\ context'[proc].lr = pc /\ context'[proc].r4 = reg["r4"]
      /\ context'[proc].sp = reg["sp"] /\ context'[proc].r11 = reg["r11"]
      /\ \A t \in Thread \ {proc} : context'[t] = context[t]
  BY <1>1, <1>3, <1>4, ThreadFacts, SwtchSaves, Zenon
<1>9. ASSUME NEW t \in Thread, Waits(t)' PROVE Waiting(t)'
  <2>1. t # Scheduler /\ t \in Proc
    BY <1>6, <1>9, ThreadFacts, Zenon DEF Waits
  <2>2. CASE t = proc
    <3>1. reg["r11"] = Hart /\ reg["sp"] = Kstack(proc) /\ reg["r4"] = thread[proc].r4
      BY <1>3, <1>4, Zenon DEF OnCpu
    <3>2. pc \in {At(w, proc) : w \in {"syscall", "usertrap", "forkret"}}
      BY <1>2, Zenon
    <3> QED BY <1>1, <1>8, <2>1, <2>2, <3>1, <3>2, Zenon DEF Waiting
  <2>3. CASE t # proc
    <3>1. state[t] # "UNUSED"
      BY <1>1, <1>4, <1>9, <2>1, <2>3, Zenon DEF Waits
    <3>2. Waiting(t)
      BY <1>3, <1>4, <2>1, <2>3, <3>1, Zenon DEF Waits
    <3> QED BY <1>1, <1>8, <2>3, <3>2, Zenon DEF Waiting
  <2> QED BY <2>2, <2>3, Zenon
<1> QED BY <1>1, <1>4, <1>7, <1>9, Zenon DEF ThreadInv, Stacks

\* Steps keep the registers of every kernel thread in its context or in the CPU.
LEMMA ThreadInvKept ==
  ASSUME NPROC \in Nat, ContextInv, [Next]_vars
  PROVE  ThreadInv'
<1> USE ThreadFacts, PlaceFacts
<1> USE DEF ContextInv, Types, CpuInv, InUser, InProc
<1>1. CASE UserCode
  <2>1. proc \in Proc /\ InUser
    BY <1>1, UserFacts, Zenon DEF UserCode
  <2>2. InUser' /\ Current' = Current
    BY <1>1, <2>1, Zenon DEF UserCode, Current
  <2>3. thread' = thread
    BY <1>1, Zenon DEF UserCode
  <2>4. Stacks'
    BY <2>1, <2>3, Zenon DEF Stacks, Kept, ThreadInv
  <2>5. OnCpu'
    BY <1>1, <2>1, <2>2, <2>3, Zenon DEF UserCode, ThreadInv, OnCpu, Reg, Kept
  <2>6. context' = context /\ \A p \in Proc : state'[p] # "UNUSED" => state[p] # "UNUSED"
    BY <1>1, Zenon DEF UserCode
  <2>7. \A t \in Thread : t # Current => thread'[t] = thread[t]
    BY <2>1, <2>3, Zenon
  <2> QED BY <2>2, <2>4, <2>5, <2>6, <2>7, StillWaiting, Zenon DEF ThreadInv
<1>2. CASE KernelVec
  <2>1. ~InUser /\ evec = "kernelvec"
    BY <1>2, Zenon DEF KernelVec
  <2>2. ~InUser' /\ pc' = pc /\ Current' = Current
    BY <1>2, <2>1, Zenon DEF KernelVec, Saved, Current
  <2>3. thread' = thread
    BY <1>2, Zenon DEF KernelVec, Saved
  <2>4. Stacks'
    BY <2>1, <2>3, Zenon DEF Stacks, Kept, ThreadInv
  <2>5. OnCpu'
    BY <1>2, <2>1, <2>2, <2>3, SMTT(30) DEF KernelVec, Saved, ThreadInv, OnCpu, Reg, Kept
  <2>6. context' = context /\ \A p \in Proc : state'[p] # "UNUSED" => state[p] # "UNUSED"
    BY <1>2, Zenon DEF KernelVec, Saved
  <2>7. \A t \in Thread : t # Current => thread'[t] = thread[t]
    BY <2>1, <2>3, Zenon
  <2> QED BY <2>2, <2>4, <2>5, <2>6, <2>7, StillWaiting, Zenon DEF ThreadInv
<1>3. CASE Syscall
  <2>1. proc \in Proc /\ Current = proc /\ ~InUser /\ pc[1] = "syscall" /\ pc[2] = proc
    BY <1>3, InKernel, Zenon DEF Syscall, Call
  <2>2. ~InUser' /\ pc'[2] = proc /\ Current' = Current
    BY <1>3, <2>1 DEF Syscall, Call, Compute, Computed, Kept, Current
  <2>3. thread' = [thread EXCEPT ![proc] = Kept(proc, Kernel(proc, "r4"))]
    BY <1>3, Zenon DEF Syscall, Call, Compute, Computed, Kept
  <2>4. Stacks'
    BY <2>1, <2>3, Zenon DEF Stacks, Kept, ThreadInv
  <2>5. OnCpu'
    <3>1. thread'[proc] = Kept(proc, Kernel(proc, "r4"))
      BY <2>1, <2>3, Zenon
    <3> QED BY <1>3, <2>1, <2>2, <3>1, ComputeOnCpu, Zenon DEF Syscall, Call, ThreadInv
  <2>6. context' = context /\ \A p \in Proc : state'[p] # "UNUSED" => state[p] # "UNUSED"
    BY <1>3, Zenon DEF Syscall, Call, Compute, Computed, Kept
  <2>7. \A t \in Thread : t # Current => thread'[t] = thread[t]
    BY <2>1, <2>3, Zenon
  <2> QED BY <2>2, <2>4, <2>5, <2>6, <2>7, StillWaiting, Zenon DEF ThreadInv
<1>4. CASE Exec
  <2>1. proc \in Proc /\ Current = proc /\ ~InUser /\ pc[1] = "syscall" /\ pc[2] = proc
    BY <1>4, InKernel, Zenon DEF Exec, Call
  <2>2. ~InUser' /\ pc'[2] = proc /\ Current' = Current
    BY <1>4, <2>1, SMTT(30) DEF Exec, Call, Compute, Computed, Kept, Current
  <2>3. thread' = [thread EXCEPT ![proc] = Kept(proc, Kernel(proc, "r4"))]
    BY <1>4, Zenon DEF Exec, Call, Compute, Computed, Kept
  <2>4. Stacks'
    BY <2>1, <2>3, Zenon DEF Stacks, Kept, ThreadInv
  <2>5. OnCpu'
    <3>1. thread'[proc] = Kept(proc, Kernel(proc, "r4"))
      BY <2>1, <2>3, Zenon
    <3> QED BY <1>4, <2>1, <2>2, <3>1, ComputeOnCpu, Zenon DEF Exec, Call, ThreadInv
  <2>6. context' = context /\ \A p \in Proc : state'[p] # "UNUSED" => state[p] # "UNUSED"
    BY <1>4, Zenon DEF Exec, Call, Compute, Computed, Kept
  <2>7. \A t \in Thread : t # Current => thread'[t] = thread[t]
    BY <2>1, <2>3, Zenon
  <2> QED BY <2>2, <2>4, <2>5, <2>6, <2>7, StillWaiting, Zenon DEF ThreadInv
<1>5. CASE Scan
  <2>1. pc[2] = 0 /\ Current = 0 /\ ~InUser
    BY <1>5 DEF Scan, Current
  <2>2. ~InUser' /\ pc' = pc /\ Current' = Current
    BY <1>5, <2>1, Zenon DEF Scan, Current
  <2>3. thread' = thread
    BY <1>5, Zenon DEF Scan
  <2>4. Stacks'
    BY <2>1, <2>3, Zenon DEF Stacks, Kept, ThreadInv
  <2>5. OnCpu'
    BY <1>5, <2>1, <2>2, <2>3, Zenon DEF Scan, ThreadInv, OnCpu, Reg, Kept
  <2>6. context' = context /\ \A p \in Proc : state'[p] # "UNUSED" => state[p] # "UNUSED"
    BY <1>5, SMTT(30) DEF Scan
  <2>7. \A t \in Thread : t # Current => thread'[t] = thread[t]
    BY <2>1, <2>3, Zenon
  <2> QED BY <2>2, <2>4, <2>5, <2>6, <2>7, StillWaiting, ZenonT(30) DEF ThreadInv
<1>6. CASE Forkret
  <2>1. proc \in Proc /\ Current = proc /\ ~InUser /\ pc[1] = "forkret" /\ pc[2] = proc
    BY <1>6, InKernel, Zenon DEF Forkret
  <2>2. ~InUser' /\ pc'[2] = proc /\ Current' = Current
    BY <1>6, <2>1, SMTT(30) DEF Forkret, Compute, Computed, Kept, Current
  <2>3. thread' = [thread EXCEPT ![proc] = Kept(proc, Kernel(proc, "r4"))]
    BY <1>6, Zenon DEF Forkret, Compute, Computed, Kept
  <2>4. Stacks'
    BY <2>1, <2>3, ZenonT(30) DEF Stacks, Kept, ThreadInv
  <2>5. OnCpu'
    <3>1. thread'[proc] = Kept(proc, Kernel(proc, "r4"))
      BY <2>1, <2>3, Zenon
    <3> QED BY <1>6, <2>1, <2>2, <3>1, ComputeOnCpu, Zenon DEF Forkret, ThreadInv
  <2>6. context' = context /\ \A p \in Proc : state'[p] # "UNUSED" => state[p] # "UNUSED"
    BY <1>6, Zenon DEF Forkret, Compute, Computed, Kept
  <2>7. \A t \in Thread : t # Current => thread'[t] = thread[t]
    BY <2>1, <2>3, Zenon
  <2> QED BY <2>2, <2>4, <2>5, <2>6, <2>7, StillWaiting, Zenon DEF ThreadInv
<1>7. CASE PrepareReturn
  <2>1. proc \in Proc /\ Current = proc /\ ~InUser /\ pc[2] = proc
    BY <1>7, InKernel, Zenon DEF PrepareReturn
  <2>2. ~InUser' /\ pc'[2] = proc /\ Current' = Current
    BY <1>7, <2>1 DEF PrepareReturn, OffBeforeReturn, Current
  <2>3. thread' = thread
    BY <1>7, Zenon DEF PrepareReturn, OffBeforeReturn
  <2>4. Stacks'
    BY <2>1, <2>3, Zenon DEF Stacks, Kept, ThreadInv
  <2>5. OnCpu'
    BY <1>7, <2>1, <2>2, <2>3, Zenon DEF PrepareReturn, OffBeforeReturn, ThreadInv, OnCpu, Reg, Kept
  <2>6. context' = context /\ \A p \in Proc : state'[p] # "UNUSED" => state[p] # "UNUSED"
    BY <1>7, Zenon DEF PrepareReturn, OffBeforeReturn
  <2>7. \A t \in Thread : t # Current => thread'[t] = thread[t]
    BY <2>1, <2>3, ZenonT(30)
  <2> QED BY <2>2, <2>4, <2>5, <2>6, <2>7, StillWaiting, Zenon DEF ThreadInv
<1>8. CASE Userret
  <2>1. proc \in Proc /\ Current = proc /\ ~InUser /\ pc[1] = "prepared" /\ pc[2] = proc /\ FrameOf(proc)
    BY <1>8, InKernel, Zenon DEF Userret
  <2>2. InUser' /\ Current' = Current
    <3>1. pc' = <<"user", 0>> \/ pc' = <<"user", 1>>
      <4>1. pc' = epc
        BY <1>8, Zenon DEF Userret
      <4>2. epc = trapframe[proc].epc
        BY <2>1, Zenon DEF CpuInv
      <4>3. trapframe[proc].epc \in UserPlace
        BY <2>1, Zenon DEF FrameOf
      <4> QED BY <4>1, <4>2, <4>3, Zenon DEF UserPlace
    <3>2. UNCHANGED proc
      BY <1>8, Zenon DEF Userret
    <3> QED BY <3>1, <3>2, <2>1, SMTT(30) DEF Current
  <2>3. thread' = thread
    BY <1>8, Zenon DEF Userret
  <2>4. Stacks'
    BY <2>1, <2>3, Zenon DEF Stacks, Kept, ThreadInv
  <2>5. OnCpu'
    BY <1>8, <2>1, <2>2, <2>3, Zenon DEF Userret, ThreadInv, OnCpu, Reg, Kept
  <2>6. context' = context /\ \A p \in Proc : state'[p] # "UNUSED" => state[p] # "UNUSED"
    BY <1>8, Zenon DEF Userret
  <2>7. \A t \in Thread : t # Current => thread'[t] = thread[t]
    BY <2>1, <2>3, Zenon
  <2> QED BY <2>2, <2>4, <2>5, <2>6, <2>7, StillWaiting, ZenonT(30) DEF ThreadInv
<1>9. ASSUME NEW cause \in {"syscall", "usertrap"}, UserTrap(cause) PROVE ThreadInv'
  <2>1. /\ proc \in Proc /\ Current = proc /\ InUser /\ satp = proc
       /\ trapframe[proc].sp0 = Kstack(proc) /\ trapframe[proc].hart = Hart
    BY <1>9, UserFacts, Zenon DEF UserTrap, Current
  <2>2. ~InUser' /\ pc'[2] = proc /\ Current' = Current
    BY <1>9, <2>1 DEF UserTrap, UserVec, UserVecSaves, TrapVector, Kept, Current
  <2>3. thread' = [thread EXCEPT ![proc] = Kept(proc, Junk)]
    BY <1>9, Zenon DEF UserTrap, UserVec, UserVecSaves, TrapVector, Kept
  <2>4. Stacks'
    BY <2>1, <2>3, Zenon DEF Stacks, Kept, ThreadInv
  <2>5. OnCpu'
    BY <1>9, <2>1, <2>2, <2>3 DEF UserTrap, UserVec, UserVecSaves, TrapVector, Kept, ThreadInv, OnCpu, Reg, Kept
  <2>6. context' = context /\ \A p \in Proc : state'[p] # "UNUSED" => state[p] # "UNUSED"
    BY <1>9, Zenon DEF UserTrap, UserVec, UserVecSaves, TrapVector, Kept
  <2>7. \A t \in Thread : t # Current => thread'[t] = thread[t]
    BY <2>1, <2>3, Zenon
  <2> QED BY <2>2, <2>4, <2>5, <2>6, <2>7, StillWaiting, Zenon DEF ThreadInv
<1>10. ASSUME NEW q \in Proc, Fork(q) PROVE ThreadInv'
  <2>1. /\ proc \in Proc /\ Current = proc /\ ~InUser /\ pc[1] = "syscall" /\ pc[2] = proc
       /\ state[proc] = "RUNNING"
    BY <1>10, InKernel, Zenon DEF Fork, Call
  <2>2. ~InUser' /\ pc'[2] = proc /\ Current' = proc /\ q # proc
    BY <1>10, <2>1 DEF Fork, Call, Current
  <2>3. /\ thread'[q] = Kept(q, Junk) /\ thread'[proc] = Kept(proc, Kernel(proc, "r4"))
       /\ \A t \in Thread \ {q, proc} : thread'[t] = thread[t]
    BY <1>10, <2>1, <2>2, Zenon DEF Fork, Computed
  <2>4. Stacks'
    <3>1. \A t \in Thread \ {q, proc} : thread'[t].sp = Kstack(t)
      BY <2>3, ZenonT(30) DEF Stacks, ThreadInv
    <3>2. thread'[q].sp = Kstack(q) /\ thread'[proc].sp = Kstack(proc)
      <4> HIDE ThreadFacts, PlaceFacts DEF ContextInv, Types, CpuInv
      <4> QED BY <2>3, KeptFields, Zenon
    <3> QED BY <3>1, <3>2, Zenon DEF Stacks
  <2>5. OnCpu'
    BY <1>10, <2>1, <2>2, <2>3, ComputeOnCpu, Zenon DEF Fork, Call, ThreadInv
  <2>6. Waiting(q)'
    <3>1. context'[q] = NewContext(q)
      BY <1>10, ZenonT(30) DEF Fork
    <3> QED BY <2>3, <3>1 DEF Waiting, NewContext, Kept
  <2>7. ASSUME NEW t \in Thread, t # q, Waits(t)' PROVE Waiting(t)'
    <3>1. t # proc
      BY <2>2, <2>7, Zenon DEF Waits
    <3>2. context'[t] = context[t] /\ thread'[t] = thread[t]
      BY <1>10, <2>3, <2>7, <3>1, Zenon DEF Fork
    <3>3. Waits(t)
      BY <1>10, <2>1, <2>7, <3>1, ZenonT(30) DEF Fork, Waits
    <3>4. Waiting(t)
      BY <3>3, Zenon DEF ThreadInv
    <3> QED BY <3>2, <3>4, Zenon DEF Waiting
  <2>8. \A t \in Thread : Waits(t)' => Waiting(t)'
    BY <2>6, <2>7, ZenonT(30)
  <2> QED BY <2>4, <2>5, <2>8, Zenon DEF ThreadInv
<1>11. ASSUME NEW q \in Proc, Run(q) PROVE ThreadInv'
  <2> HIDE ThreadFacts, PlaceFacts DEF ContextInv, Types, CpuInv
  <2> QED BY <1>11, RunKeepsThreads, Zenon
<1>12. ASSUME NEW s \in {"RUNNABLE", "SLEEPING", "ZOMBIE"}, Sched(s) PROVE ThreadInv'
  <2> HIDE ThreadFacts, PlaceFacts DEF ContextInv, Types, CpuInv
  <2> QED BY <1>12, SchedKeepsThreads, Zenon
<1>13. CASE UNCHANGED vars
  <2>1. Current' = Current /\ thread' = thread /\ context' = context /\ state' = state
    BY <1>13, Zenon DEF vars, cpu, Current
  <2>2. Stacks /\ OnCpu
    BY Zenon DEF ThreadInv
  <2>3. Stacks' /\ OnCpu'
    <3> HIDE ThreadFacts, PlaceFacts DEF ContextInv, Types, CpuInv
    <3> QED BY <1>13, <2>2, ZenonT(30) DEF vars, cpu, Stacks, OnCpu
  <2> QED BY <2>1, <2>3, StillWaiting, Zenon DEF ThreadInv
<1> HIDE ThreadFacts, PlaceFacts DEF ContextInv, Types, CpuInv, InUser, InProc
<1> QED BY <1>1, <1>2, <1>3, <1>4, <1>5, <1>6, <1>7, <1>8, <1>9, <1>10, <1>11, <1>12, <1>13, ZenonT(60) DEF Next

-----------------------------------------------------------------------------
(* Theorems *)

\* main establishes the invariant.
LEMMA ContextInit ==
  ASSUME NPROC \in Nat, Init
  PROVE  ContextInv
<1> USE ThreadFacts, PlaceFacts, ValueFacts DEF Init
<1>1. NoFrame \in Frame /\ [regs |-> NoFrame.regs, pc |-> NoFrame.epc] \in Program
  BY Zenon DEF NoFrame, Frame, Program
<1>2. ~InUser /\ pc[2] = 0 /\ Current = 0
  BY DEF InUser, Current
<1>3. Types
  <2>1. reg \in [Reg -> Value] /\ trapframe \in [Proc -> Frame] /\ user \in [Proc -> Program]
    BY <1>1, Zenon
  <2>2. thread \in [Thread -> [r4 : Value, sp : Value]]
    BY Zenon DEF Kept, Thread
  <2>3. DOMAIN context = Thread /\ \A t \in Thread : context[t] = NewContext(t)
    BY Zenon DEF Thread
  <2>4. \A t \in Thread : DOMAIN context[t] = {"lr", "sp", "r4", "r11"}
    BY <2>3, Zenon DEF NewContext
  <2> QED BY <2>1, <2>2, <2>3, <2>4, Zenon DEF Types
<1>4. CpuInv
  BY <1>2 DEF CpuInv
<1>5. FrameInv
  BY <1>2 DEF FrameInv, New, NewContext
<1>6. ThreadInv
  <2>1. Stacks
    BY Zenon DEF Stacks, Kept
  <2>2. OnCpu
    BY <1>2, Zenon DEF OnCpu, Kept, Scheduler, Reg
  <2>3. ASSUME NEW t \in Thread, Waits(t) PROVE Waiting(t)
    <3>1. t # Scheduler /\ context[t] = NewContext(t) /\ thread[t] = Kept(t, Junk)
      BY <1>2, <2>3, Zenon DEF Waits, Scheduler
    <3> QED BY <3>1, Zenon DEF Waiting, NewContext, Kept
  <2> QED BY <2>1, <2>2, <2>3, Zenon DEF ThreadInv
<1> QED BY <1>3, <1>4, <1>5, <1>6, Zenon DEF ContextInv

\* The invariant holds: main establishes it, and every trap, call, switch and
\* return keeps it.
LEMMA ContextInvariant == Spec => []ContextInv
<1>1. Init => ContextInv
  BY ContextInit, ContextSizes, Zenon
<1>2. ContextInv /\ [Next]_vars => ContextInv'
  BY ContextSizes, TypesKept, CpuInvKept, FrameInvKept, ThreadInvKept, Zenon DEF ContextInv
<1> QED BY <1>1, <1>2, PTL DEF Spec

\* Programs find their registers, their place and their page table as they left
\* them, for any number of processes: uservec saves all of them before it uses
\* one, and userret loads them from the frame of the process that runs.
THEOREM UserRegisters == Spec => []UserSeesItsRegisters
<1>1. ContextInv => UserSeesItsRegisters
  BY Zenon DEF ContextInv, CpuInv, FrameInv, UserSeesItsRegisters
<1> QED BY <1>1, ContextInvariant, PTL

\* Kernel threads resume with their own stack and the registers that C keeps
\* over a call, through swtch, kernelvec and the traps of other processes.
THEOREM KernelThreads == Spec => []ThreadsResume
<1>1. ASSUME ContextInv, ~InUser PROVE pc[2] \in {proc, Scheduler} /\ pc[2] \in Thread
  BY <1>1, ContextSizes, PlaceFacts, ThreadFacts, SMTT(30) DEF ContextInv, CpuInv, Types, Scheduler, InUser
<1>2. ContextInv => ThreadsResume
  BY <1>1, Zenon DEF ContextInv, ThreadInv, Stacks, OnCpu, ThreadsResume, Callee
<1> QED BY <1>2, ContextInvariant, PTL

\* Traps from user code go to uservec and interrupts in the kernel to kernelvec:
\* prepare_return and usertrap change the vectors with interrupts off.
THEOREM TrapVectors == Spec => []VectorsMatch
<1>1. ContextInv => VectorsMatch
  BY Zenon DEF ContextInv, CpuInv, VectorsMatch
<1> QED BY <1>1, ContextInvariant, PTL

\* uservec, userret, kernelvec, swtch and prepare_return together: programs and
\* kernel threads find what they left, and traps their vector.
THEOREM ContextSafe == Spec => []RegistersKept
<1>1. UserSeesItsRegisters /\ ThreadsResume /\ VectorsMatch => RegistersKept
  BY Zenon DEF RegistersKept
<1> QED BY <1>1, UserRegisters, KernelThreads, TrapVectors, PTL
=============================================================================
