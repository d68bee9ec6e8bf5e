------------------------------ MODULE Context ------------------------------
(***************************************************************************)
(* Registers across traps and context switches: kernel/trampoline.S,       *)
(* kernel/kernelvec.S, kernel/swtch.S, and the C code that fills in trap   *)
(* frames, contexts and vectors.  reg is the register file of the CPU;     *)
(* registers that are treated alike stand for each other.  A step runs     *)
(* until the next point where an interrupt or another thread can come in.  *)
(* The user stack has room for the word uservec pushes.                    *)
(***************************************************************************)
EXTENDS Integers, FiniteSets

CONSTANTS
  NPROC

ASSUME ContextSizes == NPROC \in Nat

Proc == 1 .. NPROC
Scheduler == 0

\* r2: r2, r3, r12, which a call may change; r4: r4 to r10, which it keeps.
Reg == {"r0", "r1", "r2", "r4", "r11", "sp", "lr"}
Callee == {"r4", "sp"}             \* what C code finds unchanged after a call

VARIABLES
  reg, pc, flags,    \* of the CPU
  epc, eflags,       \* REG_EPC, REG_EFLAGS
  satp,              \* whose page table: a process, or the kernel's
  evec,              \* where traps go
  ie,                \* interrupts are enabled
  proc,              \* c->proc
  state,
  trapframe,         \* of each process
  context,           \* of each process and of the CPU
  user,              \* what the program of each process has in its registers
  thread             \* what each kernel thread has in the registers C keeps

cpu == <<reg, pc, flags, epc, eflags, satp, evec, ie>>
vars == <<cpu, proc, state, trapframe, context, user, thread>>

Hart == <<"hart", 0>>
Kstack(t) == <<"kernel stack", t>>
Kernel(t, v) == <<"kernel", t, v>>
Junk == <<"kernel", "scratch">>
At(where, t) == <<where, t>>
InUser == pc[1] = "user"

NoFrame == [epc |-> At("none", 0), sp0 |-> Junk, hart |-> Junk, regs |-> [r \in Reg |-> Junk]]

\* allocproc; r11 is cleared with the rest, and 0 is the hart's number.
NewContext(p) == [lr |-> At("forkret", p), sp |-> Kstack(p), r4 |-> Junk, r11 |-> Hart]

\* The registers that C code of thread t finds unchanged after a call.
Kept(t, v) == [r4 |-> v, sp |-> Kstack(t)]

\* main has called the scheduler; the first process is ready to run.
Init ==
  /\ reg = [r \in Reg |-> CASE r = "sp" -> Kstack(0) [] r = "r11" -> Hart [] OTHER -> Junk]
  /\ pc = At("scheduler", 0) /\ flags = 0 /\ epc = At("none", 0) /\ eflags = 0
  /\ satp = 0 /\ evec = "kernelvec" /\ ie = FALSE
  /\ proc = 0 /\ state = [p \in Proc |-> IF p = 1 THEN "RUNNABLE" ELSE "UNUSED"]
  /\ trapframe = [p \in Proc |-> NoFrame]
  /\ context = [t \in Proc \cup {Scheduler} |-> NewContext(t)]
  /\ user = [p \in Proc |-> [regs |-> NoFrame.regs, pc |-> NoFrame.epc]]
  /\ thread = [t \in Proc \cup {Scheduler} |-> Kept(t, Junk)]

-----------------------------------------------------------------------------
(* User code and traps *)

\* The program computes: all its registers change.
UserCode ==
  /\ InUser
  /\ reg' = [r \in Reg |-> <<"data", r>>] /\ pc' = <<"user", 1>> /\ flags' = 1
  /\ user' = [user EXCEPT ![proc] = [regs |-> reg', pc |-> pc']]
  /\ UNCHANGED <<epc, eflags, satp, evec, ie, proc, state, trapframe, context, thread>>

\* uservec saves every register, r0 by way of the user's stack.
UserVecSaves == [r \in Reg |-> reg[r]]

\* The trap frame is the one in the page table in use.
UserVec ==
  /\ trapframe' = [trapframe EXCEPT ![satp].regs = UserVecSaves, ![satp].epc = epc']
  /\ reg' = [r \in Reg |-> CASE r = "sp" -> trapframe[satp].sp0
                             [] r = "r11" -> trapframe[satp].hart
                             [] OTHER -> Junk]
  /\ satp' = 0

TrapVector == "kernelvec"

\* A system call, fault or interrupt: the hardware, uservec, and usertrap up to
\* its test of the cause.
UserTrap(cause) ==
  /\ InUser
  /\ epc' = pc /\ eflags' = flags /\ ie' = FALSE
  /\ UserVec
  /\ pc' = At(cause, proc) /\ evec' = TrapVector
  /\ thread' = [thread EXCEPT ![proc] = Kept(proc, Junk)]
  /\ UNCHANGED <<flags, proc, state, context, user>>

\* mutant: kernelvec does not save r4 to r10.
SavedNoR4 == Reg \ {"sp", "r4"}

\* What kernelvec saves and restores.
Saved == Reg \ {"sp"}

\* An interrupt in the kernel.  kernelvec itself uses r4 and r5; it leaves the
\* interrupted pc in REG_EPC for KRET.
KernelVec ==
  /\ ie /\ ~InUser
  /\ IF evec = "kernelvec"
     THEN /\ reg' = [r \in Reg |-> IF r \in Saved \cup {"sp"} THEN reg[r] ELSE Junk]
          /\ epc' = pc /\ eflags' = flags /\ UNCHANGED pc
     ELSE pc' = At("lost", 0) /\ UNCHANGED <<reg, epc, eflags>>
  /\ UNCHANGED <<flags, satp, evec, ie, proc, state, trapframe, context, user, thread>>

-----------------------------------------------------------------------------
(* System calls *)

\* The kernel uses the registers for its own.
Compute(t) == reg' = [r \in Reg |-> IF r \in {"sp", "r11"} THEN reg[r] ELSE Kernel(t, r)]

\* What C code of thread t counts on from then on.
Computed(t) == [thread EXCEPT ![t] = Kept(t, Kernel(t, "r4"))]

\* A system call that leaves frames and the user's registers as given; syscall
\* stores the result in r0.
Call(frames, users) ==
  /\ pc = At("syscall", proc) /\ pc' = At("usertrap", proc) /\ Compute(proc)
  /\ trapframe' = frames /\ user' = users
  /\ UNCHANGED <<flags, epc, eflags, satp, evec, ie, proc>>

Syscall ==
  /\ Call([trapframe EXCEPT ![proc].regs.r0 = <<"result", 0>>],
          [user EXCEPT ![proc].regs.r0 = <<"result", 0>>])
  /\ thread' = Computed(proc) /\ UNCHANGED <<state, context>>

\* The child's registers: the parent's, with 0 for the result.
ForkFrame(p) == [trapframe[p] EXCEPT !.regs.r0 = <<"result", 0>>]

Fork(q) ==
  /\ state[q] = "UNUSED"
  /\ Call([trapframe EXCEPT ![proc].regs.r0 = <<"pid", q>>, ![q] = ForkFrame(proc)],
          [user EXCEPT ![proc].regs.r0 = <<"pid", q>>,
                       ![q] = [user[proc] EXCEPT !.regs.r0 = <<"result", 0>>]])
  /\ context' = [context EXCEPT ![q] = NewContext(q)]
  /\ thread' = [Computed(proc) EXCEPT ![q] = Kept(q, Junk)]
  /\ state' = [state EXCEPT ![q] = "RUNNABLE"]

\* exec: entry point, stack, argc and argv; the other registers stay.
Entry == <<"user", 0>>
ExecRegs(regs) == [regs EXCEPT !.r0 = <<"argc", 0>>, !.r1 = <<"argv", 0>>, !.sp = <<"argv", 0>>]
Executed(p) == [trapframe EXCEPT ![p].epc = Entry, ![p].regs = ExecRegs(@)]
ExecutedUser(p) == [user EXCEPT ![p] = [regs |-> ExecRegs(@.regs), pc |-> Entry]]
Exec ==
  /\ Call(Executed(proc), ExecutedUser(proc))
  /\ thread' = Computed(proc) /\ UNCHANGED <<state, context>>

-----------------------------------------------------------------------------
(* Context switches *)

\* The registers that swtch saves and loads.
Switched == {"lr", "sp", "r4", "r11"}

\* swtch from thread t, which goes on at pc when it is switched to again.
Swtch(t, new) ==
  /\ context' = [context EXCEPT ![t] = [r \in DOMAIN @ |-> IF r = "lr" THEN pc
                                        ELSE IF r \in Switched THEN reg[r] ELSE @[r]]]
  /\ reg' = [r \in Reg |-> IF r \in Switched THEN context[new][r] ELSE reg[r]]
  /\ pc' = context[new].lr

\* sleep, yield and kexit: sched.
Sched(s) ==
  /\ pc \in {At("syscall", proc), At("usertrap", proc)}
  /\ Swtch(proc, Scheduler)
  /\ state' = [state EXCEPT ![proc] = s]
  /\ UNCHANGED <<flags, epc, eflags, satp, evec, ie, proc, trapframe, user, thread>>

\* The scheduler runs p; interrupts are off while it holds a lock.
Run(p) ==
  /\ pc = At("scheduler", 0) /\ state[p] = "RUNNABLE"
  /\ state' = [state EXCEPT ![p] = "RUNNING"] /\ proc' = p /\ ie' = FALSE
  /\ Swtch(Scheduler, p)
  /\ UNCHANGED <<flags, epc, eflags, satp, evec, trapframe, user, thread>>

\* The scheduler enables interrupts; a wakeup, or a parent that waits, changes
\* what there is to run.
Scan ==
  /\ pc = At("scheduler", 0)
  /\ ie' = TRUE /\ proc' = 0
  /\ \E p \in Proc : state' = [state EXCEPT ![p] = CASE @ = "SLEEPING" -> "RUNNABLE"
                                                    [] @ = "ZOMBIE" -> "UNUSED" [] OTHER -> @]
  /\ UNCHANGED <<reg, pc, flags, epc, eflags, satp, evec, trapframe, context, user, thread>>

\* forkret releases the lock, which may enable interrupts, and in the first
\* process mounts the file system and runs exec("/init").
Forkret ==
  /\ pc = At("forkret", proc) /\ pc' = At("returning", proc)
  /\ \E on \in BOOLEAN : ie' = on
  /\ Compute(proc) /\ thread' = Computed(proc)
  /\ IF trapframe[proc] = NoFrame THEN trapframe' = Executed(proc) /\ user' = ExecutedUser(proc)
     ELSE UNCHANGED <<user, trapframe>>
  /\ UNCHANGED <<flags, epc, eflags, satp, evec, proc, state, context>>

OffBeforeReturn == FALSE

\* prepare_return up to the write of REG_EPC.
PrepareReturn ==
  /\ pc \in {At("usertrap", proc), At("returning", proc)}
  /\ ie' = OffBeforeReturn /\ evec' = "uservec"
  /\ trapframe' = [trapframe EXCEPT ![proc].sp0 = Kstack(proc), ![proc].hart = Hart]
  /\ epc' = trapframe[proc].epc /\ eflags' = 0
  /\ pc' = At("prepared", proc)
  /\ UNCHANGED <<reg, flags, satp, proc, state, context, user, thread>>

\* userret and SYSRET.
Userret ==
  /\ pc = At("prepared", proc)
  /\ satp' = proc /\ reg' = trapframe[proc].regs
  /\ pc' = epc /\ flags' = eflags /\ ie' = TRUE
  /\ UNCHANGED <<epc, eflags, evec, proc, state, trapframe, context, user, thread>>

Next ==
  \/ UserCode \/ KernelVec \/ Syscall \/ Exec \/ Scan
  \/ Forkret \/ PrepareReturn \/ Userret
  \/ \E cause \in {"syscall", "usertrap"} : UserTrap(cause)
  \/ \E q \in Proc : Fork(q) \/ Run(q)
  \/ \E s \in {"RUNNABLE", "SLEEPING", "ZOMBIE"} : Sched(s)

Spec == Init /\ [][Next]_vars

-----------------------------------------------------------------------------
(* Properties *)

\* Every variable has its type.
TypeOK ==
  /\ DOMAIN reg = Reg /\ evec \in {"uservec", "kernelvec"} /\ ie \in BOOLEAN
  /\ satp \in 0 .. NPROC /\ proc \in 0 .. NPROC
  /\ state \in [Proc -> {"UNUSED", "RUNNABLE", "RUNNING", "SLEEPING", "ZOMBIE"}]

\* A program finds its registers as it left them, but for the result of its
\* system call, and runs on its own page table, whatever ran in between.
UserSeesItsRegisters == InUser => reg = user[proc].regs /\ pc = user[proc].pc /\ satp = proc

\* A kernel thread runs on its own stack, with the registers that C expects a
\* call to keep as it left them, however often it slept or was interrupted,
\* and with the hart's number in r11.
ThreadsResume ==
  ~InUser => /\ pc[2] \in {proc, Scheduler} /\ reg["r11"] = Hart
             /\ \A r \in Callee : reg[r] = thread[pc[2]][r]

\* An interrupt in the kernel never goes to uservec, and one in user code never
\* to kernelvec: the vectors are changed only with interrupts off.
VectorsMatch == ie => evec = IF InUser THEN "uservec" ELSE "kernelvec"

\* Programs and kernel threads find what they left, and traps their vector:
\* UserSeesItsRegisters, ThreadsResume and VectorsMatch.
RegistersKept == UserSeesItsRegisters /\ ThreadsResume /\ VectorsMatch
=============================================================================
