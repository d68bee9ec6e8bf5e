------------------------------- MODULE Memory -------------------------------
(***************************************************************************)
(* Physical pages and user page tables: kernel/kalloc.c, kernel/vm.c, the  *)
(* memory side of fork, wait, exec and sbrk, and page faults on memory     *)
(* that sbrk promised but did not allocate.  The functions map m, the free *)
(* pages and one page table, to the next m with the outcome m.ok; any      *)
(* allocation may be the one that finds no page.  Pages are counted, not   *)
(* named.  Addresses are in units, PG to a page.                           *)
(***************************************************************************)
EXTENDS Integers, Sequences, FiniteSets, FiniteSetsExt, Functions, TLC

CONSTANTS
  Proc,          \* slots of the process table; 1 is initproc
  NPAGES,        \* physical pages that kinit frees
  PG,            \* units of a page: PGSIZE
  NPTE,          \* entries of a page-table page
  TRAMPOLINE,    \* address of the trampoline page; TRAPFRAME is below it
  UINT,          \* addresses are modulo UINT (2^32 in the code)
  USERSTACK,
  MAXARG,
  InitProgram,   \* /init
  ExecCall,      \* calls of exec: program, arguments and where they are
  Delta,         \* what sbrk is called with
  Addr,          \* where the user touches memory and points system calls
  MAXSZ          \* sbrk is not called to grow beyond this size (a bound)

TRAPFRAME == TRAMPOLINE - PG
MAXVA == PG * NPTE * NPTE

MemorySizes ==
  /\ PG > 1 /\ NPTE > 1 /\ TRAMPOLINE % PG = 0 /\ TRAPFRAME > 0
  /\ TRAMPOLINE < MAXVA /\ 2 * MAXVA < UINT /\ 1 \in Proc
  /\ \A n \in Delta : 2 * n < UINT /\ -2 * n <= UINT      \* an int
  /\ NPAGES * PG <= TRAPFRAME    \* memlayout.h: PHYSTOP is below TRAPFRAME

VARIABLES
  free,          \* length of kmem_freelist
  proc,          \* state, parent, sz and the page table, pt
  panicked

vars == <<free, proc, panicked>>

\* A page table: whether its root page is there, the entries of the root that
\* have a page-table page, and the permissions of the mapped addresses.
NoTable == [root |-> FALSE, l2 |-> {}, leaf |-> <<>>]
Unused == [state |-> "UNUSED", parent |-> 0, sz |-> 0, pt |-> NoTable]

Panic(m, why) == IF m.panic = "" THEN [m EXCEPT !.panic = why, !.ok = FALSE] ELSE m
Ok(m) == [m EXCEPT !.ok = TRUE]
Fail(m) == [m EXCEPT !.ok = FALSE]

PageUp(a) == (((a + PG - 1) \div PG) * PG) % UINT
PageDown(a) == (a \div PG) * PG
Pages(a, b) == {x \in a .. b - 1 : (x - a) % PG = 0}

-----------------------------------------------------------------------------
(* kalloc.c and page tables *)

Kalloc(m) == IF m.free = 0 THEN Fail(m) ELSE Ok([m EXCEPT !.free = @ - 1])
Kfree(m) == [m EXCEPT !.free = @ + 1]

L1(va) == va \div (PG * NPTE)

\* walk with alloc: a missing page-table page is made.
AddTable(k, i) == IF k.ok THEN [k EXCEPT !.pt.l2 = @ \cup {i}] ELSE k

Walk(m, va) ==
  IF va >= MAXVA THEN Panic(m, "walk")
  ELSE IF L1(va) \in m.pt.l2 THEN Ok(m) ELSE AddTable(Kalloc(m), L1(va))

IsMapped(m, va) == va \in DOMAIN m.pt.leaf
WalkAddr(m, va) == va < MAXVA /\ IsMapped(m, va) /\ "U" \in m.pt.leaf[va]

\* mappages for one page, which is what every caller here asks for.
SetLeaf(w, va, flags) ==
  IF ~w.ok THEN w
  ELSE IF IsMapped(w, va) THEN Panic(w, "mappages: remap")
  ELSE [w EXCEPT !.pt.leaf = (va :> flags) @@ @]

MapPage(m, va, flags) == SetLeaf(Walk(m, va), va, flags)

\* uvmunmap of the pages at the addresses as; those not mapped are passed over.
Unmap(m, as, dofree) ==
  [m EXCEPT !.pt.leaf = Restrict(@, DOMAIN @ \ as),
            !.free = @ + IF dofree THEN Cardinality(as \cap DOMAIN m.pt.leaf) ELSE 0]

UvmDealloc(m, oldsz, newsz) ==
  IF newsz >= oldsz THEN m ELSE Unmap(m, Pages(PageUp(newsz), PageUp(oldsz)), TRUE)

DeallocSize(oldsz, newsz) == IF newsz >= oldsz THEN oldsz ELSE newsz

\* kalloc and mappages of one page, which goes back when mappages fails.
\* (mutant: it does not.)
GiveBackNot(r) == r

GiveBack(r) == IF r.ok THEN r ELSE Kfree(r)
MapPageOf(k, va, flags) == IF k.ok THEN GiveBack(MapPage(k, va, flags)) ELSE k
MapNew(m, va, flags) == MapPageOf(Kalloc(m), va, flags)

\* The loop of uvmalloc from a on, and its undoing.
RECURSIVE Grow(_, _, _, _, _)
GrowOn(r, a, oldsz, newsz, flags) ==
  IF r.ok THEN Grow(r, a + PG, oldsz, newsz, flags) ELSE UvmDealloc(r, a, oldsz)

Grow(m, a, oldsz, newsz, flags) ==
  IF a >= newsz THEN Ok(m)
  ELSE GrowOn(MapNew(m, a, flags), a, oldsz, newsz, flags)

\* uvmalloc returns NewSize, or 0 for failure: also when newsz is 0.
UvmAlloc(m, oldsz, newsz, xperm) ==
  IF newsz < oldsz THEN Ok(m)
  ELSE IF newsz = 0 THEN Fail(m)
  ELSE Grow(m, PageUp(oldsz), PageUp(oldsz), newsz, {"R", "U"} \cup xperm)
NewSize(oldsz, newsz) == IF newsz < oldsz THEN oldsz ELSE newsz

FreeWalk(m) ==
  IF DOMAIN m.pt.leaf # {} THEN Panic(m, "freewalk: leaf")
  ELSE [m EXCEPT !.free = @ + Cardinality(m.pt.l2) + 1, !.pt = NoTable]

UvmFree(m, sz) == FreeWalk(Unmap(m, Pages(0, PageUp(sz)), TRUE))

\* uvmcopy of the table old from i on into m's, and its undoing.
RECURSIVE UvmCopy(_, _, _, _)
\* mutant: the copy ends where the parent has no page.
UvmCopyOnStops(r, old, i, sz) ==
  IF i \notin DOMAIN old.leaf THEN Ok(r)
  ELSE IF r.ok THEN UvmCopy(r, old, i + PG, sz) ELSE Unmap(r, Pages(0, i), TRUE)

UvmCopyOn(r, old, i, sz) ==
  IF r.ok THEN UvmCopy(r, old, i + PG, sz) ELSE Unmap(r, Pages(0, i), TRUE)

UvmCopy(m, old, i, sz) ==
  IF i >= sz THEN Ok(m)
  ELSE UvmCopyOn(IF i \in DOMAIN old.leaf THEN MapNew(m, i, old.leaf[i]) ELSE Ok(m), old, i, sz)

UvmClear(m, va) ==
  IF L1(va) \notin m.pt.l2 THEN Panic(m, "uvmclear")
  ELSE [m EXCEPT !.pt.leaf[va] = @ \ {"U"}]

VmFault(m, sz, va) ==
  IF va >= sz \/ IsMapped(m, PageDown(va)) THEN Fail(m)
  ELSE MapNew(m, PageDown(va), {"W", "U", "R"})

\* copyout (out) and copyin, page after page.  vmfault maps into the page table
\* of the process: a fault on another table (~own) would go to the wrong one.
RECURSIVE CopyUser(_, _, _, _, _, _)
CopyOn(f, own, sz, va, len, out) ==
  IF ~f.ok THEN f
  ELSE IF out /\ "W" \notin f.pt.leaf[PageDown(va)] THEN Fail(f)
  ELSE CopyUser(f, own, sz, (PageDown(va) + PG) % UINT,
                len - Min({PG - (va - PageDown(va)), len}), out)

CopyUser(m, own, sz, va, len, out) ==
  IF len = 0 THEN Ok(m)
  ELSE CopyOn(IF WalkAddr(m, PageDown(va)) THEN Ok(m)
              ELSE IF own THEN VmFault(m, sz, PageDown(va))
              ELSE Panic(m, "fault on another page table"), own, sz, va, len, out)

-----------------------------------------------------------------------------
(* Processes *)

\* proc_pagetable: a table with the trampoline and the trap frame, or none.
TrapFrame(a) == IF a.ok THEN MapPage(a, TRAPFRAME, {"R", "W"}) ELSE a

\* The trampoline is unmapped whether it was mapped or not.
Complete(t) == IF t.ok THEN t ELSE UvmFree(Unmap(t, {TRAMPOLINE}, FALSE), 0)

PagetableIn(k) ==
  IF ~k.ok THEN k
  ELSE Complete(TrapFrame(MapPage([k EXCEPT !.pt.root = TRUE], TRAMPOLINE, {"R", "X"})))

NoPages(free0) == [free |-> free0, pt |-> NoTable, ok |-> TRUE, panic |-> ""]
ProcPagetable(free0) == PagetableIn(Kalloc(NoPages(free0)))

ProcFreePagetable(m, sz) == UvmFree(Unmap(Unmap(m, {TRAMPOLINE}, FALSE), {TRAPFRAME}, FALSE), sz)

\* freeproc: the page of the trap frame, then the memory up to sz.
FreeProc(m, sz) == IF m.pt.root THEN ProcFreePagetable(Kfree(m), sz) ELSE Kfree(m)

\* allocproc once it has a slot.
AllocTable(r) == IF r.ok THEN r ELSE FreeProc(r, 0)
AllocProc(free0) ==
  IF free0 = 0 THEN Fail(NoPages(free0)) ELSE AllocTable(ProcPagetable(Kalloc(NoPages(free0)).free))

Mem(p) == [free |-> free, pt |-> proc[p].pt, ok |-> TRUE, panic |-> ""]

\* The end of a step: m's pages, and the processes as procs.
Finish(m, procs) ==
  IF m.panic # "" THEN panicked' = m.panic /\ UNCHANGED <<free, proc>>
  ELSE free' = m.free /\ proc' = procs /\ UNCHANGED panicked

\* A process in a system call or a trap.
Running(p) == panicked = "" /\ proc[p].state = "RUNNABLE"

\* kfork into slot q; without a free slot nothing happens.
Fork(p) ==
  /\ Running(p)
  /\ \E q \in Proc :
       /\ proc[q].state = "UNUSED" /\ \A o \in Proc : proc[o].state = "UNUSED" => q <= o
       /\ \E a \in {AllocProc(free)} :
            IF ~a.ok THEN Finish(a, proc)
            ELSE \E c \in {UvmCopy(a, proc[p].pt, 0, proc[p].sz)} :
              IF ~c.ok THEN Finish(FreeProc(c, 0), proc)
              ELSE Finish(c, [proc EXCEPT ![q] = [state |-> "RUNNABLE", parent |-> p,
                                                  sz |-> proc[p].sz, pt |-> c.pt]])

\* kexit
Zombie(procs, p) ==
  [q \in Proc |-> IF q = p THEN [procs[p] EXCEPT !.state = "ZOMBIE"]
                  ELSE IF procs[q].parent = p THEN [procs[q] EXCEPT !.parent = 1] ELSE procs[q]]

Exit(p) == Running(p) /\ p # 1 /\ Finish(Mem(p), Zombie(proc, p))

\* kwait with an exited child: its status goes out to addr, and its memory is
\* freed unless that fails.
Wait(p, addr) ==
  /\ Running(p)
  /\ \E q \in Proc :
       /\ proc[q].parent = p /\ proc[q].state = "ZOMBIE"
       /\ \E r \in {CopyUser(Mem(p), TRUE, proc[p].sz, addr, IF addr = 0 THEN 0 ELSE 1, TRUE)} :
            IF ~r.ok THEN Finish(r, [proc EXCEPT ![p].pt = r.pt])
            ELSE Finish(FreeProc([r EXCEPT !.pt = proc[q].pt], proc[q].sz),
                        [proc EXCEPT ![p].pt = r.pt, ![q] = Unused])

\* The memory of p after a call is m's.
Keep(p, m) == Finish(m, [proc EXCEPT ![p].pt = m.pt])
Resize(p, m, sz) == Finish(m, [proc EXCEPT ![p].pt = m.pt, ![p].sz = sz])

\* growproc; -1 leaves what uvmalloc left.
GrowProc(p, n, sz, new) ==
  IF n = 0 \/ (n > 0 /\ new > TRAPFRAME) THEN Keep(p, Mem(p))
  ELSE IF n < 0 THEN Resize(p, UvmDealloc(Mem(p), sz, new), DeallocSize(sz, new))
  ELSE \E r \in {UvmAlloc(Mem(p), sz, new, {"W"})} :
         Resize(p, r, IF r.ok THEN NewSize(sz, new) ELSE sz)

Sbrk(p, n, eager) ==
  /\ Running(p) /\ (n > 0 => proc[p].sz < MAXSZ)
  /\ \E new \in {(proc[p].sz + n) % UINT} :
       IF eager \/ n < 0 THEN GrowProc(p, n, proc[p].sz, new)
       ELSE Resize(p, Mem(p), IF new < proc[p].sz \/ new > TRAPFRAME THEN proc[p].sz ELSE new)

\* A load or store of the user at an address that is not mapped for it:
\* usertrap lets vmfault allocate the page, or the process exits.
Touch(p, va) ==
  /\ Running(p) /\ ~WalkAddr(Mem(p), PageDown(va))
  /\ \E r \in {VmFault(Mem(p), proc[p].sz, va)} :
       IF r.ok THEN Keep(p, r) ELSE Finish(r, Zombie([proc EXCEPT ![p].pt = r.pt], p))

\* A system call that reads or writes len units of user memory at va.
CopyCall(p, va, len, out) ==
  Running(p) /\ Keep(p, CopyUser(Mem(p), TRUE, proc[p].sz, va, len, out))

-----------------------------------------------------------------------------
(* exec *)

\* The file's part of a segment is read into mapped pages; the file may be short.
LoadSeg(m, seg) ==
  IF \E a \in seg.vaddr .. seg.vaddr + seg.filesz - 1 : ~WalkAddr(m, PageDown(a))
  THEN Panic(m, "loadseg: address should exist")
  ELSE [m EXCEPT !.ok = seg.readable]

\* An image that exec builds: its memory, and the size that bad would free.
Image(m, sz) == [m |-> m, sz |-> sz]

\* The segments from i on.
RECURSIVE Load(_, _, _)
LoadOn(l, sz, segs, i) == IF l.ok THEN Load(Image(l, sz), segs, i + 1) ELSE Image(l, sz)

LoadIn(r, sz, top, segs, i) ==
  IF r.ok THEN LoadOn(LoadSeg(r, segs[i]), NewSize(sz, top), segs, i) ELSE Image(r, sz)

LoadAt(image, top, segs, i) ==
  IF segs[i].memsz < segs[i].filesz \/ top < segs[i].vaddr THEN Image(Fail(image.m), image.sz)
  ELSE LoadIn(UvmAlloc(image.m, image.sz, top, segs[i].perm), image.sz, top, segs, i)

Load(image, segs, i) ==
  IF i > Len(segs) THEN image
  ELSE LoadAt(image, (segs[i].vaddr + segs[i].memsz) % UINT, segs, i)

\* The pages of the stack, the first a guard, then the argc arguments (of one
\* unit each) and the array of their addresses.
Push(m, sz, argc) ==
  IF argc + 1 > USERSTACK * PG THEN Fail(m)
  ELSE CopyUser(m, FALSE, 0, sz - argc - 1, argc + 1, TRUE)

StackOn(st, base, sz, argc) ==
  IF st.ok THEN Image(Push(UvmClear(st, base), sz, argc), sz) ELSE Image(st, base)

Stack(image, base, argc) ==
  IF ~image.m.ok THEN image
  ELSE StackOn(UvmAlloc(image.m, base, base + (USERSTACK + 1) * PG, {"W"}),
               base, base + (USERSTACK + 1) * PG, argc)

\* The new image replaces the old one, or goes back (bad).
Commit(image, old, oldsz) ==
  Image([ProcFreePagetable([image.m EXCEPT !.pt = old], oldsz) EXCEPT !.pt = image.m.pt], image.sz)
Bad(image, old, oldsz) ==
  Image([ProcFreePagetable(image.m, image.sz) EXCEPT !.pt = old, !.ok = FALSE], oldsz)

Replace(image, old, oldsz) ==
  IF image.m.ok THEN Commit(image, old, oldsz) ELSE Bad(image, old, oldsz)

Build(loaded, argc, old, oldsz) ==
  Replace(Stack(loaded, PageUp(loaded.sz), argc), old, oldsz)

\* kexec for a process with the table old and size oldsz: ok with the new table
\* and size, or not with the old ones.
KexecIn(table, old, oldsz, prog, argc) ==
  IF table.ok THEN Build(Load(Image(table, 0), prog.segs, 1), argc, old, oldsz)
  ELSE Image([table EXCEPT !.pt = old], oldsz)

Kexec(free0, old, oldsz, prog, argc) ==
  IF prog.elf THEN KexecIn(ProcPagetable(free0), old, oldsz, prog, argc)
  ELSE Image(Fail([NoPages(free0) EXCEPT !.pt = old]), oldsz)

\* sys_exec: i argument strings are in pages of their own, which go back at the
\* end whatever happens; the last string is bad if call.bad.
Back(image, n) == [image EXCEPT !.m.free = @ + n]

RECURSIVE ExecArgs(_, _, _, _)
ExecString(k, sz, call, i) ==
  IF ~k.ok THEN Back(Image(k, sz), i)
  ELSE IF call.bad /\ i + 1 = call.argc THEN Back(Image(Fail(k), sz), i + 1)
  ELSE ExecArgs(k, sz, call, i + 1)

ExecOn(r, sz, call, i) ==
  IF ~r.ok THEN Back(Image(r, sz), i)
  ELSE IF i = call.argc THEN Back(Kexec(r.free, r.pt, sz, call.prog, i), i)
  ELSE ExecString(Kalloc(r), sz, call, i)

ExecArg(m, a, sz) == IF a < sz THEN CopyUser(m, TRUE, sz, a, 1, FALSE) ELSE Fail(m)

ExecArgs(m, sz, call, i) ==
  IF i >= MAXARG THEN Back(Image(Fail(m), sz), i)
  ELSE ExecOn(ExecArg(m, (call.uargv + i) % UINT, sz), sz, call, i)

Exec(p, call) ==
  /\ Running(p)
  /\ \E e \in {ExecArgs(Mem(p), proc[p].sz, call, 0)} : Resize(p, e.m, e.sz)

\* The first process, once forkret has run exec("/init") for it.
InitProc(a) == Kexec(a.free, a.pt, 0, InitProgram, 1)

Init ==
  \E e \in {InitProc(AllocProc(NPAGES))} :
    /\ free = e.m.free /\ panicked = e.m.panic
    /\ proc = [p \in Proc |-> IF p # 1 THEN Unused
                             ELSE [state |-> "RUNNABLE", parent |-> 0, sz |-> e.sz,
                                   pt |-> e.m.pt]]

\* initproc forks and waits (user/init.c); the others do anything.
Next ==
  \/ \E p \in Proc : Fork(p)
  \/ Wait(1, 0)
  \/ \E p \in Proc \ {1} :
       \/ Exit(p)
       \/ \E addr \in Addr : Wait(p, addr) \/ Touch(p, addr)
       \/ \E n \in Delta, eager \in BOOLEAN : Sbrk(p, n, eager)
       \/ \E addr \in Addr, out \in BOOLEAN : CopyCall(p, addr, PG, out)
       \/ \E call \in ExecCall : Exec(p, call)

Spec == Init /\ [][Next]_vars

-----------------------------------------------------------------------------
(* Properties *)

Permissions == SUBSET {"R", "W", "X", "U"}

\* Every variable has its type.
TypeOK ==
  /\ free \in 0 .. NPAGES
  /\ \A p \in Proc :
       /\ proc[p].state \in {"UNUSED", "RUNNABLE", "ZOMBIE"} /\ proc[p].parent \in Proc \cup {0}
       /\ proc[p].sz \in 0 .. TRAPFRAME /\ proc[p].pt.l2 \subseteq 0 .. NPTE - 1
       /\ DOMAIN proc[p].pt.leaf \subseteq Pages(0, MAXVA)
       /\ \A a \in DOMAIN proc[p].pt.leaf : proc[p].pt.leaf[a] \in Permissions

Used == {p \in Proc : proc[p].state # "UNUSED"}
UserPages(p) == DOMAIN proc[p].pt.leaf \ {TRAPFRAME, TRAMPOLINE}

\* The pages process p has: its trap frame, root, page-table pages and memory.
Held(p) == 2 + Cardinality(proc[p].pt.l2) + Cardinality(UserPages(p))

\* Every page of memory is on the free list or in use by a process: fork, exec,
\* sbrk, wait and faults neither lose a page nor free one twice, whichever
\* allocation fails (what usertests looks for with countfree).
PagesConserved == free + MapThenSumSet(Held, Used) = NPAGES

\* The page tables are fit to run on and to be freed: the trampoline and the
\* trap frame are mapped, not for the user; the user's pages are below sz, so
\* that uvmfree leaves freewalk no leaf; each has its page-table page.
TablesSound ==
  \A p \in Used :
    LET leaf == proc[p].pt.leaf
    IN  /\ proc[p].pt.root /\ {TRAPFRAME, TRAMPOLINE} \subseteq DOMAIN leaf
        /\ leaf[TRAMPOLINE] = {"R", "X"} /\ leaf[TRAPFRAME] = {"R", "W"}
        /\ \A a \in UserPages(p) : a < proc[p].sz
        /\ \A a \in DOMAIN leaf : L1(a) \in proc[p].pt.l2

\* mappages never maps a page twice, freewalk meets no leaf, loadseg and
\* uvmclear find their pages, walk gets proper addresses, and exec's copyout
\* never faults on the new page table.
NoPanic == panicked = ""

\* A child starts with the pages of its parent at the same addresses with the
\* same permissions, all of them: uvmcopy.
CopiesParent ==
  \A q \in Used' \ Used :
    LET p == proc'[q].parent
    IN  proc'[q].sz = proc[p].sz /\ proc'[q].pt.leaf = proc[p].pt.leaf

\* What p had below the new size is kept as it was, and memory beyond the old
\* size comes whole or not at all.
Keeps(p) ==
  LET sz == proc'[p].sz
      kept == {a \in DOMAIN proc[p].pt.leaf : a < sz \/ a >= TRAPFRAME}
      new == {a \in UserPages(p)' : a >= PageUp(proc[p].sz)}
  IN  /\ kept \subseteq DOMAIN proc'[p].pt.leaf
      /\ Restrict(proc'[p].pt.leaf, kept) = Restrict(proc[p].pt.leaf, kept)
      /\ new \in {{}, Pages(PageUp(proc[p].sz), sz)}

\* A complete image of exec: every page, for the user but for the guard page.
NewImage(p) ==
  LET sz == proc'[p].sz
  IN  /\ UserPages(p)' = Pages(0, sz)
      /\ \A a \in Pages(0, sz) : "U" \in proc'[p].pt.leaf[a] <=> a # sz - (USERSTACK + 1) * PG

\* The memory of a process changes as a whole: a step of sbrk, a fault, a copy
\* or a failed exec keeps every page below the size, and exec that succeeds
\* gives a complete new image with a guard page under the stack.
AllOrNothing == \A p \in Used \cap Used' : Keeps(p) \/ NewImage(p)

\* Pages and page tables agree: PagesConserved and TablesSound.
MemorySound == PagesConserved /\ TablesSound
=============================================================================
