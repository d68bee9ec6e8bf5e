----------------------------- MODULE MCMachine -----------------------------
(***************************************************************************)
(* For TLC: the machine under the kernel, and the programs on top of it.   *)
(* Locks and interrupts, pages of memory, the console; string functions,   *)
(* malloc, grep, and the shell with the processes it makes.  They are      *)
(* checked next to each other: focus says which one a behaviour is about,  *)
(* the variables of the others are off, those of Locks and Console at      *)
(* their start.                                                            *)
(***************************************************************************)
EXTENDS Locks, Console

VARIABLES
  focus,
  free, mproc, mpanic,
  mem,
  hdr, freep, brk, core, inuse,
  pattern, gbuf, out, gin, done,
  line,
  sproc, pipes, failures

-----------------------------------------------------------------------------
(* Three processes and too little memory for all they ask for. *)

Seg(vaddr, memsz, filesz, readable) ==
  [vaddr |-> vaddr, memsz |-> memsz, filesz |-> filesz, perm |-> {"X"}, readable |-> readable]
Elf(segs) == [elf |-> TRUE, segs |-> segs]
ExecOf(prog, argc, uargv, bad) == [prog |-> prog, argc |-> argc, uargv |-> uargv, bad |-> bad]

Small == Elf(<<Seg(0, 2, 1, TRUE)>>)
Calls == {
  ExecOf(Small, 1, 7, FALSE), ExecOf(Small, 2, 0, TRUE), ExecOf(Small, 3, 0, FALSE),
  ExecOf(Elf(<<Seg(0, 2, 2, TRUE), Seg(1, 2, 2, TRUE)>>), 0, 0, FALSE),  \* share a page
  ExecOf(Elf(<<Seg(0, 3, 3, TRUE), Seg(0, 1, 1, TRUE)>>), 1, 9, FALSE),  \* ends below the first
  ExecOf(Elf(<<Seg(0, 1, 1, TRUE), Seg(2, 1, 1, FALSE)>>), 0, 0, FALSE), \* a short file
  ExecOf(Elf(<<Seg(0, 1, 1, TRUE), Seg(2, 1, 2, TRUE)>>), 0, 0, FALSE),  \* filesz above memsz
  ExecOf(Elf(<<Seg(0, 1, 1, TRUE), Seg(120, 16, 0, TRUE)>>), 0, 0, FALSE), \* wraps
  ExecOf(Elf(<<Seg(0, 30, 1, TRUE)>>), 1, 0, FALSE),                     \* larger than memory
  ExecOf([elf |-> FALSE, segs |-> <<>>], 1, 0, FALSE) }

M == INSTANCE Memory WITH Proc <- {1, 2, 3}, NPAGES <- 22, PG <- 2, NPTE <- 5, TRAMPOLINE <- 48,
       UINT <- 128, USERSTACK <- 1, MAXARG <- 3, InitProgram <- Small, ExecCall <- Calls,
       Delta <- {-60, -3, 3, 50}, Addr <- {0, 3, 7}, MAXSZ <- 7, proc <- mproc,
       panicked <- mpanic

memoryVars == <<free, mproc, mpanic>>
MemoryOff == free = "off" /\ mproc = "off" /\ mpanic = "off"

-----------------------------------------------------------------------------
(* All memories of five bytes. *)

S == INSTANCE Strings WITH SIZE <- 5, BYTES <- 3, WORD <- 2, UINT <- 64

stringsVars == <<mem>>
StringsOff == /\ mem = "off"

-----------------------------------------------------------------------------
(* A heap of seven units, which morecore gets three at a time. *)

A == INSTANCE Malloc WITH HEAP <- 8, CORE <- 3, HEADER <- 2, REQUESTS <- {0, 3}

mallocVars == <<hdr, freep, brk, core, inuse>>
MallocOff == /\ hdr = "off" /\ freep = "off" /\ brk = "off" /\ core = "off" /\ inuse = "off"

-----------------------------------------------------------------------------
(* Patterns of up to three characters, lines longer than the buffer included. *)

G == INSTANCE Grep WITH BUF <- 4, MAXINPUT <- 4, MAXRE <- 3, buf <- gbuf,
       input <- gin

grepVars == <<pattern, gbuf, out, gin, done>>
GrepOff == /\ pattern = "off" /\ gbuf = "off" /\ out = "off" /\ gin = "off"
           /\ done = "off"

-----------------------------------------------------------------------------
(* All lines of up to five characters. *)

P == INSTANCE Shell WITH MAXARGS <- 3, MAXLINE <- 5

shellVars == <<line>>
ShellOff == /\ line = "off"

-----------------------------------------------------------------------------
(* Lines with every operator, inside one another; one call may fail. *)

Typed == {
  <<"a", "|", "a">>, <<"a", ";", "a">>, <<"a", "&">>, <<"a", "|", "a", "|", "a">>,
  <<"(", "a", ";", "a", ")", "|", "a">>, <<"(", "a", "|", "a", ")", "&", ";", "a">>,
  <<"a", "<", "a", ">", "a">>, <<"a", ">", "a", "|", "a", "<", "a">>,
  <<"(", "a", "&", ")", "|", "a">>}
Commands == {P!ParseCmd(l).cmd : l \in Typed}

R == INSTANCE ShellRun WITH NPROC <- 7, NOFILE <- 6, Command <- Commands, FAILURES <- 1,
       proc <- sproc

shellRunVars == <<sproc, pipes, failures>>
ShellRunOff == /\ sproc = "off" /\ pipes = "off" /\ failures = "off"

-----------------------------------------------------------------------------
ASSUME M!MemorySizes

MachineInit ==
  /\ focus \in {"locks", "memory", "console",
               "strings", "malloc", "grep", "shell", "shellRun"}
  /\ Init /\ ConsoleInit
  /\ IF focus = "memory" THEN M!Init ELSE MemoryOff
  /\ IF focus = "strings" THEN S!Init ELSE StringsOff
  /\ IF focus = "malloc" THEN A!Init ELSE MallocOff
  /\ IF focus = "grep" THEN G!Init ELSE GrepOff
  /\ IF focus = "shell" THEN P!Init ELSE ShellOff
  /\ IF focus = "shellRun" THEN R!Init ELSE ShellRunOff

LocksStep ==
  /\ focus = "locks" /\ Next
  /\ UNCHANGED <<focus, memoryVars, consoleVars, stringsVars, mallocVars,
                 grepVars, shellVars, shellRunVars>>
MemoryStep ==
  /\ focus = "memory" /\ M!Next
  /\ UNCHANGED <<focus, vars, consoleVars, stringsVars, mallocVars,
                 grepVars, shellVars, shellRunVars>>
ConsoleStep ==
  /\ focus = "console" /\ ConsoleNext
  /\ UNCHANGED <<focus, vars, memoryVars, stringsVars, mallocVars,
                 grepVars, shellVars, shellRunVars>>
StringsStep ==
  /\ focus = "strings" /\ S!Next
  /\ UNCHANGED <<focus, vars, memoryVars, consoleVars, mallocVars,
                 grepVars, shellVars, shellRunVars>>
MallocStep ==
  /\ focus = "malloc" /\ A!Next
  /\ UNCHANGED <<focus, vars, memoryVars, consoleVars, stringsVars,
                 grepVars, shellVars, shellRunVars>>
GrepStep ==
  /\ focus = "grep" /\ G!Next
  /\ UNCHANGED <<focus, vars, memoryVars, consoleVars, stringsVars,
                 mallocVars, shellVars, shellRunVars>>
ShellStep ==
  /\ focus = "shell" /\ P!Next
  /\ UNCHANGED <<focus, vars, memoryVars, consoleVars, stringsVars,
                 mallocVars, grepVars, shellRunVars>>
ShellRunStep ==
  /\ focus = "shellRun" /\ R!Next
  /\ UNCHANGED <<focus, vars, memoryVars, consoleVars, stringsVars,
                 mallocVars, grepVars, shellVars>>

MachineNext ==
  \/ LocksStep
  \/ MemoryStep
  \/ ConsoleStep
  \/ StringsStep
  \/ MallocStep
  \/ GrepStep
  \/ ShellStep
  \/ ShellRunStep

machineVars == <<focus, vars, memoryVars, consoleVars, stringsVars, mallocVars,
                 grepVars, shellVars, shellRunVars>>

MachineSpec == MachineInit /\ [][MachineNext]_machineVars

-----------------------------------------------------------------------------
(* The properties of the modules, each about the behaviours of its focus *)

\* Memory: no page is lost or used twice (kalloc, kfree, uvm*, exec, fork), and
\* page tables map what the size of the process says; kalloc.c and vm.c do not
\* panic.
MemorySound == focus = "memory" => M!TypeOK /\ M!NoPanic /\ M!MemorySound
\* Memory: fork gives the child the memory of its parent, or fails; exec and
\* sbrk that fail leave the image as it was.
AllOrNothing == [][focus = "memory" => M!CopiesParent /\ M!AllOrNothing]_machineVars

\* Strings: memset, memmove, memcmp, strcmp, strncmp, strchr, strncpy,
\* safestrcpy and printint, on every memory.
StringsExact == focus = "strings" => S!TypeOK /\ S!StringsExact

\* Malloc: the free list is in order and joined, blocks do not overlap, no unit
\* is lost, and they are large enough (malloc, free).
HeapSound == focus = "malloc" => A!TypeOK /\ A!HeapSound

\* Grep writes the lines with a match, however they were read; parsecmd accepts
\* the lines of the shell's language with their meaning and ends their words.
TextExact == (focus = "grep" => G!GrepExact) /\ (focus = "shell" => P!TypeOK /\ P!ShellReads)

\* ShellRun: a program finds its descriptors as the line says and no others, the
\* shell prompts when the line has ended, and somebody can always go on.
LinesRun == focus = "shellRun" => R!TypeOK /\ R!LinesRun
=============================================================================
