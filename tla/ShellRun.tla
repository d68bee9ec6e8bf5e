------------------------------ MODULE ShellRun ------------------------------
(***************************************************************************)
(* How the shell runs a line: main and runcmd of user/sh.c, on the         *)
(* processes, descriptors and pipes of the kernel.  Each process has ahead *)
(* of it the system calls of runcmd for its command.  A program that reads *)
(* a pipe runs until it finds its end.  Any call that may fail does.       *)
(***************************************************************************)
EXTENDS Integers, Sequences, FiniteSets, FiniteSetsExt

CONSTANTS
  NPROC,       \* process slots; 1 is the shell
  NOFILE,
  Command,     \* the commands that are typed, as Shell parses them
  FAILURES     \* calls that fail while one line runs (a bound)

Proc == 1 .. NPROC
Fd == 0 .. NOFILE - 1
Sh == 1
InitProc == 0

VARIABLES
  proc,        \* state, parent, calls ahead, descriptors, p[] of the last pipe
  pipes,       \* pipes made so far for this line
  failures     \* calls that have failed for this line

vars == <<proc, pipes, failures>>

Tty == [kind |-> "tty", pipe |-> 0]
File == [kind |-> "file", pipe |-> 0]
Closed == [kind |-> "closed", pipe |-> 0]
End(kind, n) == [kind |-> kind, pipe |-> n]

Op(name) == [op |-> name]
CloseOp(fd) == [op |-> "close", fd |-> fd]
CloseEnd(i) == [op |-> "closeend", end |-> i]
DupEnd(i) == [op |-> "dupend", end |-> i]
ForkOp(code, back) == [op |-> "fork", code |-> code, back |-> back]

-----------------------------------------------------------------------------
(* runcmd *)

\* mutant: the left side of a pipe keeps the reading end.
LeftKeepsReading == <<CloseOp(1), DupEnd(2), CloseEnd(2)>>

Left == <<CloseOp(1), DupEnd(2), CloseEnd(1), CloseEnd(2)>>

Right == <<CloseOp(0), DupEnd(1), CloseEnd(1), CloseEnd(2)>>

PipeParent == <<CloseEnd(1), CloseEnd(2), Op("wait"), Op("wait"), Op("exit")>>

\* The calls of runcmd(cmd); in and out are what the program should find as its
\* input and output.
RECURSIVE RunCmd(_, _, _)

RunList(cmd, in, out) ==
  <<ForkOp(RunCmd(cmd.left, in, out), FALSE), Op("wait")>> \o RunCmd(cmd.right, in, out)

RunCmd(cmd, in, out) ==
  CASE cmd.type = "EXEC" ->
         IF cmd.argv = <<>> THEN <<Op("exit")>> ELSE <<[op |-> "exec", in |-> in, out |-> out]>>
    [] cmd.type = "REDIR" ->
         <<CloseOp(cmd.fd), Op("open")>>
           \o RunCmd(cmd.cmd, IF cmd.fd = 0 THEN "file" ELSE in, IF cmd.fd = 1 THEN "file" ELSE out)
    [] cmd.type = "LIST" -> RunList(cmd, in, out)
    [] cmd.type = "PIPE" ->
         <<Op("pipe"), ForkOp(Left \o RunCmd(cmd.left, in, "write"), FALSE),
           ForkOp(Right \o RunCmd(cmd.right, "read", out), FALSE)>> \o PipeParent
    [] cmd.type = "BACK" -> <<ForkOp(RunCmd(cmd.cmd, in, out), TRUE), Op("exit")>>

\* main's loop for one command, and the shell at its prompt.
Line(cmd) == <<ForkOp(RunCmd(cmd, "tty", "tty"), FALSE), Op("wait")>>
AtPrompt == proc[Sh].todo = <<>>

-----------------------------------------------------------------------------
(* System calls *)

None == [state |-> "none", parent |-> InitProc, todo |-> <<>>, fd |-> [f \in Fd |-> Closed],
         p |-> <<0, 0>>, back |-> FALSE]

Init ==
  /\ proc = [p \in Proc |-> IF p # Sh THEN None
                            ELSE [None EXCEPT !.state = "run",
                                              !.fd = [f \in Fd |-> IF f < 3 THEN Tty ELSE Closed]]]
  /\ pipes = 0 /\ failures = 0

Prompt(cmd) ==
  /\ AtPrompt /\ \A p \in Proc \ {Sh} : proc[p].state = "none"
  /\ proc' = [proc EXCEPT ![Sh].todo = Line(cmd)]
  /\ pipes' = 0 /\ failures' = 0

Does(p, name) == proc[p].state = "run" /\ proc[p].todo # <<>> /\ Head(proc[p].todo).op = name
Arg(p) == Head(proc[p].todo)
Then(q) == [q EXCEPT !.todo = Tail(@)]
Free(fds) == {f \in Fd : fds[f] = Closed}
Lowest(fds) == Min(Free(fds))

\* exit: children go to init, which reaps at once what has exited.
Exited(procs, p) ==
  [q \in Proc |->
     IF q = p THEN IF procs[p].parent = InitProc THEN None
                   ELSE [None EXCEPT !.state = "zombie", !.parent = procs[p].parent]
     ELSE IF procs[q].parent = p /\ procs[q].state = "zombie" THEN None
     ELSE IF procs[q].parent = p THEN [procs[q] EXCEPT !.parent = InitProc] ELSE procs[q]]

Exit(p) == Does(p, "exit") /\ proc' = Exited(proc, p) /\ UNCHANGED <<pipes, failures>>

\* A call that fails makes runcmd exit: fork1, pipe, open and exec.  The shell's
\* own fork1 would end the shell, and is not tried.
Fails(p) ==
  /\ p # Sh /\ failures < FAILURES /\ failures' = failures + 1
  /\ \E name \in {"fork", "pipe", "open", "exec"} : Does(p, name)
  /\ proc' = Exited(proc, p) /\ UNCHANGED pipes

Fork(p) ==
  /\ Does(p, "fork")
  /\ \E q \in Proc :
       /\ proc[q].state = "none" /\ \A o \in Proc : proc[o].state = "none" => q <= o
       /\ proc' = [proc EXCEPT ![p] = Then(@),
                               ![q] = [state |-> "run", parent |-> p, todo |-> Arg(p).code,
                                       fd |-> proc[p].fd, p |-> proc[p].p,
                                       back |-> proc[p].back \/ Arg(p).back]]
  /\ UNCHANGED <<pipes, failures>>

Children(p) == {q \in Proc : proc[q].parent = p /\ proc[q].state # "none"}
Wait(p) ==
  /\ Does(p, "wait")
  /\ \/ Children(p) = {} /\ proc' = [proc EXCEPT ![p] = Then(@)]
     \/ \E q \in Children(p) : /\ proc[q].state = "zombie"
                               /\ proc' = [proc EXCEPT ![p] = Then(@), ![q] = None]
  /\ UNCHANGED <<pipes, failures>>

\* close, dup and open work on the lowest free descriptor.
Descriptors(p, fds) == proc' = [proc EXCEPT ![p] = [Then(@) EXCEPT !.fd = fds]]
Close(p) ==
  /\ \/ Does(p, "close") /\ Descriptors(p, [proc[p].fd EXCEPT ![Arg(p).fd] = Closed])
     \/ Does(p, "closeend") /\ Descriptors(p, [proc[p].fd EXCEPT ![proc[p].p[Arg(p).end]] = Closed])
  /\ UNCHANGED <<pipes, failures>>
Dup(p) ==
  /\ Does(p, "dupend")
  /\ Descriptors(p, [proc[p].fd EXCEPT ![Lowest(proc[p].fd)] = proc[p].fd[proc[p].p[Arg(p).end]]])
  /\ UNCHANGED <<pipes, failures>>
Open(p) ==
  /\ Does(p, "open")
  /\ Descriptors(p, [proc[p].fd EXCEPT ![Lowest(proc[p].fd)] = File])
  /\ UNCHANGED <<pipes, failures>>

Pipe(p) ==
  /\ Does(p, "pipe") /\ pipes' = pipes + 1
  /\ \E f \in Free(proc[p].fd), g \in Free(proc[p].fd) :
       /\ f < g /\ \A h \in Free(proc[p].fd) : h \in {f, g} \/ g < h
       /\ proc' = [proc EXCEPT ![p] = [Then(@) EXCEPT !.p = <<f, g>>,
                                                      !.fd[f] = End("read", pipes + 1),
                                                      !.fd[g] = End("write", pipes + 1)]]
  /\ UNCHANGED failures

Exec(p) ==
  /\ Does(p, "exec")
  /\ proc' = [proc EXCEPT ![p].todo = <<[Arg(p) EXCEPT !.op = "program"]>>]
  /\ UNCHANGED <<pipes, failures>>

\* Somebody can write to what p reads.
Written(p) ==
  /\ proc[p].fd[0].kind = "read"
  /\ \E q \in Proc, f \in Fd : proc[q].fd[f] = End("write", proc[p].fd[0].pipe)

Program(p) ==
  /\ Does(p, "program") /\ ~Written(p)
  /\ proc' = Exited(proc, p) /\ UNCHANGED <<pipes, failures>>

Next ==
  \/ \E cmd \in Command : Prompt(cmd)
  \/ \E p \in Proc : \/ Exit(p) \/ Fails(p) \/ Fork(p) \/ Wait(p) \/ Close(p) \/ Dup(p) \/ Open(p)
                     \/ Pipe(p) \/ Exec(p) \/ Program(p)

Spec == Init /\ [][Next]_vars

-----------------------------------------------------------------------------
(* Properties *)

\* Every variable has its type.
TypeOK ==
  /\ pipes \in Nat /\ failures \in 0 .. FAILURES
  /\ \A p \in Proc : /\ proc[p].state \in {"none", "run", "zombie"}
                     /\ proc[p].parent \in Proc \cup {InitProc} /\ DOMAIN proc[p].fd = Fd

\* A program starts with its input and output where the line says, its errors
\* on the terminal, and no other descriptor: no end of a pipe is left open that
\* would keep a reader from its end of file or a writer from its error.
Wiring ==
  \A p \in Proc : Does(p, "program") =>
    /\ proc[p].fd[0].kind = Arg(p).in /\ proc[p].fd[1].kind = Arg(p).out
    /\ proc[p].fd[2] = Tty /\ \A f \in Fd \ {0, 1, 2} : proc[p].fd[f] = Closed

\* The shell prompts again only when all of the line has ended but what was
\* started with &, and has no descriptors left of it; unless a call failed.
PromptMeansDone ==
  AtPrompt => /\ failures = 0 => \A p \in Proc \ {Sh} : proc[p].state = "run" => proc[p].back
              /\ Free(proc[Sh].fd) = Fd \ {0, 1, 2}
              /\ \A p \in Proc : proc[p].parent = Sh => proc[p].state = "none"

\* A process waits for ever neither for its children nor at a pipe: while the
\* line runs somebody can go on, also when calls fail.
NeverStuck ==
  \/ AtPrompt /\ \A p \in Proc \ {Sh} : proc[p].state = "none"
  \/ \E p \in Proc :
       /\ proc[p].state = "run" /\ proc[p].todo # <<>>
       /\ CASE Arg(p).op = "wait" -> Children(p) = {} \/ \E q \in Children(p) : proc[q].state = "zombie"
            [] Arg(p).op = "fork" -> \E q \in Proc : proc[q].state = "none"
            [] Arg(p).op = "program" -> ~Written(p)
            [] OTHER -> TRUE

\* Lines run as they are written, and end: Wiring, PromptMeansDone and
\* NeverStuck.
LinesRun == Wiring /\ PromptMeansDone /\ NeverStuck
=============================================================================
