-------------------------------- MODULE File --------------------------------
(***************************************************************************)
(* Descriptors and the file table: kernel/file.c, pipealloc and pipeclose  *)
(* of kernel/pipe.c, and the system calls of kernel/sysfile.c that work on *)
(* descriptors, with what fork and exit do to them.  A call is one step    *)
(* (see Locks: it is not interrupted, and none of these sleeps before it   *)
(* is done with the tables); exit is one per descriptor, as fileclose may  *)
(* sleep in begin_op.  The content of pipes is in Pipe, of inodes in       *)
(* Inode.                                                                  *)
(***************************************************************************)
EXTENDS Integers, FiniteSets

CONSTANTS
  Process,
  InitProc,    \* initproc, which does not exit
  NOFILE,      \* descriptors of a process
  NFILE,       \* entries of the file table
  Ip,          \* inodes that are opened
  PipePage     \* pages a pipe can be allocated in

ASSUME FileSizes ==
  /\ IsFiniteSet(Process) /\ InitProc \in Process
  /\ NOFILE \in Nat /\ NFILE \in Nat
  /\ 0 \notin PipePage                 \* kalloc returns 0 without memory

Fd == 0 .. NOFILE - 1
FileEntry == 1 .. NFILE
NoFile == 0

VARIABLES
  file,        \* ftable_file: ref, type, what it refers to, and which end
  ofile,       \* p->ofile
  status,      \* of a process: "none", "alive" or, in exit, "exiting"
  pipe,        \* the open ends of the pipe in a page: readopen and writeopen
  iref,        \* references of files to an inode
  ret,         \* the last call failed (-1), or not
  fpanic       \* the message of a panic, or "none"

fileVars == <<file, ofile, status, pipe, iref, ret, fpanic>>

\* The end of a pipe that a file is: f->writable.
PipeEnd == {"read", "write"}

Free == [ref |-> 0, type |-> "NONE", obj |-> 0, end |-> "read"]
End(a, end) == [ref |-> 1, type |-> "PIPE", obj |-> a, end |-> end]
\* INODE stands for FD_DEVICE too, which is closed alike; whether it is
\* writable makes no difference here.
InodeFile(i) == [ref |-> 1, type |-> "INODE", obj |-> i, end |-> "read"]

FileInit ==
  /\ file = [f \in FileEntry |-> Free]
  /\ ofile = [p \in Process |-> [fd \in Fd |-> NoFile]]
  /\ status = [p \in Process |-> IF p = InitProc THEN "alive" ELSE "none"]
  /\ pipe = [a \in PipePage |-> {}]
  /\ iref = [i \in Ip |-> 0]
  /\ ret = 0 /\ fpanic = "none"

Running(p) == fpanic = "none" /\ status[p] = "alive"

Panics(why) == fpanic' = why /\ UNCHANGED <<file, ofile, status, pipe, iref, ret>>

-----------------------------------------------------------------------------
(* file.c and pipe.c *)

\* filealloc and fdalloc take the first that is free.
First(x, S) == x \in S /\ \A y \in S : x <= y
FreeFiles == {f \in FileEntry : file[f].ref = 0}
FreeFds(p) == {fd \in Fd : ofile[p][fd] = NoFile}

WithRef(ff, n) == [ff EXCEPT !.ref = n]
Taken(ff) == WithRef(ff, 1)

\* What fileclose leaves.  The other fields of a free entry are not read before
\* they are set.
Closed(ff) == IF ff.ref > 1 THEN WithRef(ff, ff.ref - 1) ELSE Free

\* The page is free when no end is open.
PipeClose(ends, end) == ends \ {end}

\* What the last reference to a file lets go.
LetGo(ff) ==
  /\ pipe' = IF ff.type = "PIPE" /\ ff.ref = 1
             THEN [pipe EXCEPT ![ff.obj] = PipeClose(@, ff.end)] ELSE pipe
  /\ iref' = IF ff.type = "INODE" /\ ff.ref = 1 THEN [iref EXCEPT ![ff.obj] = @ - 1] ELSE iref

\* fileclose of descriptor fd of p, which is cleared.
FileClose(p, fd) ==
  IF file[ofile[p][fd]].ref < 1 THEN Panics("fileclose")
  ELSE /\ file' = [file EXCEPT ![ofile[p][fd]] = Closed(@)] /\ LetGo(file[ofile[p][fd]])
       /\ ofile' = [ofile EXCEPT ![p][fd] = NoFile] /\ ret' = 0
       /\ UNCHANGED <<status, fpanic>>

-----------------------------------------------------------------------------
(* System calls *)

Fails(files, pipes) ==
  /\ file' = files /\ pipe' = pipes /\ ret' = -1
  /\ UNCHANGED <<ofile, status, iref, fpanic>>

\* open, once it has found or created inode i: its reference goes to the file,
\* or back.
OpenFile(p, i, f, fd) ==
  /\ file' = [file EXCEPT ![f] = InodeFile(i)]
  /\ ofile' = [ofile EXCEPT ![p][fd] = f]
  /\ iref' = [iref EXCEPT ![i] = @ + 1]
  /\ ret' = 0 /\ UNCHANGED <<status, pipe, fpanic>>

SysOpen(p, i) ==
  /\ Running(p)
  /\ \/ FreeFiles = {} /\ Fails(file, pipe)
     \/ \E f \in FreeFiles :
          /\ First(f, FreeFiles)
          /\ \/ FreeFds(p) = {} /\ Fails([file EXCEPT ![f] = Closed(Taken(@))], pipe)
             \/ \E fd \in FreeFds(p) : First(fd, FreeFds(p)) /\ OpenFile(p, i, f, fd)

\* mutant: dup does not count the new descriptor.
DupedUncounted(f) == file

Duped(f) == [file EXCEPT ![f] = WithRef(@, @.ref + 1)]

DupTo(p, f, fd) ==
  IF file[f].ref < 1 THEN Panics("filedup")
  ELSE /\ file' = Duped(f) /\ ofile' = [ofile EXCEPT ![p][fd] = f]
       /\ ret' = 0 /\ UNCHANGED <<status, pipe, iref, fpanic>>

SysDup(p, fd) ==
  /\ Running(p) /\ ofile[p][fd] # NoFile
  /\ \/ FreeFds(p) = {} /\ Fails(file, pipe)
     \/ \E new \in FreeFds(p) : First(new, FreeFds(p)) /\ DupTo(p, ofile[p][fd], new)

SysClose(p, fd) == Running(p) /\ ofile[p][fd] # NoFile /\ FileClose(p, fd)

\* read, write and fstat leave the tables alone.
SysReadWrite(p, fd) ==
  /\ Running(p) /\ ofile[p][fd] # NoFile
  /\ IF file[ofile[p][fd]].type = "NONE" THEN Panics("fileread")
     ELSE ret' = 0 /\ UNCHANGED <<file, ofile, status, pipe, iref, fpanic>>

\* pipealloc that runs out of files or memory: the files it got have no type
\* yet, and are closed.
PipeAllocFails ==
  \/ FreeFiles = {} /\ Fails(file, pipe)
  \/ \E f0 \in FreeFiles :
       /\ First(f0, FreeFiles)
       /\ \/ FreeFiles = {f0} /\ Fails([file EXCEPT ![f0] = Closed(Taken(@))], pipe)
          \/ \E f1 \in FreeFiles \ {f0} :
               /\ First(f1, FreeFiles \ {f0})
               /\ Fails([file EXCEPT ![f0] = Closed(Taken(@)), ![f1] = Closed(Taken(@))], pipe)

\* mutant: the descriptor of the reading end is left when there is no second.
OneFdLeft(p, rf) ==
  [ofile EXCEPT ![p] = [fd \in Fd |-> IF First(fd, FreeFds(p)) THEN rf ELSE @[fd]]]

\* The descriptor of the reading end when there is no second: it is taken back.
OneFd(p, rf) == ofile

\* Both ends are closed again: no descriptor is left for them, or copyout fails.
PipeFails(p, a, rf, wf) ==
  /\ file' = [file EXCEPT ![rf] = Closed(End(a, "read")), ![wf] = Closed(End(a, "write"))]
  /\ pipe' = [pipe EXCEPT ![a] = PipeClose(PipeClose(PipeEnd, "read"), "write")]
  /\ ofile' = OneFd(p, rf) /\ ret' = -1
  /\ UNCHANGED <<status, iref, fpanic>>

PipeMade(p, a, rf, wf, fd0, fd1) ==
  /\ file' = [file EXCEPT ![rf] = End(a, "read"), ![wf] = End(a, "write")]
  /\ pipe' = [pipe EXCEPT ![a] = PipeEnd]
  /\ ofile' = [ofile EXCEPT ![p] = [@ EXCEPT ![fd0] = rf, ![fd1] = wf]]
  /\ ret' = 0 /\ UNCHANGED <<status, iref, fpanic>>

\* pipe, in a free page a.
PipeIn(p, a) ==
  \E rf \in FreeFiles : \E wf \in FreeFiles \ {rf} :
    /\ First(rf, FreeFiles) /\ First(wf, FreeFiles \ {rf})
    /\ \/ PipeFails(p, a, rf, wf)
       \/ \E fd0 \in FreeFds(p) : \E fd1 \in FreeFds(p) \ {fd0} :
            /\ First(fd0, FreeFds(p)) /\ First(fd1, FreeFds(p) \ {fd0})
            /\ PipeMade(p, a, rf, wf, fd0, fd1)

SysPipe(p) ==
  /\ Running(p)
  /\ PipeAllocFails \/ \E a \in PipePage : pipe[a] = {} /\ PipeIn(p, a)

\* fork: filedup for each descriptor.
ForkFiles(p, q) ==
  /\ Running(p) /\ status[q] = "none"
  /\ IF \E fd \in Fd : ofile[p][fd] # NoFile /\ file[ofile[p][fd]].ref < 1 THEN Panics("filedup")
     ELSE /\ file' = [f \in FileEntry |->
                       WithRef(file[f], file[f].ref + Cardinality({fd \in Fd : ofile[p][fd] = f}))]
          /\ ofile' = [ofile EXCEPT ![q] = ofile[p]] /\ status' = [status EXCEPT ![q] = "alive"]
          /\ ret' = 0 /\ UNCHANGED <<pipe, iref, fpanic>>

Exit(p) ==
  /\ Running(p) /\ p # InitProc
  /\ status' = [status EXCEPT ![p] = "exiting"] /\ ret' = 0 /\ UNCHANGED <<file, ofile, pipe, iref, fpanic>>

\* exit closes the next descriptor;
ExitClose(p) ==
  /\ fpanic = "none" /\ status[p] = "exiting"
  /\ \E fd \in Fd \ FreeFds(p) : First(fd, Fd \ FreeFds(p)) /\ FileClose(p, fd)

\* when there is none, the process is a zombie, which wait frees.
ExitDone(p) ==
  /\ fpanic = "none" /\ status[p] = "exiting" /\ FreeFds(p) = Fd
  /\ status' = [status EXCEPT ![p] = "none"]
  /\ ret' = 0 /\ UNCHANGED <<file, ofile, pipe, iref, fpanic>>

FileNext ==
  \E p \in Process :
    \/ \E i \in Ip : SysOpen(p, i)
    \/ \E fd \in Fd : SysDup(p, fd) \/ SysClose(p, fd) \/ SysReadWrite(p, fd)
    \/ SysPipe(p) \/ \E q \in Process : ForkFiles(p, q)
    \/ Exit(p) \/ ExitClose(p) \/ ExitDone(p)

FileSpec == FileInit /\ [][FileNext]_fileVars

-----------------------------------------------------------------------------
(* Properties *)

Opened(f) == file[f].ref > 0

\* The descriptors of file f, with their processes.
Refs(f) == {x \in Process \X Fd : ofile[x[1]][x[2]] = f}

\* Every variable has its type.
FileTypeOK ==
  /\ file \in [FileEntry -> [ref : Nat, type : {"NONE", "PIPE", "INODE"},
                             obj : Ip \cup PipePage \cup {0}, end : PipeEnd]]
  /\ \A f \in FileEntry : /\ file[f].type = "PIPE" => file[f].obj \in PipePage
                          /\ file[f].type = "INODE" => file[f].obj \in Ip
  /\ ofile \in [Process -> [Fd -> FileEntry \cup {NoFile}]]
  /\ status \in [Process -> {"none", "alive", "exiting"}]
  /\ \A p \in Process : status[p] = "none" => FreeFds(p) = Fd
  /\ pipe \in [PipePage -> SUBSET PipeEnd]
  /\ iref \in [Ip -> Nat] /\ ret \in {-1, 0}

\* A file has as many references as descriptors, of all processes; without any
\* it is free, and has no type that a later fileclose would act on.
FileRefsExact ==
  \A f \in FileEntry : file[f].ref = Cardinality(Refs(f)) /\ (Opened(f) <=> file[f].type # "NONE")

\* f is an open file of this end of the pipe.
IsEnd(f, a, end) == file[f].type = "PIPE" /\ file[f].obj = a /\ file[f].end = end

InodeFiles(i) == {f \in FileEntry : file[f].type = "INODE" /\ file[f].obj = i}

\* An end of a pipe is open exactly while a file of that end is, and there is
\* one such file: the page of the pipe is freed by the last close of either
\* end, once, and readers see the end of the data when the last writer is gone.
\* An inode is referred to once for each file open on it.
ObjectsFollowFiles ==
  /\ \A a \in PipePage, end \in PipeEnd :
       /\ end \in pipe[a] <=> \E f \in FileEntry : IsEnd(f, a, end)
       /\ \A f, g \in FileEntry : IsEnd(f, a, end) /\ IsEnd(g, a, end) => f = g
  /\ \A i \in Ip : iref[i] = Cardinality(InodeFiles(i))

\* References, descriptors, pipes and inodes agree (FileRefsExact and
\* ObjectsFollowFiles), and filedup, fileclose, fileread and filewrite do not
\* panic.
FilesSound == FileTypeOK /\ FileRefsExact /\ ObjectsFollowFiles /\ fpanic = "none"

\* open, dup and pipe that return -1 leave descriptors, references and pipes as
\* they were, wherever they ran out: of files, pages, descriptors or memory of
\* the user.
FailureChangesNothing ==
  ret' = -1 => UNCHANGED <<ofile, pipe, iref>> /\ \A f \in FileEntry : file'[f].ref = file[f].ref
FailsClean == [][FailureChangesNothing]_fileVars
=============================================================================
