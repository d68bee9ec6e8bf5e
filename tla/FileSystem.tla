----------------------------- MODULE FileSystem -----------------------------
(***************************************************************************)
(* Names, links and references: the inode table and the directories of     *)
(* kernel/fs.c under the system calls of kernel/sysfile.c.  On one CPU and *)
(* a polled disk a call is not interleaved with another one, and its       *)
(* transaction is durable when it returns or has left no trace (Log): a    *)
(* call is one step, Crash keeps the disk and ireclaim runs transaction by *)
(* transaction.  The functions of fs.c map a kernel state s to the next    *)
(* one; s.room is how many more blocks balloc finds.  The blocks           *)
(* themselves are in Inode, descriptors in File.                           *)
(***************************************************************************)
EXTENDS Integers, Sequences, FiniteSets, FiniteSetsExt, SequencesExt

CONSTANTS
  NINODES,    \* inodes on disk (sb.ninodes)
  NINODE,     \* entries of the inode table
  DPB,        \* directory entries in a block
  Name,       \* file names other than "." and ".."
  RootPath,   \* paths given to calls, [abs, elem], from the root only
  LocalPath,  \* paths given to calls by processes that change directory
  NFILE,      \* files that can be open
  ROAMFILE,   \* bound: the same where processes change directory
  Proc,
  MAXROOM,    \* bound: free blocks balloc can find in one call
  SHRT        \* nlink is a short: -SHRT .. SHRT - 1

ROOT == 1
Inum == 1 .. NINODES - 1
NoInode == 0

ASSUME FileSystemSizes ==
  /\ NINODES > 1 /\ NINODE > 0 /\ DPB > 1 /\ NFILE > 0 /\ ROAMFILE > 0 /\ MAXROOM \in Nat
  /\ SHRT > 1
ASSUME PathsAreNames ==
  \A p \in RootPath \cup LocalPath : p.abs \in BOOLEAN /\ p.elem \in Seq(Name \cup {".", ".."})

VARIABLES
  dinode,     \* on disk: type and nlink
  ents,       \* on disk: the entries of a directory
  ref,        \* in memory: references to the table entry of an inode
  copy,       \* in memory: the copy of the inode, when valid
  cwd,        \* current directory of a process, NoInode without a process
  file,       \* inode of an open file, NoInode of a free entry
  panicked,   \* the message of a panic, or ""
  boot,       \* the inode ireclaim looks at next; NINODES when it is done
  ret,        \* what the last call returned
  roam        \* whether processes fork and change directory, or link

disk == <<dinode, ents>>
vars == <<disk, ref, copy, cwd, file, panicked, boot, ret, roam>>

Types == {"free", "dir", "file", "device", "nodevice"}
FreeInode == [type |-> "free", nlink |-> 0]
NoCopy == [type |-> "none", nlink |-> 0]
Entry(name, inum) == [name |-> name, inum |-> inum]
FreeEntry == Entry("", NoInode)

\* The image of mkfs: the root directory, its block padded with free entries.
Init ==
  /\ dinode = [i \in Inum |-> IF i = ROOT THEN [type |-> "dir", nlink |-> 1]
                              ELSE FreeInode]
  /\ ents = [i \in Inum |-> IF i = ROOT THEN <<Entry(".", ROOT), Entry("..", ROOT)>>
                            ELSE <<>>]
  /\ ref = [i \in Inum |-> IF i = ROOT THEN 1 ELSE 0]
  /\ copy = [i \in Inum |-> NoCopy]
  /\ \E init \in Proc : cwd = [p \in Proc |-> IF p = init THEN ROOT ELSE NoInode]
  /\ roam \in BOOLEAN
  /\ file = [f \in 1 .. (IF roam THEN ROAMFILE ELSE NFILE) |-> NoInode]
  /\ panicked = "" /\ boot = 1 /\ ret = 0

-----------------------------------------------------------------------------
(* Inodes *)

State(room) == [dinode |-> dinode, ents |-> ents, ref |-> ref, copy |-> copy,
                room |-> room, panic |-> ""]

Panic(s, why) == IF s.panic = "" THEN [s EXCEPT !.panic = why] ELSE s

Iget(s, i) ==
  IF s.ref[i] = 0 /\ Cardinality({j \in Inum : s.ref[j] > 0}) >= NINODE
  THEN Panic(s, "iget: no inodes")
  ELSE [s EXCEPT !.ref[i] = @ + 1]

Idup(s, i) == [s EXCEPT !.ref[i] = @ + 1]

Ilock(s, i) ==
  IF s.copy[i] # NoCopy THEN s
  ELSE [(IF s.dinode[i].type = "free" THEN Panic(s, "ilock: no type") ELSE s)
          EXCEPT !.copy[i] = s.dinode[i]]

Iupdate(s, i) == [s EXCEPT !.dinode[i] = s.copy[i]]

AddLinks(s, i, n) ==
  Iupdate([s EXCEPT !.copy[i].nlink = ((@ + n + SHRT) % (2 * SHRT)) - SHRT], i)

\* An inode without links is freed with its content.
Free(s, i) == [s EXCEPT !.ents[i] = <<>>, !.copy[i] = NoCopy,
                        !.dinode[i] = [s.copy[i] EXCEPT !.type = "free"]]

\* The copy of an entry without references is not used again.
Drop(s, i) == [s EXCEPT !.ref[i] = @ - 1, !.copy[i] = IF s.ref[i] = 1 THEN NoCopy ELSE @]

Iput(s, i) ==
  Drop(IF s.ref[i] = 1 /\ s.copy[i] # NoCopy /\ s.copy[i].nlink = 0 THEN Free(s, i) ELSE s, i)

-----------------------------------------------------------------------------
(* Directories and paths *)

Slots(s, d, name) == {k \in DOMAIN s.ents[d] : /\ s.ents[d][k].inum # NoInode
                                               /\ s.ents[d][k].name = name}

Found(s, d, slots) ==
  IF slots = {} THEN [ip |-> NoInode, s |-> s]
  ELSE [ip |-> s.ents[d][Min(slots)].inum, s |-> Iget(s, s.ents[d][Min(slots)].inum)]

Dirlookup(s, d, name) ==
  Found(IF s.copy[d].type # "dir" THEN Panic(s, "dirlookup not DIR") ELSE s, d, Slots(s, d, name))

Ok(s) == [ok |-> TRUE, s |-> s]
Failed(s) == [ok |-> FALSE, s |-> s]

\* The first free entry, or one more; a new block is needed at a block's end.
AddEntry(s, d, e, free, end) ==
  IF free # {} THEN Ok([s EXCEPT !.ents[d][Min(free)] = e])
  ELSE IF end % DPB = 0 /\ s.room = 0 THEN Failed(s)
  ELSE Ok([s EXCEPT !.ents[d] = Append(@, e), !.room = IF end % DPB = 0 THEN @ - 1 ELSE @])

UnlessFound(s, d, e, old) ==
  IF old.ip # NoInode THEN Failed(Iput(old.s, old.ip))
  ELSE AddEntry(s, d, e, {k \in DOMAIN s.ents[d] : s.ents[d][k].inum = NoInode}, Len(s.ents[d]))

Dirlink(s, d, name, i) == UnlessFound(s, d, Entry(name, i), Dirlookup(s, d, name))

\* namex from inode ip on: the inode, or the parent of the last element;
\* NoInode when there is none.
RECURSIVE Walk(_, _, _, _)
WalkOn(next, s, ip, rest) ==
  IF next.ip = NoInode THEN [ip |-> NoInode, s |-> Iput(s, ip)]
  ELSE Walk(Iput(next.s, ip), next.ip, rest.elem, rest.parent)

WalkIn(s, ip, elem, parent) ==
  IF s.copy[ip].type # "dir" THEN [ip |-> NoInode, s |-> Iput(s, ip)]
  ELSE IF parent /\ Len(elem) = 1 THEN [ip |-> ip, s |-> s]
  ELSE WalkOn(Dirlookup(s, ip, Head(elem)), s, ip, [elem |-> Tail(elem), parent |-> parent])

Walk(s, ip, elem, parent) ==
  IF elem # <<>> THEN WalkIn(Ilock(s, ip), ip, elem, parent)
  ELSE IF parent THEN [ip |-> NoInode, s |-> Iput(s, ip)]
  ELSE [ip |-> ip, s |-> s]

Namex(s, p, path, parent) ==
  IF path.abs THEN Walk(Iget(s, ROOT), ROOT, path.elem, parent)
  ELSE Walk(Idup(s, cwd[p]), cwd[p], path.elem, parent)

Namei(s, p, path) == Namex(s, p, path, FALSE)
NameiParent(s, p, path) == Namex(s, p, path, TRUE)

-----------------------------------------------------------------------------
(* create *)

\* mutant: create keeps the inode it cannot return.
ExistingNoPut(s, ip, type) ==
  IF type = "file" /\ s.copy[ip].type \in {"file", "device", "nodevice"}
  THEN [ip |-> ip, s |-> s]
  ELSE [ip |-> NoInode, s |-> s]

\* The name is there already, as inode ip.
Existing(s, ip, type) ==
  IF type = "file" /\ s.copy[ip].type \in {"file", "device", "nodevice"}
  THEN [ip |-> ip, s |-> s]
  ELSE [ip |-> NoInode, s |-> Iput(s, ip)]

\* ialloc, and the first fields.
Ialloc(s, ip, type) ==
  AddLinks(Ilock(Iget([s EXCEPT !.dinode[ip] = [FreeInode EXCEPT !.type = type]],
                      ip), ip), ip, 1)

\* mutant: a directory that could not be linked keeps its link count.
UndoNoNlink(s, dp, ip) == Iput(Iput(s, ip), dp)

\* fail: a new inode that could not be linked has no links and is put.
Undo(s, dp, ip) == Iput(Iput(AddLinks(s, ip, -1), ip), dp)

\* "." and ".." of a new directory.
Dots(new, ip, dp) ==
  IF new.ok THEN Dirlink(new.s, ip, "..", dp) ELSE new

Settle(link, dp, ip, type) ==
  IF ~link.ok THEN [ip |-> NoInode, s |-> Undo(link.s, dp, ip)]
  ELSE [ip |-> ip, s |-> Iput(IF type = "dir" THEN AddLinks(link.s, dp, 1) ELSE link.s, dp)]

\* The name, once the inode is ready.
NameIt(ready, dp, name, ip) ==
  IF ready.ok THEN Dirlink(ready.s, dp, name, ip) ELSE ready

\* A new inode: ialloc, "." and "..", the name.
Fresh(s, dp, name, type, ip) ==
  Settle(NameIt(IF type = "dir" THEN Dots(Dirlink(Ialloc(s, ip, type), ip, ".", ip), ip, dp)
               ELSE Ok(Ialloc(s, ip, type)),
               dp, name, ip), dp, ip, type)

CreateIn(s, dp, name, type, found) ==
  IF found.ip # NoInode THEN Existing(Ilock(Iput(found.s, dp), found.ip), found.ip, type)
  ELSE IF \A i \in Inum : s.dinode[i].type # "free"
       THEN [ip |-> NoInode, s |-> Iput(s, dp)]
  ELSE Fresh(s, dp, name, type, Min({i \in Inum : s.dinode[i].type = "free"}))

Create(parent, name, type) ==
  IF parent.ip = NoInode THEN parent
  ELSE CreateIn(Ilock(parent.s, parent.ip), parent.ip, name, type,
                Dirlookup(Ilock(parent.s, parent.ip), parent.ip, name))

-----------------------------------------------------------------------------
(* System calls *)

Running(p) == boot = NINODES /\ panicked = "" /\ cwd[p] # NoInode

\* The call returns r in state s, or the machine stops where s panicked.
Returns(s, r) ==
  IF s.panic # "" THEN panicked' = s.panic /\ UNCHANGED <<disk, ref, copy, ret>>
  ELSE /\ dinode' = s.dinode /\ ents' = s.ents /\ ref' = s.ref /\ copy' = s.copy
       /\ ret' = r
       /\ UNCHANGED panicked

\* One of the files is taken, unless the table or the descriptors are full.
OpenFile(s, ip) ==
  \/ \E f \in DOMAIN file :
        /\ file[f] = NoInode /\ \A g \in 1 .. f - 1 : file[g] # NoInode
        /\ Returns(s, 1)
        /\ file' = IF panicked' = "" THEN [file EXCEPT ![f] = ip] ELSE file
        /\ UNCHANGED <<cwd, boot, roam>>
  \/ Returns(Iput(s, ip), -1) /\ UNCHANGED <<cwd, file, boot, roam>>

Fails(s) == Returns(s, -1) /\ UNCHANGED <<cwd, file, boot, roam>>

SysOpenCreate(p, path) ==
  /\ Running(p)
  /\ \E room \in 0 .. MAXROOM : \E c \in {Create(NameiParent(State(room), p, path), Last(path.elem), "file")} :
        IF c.ip = NoInode THEN Fails(c.s)
        ELSE IF c.s.copy[c.ip].type = "nodevice" THEN Fails(Iput(c.s, c.ip))
        ELSE OpenFile(c.s, c.ip)

\* A directory is opened for reading only.
SysOpen(p, path, rdonly) ==
  /\ Running(p)
  /\ \E n \in {Namei(State(0), p, path)} :
       IF n.ip = NoInode THEN Fails(n.s)
       ELSE \E s \in {Ilock(n.s, n.ip)} :
              IF s.copy[n.ip].type = "nodevice" \/ (s.copy[n.ip].type = "dir" /\ ~rdonly)
              THEN Fails(Iput(s, n.ip))
              ELSE OpenFile(s, n.ip)

SysMake(p, path, type) ==
  /\ Running(p)
  /\ \E room \in 0 .. MAXROOM : \E c \in {Create(NameiParent(State(room), p, path), Last(path.elem), type)} :
        IF c.ip = NoInode THEN Fails(c.s)
        ELSE Returns(Iput(c.s, c.ip), 0) /\ UNCHANGED <<cwd, file, boot, roam>>

SysMkdir(p, path) == SysMake(p, path, "dir")
SysMknod(p, path) == \E major \in {"device", "nodevice"} : SysMake(p, path, major)

\* mutant: a link that fails leaves the count raised.
LinkEndNoUndo(l, ip) == [l EXCEPT !.s = Iput(Ilock(l.s, ip), ip)]

\* The end of link: bad lowers the count again.
LinkEnd(l, ip) ==
  IF l.ok THEN Ok(Iput(l.s, ip)) ELSE Failed(Iput(AddLinks(Ilock(l.s, ip), ip, -1), ip))

\* The name, in the directory that nameiparent has found.
LinkIn(parent, name, ip) ==
  IF parent.ip = NoInode THEN Failed(parent.s)
  ELSE \* the directory is put whether the name is new or not
       LET l == Dirlink(Ilock(parent.s, parent.ip), parent.ip, name, ip)
       IN  [l EXCEPT !.s = Iput(@, parent.ip)]

SysLink(p, old, new) ==
  /\ Running(p) /\ ~roam
  /\ \E room \in 0 .. MAXROOM : \E n \in {Namei(State(room), p, old)} :
       IF n.ip = NoInode THEN Fails(n.s)
       ELSE \E s \in {Ilock(n.s, n.ip)} :
         IF s.copy[n.ip].type = "dir" THEN Fails(Iput(s, n.ip))
         ELSE \E l \in {LinkIn(NameiParent(AddLinks(s, n.ip, 1), p, new), Last(new.elem), n.ip)} :
                /\ Returns(LinkEnd(l, n.ip).s, IF l.ok THEN 0 ELSE -1)
                /\ UNCHANGED <<cwd, file, boot, roam>>

IsDirEmpty(s, d) == \A k \in 3 .. Len(s.ents[d]) : s.ents[d][k].inum = NoInode

\* mutant: unlink leaves the entry.
ClearedKeepsEntry(s, dp, name) == s

Cleared(s, dp, name) == [s EXCEPT !.ents[dp][Min(Slots(s, dp, name))] = FreeEntry]

\* The entry is cleared, a directory's parent loses the link of its "..".
Unlink(s, dp, isdir, ip) ==
  Iput(AddLinks(Iput(IF isdir THEN AddLinks(s, dp, -1) ELSE s, dp), ip, -1), ip)

SysUnlink(p, path) ==
  /\ Running(p)
  /\ \E n \in {NameiParent(State(0), p, path)}, name \in {Last(path.elem)} :
       IF n.ip = NoInode THEN Fails(n.s)
       ELSE \E t \in {Ilock(n.s, n.ip)} :
         IF name \in {".", ".."} THEN Fails(Iput(t, n.ip))
         ELSE \E l \in {Dirlookup(t, n.ip, name)} :
           IF l.ip = NoInode THEN Fails(Iput(t, n.ip))
           ELSE \E s \in {Ilock(l.s, l.ip)}, isdir \in {Ilock(l.s, l.ip).copy[l.ip].type = "dir"} :
             IF s.copy[l.ip].nlink < 1 THEN Fails(Panic(s, "unlink: nlink < 1"))
             ELSE IF isdir /\ ~IsDirEmpty(s, l.ip) THEN Fails(Iput(Iput(s, l.ip), n.ip))
             ELSE /\ Returns(Unlink(Cleared(s, n.ip, name), n.ip, isdir, l.ip), 0)
                  /\ UNCHANGED <<cwd, file, boot, roam>>

\* fileclose of the last descriptor of f.
Close(f) ==
  /\ boot = NINODES /\ panicked = "" /\ file[f] # NoInode
  /\ Returns(Iput(State(0), file[f]), 0)
  /\ file' = [file EXCEPT ![f] = NoInode]
  /\ UNCHANGED <<cwd, boot, roam>>

Change(s, p) == Iput(s, cwd[p])

SysChdir(p, path) ==
  /\ Running(p) /\ roam
  /\ \E n \in {Namei(State(0), p, path)} :
       IF n.ip = NoInode THEN Fails(n.s)
       ELSE \E s \in {Ilock(n.s, n.ip)} :
         IF s.copy[n.ip].type # "dir" THEN Fails(Iput(s, n.ip))
         ELSE /\ Returns(Change(s, p), 0)
              /\ cwd' = IF panicked' = "" THEN [cwd EXCEPT ![p] = n.ip] ELSE cwd
              /\ UNCHANGED <<file, boot, roam>>

\* kfork and kexit, what they do to the current directory.
Fork(p, q) ==
  /\ Running(p) /\ roam /\ cwd[q] = NoInode
  /\ Returns(Idup(State(0), cwd[p]), 0)
  /\ cwd' = [cwd EXCEPT ![q] = cwd[p]]
  /\ UNCHANGED <<file, boot, roam>>

Exit(p) ==
  /\ Running(p) /\ \E q \in Proc \ {p} : cwd[q] # NoInode
  /\ Returns(Iput(State(0), cwd[p]), 0)
  /\ cwd' = [cwd EXCEPT ![p] = NoInode]
  /\ UNCHANGED <<file, boot, roam>>

-----------------------------------------------------------------------------
(* Power loss and ireclaim *)

\* userinit's namei("/") has the one reference before the disk is read.
Crash ==
  /\ boot' = 1 /\ panicked' = "" /\ ret' = 0
  /\ ref' = [i \in Inum |-> IF i = ROOT THEN 1 ELSE 0]
  /\ copy' = [i \in Inum |-> NoCopy]
  /\ \E init \in Proc : cwd' = [p \in Proc |-> IF p = init THEN ROOT ELSE NoInode]
  /\ file' = [f \in DOMAIN file |-> NoInode]
  /\ UNCHANGED <<disk, roam>>

\* mutant: ireclaim puts the inode without having locked it.
IreclaimUnread ==
  /\ boot < NINODES /\ panicked = ""
  /\ Returns(IF dinode[boot].type # "free" /\ dinode[boot].nlink = 0
             THEN Iput(Iget(State(0), boot), boot) ELSE State(0), ret)
  /\ boot' = boot + 1
  /\ UNCHANGED <<cwd, file, roam>>

Ireclaim ==
  /\ boot < NINODES /\ panicked = ""
  /\ Returns(IF dinode[boot].type # "free" /\ dinode[boot].nlink = 0
             THEN Iput(Ilock(Iget(State(0), boot), boot), boot) ELSE State(0), ret)
  /\ boot' = boot + 1
  /\ UNCHANGED <<cwd, file, roam>>

Paths == IF roam THEN LocalPath ELSE RootPath

Next ==
  \/ \E p \in Proc, path \in Paths :
        \/ SysOpenCreate(p, path) \/ \E rdonly \in BOOLEAN : SysOpen(p, path, rdonly)
        \/ SysMkdir(p, path) \/ SysMknod(p, path) \/ SysUnlink(p, path)
        \/ SysChdir(p, path) \/ \E new \in Paths : SysLink(p, path, new)
  \/ \E f \in DOMAIN file : Close(f)
  \/ \E p, q \in Proc : Fork(p, q)
  \/ \E p \in Proc : Exit(p)
  \/ Crash \/ Ireclaim

Spec == Init /\ [][Next]_vars

-----------------------------------------------------------------------------
(* Properties *)

\* Every variable has its type.
TypeOK ==
  /\ dinode \in [Inum -> [type : Types, nlink : -SHRT .. SHRT - 1]]
  /\ \A i \in Inum : \A k \in DOMAIN ents[i] :
        /\ ents[i][k].inum \in Inum \cup {NoInode}
        /\ ents[i][k].name \in Name \cup {"", ".", ".."}
  /\ ref \in [Inum -> Nat]
  /\ copy \in [Inum -> [type : Types, nlink : -SHRT .. SHRT - 1] \cup {NoCopy}]
  /\ cwd \in [Proc -> Inum \cup {NoInode}]
  /\ file \in [DOMAIN file -> Inum \cup {NoInode}]
  /\ boot \in 1 .. NINODES /\ ret \in {-1, 0, 1}

\* Every path through a call, the failing ones included, gives back the
\* references it took: between calls an inode has one for each current
\* directory and open file, and its copy in memory is what is on the disk
\* (iupdate "Must be called after every change to an ip->xxx field").
RefsExact ==
  \A i \in Inum :
     /\ ref[i] = Cardinality({p \in Proc : cwd[p] = i})
                 + Cardinality({f \in DOMAIN file : file[f] = i})
     /\ copy[i] # NoCopy => ref[i] > 0 /\ copy[i] = dinode[i]

Named(d, i) == {k \in DOMAIN ents[d] : ents[d][k].inum = i /\ ents[d][k].name # "."}

\* The entries that count as links: "." does not, nor does the ".." of a
\* directory that unlink has removed.
Links(i) ==
  UNION {{<<d, k>> : k \in {k \in Named(d, i) : ents[d][k].name # ".."
                                                 \/ dinode[d].nlink > 0}} : d \in Inum}

\* An allocated inode has as many links as directory entries, and a free one
\* is named by none: "nlink; // Number of links to inode in file system"
\* (fs.h).  create, link and unlink keep it so when they fail half way too.
\* (A process whose current directory was removed can still create in it: the
\* new inode has a link that goes with the directory.)
LinksExact ==
  ~roam =>
    \A i \in Inum : IF dinode[i].type = "free" THEN Links(i) = {}
                    ELSE dinode[i].nlink = Cardinality(Links(i))

\* Directories that can be reached from the root.
RECURSIVE Below(_)
Below(ds) ==
  LET next == ds \cup {i \in Inum : /\ dinode[i].type = "dir"
                                    /\ \E d \in ds : \E k \in Named(d, i) :
                                          ents[d][k].name # ".."}
  IN  IF next = ds THEN ds ELSE Below(next)

\* The directories below the root are a tree: an entry names an allocated inode
\* with at least as many links as there are such entries, ".." names the one
\* directory whose entry leads here, and no name occurs twice.
Tree ==
  LET live == Below({ROOT})
      names(d) == {k \in DOMAIN ents[d] : ents[d][k].inum # NoInode}
  IN  /\ \A d \in live :
           /\ ents[d][1] = Entry(".", d) /\ ents[d][2].name = ".."
           /\ \A k \in names(d) : /\ dinode[ents[d][k].inum].type # "free"
                                 /\ \A j \in names(d) \ {k} : ents[d][j].name # ents[d][k].name
           /\ {e \in live : Named(e, d) \ {2} # {}}
                 = IF d = ROOT THEN {} ELSE {ents[d][2].inum}
      /\ \A i \in Inum : dinode[i].nlink >= Cardinality(
           UNION {{<<d, k>> : k \in Named(d, i)} : d \in live})

\* Once ireclaim is done, an inode without links is in use: iput has freed the
\* others, also those that a crash left open.
NoLeakedInode ==
  boot = NINODES /\ panicked = "" =>
     \A i \in Inum : dinode[i].type # "free" /\ dinode[i].nlink = 0 => ref[i] > 0

\* No panic of iget, ilock, dirlookup or unlink is reached.  (Where processes
\* change directory, the ".." of a removed current directory may name an inode
\* that was freed since: ilock then finds no type.)  Every variable has its type.
NoPanic == TypeOK /\ (panicked = "" \/ (roam /\ panicked = "ilock: no type"))

\* A call that returns -1 has left no trace on the disk.  (open with O_CREATE
\* may create the file and then find no free file or descriptor.)
FailureLeavesNoTrace ==
  [][ret' = -1 /\ boot = NINODES =>
        \/ UNCHANGED disk
        \/ \E p \in Proc, path \in Paths : SysOpenCreate(p, path)]_vars

\* Names, "..", and links agree: LinksExact and Tree.
NamesSound == LinksExact /\ Tree
=============================================================================
