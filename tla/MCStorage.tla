----------------------------- MODULE MCStorage -----------------------------
(***************************************************************************)
(* For TLC: where data is kept.  The registers of two processes, the image *)
(* that mkfs makes, the buffers of its blocks, the blocks of files, and    *)
(* the table of open files.                                                *)
(* They are checked next to each other: focus says which one a behaviour   *)
(* is about, the variables of the others are off, those of Context, File   *)
(* and BufferCache at their start.                                         *)
(***************************************************************************)
EXTENDS Context, File, BufferCache

VARIABLES
  focus,
  bitmap, dinode, home, content, mem, off, writing, fits, ipanic,
  img, host, done

-----------------------------------------------------------------------------
(* One open file of each of two inodes, over three blocks; a negative count  *)
(* is taken as unsigned by readi.                                            *)

I == INSTANCE Inode WITH Inum <- {1, 2}, NBLOCKS <- 3, BSIZE <- 2, NDIRECT <- 1, MAXOPBLOCKS <- 6,
       BPB <- 1, Inode <- <<1, 2>>, Request <- {-1, 1, 5}, UINT <- 16, panicked <- ipanic

inodeVars == <<bitmap, dinode, home, content, mem, off, writing, fits, ipanic>>
InodeOff == /\ bitmap = "off" /\ dinode = "off" /\ home = "off" /\ content = "off" /\ mem = "off"
            /\ off = "off" /\ writing = "off" /\ fits = "off" /\ ipanic = "off"

-----------------------------------------------------------------------------
(* Two changes to a block of two sectors. *)

TwoData == {<<0, 1>>, <<1, 0>>}

-----------------------------------------------------------------------------
(* Files up to one unit more than an inode can hold. *)

K == INSTANCE Mkfs WITH BSIZE <- 3, NDIRECT <- 1, IPB <- 2, NINODES <- 6, FSSIZE <- 32,
       LOGBLOCKS <- 2, BPB <- 40, SIZES <- {0, 1, 3, 5, 12, 13}

mkfsVars == <<img, host, done>>
MkfsOff == img = "off" /\ host = "off" /\ done = "off"

-----------------------------------------------------------------------------
ASSUME I!InodeSizes

StorageInit ==
  /\ focus \in {"context", "inode", "buf", "mkfs", "file"}
  /\ Init /\ FileInit /\ BufInit
  /\ IF focus = "inode" THEN I!Init ELSE InodeOff
  /\ IF focus = "mkfs" THEN K!Init ELSE MkfsOff

ContextStep == focus = "context" /\ Next
               /\ UNCHANGED <<focus, inodeVars, bufVars, mkfsVars, fileVars>>
InodeStep == focus = "inode" /\ I!Next /\ UNCHANGED <<focus, vars, bufVars, mkfsVars, fileVars>>
BufStep == focus = "buf" /\ BufNext /\ UNCHANGED <<focus, vars, inodeVars, mkfsVars, fileVars>>
MkfsStep == focus = "mkfs" /\ K!Next /\ UNCHANGED <<focus, vars, inodeVars, bufVars, fileVars>>
FileStep == focus = "file" /\ FileNext /\ UNCHANGED <<focus, vars, inodeVars, bufVars, mkfsVars>>

StorageNext == ContextStep \/ InodeStep \/ BufStep \/ MkfsStep \/ FileStep

storageVars == <<focus, vars, inodeVars, bufVars, mkfsVars, fileVars>>

StorageSpec == StorageInit /\ [][StorageNext]_storageVars

-----------------------------------------------------------------------------
(* The properties of the modules, each about the behaviours of its focus *)

\* No panic of fs.c, log.c (a chunk of filewrite logs at most MAXOPBLOCKS
\* blocks); every variable has its type.
NoPanic == /\ TypeOK
           /\ focus = "inode" => I!TypeOK /\ I!NoPanic /\ I!TransactionFits

\* Inode: a block is free or at one place of one inode (bmap, itrunc, balloc).
BlocksOwnedOnce == focus = "inode" => I!BlocksOwnedOnce
\* Inode: a file holds what was written to it and not the data of another, and
\* what writei and itrunc changed of an inode is on the disk.
FilesDurable == focus = "inode" => I!FilesDurable

\* Mkfs: files of the image read as they were, and the bitmap has the blocks in
\* use, which are at one place each.
ImageSound == focus = "mkfs" => K!ImageSound
=============================================================================
