----------------------------- MODULE FileProofs -----------------------------
(***************************************************************************)
(* Theorems about File, for any number of processes, descriptors, files,   *)
(* pages and inodes: references are exact, pipes and inodes are let go     *)
(* with the last file, no call panics, and a call that fails leaves no     *)
(* trace.  FilesSound is inductive as it stands.                           *)
(***************************************************************************)
EXTENDS File, FiniteSetTheorems, TLAPS

-----------------------------------------------------------------------------
(* Counting *)

FileRecord == [ref : Nat, type : {"NONE", "PIPE", "INODE"}, obj : Ip \cup PipePage \cup {0},
               end : PipeEnd]

LEMMA WithRefFacts ==
  ASSUME NEW ff \in FileRecord, NEW n \in Nat
  PROVE  /\ WithRef(ff, n) \in FileRecord /\ WithRef(ff, n).ref = n
         /\ WithRef(ff, n).type = ff.type /\ WithRef(ff, n).obj = ff.obj
         /\ WithRef(ff, n).end = ff.end
BY Zenon DEF WithRef, FileRecord

LEMMA RefsFinite ==
  \A f : /\ IsFiniteSet(Refs(f)) /\ Cardinality(Refs(f)) \in Nat
         /\ Cardinality(Refs(f)) = 0 <=> Refs(f) = {}
<1>1. IsFiniteSet(Process \X Fd)
  <2>1. IsFiniteSet(Fd)
    BY FileSizes, FS_Interval DEF Fd
  <2> QED BY <2>1, FileSizes, FS_Product, Zenon
<1>2. TAKE f
<1>3. IsFiniteSet(Refs(f))
  BY <1>1, FS_Subset, Zenon DEF Refs
<1> QED BY <1>3, FS_CardinalityType, FS_EmptySet, Zenon

LEMMA InodeFilesFinite ==
  \A i : IsFiniteSet(InodeFiles(i)) /\ Cardinality(InodeFiles(i)) \in Nat
<1>1. IsFiniteSet(FileEntry)
  BY FileSizes, FS_Interval DEF FileEntry
<1>2. TAKE i
<1>3. IsFiniteSet(InodeFiles(i))
  BY <1>1, FS_Subset, Zenon DEF InodeFiles
<1> QED BY <1>3, FS_CardinalityType, Zenon

\* A file that has no reference has no type and no descriptor, and one that
\* has a descriptor has a reference and a type.
LEMMA FreeOrOpen ==
  ASSUME FilesSound
  PROVE  /\ \A f \in FreeFiles : f \in FileEntry /\ file[f].type = "NONE" /\ Refs(f) = {}
         /\ \A p \in Process, fd \in Fd : ofile[p][fd] # NoFile =>
               /\ ofile[p][fd] \in FileEntry /\ file[ofile[p][fd]].ref > 0
               /\ file[ofile[p][fd]].type # "NONE"
<1>1. \A f \in FreeFiles : f \in FileEntry /\ file[f].type = "NONE" /\ Refs(f) = {}
  BY RefsFinite DEF FreeFiles, FilesSound, FileTypeOK, FileRefsExact, Opened
<1>2. ASSUME NEW p \in Process, NEW fd \in Fd, ofile[p][fd] # NoFile
      PROVE  /\ ofile[p][fd] \in FileEntry /\ file[ofile[p][fd]].ref > 0
             /\ file[ofile[p][fd]].type # "NONE"
  <2>1. ofile[p][fd] \in FileEntry
    BY <1>2 DEF FilesSound, FileTypeOK
  <2>2. <<p, fd>> \in Refs(ofile[p][fd])
    BY Zenon DEF Refs
  <2> QED BY <2>1, <2>2, RefsFinite DEF FilesSound, FileTypeOK, FileRefsExact, Opened
<1> QED BY <1>1, <1>2, Zenon

-----------------------------------------------------------------------------
(* Tables that stay as they are *)

LEMMA ObjectsSame ==
  ASSUME ObjectsFollowFiles, UNCHANGED <<pipe, iref>>,
         \A f \in FileEntry, a \in PipePage, end \in PipeEnd : IsEnd(f, a, end)' <=> IsEnd(f, a, end),
         \A i \in Ip : InodeFiles(i)' = InodeFiles(i)
  PROVE  ObjectsFollowFiles'
BY Zenon DEF ObjectsFollowFiles

\* Entries that were free may be cleared again.
LEMMA SameTables ==
  ASSUME FilesSound, UNCHANGED <<ofile, pipe, iref, fpanic>>, FileTypeOK',
         \A f \in FileEntry : file'[f] = file[f] \/ (f \in FreeFiles /\ file'[f] = Free)
  PROVE  FilesSound'
<1>1. \A f \in FileEntry : /\ file'[f].ref = file[f].ref /\ file'[f].type = file[f].type
                           /\ file[f].type # "NONE" => file'[f] = file[f]
  BY FreeOrOpen DEF FreeFiles, Free
<1>2. \A f : Refs(f)' = Refs(f)
  BY Zenon DEF Refs
<1>3. FileRefsExact'
  BY <1>1, <1>2, Zenon DEF FilesSound, FileRefsExact, Opened
<1>4. \A f \in FileEntry, a \in PipePage, end \in PipeEnd : IsEnd(f, a, end)' <=> IsEnd(f, a, end)
  BY <1>1, Zenon DEF IsEnd
<1>5. \A i : InodeFiles(i)' = InodeFiles(i)
  BY <1>1, Zenon DEF InodeFiles
<1>6. ObjectsFollowFiles'
  BY <1>4, <1>5, ObjectsSame, Zenon DEF FilesSound
<1> QED BY <1>3, <1>6, Zenon DEF FilesSound

LEMMA FailsKeeps ==
  ASSUME FilesSound, NEW files, Fails(files, pipe),
         files \in [FileEntry -> [ref : Nat, type : {"NONE", "PIPE", "INODE"},
                              obj : Ip \cup PipePage \cup {0}, end : PipeEnd]],
         \A f \in FileEntry : files[f] = file[f] \/ (f \in FreeFiles /\ files[f] = Free)
  PROVE  FilesSound' /\ FailureChangesNothing
<1>1. FileTypeOK'
  BY DEF FilesSound, FileTypeOK, Fails, FreeFiles, Free, FreeFds
<1>2. FilesSound'
  BY <1>1, SameTables, Zenon DEF Fails
<1>3. \A f \in FileEntry : file'[f].ref = file[f].ref
  BY DEF Fails, FreeFiles, Free
<1> QED BY <1>2, <1>3, Zenon DEF Fails, FailureChangesNothing

\* An entry that was taken and closed is free.
LEMMA TakenClosed ==
  ASSUME FilesSound, NEW f \in FileEntry
  PROVE  Closed(Taken(file[f])) = Free
<1>1. file[f] \in FileRecord
  BY Zenon DEF FilesSound, FileTypeOK, FileRecord
<1> QED BY <1>1, WithRefFacts DEF Closed, Taken

-----------------------------------------------------------------------------
(* open, dup and close *)

\* A step that changes one descriptor and one file keeps the types.
LEMMA TypesKept ==
  ASSUME FileTypeOK, NEW p \in Process, NEW fd \in Fd, NEW x \in FileEntry \cup {NoFile},
         ofile' = [ofile EXCEPT ![p][fd] = x], status[p] # "none" \/ ofile[p][fd] # NoFile,
         NEW f \in FileEntry, NEW ff \in FileRecord, file' = [file EXCEPT ![f] = ff],
         ff.type = "PIPE" => ff.obj \in PipePage, ff.type = "INODE" => ff.obj \in Ip,
         pipe' \in [PipePage -> SUBSET PipeEnd], iref' \in [Ip -> Nat],
         status' = status, ret' \in {-1, 0}
  PROVE  FileTypeOK'
<1>1. ofile' \in [Process -> [Fd -> FileEntry \cup {NoFile}]]
  BY Zenon DEF FileTypeOK
<1>2. \A q \in Process : status'[q] = "none" => FreeFds(q)' = Fd
  <2>1. status[p] # "none"
    BY Zenon DEF FileTypeOK, FreeFds
  <2>2. \A q \in Process : status[q] = "none" => ofile'[q] = ofile[q]
    BY <2>1, Zenon DEF FileTypeOK
  <2> QED BY <2>2, Zenon DEF FileTypeOK, FreeFds
<1>3. file' \in [FileEntry -> FileRecord]
  BY Zenon DEF FileTypeOK, FileRecord
<1>4. \A g \in FileEntry : /\ file'[g].type = "PIPE" => file'[g].obj \in PipePage
                           /\ file'[g].type = "INODE" => file'[g].obj \in Ip
  BY Zenon DEF FileTypeOK
<1> QED BY <1>1, <1>2, <1>3, <1>4, Zenon DEF FileTypeOK, FileRecord

\* One more descriptor, which was free, for file f.
LEMMA RefGained ==
  ASSUME FileTypeOK, NEW p \in Process, NEW fd \in FreeFds(p), NEW f \in FileEntry,
         ofile' = [ofile EXCEPT ![p][fd] = f]
  PROVE  /\ Cardinality(Refs(f)') = Cardinality(Refs(f)) + 1
         /\ \A g \in FileEntry \ {f} : Refs(g)' = Refs(g)
<1>1. \A q \in Process, d \in Fd : ofile'[q][d] = IF q = p /\ d = fd THEN f ELSE ofile[q][d]
  BY Zenon DEF FileTypeOK, FreeFds
<1>2. ofile[p][fd] = NoFile /\ NoFile \notin FileEntry /\ fd \in Fd
  BY DEF FreeFds, NoFile, FileEntry
<1>3. Refs(f)' = Refs(f) \cup {<<p, fd>>} /\ <<p, fd>> \notin Refs(f)
  BY <1>1, <1>2 DEF Refs
<1>4. \A g \in FileEntry \ {f} : Refs(g)' = Refs(g)
  BY <1>1, <1>2 DEF Refs
<1> QED BY <1>3, <1>4, RefsFinite, FS_AddElement, ZenonT(30)

\* One descriptor less for its file.
LEMMA RefLost ==
  ASSUME FileTypeOK, NEW p \in Process, NEW fd \in Fd, NEW f \in FileEntry, f = ofile[p][fd],
         ofile' = [ofile EXCEPT ![p][fd] = NoFile]
  PROVE  /\ Cardinality(Refs(f)') = Cardinality(Refs(f)) - 1
         /\ \A g \in FileEntry \ {f} : Refs(g)' = Refs(g)
<1>1. \A q \in Process, d \in Fd : ofile'[q][d] = IF q = p /\ d = fd THEN NoFile ELSE ofile[q][d]
  BY Zenon DEF FileTypeOK
<1>2. NoFile \notin FileEntry
  BY DEF NoFile, FileEntry
<1>3. Refs(f)' = Refs(f) \ {<<p, fd>>} /\ <<p, fd>> \in Refs(f)
  BY <1>1, <1>2 DEF Refs
<1>4. \A g \in FileEntry \ {f} : Refs(g)' = Refs(g)
  BY <1>1, <1>2 DEF Refs
<1>5. Cardinality(Refs(f)') = Cardinality(Refs(f)) - 1
  BY <1>3, RefsFinite, FS_RemoveElement, ZenonT(60)
<1> QED BY <1>4, <1>5, Zenon

LEMMA OpenKeeps ==
  ASSUME FilesSound, NEW p \in Process, NEW i \in Ip, NEW f \in FreeFiles, NEW fd \in FreeFds(p),
         Running(p), OpenFile(p, i, f, fd)
  PROVE  FilesSound'
<1> USE DEF FilesSound
<1>1. f \in FileEntry /\ file[f].type = "NONE" /\ file[f].ref = 0 /\ fd \in Fd
  BY FreeOrOpen, Zenon DEF FreeFiles, FreeFds
<1>2. /\ file'[f] = InodeFile(i) /\ \A g \in FileEntry \ {f} : file'[g] = file[g]
      /\ pipe' = pipe /\ ofile' = [ofile EXCEPT ![p][fd] = f] /\ fpanic' = fpanic
      /\ iref' = [iref EXCEPT ![i] = @ + 1]
  BY <1>1, Zenon DEF OpenFile, FileTypeOK
<1>3. FileTypeOK'
  <2>1. /\ InodeFile(i) \in FileRecord /\ InodeFile(i).type = "INODE" /\ InodeFile(i).obj = i
        /\ iref' \in [Ip -> Nat]
    BY <1>2 DEF InodeFile, FileRecord, FileTypeOK, PipeEnd
  <2>2. /\ file' = [file EXCEPT ![f] = InodeFile(i)] /\ status' = status /\ ret' \in {-1, 0}
        /\ status[p] # "none"
    BY Zenon DEF OpenFile, Running
  <2>3. pipe' \in [PipePage -> SUBSET PipeEnd] /\ f \in FileEntry \cup {NoFile}
    BY <1>1, <1>2, Zenon DEF FileTypeOK
  <2>4. FileTypeOK /\ fd \in Fd /\ ofile' = [ofile EXCEPT ![p][fd] = f]
    BY <1>1, <1>2, Zenon
  <2>5. /\ InodeFile(i).type = "PIPE" => InodeFile(i).obj \in PipePage
        /\ InodeFile(i).type = "INODE" => InodeFile(i).obj \in Ip
    BY <2>1, Zenon
  <2> QED BY <1>1, <2>1, <2>2, <2>3, <2>4, <2>5, TypesKept, ZenonT(30)
<1>4. FileRefsExact'
  <2>1. /\ Cardinality(Refs(f)') = Cardinality(Refs(f)) + 1
        /\ \A g \in FileEntry \ {f} : Refs(g)' = Refs(g)
    BY <1>1, <1>2, RefGained, Zenon
  <2> QED BY <1>1, <1>2, <2>1 DEF FileRefsExact, FileTypeOK, Opened, InodeFile
<1>5. \A g \in FileEntry, a \in PipePage, end \in PipeEnd : IsEnd(g, a, end)' <=> IsEnd(g, a, end)
  BY <1>1, <1>2 DEF IsEnd, InodeFile
<1>6. file'[f].type = "INODE" /\ file'[f].obj = i
  BY <1>2 DEF InodeFile
<1>7. \A j \in Ip : iref'[j] = Cardinality(InodeFiles(j)')
  <2>1. InodeFiles(i)' = InodeFiles(i) \cup {f}
    BY <1>1, <1>2, <1>6, Zenon DEF InodeFiles
  <2>2. f \notin InodeFiles(i)
    BY <1>1, Zenon DEF InodeFiles
  <2>3. \A j \in Ip \ {i} : InodeFiles(j)' = InodeFiles(j)
    BY <1>1, <1>2, <1>6, Zenon DEF InodeFiles
  <2>4. Cardinality(InodeFiles(i)') = Cardinality(InodeFiles(i)) + 1
    BY <2>1, <2>2, InodeFilesFinite, FS_AddElement, Zenon
  <2>5. iref'[i] = iref[i] + 1 /\ \A j \in Ip \ {i} : iref'[j] = iref[j]
    BY <1>2, Zenon DEF FileTypeOK
  <2> QED BY <2>3, <2>4, <2>5, Zenon DEF ObjectsFollowFiles
<1>8. ObjectsFollowFiles'
  BY <1>2, <1>5, <1>7, Zenon DEF ObjectsFollowFiles
<1> QED BY <1>2, <1>3, <1>4, <1>8, Zenon

LEMMA DupKeeps ==
  ASSUME FilesSound, NEW p \in Process, NEW old \in Fd, NEW fd \in FreeFds(p), Running(p),
         ofile[p][old] # NoFile, DupTo(p, ofile[p][old], fd)
  PROVE  FilesSound'
<1> USE DEF FilesSound
<1>1. PICK f \in FileEntry : f = ofile[p][old] /\ file[f].ref > 0 /\ file[f].type # "NONE"
  BY FreeOrOpen, Zenon
<1>0. file[f] \in FileRecord /\ file[f].ref + 1 \in Nat
  BY DEF FileTypeOK, FileRecord
<1>w. PICK w \in FileRecord : /\ w = WithRef(file[f], file[f].ref + 1)
                              /\ w.ref = file[f].ref + 1 /\ w.type = file[f].type
                              /\ w.obj = file[f].obj /\ w.end = file[f].end
  BY <1>0, WithRefFacts, ZenonT(30)
<1>2. /\ file' = [file EXCEPT ![f] = w] /\ ofile' = [ofile EXCEPT ![p][fd] = f]
      /\ UNCHANGED <<status, pipe, iref, fpanic>> /\ ret' = 0
  <2>1. ~(file[f].ref < 1)
    BY <1>0, <1>1 DEF FileRecord
  <2> QED BY <1>1, <1>w, <2>1, Zenon DEF DupTo, Duped
<1>3. /\ file'[f].ref = file[f].ref + 1 /\ \A g \in FileEntry \ {f} : file'[g].ref = file[g].ref
      /\ \A g \in FileEntry : /\ file'[g].type = file[g].type /\ file'[g].obj = file[g].obj
                           /\ file'[g].end = file[g].end
  BY <1>2, <1>w, Zenon DEF FileTypeOK
<1>4. FileTypeOK'
  <2>2. fd \in Fd
    BY Zenon DEF FreeFds
  <2> QED BY <1>1, <1>2, <1>w, <2>2, TypesKept, ZenonT(30) DEF Running, FileTypeOK
<1>5. FileRefsExact'
  <2>1. /\ Cardinality(Refs(f)') = Cardinality(Refs(f)) + 1
        /\ \A g \in FileEntry \ {f} : Refs(g)' = Refs(g)
    BY <1>2, RefGained, Zenon
  <2> QED BY <1>1, <1>3, <2>1 DEF FileRefsExact, FileTypeOK, Opened
<1>6. \A g \in FileEntry, a \in PipePage, end \in PipeEnd : IsEnd(g, a, end)' <=> IsEnd(g, a, end)
  BY <1>3, Zenon DEF IsEnd
<1>7. \A j : InodeFiles(j)' = InodeFiles(j)
  BY <1>3, Zenon DEF InodeFiles
<1>8. ObjectsFollowFiles'
  BY <1>2, <1>6, <1>7, ObjectsSame, Zenon
<1> QED BY <1>2, <1>4, <1>5, <1>8, Zenon

\* fileclose does not panic, and the last reference lets its object go.
LEMMA CloseKeeps ==
  ASSUME FilesSound, NEW p \in Process, NEW fd \in Fd, ofile[p][fd] # NoFile, FileClose(p, fd)
  PROVE  FilesSound'
<1> USE DEF FilesSound
<1>1. PICK f \in FileEntry : f = ofile[p][fd] /\ file[f].ref > 0 /\ file[f].type # "NONE"
  BY FreeOrOpen, Zenon
<1>2. /\ file' = [file EXCEPT ![f] = Closed(@)] /\ LetGo(file[f])
      /\ ofile' = [ofile EXCEPT ![p][fd] = NoFile] /\ UNCHANGED <<status, fpanic>> /\ ret' = 0
  BY <1>1 DEF FileClose, FileTypeOK
<1>3. /\ Cardinality(Refs(f)') = Cardinality(Refs(f)) - 1
      /\ \A g \in FileEntry \ {f} : Refs(g)' = Refs(g)
  BY <1>1, <1>2, RefLost, Zenon
<1>4. \A g \in FileEntry \ {f} : file'[g] = file[g]
  BY <1>2, Zenon DEF FileTypeOK
<1>0. NoFile \notin FileEntry /\ file[f] \in FileRecord /\ file[f].ref - 1 \in Nat
  BY <1>1, SMTT(30) DEF NoFile, FileEntry, FileTypeOK, FileRecord
<1>5. file'[f].ref = file[f].ref - 1 /\ (file'[f].type = "NONE" <=> file'[f].ref = 0)
  BY <1>0, <1>1, <1>2, WithRefFacts DEF FileTypeOK, Closed, Free
<1>6. FileRefsExact'
  BY <1>1, <1>3, <1>4, <1>5 DEF FileRefsExact, FileTypeOK, Opened
<1>7. CASE file[f].ref > 1
  <2>0. PICK w \in FileRecord : /\ w = WithRef(file[f], file[f].ref - 1)
                                /\ w.type = file[f].type /\ w.obj = file[f].obj
                                /\ w.end = file[f].end
    BY <1>0, WithRefFacts, Zenon
  <2>1. file' = [file EXCEPT ![f] = w] /\ UNCHANGED <<pipe, iref>>
    <3>1. Closed(file[f]) = w
      BY <1>7, <2>0, Zenon DEF Closed
    <3>2. UNCHANGED <<pipe, iref>>
      BY <1>2, <1>7 DEF LetGo
    <3> QED BY <1>2, <3>1, <3>2, Zenon
  <2>2. FileTypeOK'
    <3>1. /\ w.type = "PIPE" => w.obj \in PipePage
          /\ w.type = "INODE" => w.obj \in Ip
          /\ pipe' \in [PipePage -> SUBSET PipeEnd] /\ iref' \in [Ip -> Nat]
          /\ status' = status /\ ret' \in {-1, 0}
      BY <1>2, <2>0, <2>1, Zenon DEF FileTypeOK
    <3> QED BY <1>1, <1>2, <2>1, <3>1, TypesKept, ZenonT(30)
  <2>3. \A g \in FileEntry : /\ file'[g].type = file[g].type /\ file'[g].obj = file[g].obj
                             /\ file'[g].end = file[g].end
    BY <2>0, <2>1, Zenon DEF FileTypeOK
  <2>4. ObjectsFollowFiles'
    BY <2>1, <2>3, ObjectsSame, Zenon DEF IsEnd, InodeFiles
  <2> QED BY <1>2, <1>6, <2>2, <2>4, Zenon
<1>8. CASE file[f].ref = 1
  <2>1. file'[f] = Free /\ file' = [file EXCEPT ![f] = Free]
    BY <1>2, <1>8 DEF Closed, FileTypeOK
  <2>4. Free \in FileRecord /\ Free.type = "NONE"
    BY Zenon DEF Free, FileRecord, PipeEnd
  <2>2. CASE file[f].type = "PIPE"
    <3>1. PICK a \in PipePage, end \in PipeEnd : a = file[f].obj /\ end = file[f].end
      BY <2>2, Zenon DEF FileTypeOK
    <3>2. pipe' = [pipe EXCEPT ![a] = PipeClose(@, end)] /\ iref' = iref
      BY <1>2, <1>8, <2>2, <3>1, Zenon DEF LetGo
    <3>3. FileTypeOK'
      <4>1. pipe' \in [PipePage -> SUBSET PipeEnd]
        BY <3>2, Zenon DEF FileTypeOK, PipeClose
      <4> QED BY <1>0, <1>1, <1>2, <2>1, <2>4, <3>2, <4>1, TypesKept, ZenonT(30) DEF FileTypeOK
    <3>4. \A g \in FileEntry, b \in PipePage, e \in PipeEnd :
            IsEnd(g, b, e)' <=> IsEnd(g, b, e) /\ ~(b = a /\ e = end)
      <4>1. \A b \in PipePage, e \in PipeEnd : IsEnd(f, b, e) <=> b = a /\ e = end
        BY <2>2, <3>1, Zenon DEF IsEnd
      <4>2. \A g \in FileEntry : IsEnd(g, a, end) => g = f
        BY <4>1, Zenon DEF ObjectsFollowFiles
      <4>3. \A g \in FileEntry \ {f}, b \in PipePage, e \in PipeEnd : IsEnd(g, b, e)' <=> IsEnd(g, b, e)
        BY <1>4, Zenon DEF IsEnd
      <4>4. \A b \in PipePage, e \in PipeEnd : ~IsEnd(f, b, e)'
        BY <2>1 DEF IsEnd, Free
      <4> QED BY <4>1, <4>2, <4>3, <4>4, Zenon
    <3>5. \A b \in PipePage, e \in PipeEnd : e \in pipe'[b] <=> e \in pipe[b] /\ ~(b = a /\ e = end)
      BY <3>1, <3>2, Zenon DEF FileTypeOK, PipeClose
    <3>6. \A i \in Ip : InodeFiles(i)' = InodeFiles(i)
      BY <1>4, <2>1, <2>2, SMTT(30) DEF InodeFiles, Free
    <3>7. ObjectsFollowFiles'
      BY <3>1, <3>2, <3>4, <3>5, <3>6, Zenon DEF ObjectsFollowFiles
    <3> QED BY <1>2, <1>6, <3>3, <3>7, Zenon
  <2>3. CASE file[f].type = "INODE"
    <3>1. PICK i \in Ip : i = file[f].obj
      BY <2>3, Zenon DEF FileTypeOK
    <3>2. pipe' = pipe /\ iref' = [iref EXCEPT ![i] = @ - 1]
      BY <1>2, <1>8, <2>3, <3>1, Zenon DEF LetGo
    <3>3. InodeFiles(i)' = InodeFiles(i) \ {f} /\ f \in InodeFiles(i)
      BY <1>4, <2>1, <2>3, <3>1 DEF InodeFiles, Free
    <3>4. \A j \in Ip \ {i} : InodeFiles(j)' = InodeFiles(j)
      BY <1>4, <2>1, <2>3, <3>1 DEF InodeFiles, Free
    <3>5. Cardinality(InodeFiles(i)') = Cardinality(InodeFiles(i)) - 1
      BY <3>3, InodeFilesFinite, FS_RemoveElement, ZenonT(30)
    <3>6. Cardinality(InodeFiles(i)') \in Nat
      BY <3>3, InodeFilesFinite, FS_RemoveElement, FS_CardinalityType, Zenon
    <3>7. \A j \in Ip : iref'[j] = Cardinality(InodeFiles(j)') /\ iref'[j] \in Nat
      BY <3>2, <3>4, <3>5, <3>6, Zenon DEF ObjectsFollowFiles, FileTypeOK
    <3>8. FileTypeOK'
      <4>1. iref' \in [Ip -> Nat]
        BY <3>2, <3>7, Zenon DEF FileTypeOK
      <4> QED BY <1>0, <1>1, <1>2, <2>1, <2>4, <3>2, <4>1, TypesKept, ZenonT(30) DEF FileTypeOK
    <3>9. \A g \in FileEntry, b \in PipePage, e \in PipeEnd : IsEnd(g, b, e)' <=> IsEnd(g, b, e)
      BY <1>4, <2>1, <2>3 DEF IsEnd, Free
    <3>10. ObjectsFollowFiles'
      BY <3>2, <3>7, <3>9, Zenon DEF ObjectsFollowFiles
    <3> QED BY <1>2, <1>6, <3>8, <3>10, Zenon
  <2> QED BY <1>1, <2>2, <2>3, Zenon DEF FileTypeOK
<1> QED BY <1>1, <1>7, <1>8 DEF FileTypeOK

-----------------------------------------------------------------------------
(* pipe and fork *)

\* A pipe that could not be made: its files and its page are free again.
LEMMA PipeFailsKeeps ==
  ASSUME FilesSound, NEW p \in Process, NEW a \in PipePage, pipe[a] = {},
         NEW rf \in FreeFiles, NEW wf \in FreeFiles \ {rf}, PipeFails(p, a, rf, wf)
  PROVE  FilesSound' /\ FailureChangesNothing
<1>1. Closed(End(a, "read")) = Free /\ Closed(End(a, "write")) = Free
  BY DEF Closed, End
<1>2. PipeClose(PipeClose(PipeEnd, "read"), "write") = {}
  BY Zenon DEF PipeClose, PipeEnd
<1>3. pipe' = pipe
  BY <1>2, ZenonT(30) DEF PipeFails, FilesSound, FileTypeOK
<1>4. rf \in FileEntry /\ wf \in FileEntry
  BY Zenon DEF FreeFiles
<1>5. file' = [file EXCEPT ![rf] = Free, ![wf] = Free]
  BY <1>1, ZenonT(30) DEF PipeFails
<1>6. [file EXCEPT ![rf] = Free, ![wf] = Free] \in [FileEntry -> FileRecord]
  BY <1>4, Zenon DEF FilesSound, FileTypeOK, FileRecord, Free, PipeEnd
<1>7. \A f \in FileEntry : \/ [file EXCEPT ![rf] = Free, ![wf] = Free][f] = file[f]
                           \/ f \in FreeFiles /\ [file EXCEPT ![rf] = Free, ![wf] = Free][f] = Free
  BY <1>4, Zenon DEF FilesSound, FileTypeOK
<1>8. Fails([file EXCEPT ![rf] = Free, ![wf] = Free], pipe)
  BY <1>3, <1>5, ZenonT(30) DEF PipeFails, Fails, OneFd
<1> QED BY <1>6, <1>7, <1>8, FailsKeeps, ZenonT(30) DEF FileRecord

LEMMA PipeMadeKeeps ==
  ASSUME FilesSound, NEW p \in Process, Running(p), NEW a \in PipePage, pipe[a] = {},
         NEW rf \in FreeFiles, NEW wf \in FreeFiles \ {rf},
         NEW fd0 \in FreeFds(p), NEW fd1 \in FreeFds(p) \ {fd0},
         PipeMade(p, a, rf, wf, fd0, fd1)
  PROVE  FilesSound'
<1> USE DEF FilesSound
<1>1. /\ rf \in FileEntry /\ file[rf].type = "NONE" /\ Refs(rf) = {}
      /\ wf \in FileEntry /\ file[wf].type = "NONE" /\ Refs(wf) = {} /\ rf # wf
  BY FreeOrOpen, Zenon
<1>2. /\ fd0 \in Fd /\ ofile[p][fd0] = NoFile /\ fd1 \in Fd /\ ofile[p][fd1] = NoFile
      /\ fd0 # fd1 /\ NoFile \notin FileEntry
  BY DEF FreeFds, NoFile, FileEntry
<1>3. /\ file'[rf] = End(a, "read") /\ file'[wf] = End(a, "write")
      /\ \A g \in FileEntry \ {rf, wf} : file'[g] = file[g]
  BY <1>1, Zenon DEF PipeMade, FileTypeOK
<1>4. /\ \A q \in Process \ {p} : ofile'[q] = ofile[q]
      /\ \A d \in Fd : ofile'[p][d] = IF d = fd1 THEN wf ELSE IF d = fd0 THEN rf ELSE ofile[p][d]
  BY <1>2, Zenon DEF PipeMade, FileTypeOK
<1>5. Refs(rf)' = {<<p, fd0>>} /\ Refs(wf)' = {<<p, fd1>>}
      /\ \A g \in FileEntry \ {rf, wf} : Refs(g)' = Refs(g)
  <2>1. \A q \in Process, d \in Fd : ofile'[q][d] =
          IF q = p /\ d = fd1 THEN wf ELSE IF q = p /\ d = fd0 THEN rf ELSE ofile[q][d]
    BY <1>4, Zenon
  <2>2. ASSUME NEW q \in Process, NEW d \in Fd PROVE ofile[q][d] # rf /\ ofile[q][d] # wf
    <3>1. <<q, d>> \notin Refs(rf) /\ <<q, d>> \notin Refs(wf)
      BY <1>1, Zenon
    <3> QED BY <3>1, Zenon DEF Refs
  <2> QED BY <1>1, <1>2, <2>1, <2>2 DEF Refs
<1>6. Cardinality(Refs(rf)') = 1 /\ Cardinality(Refs(wf)') = 1
  BY <1>5, FS_Singleton, ZenonT(30)
<1>7. FileRefsExact'
  <2>1. /\ file'[rf].ref = 1 /\ file'[rf].type = "PIPE"
        /\ file'[wf].ref = 1 /\ file'[wf].type = "PIPE"
    BY <1>3 DEF End
  <2>2. \A g \in FileEntry \ {rf, wf} :
          /\ file'[g].ref = Cardinality(Refs(g)')
          /\ file'[g].ref > 0 <=> file'[g].type # "NONE"
    BY <1>3, <1>5, Zenon DEF FileRefsExact, Opened
  <2> QED BY <1>6, <2>1, <2>2, SMTT(30) DEF FileRefsExact, Opened
<1>8. FileTypeOK'
  <2>1. ofile' \in [Process -> [Fd -> FileEntry \cup {NoFile}]]
    BY <1>1, <1>2, Zenon DEF PipeMade, FileTypeOK
  <2>2. \A q \in Process : status'[q] = "none" => FreeFds(q)' = Fd
    BY <1>4, ZenonT(30) DEF PipeMade, FileTypeOK, FreeFds, Running
  <2>3. End(a, "read") \in FileRecord /\ End(a, "write") \in FileRecord
    BY Zenon DEF End, FileRecord, PipeEnd
  <2>4. file' \in [FileEntry -> FileRecord]
    BY <1>1, <2>3, ZenonT(30) DEF PipeMade, FileTypeOK, FileRecord
  <2>5. \A g \in FileEntry : /\ file'[g].type = "PIPE" => file'[g].obj \in PipePage
                             /\ file'[g].type = "INODE" => file'[g].obj \in Ip
    BY <1>3, SMTT(30) DEF FileTypeOK, End
  <2>6. pipe' \in [PipePage -> SUBSET PipeEnd] /\ iref' = iref /\ status' = status /\ ret' = 0
    BY Zenon DEF PipeMade, FileTypeOK
  <2> QED BY <2>1, <2>2, <2>4, <2>5, <2>6, Zenon DEF FileTypeOK, FileRecord
<1>9. ObjectsFollowFiles'
  <2>1. \A g \in FileEntry \ {rf, wf}, b \in PipePage, e \in PipeEnd : IsEnd(g, b, e)' <=> IsEnd(g, b, e)
    BY <1>3, Zenon DEF IsEnd
  <2>2. \A b \in PipePage, e \in PipeEnd : /\ IsEnd(rf, b, e)' <=> b = a /\ e = "read"
                                           /\ IsEnd(wf, b, e)' <=> b = a /\ e = "write"
                                           /\ ~IsEnd(rf, b, e) /\ ~IsEnd(wf, b, e)
    BY <1>1, <1>3 DEF IsEnd, End
  <2>3. \A g \in FileEntry, e \in PipeEnd : ~IsEnd(g, a, e)
    BY Zenon DEF ObjectsFollowFiles
  <2>4. pipe'[a] = PipeEnd /\ \A b \in PipePage \ {a} : pipe'[b] = pipe[b]
    BY Zenon DEF PipeMade, FileTypeOK
  <2>5. \A i \in Ip : InodeFiles(i)' = InodeFiles(i)
    BY <1>1, <1>3, SMTT(30) DEF InodeFiles, End
  <2>6. \A b \in PipePage, e \in PipeEnd : e \in pipe'[b] <=> \E g \in FileEntry : IsEnd(g, b, e)'
    BY <1>1, <2>1, <2>2, <2>3, <2>4, SMTT(30) DEF ObjectsFollowFiles, PipeEnd
  <2>7. \A b \in PipePage, e \in PipeEnd : \A f, g \in FileEntry :
          IsEnd(f, b, e)' /\ IsEnd(g, b, e)' => f = g
    BY <1>1, <2>1, <2>2, <2>3 DEF ObjectsFollowFiles, PipeEnd
  <2>8. iref' = iref
    BY Zenon DEF PipeMade
  <2> QED BY <2>5, <2>6, <2>7, <2>8, Zenon DEF ObjectsFollowFiles
<1> QED BY <1>7, <1>8, <1>9, Zenon DEF PipeMade

\* fork does not panic: a file that a descriptor refers to has a reference.
LEMMA ForkKeeps ==
  ASSUME FilesSound, NEW p \in Process, NEW q \in Process, ForkFiles(p, q)
  PROVE  FilesSound'
<1> USE DEF FilesSound
<1> DEFINE Fds(f) == {fd \in Fd : ofile[p][fd] = f}
           Copied(f) == {<<q, fd>> : fd \in Fds(f)}
<1>1. /\ status[p] = "alive" /\ status[q] = "none" /\ p # q
      /\ \A fd \in Fd : ofile[q][fd] = NoFile
  BY DEF ForkFiles, Running, FileTypeOK, FreeFds
<1>2. /\ file' = [f \in FileEntry |-> WithRef(file[f], file[f].ref + Cardinality(Fds(f)))]
      /\ ofile' = [ofile EXCEPT ![q] = ofile[p]] /\ status' = [status EXCEPT ![q] = "alive"]
      /\ ret' = 0 /\ UNCHANGED <<pipe, iref, fpanic>>
  <2>1. ~\E fd \in Fd : ofile[p][fd] # NoFile /\ file[ofile[p][fd]].ref < 1
    BY FreeOrOpen DEF FileTypeOK
  <2> QED BY <2>1, Zenon DEF ForkFiles
<1>3. \A f : IsFiniteSet(Fds(f)) /\ Cardinality(Fds(f)) \in Nat
  <2>1. IsFiniteSet(Fd)
    BY FileSizes, FS_Interval DEF Fd
  <2>2. \A f : Fds(f) \in SUBSET Fd
    OBVIOUS
  <2> HIDE DEF Fds
  <2> QED BY <2>1, <2>2, FS_Subset, FS_CardinalityType, Zenon
<1>4. ASSUME NEW f \in FileEntry
      PROVE  Cardinality(Refs(f)') = Cardinality(Refs(f)) + Cardinality(Fds(f))
  <2>1. NoFile \notin FileEntry
    BY SMTT(30) DEF NoFile, FileEntry
  <2>2. Refs(f)' = Refs(f) \cup Copied(f) /\ Refs(f) \cap Copied(f) = {}
    BY <1>1, <1>2, <2>1 DEF Refs, FileTypeOK
  <2>3. IsFiniteSet(Copied(f)) /\ Cardinality(Copied(f)) = Cardinality(Fds(f))
    <3>1. [fd \in Fds(f) |-> <<q, fd>>] \in Bijection(Fds(f), Copied(f))
      <4>1. [fd \in Fds(f) |-> <<q, fd>>] \in [Fds(f) -> Copied(f)]
        OBVIOUS
      <4>2. PICK m : m = [fd \in Fds(f) |-> <<q, fd>>]
        BY Zenon
      <4>3. m \in [Fds(f) -> Copied(f)]
        BY <4>1, <4>2, Zenon
      <4>4. \A a, b \in Fds(f) : m[a] = m[b] => a = b
        BY <4>2, Zenon
      <4>5. \A t \in Copied(f) : \E fd \in Fds(f) : m[fd] = t
        BY <4>2, Zenon
      <4> HIDE DEF Fds, Copied
      <4>6. m \in Injection(Fds(f), Copied(f)) /\ m \in Surjection(Fds(f), Copied(f))
        BY <4>3, <4>4, <4>5, Zenon DEF Injection, IsInjective, Surjection
      <4> QED BY <4>2, <4>6, Zenon DEF Bijection
    <3>2. ExistsBijection(Fds(f), Copied(f))
      BY <3>1, Zenon DEF ExistsBijection
    <3> HIDE DEF Fds, Copied
    <3> QED BY <1>3, <3>2, FS_Bijection, Zenon
  <2>4. Cardinality(Refs(f) \cap Copied(f)) = 0
    BY <2>2, FS_EmptySet, Zenon
  <2>5. Cardinality(Refs(f) \cup Copied(f))
          = Cardinality(Refs(f)) + Cardinality(Copied(f)) - Cardinality(Refs(f) \cap Copied(f))
    BY <2>3, RefsFinite, FS_Union, Zenon
  <2> HIDE DEF Fds, Copied
  <2> QED BY <1>3, <2>2, <2>3, <2>4, <2>5, RefsFinite
<1>5. \A f \in FileEntry : /\ file'[f] \in FileRecord
                           /\ file'[f].ref = file[f].ref + Cardinality(Fds(f))
                           /\ file'[f].type = file[f].type /\ file'[f].obj = file[f].obj
                           /\ file'[f].end = file[f].end
  <2> HIDE DEF Fds
  <2> TAKE f \in FileEntry
  <2>1. file[f] \in FileRecord /\ file[f].ref + Cardinality(Fds(f)) \in Nat
    BY <1>3 DEF FileTypeOK, FileRecord
  <2>2. file'[f] = WithRef(file[f], file[f].ref + Cardinality(Fds(f)))
    BY <1>2, Zenon
  <2> QED BY <2>1, <2>2, WithRefFacts, SMTT(30)
<1>6. \A f \in FileEntry : file[f].ref = 0 => Cardinality(Fds(f)) = 0
  <2>1. ASSUME NEW f \in FileEntry, file[f].ref = 0 PROVE Fds(f) = {}
    <3>1. \A fd \in Fd : ofile[p][fd] # f
      <4>1. f # NoFile
        BY SMTT(30) DEF NoFile, FileEntry
      <4> QED BY <2>1, <4>1, FreeOrOpen
    <3> QED BY <3>1, Zenon
  <2> HIDE DEF Fds
  <2> QED BY <2>1, FS_EmptySet, Zenon
<1>7. FileRefsExact'
  <2> HIDE DEF Fds
  <2> QED BY <1>3, <1>4, <1>5, <1>6, SMTT(30) DEF FileRefsExact, FileTypeOK, Opened
<1>8. FileTypeOK'
  <2>1. ofile' \in [Process -> [Fd -> FileEntry \cup {NoFile}]]
    BY <1>2, Zenon DEF FileTypeOK
  <2>2. \A r \in Process : status'[r] = "none" => FreeFds(r)' = Fd
    BY <1>1, <1>2, Zenon DEF FileTypeOK, FreeFds
  <2>3. file' \in [FileEntry -> FileRecord]
    BY <1>2, <1>5, Zenon
  <2>4. \A g \in FileEntry : /\ file'[g].type = "PIPE" => file'[g].obj \in PipePage
                             /\ file'[g].type = "INODE" => file'[g].obj \in Ip
    BY <1>5, ZenonT(30) DEF FileTypeOK
  <2>5. status' \in [Process -> {"none", "alive", "exiting"}]
    BY <1>2, Zenon DEF FileTypeOK
  <2> QED BY <1>2, <2>1, <2>2, <2>3, <2>4, <2>5, Zenon DEF FileTypeOK, FileRecord
<1>9. ObjectsFollowFiles'
  <2>1. \A f \in FileEntry, a \in PipePage, end \in PipeEnd : IsEnd(f, a, end)' <=> IsEnd(f, a, end)
    BY <1>5, ZenonT(30) DEF IsEnd
  <2>2. \A i \in Ip : InodeFiles(i)' = InodeFiles(i)
    BY <1>5, ZenonT(30) DEF InodeFiles
  <2> QED BY <1>2, <2>1, <2>2, ObjectsSame, Zenon
<1> QED BY <1>2, <1>7, <1>8, <1>9, Zenon

-----------------------------------------------------------------------------
(* Every step *)

LEMMA FailsSame ==
  ASSUME FilesSound, Fails(file, pipe)
  PROVE  FilesSound' /\ FailureChangesNothing
BY FailsKeeps, Zenon DEF FilesSound, FileTypeOK

\* A file that was taken and could not be used is free again.
LEMMA TakenFails ==
  ASSUME FilesSound, NEW f \in FreeFiles, Fails([file EXCEPT ![f] = Closed(Taken(@))], pipe)
  PROVE  FilesSound' /\ FailureChangesNothing
<1>1. f \in FileEntry
  BY Zenon DEF FreeFiles
<1>2. Fails([file EXCEPT ![f] = Free], pipe)
  BY <1>1, TakenClosed, ZenonT(30)
<1>3. /\ [file EXCEPT ![f] = Free] \in [FileEntry -> FileRecord]
      /\ \A g \in FileEntry : \/ [file EXCEPT ![f] = Free][g] = file[g]
                              \/ g \in FreeFiles /\ [file EXCEPT ![f] = Free][g] = Free
  BY ZenonT(30) DEF FilesSound, FileTypeOK, FileRecord, Free, PipeEnd
<1> QED BY <1>2, <1>3, FailsKeeps, ZenonT(30) DEF FileRecord

LEMMA PipeAllocKeeps ==
  ASSUME FilesSound, PipeAllocFails
  PROVE  FilesSound' /\ FailureChangesNothing
<1>1. CASE Fails(file, pipe)
  BY <1>1, FailsSame, Zenon
<1>2. ASSUME NEW f \in FreeFiles, Fails([file EXCEPT ![f] = Closed(Taken(@))], pipe)
      PROVE  FilesSound' /\ FailureChangesNothing
  BY <1>2, TakenFails, Zenon
<1>3. ASSUME NEW f \in FreeFiles, NEW g \in FreeFiles \ {f},
             Fails([file EXCEPT ![f] = Closed(Taken(@)), ![g] = Closed(Taken(@))], pipe)
      PROVE  FilesSound' /\ FailureChangesNothing
  <2> DEFINE files == [file EXCEPT ![f] = Free, ![g] = Free]
  <2>1. f \in FileEntry /\ g \in FileEntry /\ f # g
    BY Zenon DEF FreeFiles
  <2>2. Closed(Taken(file[f])) = Free /\ Closed(Taken(file[g])) = Free
    BY <2>1, TakenClosed, Zenon
  <2>3. Fails(files, pipe)
    BY <1>3, <2>1, <2>2, Zenon DEF FilesSound, FileTypeOK
  <2>4. /\ files \in [FileEntry -> FileRecord]
        /\ \A h \in FileEntry : files[h] = file[h] \/ (h \in FreeFiles /\ files[h] = Free)
    BY ZenonT(30) DEF FilesSound, FileTypeOK, FileRecord, Free, PipeEnd
  <2> QED BY <2>3, <2>4, FailsKeeps, ZenonT(30) DEF FileRecord
<1> QED BY <1>1, <1>2, <1>3, ZenonT(30) DEF PipeAllocFails

\* Steps that leave the tables alone.
LEMMA StatusKeeps ==
  ASSUME FilesSound, UNCHANGED <<file, ofile, pipe, iref, fpanic>>, ret' \in {-1, 0},
         status' \in [Process -> {"none", "alive", "exiting"}],
         \A p \in Process : status'[p] = "none" => FreeFds(p) = Fd
  PROVE  FilesSound'
<1>1. FileTypeOK'
  BY Zenon DEF FilesSound, FileTypeOK, FreeFds
<1> QED BY <1>1, SameTables, Zenon

LEMMA FilesInit == FileInit => FilesSound
<1> SUFFICES ASSUME FileInit PROVE FilesSound
  OBVIOUS
<1>1. FileTypeOK
  BY FileSizes, Zenon DEF FileInit, FileTypeOK, Free, FreeFds, PipeEnd
<1>2. \A f \in FileEntry : Refs(f) = {} /\ file[f] = Free
  BY DEF FileInit, Refs, NoFile, FileEntry
<1>3. FileRefsExact
  BY <1>2, FS_EmptySet DEF FileRefsExact, Opened, Free
<1>4. \A i \in Ip : InodeFiles(i) = {}
  BY <1>2 DEF InodeFiles, Free
<1>5. \A a \in PipePage, end \in PipeEnd : pipe[a] = {} /\ \A f \in FileEntry : ~IsEnd(f, a, end)
  BY <1>2, Zenon DEF FileInit, IsEnd, Free
<1>6. \A i \in Ip : iref[i] = Cardinality(InodeFiles(i))
  BY <1>4, FS_EmptySet, Zenon DEF FileInit
<1>7. ObjectsFollowFiles
  BY <1>5, <1>6, Zenon DEF ObjectsFollowFiles
<1> QED BY <1>1, <1>3, <1>7, Zenon DEF FilesSound, FileInit

LEMMA FilesStep ==
  ASSUME FilesSound, [FileNext]_fileVars
  PROVE  FilesSound'
<1>1. ASSUME NEW p \in Process, NEW i \in Ip, SysOpen(p, i) PROVE FilesSound'
  <2>1. CASE Fails(file, pipe)
    BY <2>1, FailsSame, Zenon
  <2>2. ASSUME NEW f \in FreeFiles, Fails([file EXCEPT ![f] = Closed(Taken(@))], pipe) PROVE FilesSound'
    BY <2>2, TakenFails, Zenon
  <2>3. ASSUME NEW f \in FreeFiles, NEW fd \in FreeFds(p), OpenFile(p, i, f, fd) PROVE FilesSound'
    BY <1>1, <2>3, OpenKeeps, Zenon DEF SysOpen
  <2> QED BY <1>1, <2>1, <2>2, <2>3, ZenonT(30) DEF SysOpen
<1>2. ASSUME NEW p \in Process, NEW fd \in Fd, SysDup(p, fd) PROVE FilesSound'
  BY <1>2, FailsSame, DupKeeps, Zenon DEF SysDup
<1>3. ASSUME NEW p \in Process, NEW fd \in Fd, SysClose(p, fd) PROVE FilesSound'
  BY <1>3, CloseKeeps, Zenon DEF SysClose
<1>4. ASSUME NEW p \in Process, NEW fd \in Fd, SysReadWrite(p, fd) PROVE FilesSound'
  <2>1. ret' = 0 /\ UNCHANGED <<file, ofile, status, pipe, iref, fpanic>>
    BY <1>4, FreeOrOpen, Zenon DEF SysReadWrite
  <2> QED BY <2>1, StatusKeeps, Zenon DEF FilesSound, FileTypeOK
<1>5. ASSUME NEW p \in Process, SysPipe(p) PROVE FilesSound'
  BY <1>5, PipeAllocKeeps, PipeFailsKeeps, PipeMadeKeeps, ZenonT(30) DEF SysPipe, PipeIn
<1>6. ASSUME NEW p \in Process, NEW q \in Process, ForkFiles(p, q) PROVE FilesSound'
  BY <1>6, ForkKeeps, Zenon
<1>7. ASSUME NEW p \in Process, Exit(p) PROVE FilesSound'
  BY <1>7, StatusKeeps, Zenon DEF Exit, Running, FilesSound, FileTypeOK
<1>8. ASSUME NEW p \in Process, ExitClose(p) PROVE FilesSound'
  BY <1>8, CloseKeeps, Zenon DEF ExitClose, FreeFds
<1>9. ASSUME NEW p \in Process, ExitDone(p) PROVE FilesSound'
  <2>1. /\ status' \in [Process -> {"none", "alive", "exiting"}]
        /\ \A r \in Process : status'[r] = "none" => FreeFds(r) = Fd
    BY <1>9, Zenon DEF ExitDone, FilesSound, FileTypeOK
  <2> QED BY <1>9, <2>1, StatusKeeps, Zenon DEF ExitDone
<1>10. CASE UNCHANGED fileVars
  BY <1>10, StatusKeeps, Zenon DEF fileVars, FilesSound, FileTypeOK
<1> QED BY <1>1, <1>2, <1>3, <1>4, <1>5, <1>6, <1>7, <1>8, <1>9, <1>10, Zenon DEF FileNext

\* The table of open files is sound in every reachable state: filedup and
\* fileclose count descriptors exactly, whichever processes fork, close and exit
\* in between, a pipe and an inode are let go with the last file of theirs and
\* not before, and no call panics.
THEOREM FilesAreSound == FileSpec => []FilesSound
BY FilesInit, FilesStep, PTL DEF FileSpec

\* open, dup and pipe that return -1 leave descriptors, references and pipes as
\* they were.
THEOREM FailuresAreClean == FileSpec => FailsClean
<1>1. ASSUME FilesSound, [FileNext]_fileVars PROVE [FailureChangesNothing]_fileVars
  <2> SUFFICES ASSUME FileNext PROVE FailureChangesNothing
    BY <1>1, Zenon
  <2>1. CASE Fails(file, pipe)
    BY <1>1, <2>1, FailsSame, Zenon
  <2>2. ASSUME NEW f \in FreeFiles, Fails([file EXCEPT ![f] = Closed(Taken(@))], pipe)
        PROVE  FailureChangesNothing
    BY <1>1, <2>2, TakenFails, Zenon
  <2>3. CASE PipeAllocFails
    BY <1>1, <2>3, PipeAllocKeeps, Zenon
  <2>4. ASSUME NEW p \in Process, NEW a \in PipePage, pipe[a] = {},
               NEW rf \in FreeFiles, NEW wf \in FreeFiles \ {rf}, PipeFails(p, a, rf, wf)
        PROVE  FailureChangesNothing
    BY <1>1, <2>4, PipeFailsKeeps, Zenon
  <2>5. CASE ret' = 0
    BY <2>5 DEF FailureChangesNothing
  <2>6. ASSUME NEW why, Panics(why) PROVE FailureChangesNothing
    BY <2>6, Zenon DEF Panics, FailureChangesNothing
  <2>7. ASSUME NEW p \in Process, NEW fd, FileClose(p, fd) PROVE FailureChangesNothing
    BY <2>5, <2>6, <2>7, Zenon DEF FileClose
  <2>8. ASSUME NEW p \in Process, NEW i \in Ip, SysOpen(p, i) PROVE FailureChangesNothing
    BY <2>1, <2>2, <2>5, <2>8, ZenonT(30) DEF SysOpen, OpenFile
  <2>9. ASSUME NEW p \in Process, NEW fd \in Fd, SysDup(p, fd) PROVE FailureChangesNothing
    BY <2>1, <2>5, <2>6, <2>9, Zenon DEF SysDup, DupTo
  <2>10. ASSUME NEW p \in Process, SysPipe(p) PROVE FailureChangesNothing
    BY <2>3, <2>4, <2>5, <2>10, ZenonT(30) DEF SysPipe, PipeIn, PipeMade
  <2>11. ASSUME NEW p \in Process, NEW q \in Process, ForkFiles(p, q) PROVE FailureChangesNothing
    BY <2>5, <2>6, <2>11, Zenon DEF ForkFiles
  <2>12. ASSUME NEW p \in Process, NEW fd \in Fd, SysReadWrite(p, fd) PROVE FailureChangesNothing
    BY <2>5, <2>6, <2>12, Zenon DEF SysReadWrite
  <2> QED BY <2>5, <2>7, <2>8, <2>9, <2>10, <2>11, <2>12, Zenon
          DEF FileNext, SysClose, ExitClose, Exit, ExitDone
<1> QED BY <1>1, FilesAreSound, PTL DEF FileSpec, FailsClean
=============================================================================
