------------------------------ MODULE LogProofs -----------------------------
(***************************************************************************)
(* Theorems about Log: its invariant is inductive, so log.c's panics are out *)
(* of reach and reference counts are exact, and the log implements the     *)
(* atomic store, whatever the number of processes, blocks and sectors.     *)
(* First the lemmas that count: log_outstanding is the number of processes *)
(* in an operation, and what begin_op reserved for them fits the log.      *)
(***************************************************************************)
EXTENDS Log, TLAPS

\* What the invariant says by way of cardinalities (lemma InvCounted of
\* LogProofs): the header fits the log, and log_outstanding is zero exactly
\* when no process is in an operation.
Counted == Len(lh) <= LOGBLOCKS /\ (outstanding = 0 <=> InOp = {})

-----------------------------------------------------------------------------
(* Types *)

\* The reference install_trans and log_write give back is there to be given.
LEMMA RefcntPositive ==
  ASSUME TypeOK, RefcntExact
  PROVE  /\ \A p \in Proc : hold[p] # NoBlock => refcnt[hold[p]] >= 1
         /\ phase = "install" /\ tail <= Len(lh) =>
              /\ lh[tail] \in Blocks
              /\ ~recovering => refcnt[lh[tail]] >= 1
              /\ sec # 1 => refcnt[lh[tail]] >= 1
              /\ ~recovering /\ sec # 1 => refcnt[lh[tail]] >= 2
<1> USE DEF TypeOK
<1>1. ASSUME NEW p \in Proc, hold[p] # NoBlock
      PROVE  refcnt[hold[p]] >= 1
  <2>1. hold[p] \in Blocks /\ hold[p] \in Held
    BY <1>1, Zenon DEF Held
  <2>2. Count(Held, hold[p]) = 1
    BY <2>1, Zenon DEF Count
  <2>3. Count(Pinned, hold[p]) \in Nat /\ Count(InIO, hold[p]) \in Nat
    BY Zenon DEF Count
  <2> QED BY <2>1, <2>2, <2>3 DEF RefcntExact
<1>2. ASSUME phase = "install", tail <= Len(lh)
      PROVE  /\ lh[tail] \in Blocks
             /\ ~recovering => refcnt[lh[tail]] >= 1
             /\ sec # 1 => refcnt[lh[tail]] >= 1
             /\ ~recovering /\ sec # 1 => refcnt[lh[tail]] >= 2
  <2>1. tail \in 1 .. Len(lh) /\ lh[tail] \in Blocks
    BY <1>2, SizeAssumption
  <2>2. ~recovering => lh[tail] \in Pinned
    BY <1>2, <2>1 DEF Pinned
  <2>3. sec # 1 => lh[tail] \in InIO
    BY <1>2, Zenon DEF InIO
  <2>4. refcnt[lh[tail]] = Count(Held, lh[tail]) + Count(Pinned, lh[tail])
                             + Count(InIO, lh[tail])
    BY <2>1, Zenon DEF RefcntExact
  <2>5. /\ Count(Held, lh[tail]) \in Nat /\ Count(Pinned, lh[tail]) \in Nat
        /\ Count(InIO, lh[tail]) \in Nat
        /\ ~recovering => Count(Pinned, lh[tail]) = 1
        /\ sec # 1 => Count(InIO, lh[tail]) = 1
    BY <2>2, <2>3, Zenon DEF Count
  <2> QED BY <2>1, <2>4, <2>5, SMTT(30)
<1> QED BY <1>1, <1>2, Zenon

LEMMA TypeStep ==
  ASSUME LogInv, Counted, [Next]_vars
  PROVE  TypeOK'
<1> USE SizeAssumption DEF LogInv, TypeOK
<1>1. ASSUME NEW p \in Proc, BeginSleep(p) PROVE TypeOK'
  BY <1>1, Zenon DEF BeginSleep, diskVars, cacheVars, logVars, ioVars
<1>2. ASSUME NEW p \in Proc, BeginAdmit(p) PROVE TypeOK'
  BY <1>2 DEF BeginAdmit, diskVars, cacheVars, logVars, ioVars
<1>3. ASSUME NEW p \in Proc, EndOp(p) PROVE TypeOK'
  BY <1>3 DEF EndOp, Counted, InOp, Wakeup, diskVars, cacheVars, logVars, ioVars
<1>4. ASSUME NEW p \in Proc, EndLastOp(p) PROVE TypeOK'
  BY <1>4 DEF EndLastOp, diskVars, cacheVars, logVars, ioVars, Phases, Sector
<1>5. ASSUME NEW p \in Proc, CommitDone(p) PROVE TypeOK'
  BY <1>5, Zenon DEF CommitDone, Wakeup, diskVars, cacheVars, logVars, ioVars, Phases
<1>6. ASSUME NEW p \in Proc, NEW b \in Blocks, NEW c \in Content, Modify(p, b, c)
      PROVE TypeOK'
  BY <1>6 DEF Modify, diskVars, logVars, ioVars
<1>7. ASSUME NEW p \in Proc, LogWriteAbsorb(p) PROVE TypeOK'
  <2>1. hold[p] \in Blocks
    BY <1>7, NoBlockAssumption DEF LogWriteAbsorb, SeqSet
  <2>2. refcnt[hold[p]] >= 1
    BY <2>1, NoBlockAssumption, RefcntPositive, Zenon
  <2> QED BY <1>7, <2>1, <2>2 DEF LogWriteAbsorb, diskVars, logVars, ioVars
<1>8. ASSUME NEW p \in Proc, LogWriteAppend(p) PROVE TypeOK'
  BY <1>8 DEF LogWriteAppend, diskVars, cacheVars, ioVars
<1>9. CASE WriteLog
  <2>1. tail \in 1 .. Len(lh) /\ lh[tail] \in Blocks
    BY <1>9 DEF WriteLog, HeadInv
  <2>2. Bread(lh[tail]) \in Content
    BY <2>1, Zenon DEF Bread
  <2>3. tail \in 1 .. LOGBLOCKS
    BY <2>1 DEF Counted
  <2>4. logdata' \in [1 .. LOGBLOCKS -> Content]
    BY <1>9, <2>2, <2>3, Zenon DEF WriteLog, Content
  <2>5. phase' \in Phases /\ tail' \in 1 .. LOGBLOCKS \cup {1} /\ sec' \in Sector
    BY <1>9, <2>1, <2>3, SMTT(30) DEF Counted, WriteLog, Advance, LastSector, Sector, Phases
  <2> QED BY <1>9, <2>4, <2>5, Zenon DEF WriteLog, cacheVars, logVars, procVars
<1>10. CASE WriteHead
  BY <1>10, Zenon DEF WriteHead, Phases, cacheVars, logVars, procVars
<1>11. CASE Install
  <2>1. tail \in 1 .. Len(lh) /\ lh[tail] \in Blocks
    BY <1>11, SMTT(30) DEF Install, HeadInv
  <2>2. tail \in 1 .. LOGBLOCKS
    BY <2>1 DEF Counted
  <2>3. disk' \in [Blocks -> Content]
    BY <1>11, <2>1, <2>2 DEF Install, Content
  <2>4. cache' \in [Blocks -> Content \cup {NoBlock}]
    BY <1>11, <2>1, <2>2, Zenon DEF Install
  <2>5. refcnt' \in [Blocks -> Nat]
    <3>1. /\ refcnt[lh[tail]] \in Nat
          /\ ~recovering => refcnt[lh[tail]] >= 1
          /\ sec # 1 => refcnt[lh[tail]] >= 1
          /\ ~recovering /\ sec # 1 => refcnt[lh[tail]] >= 2
      BY <1>11, <2>1, RefcntPositive, SMTT(30) DEF Install
    <3>2. (refcnt[lh[tail]] + (IF sec = 1 THEN 1 ELSE 0))
             - (IF ~LastSector THEN 0 ELSE IF recovering THEN 1 ELSE 2) \in Nat
      BY <3>1, SMTT(30)
    <3> QED BY <1>11, <2>1, <3>2, Zenon DEF Install
  <2>6. phase' \in Phases /\ tail' \in 1 .. LOGBLOCKS \cup {1} /\ sec' \in Sector
    <3>1. Advance("clear_head") /\ phase = "install" /\ Len(lh) <= LOGBLOCKS
      BY <1>11, Zenon DEF Install, Counted
    <3>2. Len(lh) \in Nat
      OBVIOUS
    <3> QED BY <2>1, <2>2, <3>1, <3>2 DEF Advance, LastSector, Sector, Phases
  <2> QED BY <1>11, <2>3, <2>4, <2>5, <2>6, Zenon DEF Install, logVars, procVars
<1>12. CASE ClearHead
  <2>1. lh' \in Seq(Blocks) /\ hdr' \in Seq(Blocks)
    BY <1>12 DEF ClearHead
  <2>2. phase' \in Phases /\ recovering' \in BOOLEAN
    BY <1>12, Zenon DEF ClearHead, Phases
  <2> QED BY <1>12, <2>1, <2>2, Zenon DEF ClearHead, cacheVars, procVars
<1>13. CASE ReadHead
  BY <1>13, Zenon DEF ReadHead, Phases, diskVars, cacheVars, procVars
<1>14. ASSUME NEW b \in Blocks, Evict(b) \/ Read(b) PROVE TypeOK'
  BY <1>14, Zenon DEF Evict, Read, diskVars, logVars, procVars, ioVars
<1>15. CASE Crash
  <2>1. /\ wrote' \in [Proc -> SUBSET Blocks]
        /\ hold' \in [Proc -> Blocks \cup {NoBlock}]
        /\ pc' \in [Proc -> {"idle", "sleep", "woken", "op", "commit"}]
    BY <1>15, Zenon DEF Crash
  <2>2. /\ cache' \in [Blocks -> Content \cup {NoBlock}]
        /\ refcnt' \in [Blocks -> Nat]
    BY <1>15, Zenon DEF Crash
  <2>3. lh' \in Seq(Blocks)
    BY <1>15 DEF Crash
  <2>4. phase' \in Phases /\ tail' \in 1 .. LOGBLOCKS \cup {1} /\ sec' \in Sector
    BY <1>15 DEF Crash, Phases, Sector
  <2> QED BY <1>15, <2>1, <2>2, <2>3, <2>4, Zenon DEF Crash, diskVars
<1>16. CASE UNCHANGED vars
  BY <1>16, Zenon DEF vars, diskVars, cacheVars, logVars, procVars, ioVars
<1> QED
  BY <1>1, <1>2, <1>3, <1>4, <1>5, <1>6, <1>7, <1>8, <1>9, <1>10, <1>11,
     <1>12, <1>13, <1>14, <1>15, <1>16, Zenon DEF Next, ProcStep, IOStep

-----------------------------------------------------------------------------
(* Headers and loops *)

LEMMA SeqSetAppend ==
  ASSUME NEW s \in Seq(Blocks), NEW b \in Blocks
  PROVE  SeqSet(Append(s, b)) = SeqSet(s) \cup {b}
<1> DEFINE t == Append(s, b)
<1>1. /\ Len(t) = Len(s) + 1 /\ Len(s) \in Nat
      /\ \A i \in 1 .. Len(s) : t[i] = s[i]
      /\ t[Len(s) + 1] = b
  OBVIOUS
<1>2. 1 .. Len(t) = (1 .. Len(s)) \cup {Len(s) + 1}
  BY <1>1
<1> HIDE DEF t
<1>3. SeqSet(t) = SeqSet(s) \cup {b}
  BY <1>1, <1>2 DEF SeqSet
<1> QED BY <1>3, Zenon DEF t

LEMMA HeadStep ==
  ASSUME LogInv, Counted, [Next]_vars, TypeOK',
         outstanding' # 0 => InOp' # {}
  PROVE  HeadInv'
<1> USE SizeAssumption DEF LogInv
<1>1. ASSUME NEW p \in Proc, BeginSleep(p) \/ BeginAdmit(p) \/ EndOp(p)
      PROVE HeadInv'
  <2>1. UNCHANGED <<lh, hdr, phase, tail, sec>>
    BY <1>1, Zenon DEF BeginSleep, BeginAdmit, EndOp, diskVars, logVars, ioVars
  <2>2. InOp' = {} => InOp = {}
    <3>1. CASE BeginSleep(p) \/ BeginAdmit(p)
      BY <3>1 DEF BeginSleep, BeginAdmit, TypeOK, InOp
    <3>2. CASE EndOp(p)
      <4>1. outstanding' # 0
        BY <3>2 DEF EndOp, TypeOK
      <4> QED BY <4>1, Zenon
    <3> QED BY <1>1, <3>1, <3>2, Zenon
  <2> QED BY <2>1, <2>2, ZenonT(30) DEF HeadInv, NoDup
<1>2. ASSUME NEW p \in Proc, EndLastOp(p) PROVE HeadInv'
  <2>1. ~committing /\ phase = "none"
    BY <1>2, Zenon DEF EndLastOp, ControlInv, InOp
  <2>2. Len(lh) \in Nat /\ (Len(lh) = 0 => lh = <<>>)
    BY DEF TypeOK
  <2> QED BY <1>2, <2>1, <2>2 DEF EndLastOp, HeadInv, NoDup, diskVars
<1>3. ASSUME NEW p \in Proc, CommitDone(p) PROVE HeadInv'
  BY <1>3 DEF CommitDone, HeadInv, NoDup, diskVars
<1>4. ASSUME NEW p \in Proc, NEW b \in Blocks, NEW c \in Content, Modify(p, b, c)
      PROVE HeadInv'
  BY <1>4, ZenonT(30) DEF Modify, HeadInv, NoDup, InOp, diskVars, logVars, ioVars
<1>5. ASSUME NEW p \in Proc, LogWriteAbsorb(p) PROVE HeadInv'
  BY <1>5, ZenonT(30) DEF LogWriteAbsorb, HeadInv, NoDup, InOp, diskVars, logVars, ioVars
<1>6. ASSUME NEW p \in Proc, LogWriteAppend(p) PROVE HeadInv'
  <2>1. /\ UNCHANGED <<hdr, phase, tail, sec>>
        /\ lh' = Append(lh, hold[p])
        /\ hold[p] \in Blocks /\ hold[p] \notin SeqSet(lh)
    BY <1>6, Zenon DEF LogWriteAppend, TypeOK, diskVars, ioVars
  <2>2. phase = "none"
    BY <1>6, Zenon DEF LogWriteAppend, ControlInv, InOp
  <2>3. NoDup(lh')
    <3>1. /\ Len(lh') = Len(lh) + 1 /\ Len(lh) \in Nat
          /\ \A i \in 1 .. Len(lh) : lh'[i] = lh[i]
          /\ lh'[Len(lh) + 1] = hold[p]
      BY <2>1 DEF TypeOK
    <3>2. \A i \in 1 .. Len(lh) : lh[i] # hold[p]
      BY <2>1, Zenon DEF SeqSet
    <3> QED BY <3>1, <3>2, SMTT(30) DEF NoDup, HeadInv
  <2>4. InOp' # {}
    BY <1>6, Zenon DEF LogWriteAppend, ControlInv, InOp
  <2> QED BY <2>1, <2>2, <2>3, <2>4, ZenonT(30) DEF HeadInv, NoDup
<1>7. CASE WriteLog
  BY <1>7, SMTT(30) DEF WriteLog, Advance, HeadInv, NoDup, TypeOK, logVars
<1>8. CASE WriteHead
  <2>1. Len(lh) >= 1
    BY <1>8 DEF WriteHead, HeadInv, TypeOK
  <2> QED BY <1>8, <2>1 DEF WriteHead, HeadInv, NoDup, TypeOK, logVars
<1>9. CASE Install
  <2>1. Advance("clear_head") /\ phase = "install" /\ UNCHANGED <<lh, hdr>>
    BY <1>9, Zenon DEF Install, logVars
  <2> QED BY <2>1 DEF Advance, HeadInv, NoDup, TypeOK
<1>10. CASE ClearHead
  BY <1>10 DEF ClearHead, HeadInv, NoDup
<1>11. CASE ReadHead
  <2>1. hdr # <<>> => Len(hdr) >= 1
    BY DEF TypeOK
  <2> QED BY <1>11, <2>1, ZenonT(30) DEF ReadHead, HeadInv, NoDup, diskVars
<1>12. ASSUME NEW b \in Blocks, Evict(b) \/ Read(b) PROVE HeadInv'
  BY <1>12, Zenon DEF Evict, Read, HeadInv, NoDup, InOp, diskVars, logVars, procVars, ioVars
<1>13. CASE Crash
  BY <1>13 DEF Crash, HeadInv, NoDup, diskVars
<1>14. CASE UNCHANGED vars
  BY <1>14, ZenonT(30) DEF vars, HeadInv, NoDup, InOp, diskVars, logVars, procVars, ioVars
<1> QED
  BY <1>1, <1>2, <1>3, <1>4, <1>5, <1>6, <1>7, <1>8, <1>9, <1>10, <1>11,
     <1>12, <1>13, <1>14, Zenon
  DEF Next, ProcStep, IOStep

-----------------------------------------------------------------------------
(* Reference counts *)

\* Steps that change no reference count and nothing the counts are owed to.
LEMMA RefcntKept ==
  ASSUME RefcntExact,
         UNCHANGED <<refcnt, hold, lh, phase, tail, sec, recovering>>
  PROVE  RefcntExact'
BY DEF RefcntExact, Count, Held, Pinned, InIO

LEMMA HeldTaken ==
  ASSUME TypeOK, NEW p \in Proc, hold[p] = NoBlock, NEW b \in Blocks,
         hold' = [hold EXCEPT ![p] = b]
  PROVE  \A d \in Blocks : d \in Held' <=> d \in Held \/ d = b
<1> TAKE d \in Blocks
<1>1. \A q \in Proc : hold'[q] = IF q = p THEN b ELSE hold[q]
  BY Zenon DEF TypeOK
<1> QED BY <1>1, NoBlockAssumption, Zenon DEF Held

LEMMA HeldReleased ==
  ASSUME TypeOK, ControlInv, NEW p \in Proc, hold[p] \in Blocks,
         hold' = [hold EXCEPT ![p] = NoBlock]
  PROVE  \A d \in Blocks : d \in Held' <=> d \in Held /\ d # hold[p]
<1> TAKE d \in Blocks
<1>1. \A q \in Proc : hold'[q] = IF q = p THEN NoBlock ELSE hold[q]
  BY Zenon DEF TypeOK
<1>2. \A q \in Proc : hold[q] = hold[p] => q = p
  BY NoBlockAssumption, Zenon DEF ControlInv
<1> QED BY <1>1, <1>2, NoBlockAssumption, Zenon DEF Held

LEMMA RefcntStep ==
  ASSUME LogInv, Counted, [Next]_vars, TypeOK', HeadInv'
  PROVE  RefcntExact'
<1> USE SizeAssumption DEF LogInv
<1>1. ASSUME NEW p \in Proc, BeginSleep(p) \/ BeginAdmit(p) \/ EndOp(p)
      PROVE RefcntExact'
  BY <1>1, RefcntKept, Zenon
  DEF BeginSleep, BeginAdmit, EndOp, cacheVars, logVars, ioVars
<1>2. ASSUME NEW p \in Proc, EndLastOp(p) PROVE RefcntExact'
  <2>1. phase = "none" /\ ~recovering
    BY <1>2, Zenon DEF EndLastOp, ControlInv, InOp
  <2>2. UNCHANGED <<refcnt, hold, lh, recovering>> /\ phase' \in {"write_log", "done"}
    BY <1>2, Zenon DEF EndLastOp, cacheVars
  <2>3. Held' = Held /\ Pinned' = Pinned /\ InIO' = InIO
    BY <2>1, <2>2, Zenon DEF Held, Pinned, InIO
  <2> QED BY <2>2, <2>3, Zenon DEF RefcntExact, Count
<1>3. ASSUME NEW p \in Proc, CommitDone(p) PROVE RefcntExact'
  <2>1. UNCHANGED <<refcnt, hold, lh, recovering>> /\ phase = "done" /\ phase' = "none"
    BY <1>3, Zenon DEF CommitDone, cacheVars
  <2>2. Held' = Held /\ Pinned' = Pinned /\ InIO' = InIO
    BY <2>1, Zenon DEF Held, Pinned, InIO
  <2> QED BY <2>1, <2>2, Zenon DEF RefcntExact, Count
<1>4. ASSUME NEW p \in Proc, NEW b \in Blocks, NEW c \in Content, Modify(p, b, c)
      PROVE RefcntExact'
  <2>1. /\ UNCHANGED <<lh, phase, tail, sec, recovering>>
        /\ hold' = [hold EXCEPT ![p] = b]
        /\ refcnt' = [refcnt EXCEPT ![b] = refcnt[b] + 1]
        /\ hold[p] = NoBlock /\ \A q \in Proc : hold[q] # b
    BY <1>4, Zenon DEF Modify, logVars, ioVars
  <2>2. Pinned' = Pinned /\ InIO' = InIO
    BY <2>1, Zenon DEF Pinned, InIO
  <2>3. \A d \in Blocks : d \in Held' <=> d \in Held \/ d = b
    BY <2>1, HeldTaken, Zenon
  <2>4. b \notin Held
    BY <2>1, Zenon DEF Held
  <2> QED BY <2>1, <2>2, <2>3, <2>4, SMTT(30) DEF RefcntExact, Count, TypeOK
<1>5. ASSUME NEW p \in Proc, LogWriteAbsorb(p) PROVE RefcntExact'
  <2>1. /\ UNCHANGED <<lh, phase, tail, sec, recovering>>
        /\ hold' = [hold EXCEPT ![p] = NoBlock]
        /\ refcnt' = [refcnt EXCEPT ![hold[p]] = refcnt[hold[p]] - 1]
        /\ hold[p] \in Blocks
    BY <1>5, NoBlockAssumption, ZenonT(30) DEF LogWriteAbsorb, SeqSet, TypeOK, logVars, ioVars
  <2>2. Pinned' = Pinned /\ InIO' = InIO
    BY <2>1, Zenon DEF Pinned, InIO
  <2>3. \A d \in Blocks : d \in Held' <=> d \in Held /\ d # hold[p]
    BY <2>1, HeldReleased, Zenon
  <2>4. hold[p] \in Held
    BY Zenon DEF Held
  <2> QED BY <2>1, <2>2, <2>3, <2>4, SMTT(30) DEF RefcntExact, Count, TypeOK
<1>6. ASSUME NEW p \in Proc, LogWriteAppend(p) PROVE RefcntExact'
  <2>1. /\ UNCHANGED <<refcnt, phase, tail, sec, recovering>>
        /\ hold' = [hold EXCEPT ![p] = NoBlock]
        /\ lh' = Append(lh, hold[p])
        /\ hold[p] \in Blocks /\ hold[p] \notin SeqSet(lh)
    BY <1>6, Zenon DEF LogWriteAppend, TypeOK, cacheVars, ioVars
  <2>2. phase = "none" /\ ~recovering
    BY <1>6, Zenon DEF LogWriteAppend, ControlInv, InOp
  <2>3. Pinned = SeqSet(lh) /\ Pinned' = SeqSet(lh') /\ InIO = {} /\ InIO' = {}
    BY <2>1, <2>2, Zenon DEF Pinned, InIO, SeqSet
  <2>4. Pinned' = Pinned \cup {hold[p]} /\ hold[p] \notin Pinned
    BY <2>1, <2>3, SeqSetAppend, Zenon DEF TypeOK
  <2>5. \A d \in Blocks : d \in Held' <=> d \in Held /\ d # hold[p]
    BY <2>1, HeldReleased, Zenon
  <2>6. hold[p] \in Held
    BY Zenon DEF Held
  <2> QED BY <2>1, <2>3, <2>4, <2>5, <2>6, SMTT(30) DEF RefcntExact, Count, TypeOK
<1>7. CASE WriteLog \/ WriteHead
  <2>1. UNCHANGED <<refcnt, hold, lh, recovering>>
    BY <1>7, Zenon DEF WriteLog, WriteHead, cacheVars, logVars, procVars
  <2>2. /\ phase \in {"write_log", "write_head"}
        /\ phase' \in {"write_log", "write_head", "install"}
        /\ phase' = "install" => tail' = 1 /\ sec' = 1
    BY <1>7, Zenon DEF WriteLog, WriteHead, Advance, HeadInv
  <2>3. Held' = Held /\ Pinned' = Pinned /\ InIO' = InIO
    BY <2>1, <2>2, Zenon DEF Held, Pinned, InIO
  <2> QED BY <2>1, <2>3, Zenon DEF RefcntExact, Count
<1>8. CASE Install
  <2> DEFINE b == lh[tail]
  <2>1. /\ UNCHANGED <<lh, hold, recovering>> /\ phase = "install"
        /\ Advance("clear_head")
        /\ refcnt' = [refcnt EXCEPT ![b] =
             (refcnt[b] + (IF sec = 1 THEN 1 ELSE 0))
             - (IF ~LastSector THEN 0 ELSE IF recovering THEN 1 ELSE 2)]
    BY <1>8, Zenon DEF Install, logVars, procVars
  <2>2. tail \in 1 .. Len(lh) /\ b \in Blocks /\ Held' = Held
    BY <2>1 DEF HeadInv, TypeOK, Held
  <2>3. \A i \in 1 .. Len(lh) : lh[i] = b => i = tail
    BY <2>2, Zenon DEF HeadInv, NoDup
  <2>4. ASSUME NEW d \in Blocks, d # b
        PROVE  /\ d \in Pinned' <=> d \in Pinned
               /\ d \in InIO' <=> d \in InIO
    <3>1. CASE LastSector /\ tail = Len(lh)
      <4>1. phase' = "clear_head" /\ Len(lh) \in Nat
        BY <2>1, <3>1 DEF Advance, TypeOK
      <4>2. tail .. Len(lh) = {tail}
        BY <2>2, <3>1, <4>1
      <4>3. d \notin Pinned' /\ d \notin Pinned
        BY <2>1, <2>4, <4>1, <4>2, Zenon DEF Pinned
      <4>4. d \notin InIO' /\ d \notin InIO
        BY <2>1, <2>4, <4>1, Zenon DEF InIO
      <4> QED BY <4>3, <4>4, Zenon
    <3>2. CASE LastSector /\ tail # Len(lh)
      <4>1. /\ tail' = tail + 1 /\ phase' = "install" /\ sec' = 1
            /\ tail \in Nat /\ Len(lh) \in Nat
        BY <2>1, <2>2, <3>2 DEF Advance, TypeOK
      <4>2. tail .. Len(lh) = {tail} \cup (tail + 1 .. Len(lh))
        BY <2>2, <4>1
      <4>3. d \in Pinned' <=> d \in Pinned
        BY <2>1, <2>4, <4>1, <4>2, Zenon DEF Pinned
      <4>4. d \notin InIO' /\ d \notin InIO
        BY <2>1, <2>4, <4>1, Zenon DEF InIO
      <4> QED BY <4>3, <4>4, Zenon
    <3>3. CASE ~LastSector
      BY <2>1, <2>2, <2>4, <3>3 DEF Pinned, InIO, Advance, TypeOK
    <3> QED BY <3>1, <3>2, <3>3, Zenon
  <2>5. /\ b \in Pinned <=> ~recovering
        /\ b \in Pinned' <=> ~recovering /\ ~LastSector
    <3>1. b \in Pinned <=> ~recovering
      BY <2>1, <2>2 DEF Pinned
    <3>2. CASE LastSector /\ tail = Len(lh)
      BY <2>1, <3>1, <3>2, Zenon DEF Pinned, Advance
    <3>3. CASE LastSector /\ tail # Len(lh)
      <4>1. tail' = tail + 1 /\ phase' = "install" /\ tail \in Nat /\ Len(lh) \in Nat
        BY <2>1, <2>2, <3>3 DEF Advance, TypeOK
      <4>2. b \notin {lh[i] : i \in tail + 1 .. Len(lh)}
        BY <2>2, <2>3, <4>1, SMTT(30)
      <4> QED BY <2>1, <3>1, <3>3, <4>1, <4>2, Zenon DEF Pinned
    <3>4. CASE ~LastSector
      BY <2>1, <2>2, <3>1, <3>4, Zenon DEF Pinned, Advance
    <3> QED BY <3>2, <3>3, <3>4, Zenon
  <2>6. /\ b \in InIO <=> sec # 1
        /\ b \in InIO' <=> ~LastSector
    <3>1. sec \in Sector /\ NSECT \in Nat
      BY SizeAssumption, Zenon DEF TypeOK
    <3> QED BY <2>1, <2>2, <3>1, SMTT(30) DEF InIO, Advance, Sector
  <2>7. ASSUME NEW d \in Blocks, d # b
        PROVE  refcnt'[d] = Count(Held', d) + Count(Pinned', d) + Count(InIO', d)
    BY <2>1, <2>2, <2>4, <2>7, Zenon DEF RefcntExact, Count, TypeOK
  <2>8. refcnt'[b] = Count(Held', b) + Count(Pinned', b) + Count(InIO', b)
    <3>1. refcnt[b] = Count(Held, b) + Count(Pinned, b) + Count(InIO, b)
      BY <2>2, Zenon DEF RefcntExact
    <3>2. refcnt'[b] = (refcnt[b] + (IF sec = 1 THEN 1 ELSE 0))
             - (IF ~LastSector THEN 0 ELSE IF recovering THEN 1 ELSE 2)
      BY <2>1, <2>2, Zenon DEF TypeOK
    <3>3. /\ Count(Pinned, b) = IF recovering THEN 0 ELSE 1
          /\ Count(Pinned', b) = IF recovering \/ LastSector THEN 0 ELSE 1
          /\ Count(InIO, b) = IF sec = 1 THEN 0 ELSE 1
          /\ Count(InIO', b) = IF LastSector THEN 0 ELSE 1
          /\ Count(Held', b) = Count(Held, b) /\ Count(Held, b) \in Nat
      BY <2>2, <2>5, <2>6, Zenon DEF Count
    <3> QED BY <3>1, <3>2, <3>3
  <2> QED BY <2>7, <2>8, Zenon DEF RefcntExact
<1>9. CASE ClearHead \/ ReadHead
  <2>1. /\ UNCHANGED <<refcnt, hold>> /\ Held' = Held
        /\ tail' = 1 /\ sec' = 1
    BY <1>9, Zenon DEF ClearHead, ReadHead, HeadInv, cacheVars, procVars, Held
  <2>2. Pinned = {} /\ InIO = {} /\ InIO' = {}
    BY <1>9, <2>1, Zenon DEF ClearHead, ReadHead, ControlInv, Pinned, InIO
  <2>3. Pinned' = {}
    <3>1. CASE ClearHead
      BY <3>1, SMTT(30) DEF ClearHead, Pinned
    <3>2. CASE ReadHead
      BY <3>2, Zenon DEF ReadHead, ControlInv, Pinned
    <3> QED BY <1>9, <3>1, <3>2, Zenon
  <2> QED BY <2>1, <2>2, <2>3, Zenon DEF RefcntExact, Count
<1>10. ASSUME NEW b \in Blocks, Evict(b) \/ Read(b) PROVE RefcntExact'
  BY <1>10, RefcntKept, Zenon DEF Evict, Read, logVars, procVars, ioVars
<1>11. CASE Crash
  <2>1. \A b \in Blocks : b \notin Held' /\ b \notin Pinned' /\ b \notin InIO'
    BY <1>11, NoBlockAssumption, Zenon DEF Crash, Held, Pinned, InIO
  <2> QED BY <1>11, <2>1 DEF Crash, RefcntExact, Count
<1>12. CASE UNCHANGED vars
  BY <1>12, RefcntKept, Zenon DEF vars, cacheVars, logVars, procVars, ioVars
<1> QED
  BY <1>1, <1>2, <1>3, <1>4, <1>5, <1>6, <1>7, <1>8, <1>9, <1>10, <1>11, <1>12, Zenon
  DEF Next, ProcStep, IOStep

-----------------------------------------------------------------------------
(* Contents *)

LEMMA LoggedBlocks ==
  ASSUME TypeOK
  PROVE  /\ Len(lh) \in Nat
         /\ \A i \in 1 .. Len(lh) : lh[i] \in Blocks /\ lh[i] \in SeqSet(lh)
BY SMTT(30) DEF TypeOK, SeqSet

\* A block still to be copied or installed by commit() is in the cache.
LEMMA PinnedCached ==
  ASSUME TypeOK, RefcntExact, DataInv, ~recovering,
         NEW i \in 1 .. Len(lh),
         \/ phase \in {"write_log", "write_head"}
         \/ phase = "install" /\ i >= tail
  PROVE  refcnt[lh[i]] > 0 /\ cache[lh[i]] # NoBlock /\ cache[lh[i]] \in Content
<1>1. lh[i] \in Blocks /\ lh[i] \in Pinned
  BY DEF TypeOK, Pinned
<1>2. /\ Count(Pinned, lh[i]) = 1
      /\ Count(Held, lh[i]) \in Nat /\ Count(InIO, lh[i]) \in Nat
  BY <1>1, Zenon DEF Count
<1>3. refcnt[lh[i]] > 0
  BY <1>1, <1>2, SMTT(30) DEF RefcntExact
<1> QED BY <1>1, <1>3, Zenon DEF DataInv, TypeOK

\* A block all of whose sectors are installed equals its copy in the log.
LEMMA InstalledWhole ==
  ASSUME TypeOK, Counted, DataInv, NEW i \in 1 .. Len(lh),
         phase = "clear_head" \/ (phase = "install" /\ i < tail)
  PROVE  disk[lh[i]] = logdata[i]
<1>1. lh[i] \in Blocks /\ i \in 1 .. LOGBLOCKS
  BY LoggedBlocks, SizeAssumption DEF Counted
<1>2. disk[lh[i]] \in [Sector -> Val] /\ logdata[i] \in [Sector -> Val]
  BY <1>1, Zenon DEF TypeOK, Content
<1>3. \A s \in Sector : disk[lh[i]][s] = logdata[i][s]
  BY ZenonT(30) DEF DataInv, Installed
<1> QED BY <1>2, <1>3

\* What commit() copied to the log is what the cache holds.
LEMMA CopiedWhole ==
  ASSUME LogInv, Counted, phase = "write_head", NEW i \in 1 .. Len(lh)
  PROVE  cache[lh[i]] = logdata[i]
<1>1. i \in 1 .. LOGBLOCKS
  BY LoggedBlocks, SizeAssumption, SMTT(30) DEF Counted, LogInv
<1>2. cache[lh[i]] \in [Sector -> Val] /\ logdata[i] \in [Sector -> Val]
  BY <1>1, PinnedCached, Zenon DEF LogInv, ControlInv, TypeOK, Content
<1>3. Copied(i)
  BY Zenon DEF LogInv, DataInv
<1>4. \A s \in Sector : logdata[i][s] = cache[lh[i]][s]
  BY <1>3, Zenon DEF Copied
<1> QED BY <1>2, <1>4

LEMMA DataKept ==
  ASSUME DataInv,
         UNCHANGED <<disk, logdata, cache, refcnt, hold, lh, phase, tail, sec,
                     recovering>>
  PROVE  DataInv'
<1>1. Held' = Held /\ SeqSet(lh)' = SeqSet(lh)
  BY Zenon DEF Held, SeqSet
<1>2. \A i \in 1 .. Len(lh) : Copied(i)' = Copied(i) /\ Installed(i)' = Installed(i)
  BY Zenon DEF Copied, Installed
<1> QED BY <1>1, <1>2, Zenon DEF DataInv

\* The sectors a loop has behind it after a step are those it had behind it
\* before, and the one the step wrote.
LEMMA AdvanceProgress ==
  ASSUME TypeOK, tail \in 1 .. Len(lh), NEW next, phase # next, Advance(next),
         NEW i \in 1 .. Len(lh), NEW s \in Sector,
         phase' = next \/ i < tail' \/ (i = tail' /\ s < sec')
  PROVE  i < tail \/ (i = tail /\ s <= sec)
<1> USE SizeAssumption DEF Advance, LastSector, TypeOK, Sector
<1>1. CASE LastSector /\ tail = Len(lh)
  BY <1>1
<1>2. CASE LastSector /\ tail # Len(lh)
  BY <1>2, SMTT(30)
<1>3. CASE ~LastSector
  BY <1>3
<1> QED BY <1>1, <1>2, <1>3, Zenon

\* Processes outside a commit.
LEMMA DataProcStep ==
  ASSUME LogInv, Counted, NEW p \in Proc, ProcStep(p), TypeOK', HeadInv'
  PROVE  DataInv'
<1> USE SizeAssumption DEF LogInv
<1>1. CASE BeginSleep(p) \/ BeginAdmit(p) \/ EndOp(p)
  BY <1>1, DataKept, Zenon
  DEF BeginSleep, BeginAdmit, EndOp, diskVars, cacheVars, logVars, ioVars
<1>2. CASE EndLastOp(p)
  <2>1. /\ UNCHANGED <<disk, cache, refcnt, hold, lh>>
        /\ phase' \in {"write_log", "done"} /\ tail' = 1 /\ sec' = 1
    BY <1>2, Zenon DEF EndLastOp, diskVars, cacheVars
  <2>2. \A i \in 1 .. Len(lh') : phase' # "write_head" => Copied(i)'
    BY <2>1 DEF Copied, Sector
  <2> QED BY <2>1, <2>2, ZenonT(60) DEF DataInv, Held, SeqSet
<1>3. CASE CommitDone(p)
  BY <1>3, ZenonT(30) DEF CommitDone, DataInv, Held, SeqSet, diskVars, cacheVars
<1>4. ASSUME NEW b \in Blocks, NEW c \in Content, Modify(p, b, c)
      PROVE DataInv'
  <2>1. /\ UNCHANGED <<disk, lh, phase>>
        /\ cache' = [cache EXCEPT ![b] = c]
        /\ refcnt' = [refcnt EXCEPT ![b] = refcnt[b] + 1]
        /\ hold' = [hold EXCEPT ![p] = b] /\ hold[p] = NoBlock
    BY <1>4, Zenon DEF Modify, diskVars, logVars, ioVars
  <2>2. phase = "none"
    BY <1>4, ZenonT(30) DEF Modify, ControlInv, InOp
  <2>3. \A d \in Blocks : d \in Held' <=> d \in Held \/ d = b
    BY <2>1, HeldTaken, Zenon
  <2>4. \A d \in Blocks : d # b => cache'[d] = cache[d] /\ refcnt'[d] = refcnt[d]
    BY <2>1, Zenon DEF TypeOK
  <2>5. cache'[b] # NoBlock
    BY <2>1, ContentAssumption, Zenon DEF TypeOK
  <2>6. \A d \in Blocks : refcnt'[d] > 0 => cache'[d] # NoBlock
    BY <2>4, <2>5, Zenon DEF DataInv
  <2>7. \A d \in Blocks : d \notin Held' \cup SeqSet(lh')
                          => cache'[d] \in {NoBlock, disk'[d]}
    BY <2>1, <2>3, <2>4, ZenonT(30) DEF DataInv, SeqSet
  <2> QED BY <2>1, <2>2, <2>6, <2>7, Zenon DEF DataInv, SeqSet
<1>5. CASE LogWriteAbsorb(p) \/ LogWriteAppend(p)
  <2>1. /\ UNCHANGED <<disk, cache, phase>>
        /\ hold' = [hold EXCEPT ![p] = NoBlock]
        /\ hold[p] # NoBlock /\ hold[p] \in Blocks
    <3>1. /\ UNCHANGED <<disk, cache, phase>> /\ hold' = [hold EXCEPT ![p] = NoBlock]
          /\ hold[p] \in SeqSet(lh) \/ hold[p] # NoBlock
      BY <1>5, Zenon DEF LogWriteAbsorb, LogWriteAppend, diskVars, cacheVars, ioVars
    <3>2. hold[p] \in Blocks \cup {NoBlock}
      BY Zenon DEF TypeOK
    <3>3. SeqSet(lh) \subseteq Blocks
      BY LoggedBlocks, Zenon DEF SeqSet
    <3> QED BY <3>1, <3>2, <3>3, NoBlockAssumption, Zenon
  <2>2. phase = "none"
    BY <2>1, Zenon DEF ControlInv, InOp
  <2>3. \A d \in Blocks : d \in Held' <=> d \in Held /\ d # hold[p]
    BY <2>1, HeldReleased, Zenon
  <2>4. \A d \in Blocks : refcnt'[d] <= refcnt[d]
    <3>1. CASE LogWriteAbsorb(p)
      BY <2>1, <3>1, SMTT(30) DEF LogWriteAbsorb, TypeOK
    <3>2. CASE LogWriteAppend(p)
      BY <3>2 DEF LogWriteAppend, TypeOK, cacheVars
    <3> QED BY <1>5, <3>1, <3>2, Zenon
  <2>5. hold[p] \in SeqSet(lh') /\ SeqSet(lh) \subseteq SeqSet(lh')
    <3>1. CASE LogWriteAbsorb(p)
      BY <3>1, Zenon DEF LogWriteAbsorb, logVars
    <3>2. CASE LogWriteAppend(p)
      BY <2>1, <3>2, SeqSetAppend, SMTT(30) DEF LogWriteAppend, TypeOK
    <3> QED BY <1>5, <3>1, <3>2, Zenon
  <2>6. \A d \in Blocks : refcnt'[d] > 0 => cache'[d] # NoBlock
    <3>1. \A d \in Blocks : refcnt[d] \in Nat /\ refcnt'[d] \in Nat
      BY Zenon DEF TypeOK
    <3>2. \A d \in Blocks : refcnt'[d] > 0 => refcnt[d] > 0
      BY <2>4, <3>1
    <3> QED BY <2>1, <3>2, Zenon DEF DataInv
  <2>7. \A d \in Blocks : d \notin Held' \cup SeqSet(lh')
                          => cache'[d] \in {NoBlock, disk'[d]}
    BY <2>1, <2>3, <2>5, Zenon DEF DataInv
  <2> QED BY <2>1, <2>2, <2>6, <2>7, ZenonT(30) DEF DataInv
<1> QED BY <1>1, <1>2, <1>3, <1>4, <1>5, Zenon DEF ProcStep

\* commit()
LEMMA DataWriteLog ==
  ASSUME LogInv, Counted, WriteLog, TypeOK', HeadInv'
  PROVE  DataInv'
<1> USE SizeAssumption DEF LogInv
<1> DEFINE b == lh[tail]
<1>1. /\ UNCHANGED <<disk, cache, refcnt, hold, lh, recovering>>
      /\ phase = "write_log" /\ Advance("write_head")
      /\ logdata' = [logdata EXCEPT ![tail][sec] = Bread(lh[tail])[sec]]
  BY Zenon DEF WriteLog, cacheVars, logVars, procVars
<1>2. tail \in 1 .. Len(lh) /\ tail \in 1 .. LOGBLOCKS /\ Len(lh) <= LOGBLOCKS
  BY <1>1, SMTT(30) DEF Counted, HeadInv, TypeOK
<1>3. Bread(b) = cache[b] /\ b \in Blocks
  BY <1>1, <1>2, PinnedCached, LoggedBlocks, ZenonT(30) DEF ControlInv, Bread
<1>4. \A i \in 1 .. Len(lh), s \in Sector :
        logdata'[i][s] = IF i = tail /\ s = sec THEN cache[b][sec]
                                                ELSE logdata[i][s]
  <2>1. /\ logdata \in [1 .. LOGBLOCKS -> [Sector -> Val]] /\ 1 .. Len(lh) \subseteq 1 .. LOGBLOCKS
        /\ sec \in Sector
    <3>1. logdata \in [1 .. LOGBLOCKS -> [Sector -> Val]] /\ sec \in Sector /\ lh \in Seq(Blocks)
      BY Zenon DEF TypeOK, Content
    <3>2. 1 .. Len(lh) \subseteq 1 .. LOGBLOCKS
      BY <1>2, <3>1
    <3> QED BY <3>1, <3>2, Zenon
  <2>2. logdata' = [logdata EXCEPT ![tail] = [logdata[tail] EXCEPT ![sec] = cache[b][sec]]]
    BY <1>1, <1>3, Zenon
  <2>3. ASSUME NEW i \in 1 .. LOGBLOCKS, NEW s \in Sector
        PROVE  logdata'[i][s] = IF i = tail /\ s = sec THEN cache[b][sec] ELSE logdata[i][s]
    BY <1>2, <2>1, <2>2, Zenon
  <2> QED BY <2>1, <2>3, Zenon
<1>5. \A i \in 1 .. Len(lh), s \in Sector :
        i < tail \/ (i = tail /\ s < sec) => logdata[i][s] = cache[lh[i]][s]
  BY <1>1, ZenonT(30) DEF DataInv, Copied
<1>6. ASSUME NEW i \in 1 .. Len(lh) PROVE Copied(i)'
  <2>1. ASSUME NEW s \in Sector,
               phase' = "write_head" \/ i < tail' \/ (i = tail' /\ s < sec')
        PROVE  i < tail \/ (i = tail /\ s <= sec)
    BY <1>1, <1>2, <2>1, AdvanceProgress, Zenon
  <2>2. ASSUME NEW s \in Sector, i < tail \/ (i = tail /\ s <= sec)
        PROVE  logdata'[i][s] = cache[lh[i]][s]
    <3>1. CASE i = tail /\ s = sec
      BY <1>4, <3>1, ZenonT(30)
    <3>2. CASE ~(i = tail /\ s = sec)
      <4>1. i < tail \/ (i = tail /\ s < sec)
        BY <1>2, <2>2, <3>2 DEF TypeOK, Sector
      <4>2. logdata'[i][s] = logdata[i][s]
        BY <1>4, <3>2, Zenon
      <4>3. logdata[i][s] = cache[lh[i]][s]
        BY <1>5, <4>1, Zenon
      <4> QED BY <4>2, <4>3, Zenon
    <3> QED BY <3>1, <3>2, Zenon
  <2> QED BY <1>1, <2>1, <2>2, Zenon DEF Copied
<1>7. phase' \in {"write_log", "write_head"}
  BY <1>1, Zenon DEF Advance
<1> QED BY <1>1, <1>6, <1>7 DEF DataInv, Held, SeqSet

LEMMA DataWriteHead ==
  ASSUME LogInv, Counted, WriteHead, TypeOK', HeadInv'
  PROVE  DataInv'
<1> USE DEF LogInv
<1>1. /\ UNCHANGED <<disk, logdata, cache, refcnt, hold, lh, recovering>>
      /\ phase = "write_head" /\ phase' = "install" /\ tail' = 1 /\ sec' = 1
  BY Zenon DEF WriteHead, HeadInv, cacheVars, logVars, procVars
<1>2. \A i \in 1 .. Len(lh) : cache[lh[i]] = logdata[i]
  BY <1>1, CopiedWhole, Zenon
<1>3. \A i \in 1 .. Len(lh) : Installed(i)'
  BY <1>1, SMTT(30) DEF Installed, Sector
<1> QED BY <1>1, <1>2, <1>3, ZenonT(30) DEF DataInv, Held, SeqSet

LEMMA DataInstall ==
  ASSUME LogInv, Counted, Install, TypeOK', HeadInv'
  PROVE  DataInv'
<1> USE SizeAssumption DEF LogInv
<1> DEFINE b == lh[tail]
<1>1. /\ UNCHANGED <<logdata, hold, lh, recovering>>
      /\ phase = "install" /\ Advance("clear_head")
      /\ cache' = [cache EXCEPT ![b] = IF sec = 1 THEN logdata[tail] ELSE cache[b]]
      /\ disk' = [disk EXCEPT ![b][sec] = logdata[tail][sec]]
  BY Zenon DEF Install, logVars, procVars
<1>0. \A d \in Blocks : d # b => refcnt'[d] = refcnt[d]
  <2>1. refcnt' = [refcnt EXCEPT ![b] =
          (refcnt[b] + (IF sec = 1 THEN 1 ELSE 0))
          - (IF ~LastSector THEN 0 ELSE IF recovering THEN 1 ELSE 2)]
    BY Zenon DEF Install
  <2> QED BY <2>1, Zenon DEF TypeOK
<1>2. /\ tail \in 1 .. Len(lh) /\ tail \in 1 .. LOGBLOCKS /\ Len(lh) <= LOGBLOCKS
      /\ b \in Blocks /\ b \in SeqSet(lh) /\ Len(lh) \in Nat
  <2>0. phase = "install" /\ Len(lh) <= LOGBLOCKS /\ Len(lh) \in Nat
    BY <1>1, LoggedBlocks, Zenon DEF Counted
  <2>1. tail \in 1 .. Len(lh) /\ tail \in 1 .. LOGBLOCKS /\ Len(lh) <= LOGBLOCKS
    BY <2>0 DEF HeadInv, TypeOK
  <2> QED BY <2>1, LoggedBlocks, Zenon
<1>3. \A i \in 1 .. Len(lh) : i # tail => lh[i] # b /\ lh[i] \in Blocks
  BY <1>2, LoggedBlocks, Zenon DEF HeadInv, NoDup
<1>4. cache'[b] = logdata[tail] /\ cache'[b] # NoBlock
  <2>1. sec # 1 => cache[b] = logdata[tail]
    BY <1>1, <1>2, Zenon DEF DataInv
  <2>2. cache'[b] = logdata[tail]
    BY <1>1, <1>2, <2>1, ZenonT(30) DEF TypeOK
  <2>3. logdata[tail] \in Content
    BY <1>2, Zenon DEF TypeOK
  <2> QED BY <2>2, <2>3, ContentAssumption, Zenon
<1>5. \A d \in Blocks : d # b => cache'[d] = cache[d] /\ disk'[d] = disk[d]
  BY <1>1, <1>2, Zenon DEF TypeOK
<1>6. \A s \in Sector :
        disk'[b][s] = IF s = sec THEN logdata[tail][sec] ELSE disk[b][s]
  <2>1. disk \in [Blocks -> [Sector -> Val]] /\ b \in Blocks
    BY <1>2, Zenon DEF TypeOK, Content
  <2>2. disk' = [disk EXCEPT ![b] = [disk[b] EXCEPT ![sec] = logdata[tail][sec]]]
    BY <1>1, Zenon
  <2> QED BY <2>1, <2>2, Zenon
<1>7. \A d \in Blocks : refcnt'[d] > 0 => cache'[d] # NoBlock
  BY <1>0, <1>4, <1>5, Zenon DEF DataInv
<1>8. \A d \in Blocks : d \notin Held' \cup SeqSet(lh')
                        => cache'[d] \in {NoBlock, disk'[d]}
  <2>1. Held' = Held /\ SeqSet(lh') = SeqSet(lh)
    BY <1>1, Zenon DEF Held, SeqSet
  <2> QED BY <1>2, <1>5, <2>1, Zenon DEF DataInv
<1>9. ASSUME NEW i \in 1 .. Len(lh) PROVE Installed(i)'
  <2>1. \A s \in Sector : i < tail \/ (i = tail /\ s < sec)
                          => disk[lh[i]][s] = logdata[i][s]
    BY <1>1, Zenon DEF DataInv, Installed
  <2>2. ASSUME NEW s \in Sector, i < tail \/ (i = tail /\ s <= sec)
        PROVE  disk'[lh[i]][s] = logdata[i][s]
    <3>1. CASE i # tail
      BY <1>2, <1>3, <1>5, <2>1, <2>2, <3>1, Zenon
    <3>2. CASE i = tail /\ s = sec
      BY <1>6, <3>2, Zenon
    <3>3. CASE i = tail /\ s # sec
      <4>1. s < sec
        BY <1>2, <2>2, <3>3 DEF TypeOK, Sector
      <4> QED BY <1>6, <2>1, <3>3, <4>1, Zenon
    <3> QED BY <3>1, <3>2, <3>3, Zenon
  <2>3. ASSUME NEW s \in Sector,
               phase' = "clear_head" \/ i < tail' \/ (i = tail' /\ s < sec')
        PROVE  i < tail \/ (i = tail /\ s <= sec)
    BY <1>1, <1>2, <2>3, AdvanceProgress, Zenon
  <2> QED BY <1>1, <2>2, <2>3, Zenon DEF Installed
<1>10. ASSUME NEW i \in 1 .. Len(lh),
              ~recovering \/ phase' = "clear_head" \/ i < tail'
       PROVE  cache'[lh[i]] \in {NoBlock, logdata[i]}
  <2>1. CASE i = tail
    BY <1>4, <2>1, Zenon
  <2>2. CASE i # tail
    <3>1. phase' = "clear_head" \/ i < tail' => i < tail
      <4>1. CASE LastSector /\ tail = Len(lh)
        BY <1>2, <2>2, <4>1, SMTT(30)
      <4>2. CASE LastSector /\ tail # Len(lh)
        BY <1>1, <1>2, <2>2, <4>2 DEF Advance
      <4>3. CASE ~LastSector
        BY <1>1, <1>2, <4>3, Zenon DEF Advance
      <4> QED BY <4>1, <4>2, <4>3, Zenon
    <3>2. cache[lh[i]] \in {NoBlock, logdata[i]}
      BY <1>1, <1>10, <3>1, Zenon DEF DataInv
    <3> QED BY <1>3, <1>5, <2>2, <3>2, Zenon
  <2> QED BY <2>1, <2>2, Zenon
<1>11. ASSUME NEW i \in 1 .. Len(lh), i = tail' /\ sec' # 1
       PROVE  cache'[lh[i]] = logdata[i]
  <2>1. i = tail
    BY <1>1, <1>11, Zenon DEF Advance
  <2> QED BY <1>4, <2>1, Zenon
<1>12. phase' \in {"install", "clear_head"}
  BY <1>1, Zenon DEF Advance
<1>13. lh' = lh /\ logdata' = logdata /\ recovering' = recovering
  BY <1>1, Zenon
<1> QED BY <1>7, <1>8, <1>9, <1>10, <1>11, <1>12, <1>13, ZenonT(60) DEF DataInv

LEMMA DataClearHead ==
  ASSUME LogInv, Counted, ClearHead, TypeOK', HeadInv'
  PROVE  DataInv'
<1> USE DEF LogInv
<1>1. /\ UNCHANGED <<disk, cache, refcnt, hold>> /\ phase = "clear_head"
      /\ lh' = <<>> /\ phase' \in {"none", "done"}
  BY Zenon DEF ClearHead, cacheVars, procVars
<1>2. ASSUME NEW d \in Blocks, d \notin Held
      PROVE  cache[d] \in {NoBlock, disk[d]}
  <2>1. CASE d \notin SeqSet(lh)
    BY <1>2, <2>1, Zenon DEF DataInv
  <2>2. ASSUME NEW i \in 1 .. Len(lh), d = lh[i]
        PROVE  cache[d] \in {NoBlock, disk[d]}
    <3>1. cache[lh[i]] \in {NoBlock, logdata[i]}
      BY <1>1, Zenon DEF DataInv
    <3>2. disk[lh[i]] = logdata[i]
      BY <1>1, InstalledWhole, Zenon
    <3> QED BY <2>2, <3>1, <3>2, Zenon
  <2> QED BY <2>1, <2>2, Zenon DEF SeqSet
<1> QED BY <1>1, <1>2, Zenon DEF DataInv, Held

LEMMA DataReadHead ==
  ASSUME LogInv, Counted, ReadHead, TypeOK', HeadInv'
  PROVE  DataInv'
<1> USE DEF LogInv
<1>1. /\ UNCHANGED <<disk, logdata, cache, refcnt, hold>>
      /\ lh = <<>> /\ lh' = hdr
      /\ phase = "read_head" /\ tail' = 1 /\ sec' = 1 /\ recovering /\ recovering'
      /\ phase' = IF hdr = <<>> THEN "clear_head" ELSE "install"
  BY Zenon DEF ReadHead, HeadInv, ControlInv, diskVars, cacheVars, procVars
<1>2. \A d \in Blocks : d \notin Held' \cup SeqSet(lh')
                        => cache'[d] \in {NoBlock, disk'[d]}
  <2>1. SeqSet(lh) = {} /\ Held' = Held
    BY <1>1 DEF Held, SeqSet
  <2> QED BY <1>1, <2>1, Zenon DEF DataInv
<1>0. \A d \in Blocks : refcnt'[d] > 0 => cache'[d] # NoBlock
  BY <1>1, Zenon DEF DataInv
<1>3. CASE hdr = <<>>
  <2>1. 1 .. Len(lh') = {} /\ phase' = "clear_head"
    BY <1>1, <1>3
  <2> QED BY <1>0, <1>2, <2>1, Zenon DEF DataInv
<1>4. CASE hdr # <<>>
  <2>1. \A i \in 1 .. Len(lh') : Installed(i)'
    BY <1>1, <1>4, SMTT(30) DEF Installed, Sector
  <2>2. \A i \in 1 .. Len(lh') : ~(i < tail')
    BY <1>1
  <2> QED BY <1>0, <1>1, <1>2, <1>4, <2>1, <2>2, ZenonT(30) DEF DataInv
<1> QED BY <1>3, <1>4, Zenon

\* Reads and evictions
LEMMA DataCacheStep ==
  ASSUME LogInv, Counted, NEW b \in Blocks, Evict(b) \/ Read(b), TypeOK'
  PROVE  DataInv'
<1> USE SizeAssumption DEF LogInv
<1>1. /\ UNCHANGED <<disk, logdata, refcnt, hold, lh, phase, tail, sec, recovering>>
      /\ cache' = [cache EXCEPT ![b] = cache'[b]]
      /\ cache'[b] \in {NoBlock, disk[b]}
      /\ refcnt[b] = 0
  <2>1. /\ UNCHANGED <<disk, logdata, refcnt, hold, lh, phase, tail, sec, recovering>>
        /\ \/ refcnt[b] = 0 /\ cache' = [cache EXCEPT ![b] = NoBlock]
           \/ cache[b] = NoBlock /\ cache' = [cache EXCEPT ![b] = disk[b]]
    BY Zenon DEF Evict, Read, diskVars, logVars, procVars, ioVars
  <2>2. cache'[b] \in {NoBlock, disk[b]} /\ cache' = [cache EXCEPT ![b] = cache'[b]]
    BY <2>1, Zenon DEF TypeOK
  <2>3. refcnt[b] \in Nat /\ (cache[b] = NoBlock => ~(refcnt[b] > 0))
    BY Zenon DEF TypeOK, DataInv
  <2>4. refcnt[b] = 0
    BY <2>1, <2>3
  <2> QED BY <2>1, <2>2, <2>4, Zenon
<1>2. \A d \in Blocks : d # b => cache'[d] = cache[d]
  BY <1>1, Zenon DEF TypeOK
<1>0. cache'[b] \in {NoBlock, disk[b]} /\ refcnt[b] = 0 BY <1>1, Zenon
<1>3. ASSUME NEW d \in Blocks, refcnt'[d] > 0 PROVE cache'[d] # NoBlock
  <2>1. refcnt[d] > 0 /\ d # b BY <1>1, <1>3
  <2>2. cache[d] # NoBlock BY <2>1, Zenon DEF DataInv
  <2> QED BY <1>2, <2>1, <2>2, ZenonT(30)
<1>4. ASSUME NEW d \in Blocks, d \notin Held' \cup SeqSet(lh')
      PROVE  cache'[d] \in {NoBlock, disk'[d]}
  <2>1. d \notin Held \cup SeqSet(lh) /\ disk' = disk BY <1>1, <1>4, Zenon DEF Held, SeqSet
  <2>2. cache[d] \in {NoBlock, disk[d]} BY <2>1, Zenon DEF DataInv
  <2> QED BY <1>0, <1>2, <2>1, <2>2, Zenon
<1>5. ASSUME phase \in {"write_log", "write_head"}, NEW i \in 1 .. Len(lh)
      PROVE  Copied(i)'
  <2>1. lh[i] \in Blocks /\ lh[i] # b
    <3>1. ~recovering
      BY <1>5, Zenon DEF ControlInv
    <3>2. refcnt[lh[i]] > 0
      BY <1>5, <3>1, PinnedCached, ZenonT(30)
    <3>3. lh[i] # b
      BY <1>0, <3>2
    <3> QED BY <3>3, LoggedBlocks, Zenon
  <2>2. Copied(i)
    BY <1>5, Zenon DEF DataInv
  <2> QED BY <1>1, <1>2, <2>1, <2>2, ZenonT(30) DEF Copied
<1>6. ASSUME phase \in {"install", "clear_head"}, NEW i \in 1 .. Len(lh)
      PROVE  /\ Installed(i)'
             /\ ~recovering \/ phase = "clear_head" \/ i < tail
                  => cache'[lh[i]] \in {NoBlock, logdata[i]}
             /\ i = tail /\ sec # 1 => cache'[lh[i]] = logdata[i]
  <2>1. lh[i] \in Blocks
    BY LoggedBlocks, ZenonT(30)
  <2>2. Installed(i)'
    <3>1. Installed(i)
      BY <1>6, Zenon DEF DataInv
    <3>2. UNCHANGED <<disk, logdata, lh, phase, tail, sec>>
      BY <1>1, Zenon
    <3> QED BY <3>1, <3>2, Zenon DEF Installed
  <2>3. CASE lh[i] # b
    BY <1>2, <1>6, <2>1, <2>2, <2>3, ZenonT(30) DEF DataInv
  <2>4. CASE lh[i] = b
    <3>1. ~(i = tail /\ sec # 1)
      <4>1. SUFFICES ASSUME i = tail, sec # 1 PROVE FALSE
        OBVIOUS
      <4>2. phase = "install" /\ tail <= Len(lh)
        BY <1>6, <4>1, Zenon DEF HeadInv
      <4>3. refcnt[lh[tail]] >= 1 BY <4>1, <4>2, RefcntPositive, Zenon
      <4> QED BY <1>0, <2>4, <4>1, <4>3
    <3>2. ASSUME ~recovering \/ phase = "clear_head" \/ i < tail
          PROVE  disk[lh[i]] = logdata[i]
      <4>1. phase = "clear_head" \/ i < tail
        <5>1. SUFFICES ASSUME phase = "install", ~recovering, ~(i < tail)
                       PROVE  FALSE
          BY <1>6, <3>2, Zenon
        <5>2. i >= tail
          BY <5>1 DEF TypeOK
        <5>3. refcnt[lh[i]] > 0
          BY <5>1, <5>2, PinnedCached, Zenon
        <5> QED BY <1>0, <2>4, <5>3
      <4> QED BY <1>6, <4>1, InstalledWhole, Zenon
    <3> QED BY <1>0, <2>2, <2>4, <3>1, <3>2, Zenon
  <2> QED BY <2>3, <2>4, Zenon
<1> QED BY <1>1, <1>3, <1>4, <1>5, <1>6, ZenonT(30) DEF DataInv

LEMMA DataStep ==
  ASSUME LogInv, Counted, [Next]_vars, TypeOK', HeadInv'
  PROVE  DataInv'
<1>1. CASE Crash
  <2>1. /\ \A b \in Blocks : refcnt'[b] = 0 /\ cache'[b] = NoBlock
        /\ phase' = "read_head"
    BY <1>1, Zenon DEF Crash
  <2>2. ~(0 > 0)
    BY SMT
  <2> QED BY <2>1, <2>2, Zenon DEF DataInv
<1>2. CASE UNCHANGED vars
  BY <1>2, DataKept, Zenon DEF LogInv, vars, diskVars, cacheVars, logVars, procVars, ioVars
<1>3. CASE IOStep
  BY <1>3, DataWriteLog, DataWriteHead, DataInstall, DataClearHead, DataReadHead, Zenon
  DEF IOStep
<1> QED BY <1>1, <1>2, <1>3, DataProcStep, DataCacheStep, ZenonT(30) DEF Next

-----------------------------------------------------------------------------
(* What may be recycled *)

LEMMA InvNoDirtyEviction ==
  ASSUME LogInv, Counted
  PROVE  NoDirtyEviction
<1> USE DEF LogInv
<1>1. SUFFICES ASSUME ~recovering, NEW b \in Blocks, refcnt[b] = 0
               PROVE  cache[b] \in {NoBlock, disk[b]}
  BY Zenon DEF NoDirtyEviction
<1>2. b \notin Held /\ b \notin Pinned
  BY <1>1, SMTT(30) DEF RefcntExact, Count
<1>3. CASE b \notin SeqSet(lh)
  BY <1>2, <1>3, Zenon DEF DataInv
<1>4. ASSUME NEW i \in 1 .. Len(lh), b = lh[i]
      PROVE  cache[b] \in {NoBlock, disk[b]}
  <2>1. phase = "clear_head" \/ (phase = "install" /\ i < tail)
    BY <1>1, <1>2, <1>4 DEF Pinned, TypeOK
  <2>2. disk[lh[i]] = logdata[i]
    BY <2>1, InstalledWhole, Zenon
  <2> QED BY <1>1, <1>4, <2>1, <2>2, ZenonT(30) DEF DataInv
<1> QED BY <1>3, <1>4, Zenon DEF SeqSet

-----------------------------------------------------------------------------
(* The mapping *)

\* A block of the header is recovered from the log, any other is as it is on
\* disk.
LEMMA OverlayValue ==
  ASSUME NEW h \in Seq(Blocks), Len(h) <= LOGBLOCKS, NoDup(h),
         NEW l \in [1 .. LOGBLOCKS -> Content], NEW d \in [Blocks -> Content]
  PROVE  /\ Overlay(h, l, d) \in [Blocks -> Content]
         /\ \A i \in 1 .. Len(h) : Overlay(h, l, d)[h[i]] = l[i]
         /\ \A b \in Blocks : b \notin SeqSet(h) => Overlay(h, l, d)[b] = d[b]
<1>1. Len(h) \in Nat /\ \A i \in 1 .. Len(h) : h[i] \in Blocks
  OBVIOUS
<1>2. ASSUME NEW b \in SeqSet(h)
      PROVE  /\ (CHOOSE i \in 1 .. Len(h) : h[i] = b) \in 1 .. Len(h)
             /\ h[CHOOSE i \in 1 .. Len(h) : h[i] = b] = b
  BY Zenon DEF SeqSet
<1>3. ASSUME NEW i \in 1 .. Len(h) PROVE Overlay(h, l, d)[h[i]] = l[i]
  <2>1. h[i] \in SeqSet(h) /\ h[i] \in Blocks
    BY <1>1, Zenon DEF SeqSet
  <2>2. (CHOOSE j \in 1 .. Len(h) : h[j] = h[i]) = i
    BY <1>1, <1>2, <2>1, Zenon DEF NoDup
  <2> QED BY <2>1, <2>2, Zenon DEF Overlay
<1>4. ASSUME NEW b \in Blocks PROVE Overlay(h, l, d)[b] \in Content
  <2>1. CASE b \in SeqSet(h)
    BY <1>1, <1>2, <2>1, SizeAssumption DEF Overlay
  <2>2. CASE b \notin SeqSet(h)
    BY <2>2, Zenon DEF Overlay
  <2> QED BY <2>1, <2>2, Zenon
<1> QED BY <1>3, <1>4, Zenon DEF Overlay

LEMMA RecoverableValue ==
  ASSUME LogInv
  PROVE  /\ Recoverable \in [Blocks -> Content]
         /\ \A i \in 1 .. Len(hdr) : Recoverable[hdr[i]] = logdata[i]
         /\ \A b \in Blocks : b \notin SeqSet(hdr) => Recoverable[b] = disk[b]
<1>1. /\ hdr \in Seq(Blocks) /\ Len(hdr) <= LOGBLOCKS /\ NoDup(hdr)
      /\ logdata \in [1 .. LOGBLOCKS -> Content] /\ disk \in [Blocks -> Content]
  BY Zenon DEF LogInv, TypeOK, SpaceInv, HeadInv
<1> QED BY <1>1, OverlayValue, ZenonT(30) DEF Recoverable

\* With an empty header on disk, a crash leaves the disk as it is.
LEMMA RecoverableDisk ==
  ASSUME LogInv, hdr = <<>>
  PROVE  Recoverable = disk
<1>1. SeqSet(<<>>) = {}
  BY DEF SeqSet
<1> QED BY <1>1, Zenon DEF Recoverable, Overlay, LogInv, TypeOK

LEMMA RecoverableKept ==
  ASSUME UNCHANGED <<disk, logdata, hdr>>
  PROVE  Recoverable' = Recoverable
BY Zenon DEF Recoverable

LEMMA VisibleKept ==
  ASSUME Recoverable' = Recoverable, UNCHANGED <<recovering>>,
         ~recovering => \A b \in Blocks : Bread(b)' = Bread(b)
  PROVE  Visible' = Visible
BY Zenon DEF Visible

\* Outside a commit and outside operations, nothing is only in memory.
LEMMA QuietClean ==
  ASSUME LogInv, phase = "none", InOp = {}
  PROVE  Visible = Recoverable
<1> USE DEF LogInv
<1>1. ~recovering /\ lh = <<>> /\ hdr = <<>>
  BY Zenon DEF ControlInv, HeadInv
<1>2. \A p \in Proc : hold[p] = NoBlock
  BY Zenon DEF ControlInv, InOp
<1>3. ASSUME NEW b \in Blocks PROVE Bread(b) = Recoverable[b]
  <2>1. b \notin Held /\ b \notin SeqSet(lh)
    BY <1>1, <1>2, NoBlockAssumption, SMTT(30) DEF Held, SeqSet
  <2>2. cache[b] \in {NoBlock, disk[b]}
    BY <2>1, Zenon DEF DataInv
  <2> QED BY <1>1, <2>2, RecoverableDisk, Zenon DEF Bread
<1> QED BY <1>1, <1>3, RecoverableValue, Zenon DEF Visible

-----------------------------------------------------------------------------
(* Steps *)

LEMMA RefineProcStep ==
  ASSUME LogInv, Counted, NEW p \in Proc, ProcStep(p)
  PROVE  Store!Next \/ UNCHANGED Store!vars
<1> USE DEF LogInv
<1>1. CASE BeginSleep(p) \/ CommitDone(p)
  <2>1. UNCHANGED <<disk, logdata, hdr, cache, recovering>>
    BY <1>1, Zenon DEF BeginSleep, CommitDone, diskVars, cacheVars, ioVars
  <2>2. InOp' = InOp
    BY <1>1, Zenon DEF BeginSleep, CommitDone, Wakeup, InOp, TypeOK
  <2>3. Recoverable' = Recoverable
    BY <2>1, RecoverableKept, Zenon
  <2>4. Visible' = Visible
    BY <2>1, <2>3, VisibleKept, Zenon DEF Bread
  <2> QED BY <2>2, <2>3, <2>4, Zenon DEF Store!vars
<1>2. CASE BeginAdmit(p)
  <2>1. UNCHANGED <<disk, logdata, hdr, cache, recovering>>
    BY <1>2, Zenon DEF BeginAdmit, diskVars, cacheVars, ioVars
  <2>2. InOp' = InOp \cup {p} /\ p \notin InOp
    BY <1>2, Zenon DEF BeginAdmit, InOp, TypeOK
  <2>3. Recoverable' = Recoverable
    BY <2>1, RecoverableKept, Zenon
  <2>4. Visible' = Visible
    BY <2>1, <2>3, VisibleKept, Zenon DEF Bread
  <2>5. InOp = {} => Visible = Recoverable
    <3>1. phase = "none"
      BY <1>2, Zenon DEF BeginAdmit, MustWait, ControlInv
    <3> QED BY <3>1, QuietClean, Zenon
  <2>6. Store!Begin(p)
    BY <2>2, <2>3, <2>4, <2>5, Zenon DEF Store!Begin
  <2> QED BY <2>6, Zenon DEF Store!Next
<1>3. CASE EndOp(p) \/ EndLastOp(p)
  <2>1. UNCHANGED <<disk, logdata, hdr, cache, recovering>>
    BY <1>3, Zenon DEF EndOp, EndLastOp, diskVars, cacheVars, ioVars
  <2>2. InOp' = InOp \ {p} /\ p \in InOp
    BY <1>3, Zenon DEF EndOp, EndLastOp, Wakeup, InOp, TypeOK
  <2>3. Recoverable' = Recoverable
    BY <2>1, RecoverableKept, Zenon
  <2>4. Visible' = Visible
    BY <2>1, <2>3, VisibleKept, Zenon DEF Bread
  <2>5. Store!End(p)
    BY <2>2, <2>3, <2>4, Zenon DEF Store!End
  <2> QED BY <2>5, Zenon DEF Store!Next
<1>4. ASSUME NEW b \in Blocks, NEW c \in Content, Modify(p, b, c)
      PROVE  Store!Next
  <2>1. /\ UNCHANGED <<disk, logdata, hdr, recovering>>
        /\ cache' = [cache EXCEPT ![b] = c]
    BY <1>4, Zenon DEF Modify, diskVars, ioVars
  <2>2. InOp' = InOp /\ p \in InOp
    BY <1>4, Zenon DEF Modify, InOp
  <2>3. ~recovering
    BY <1>4, Zenon DEF Modify, ControlInv
  <2>4. Recoverable' = Recoverable
    BY <2>1, RecoverableKept, Zenon
  <2>5. \A d \in Blocks : Bread(d)' = IF d = b THEN c ELSE Bread(d)
    BY <2>1, ContentAssumption, Zenon DEF Bread, TypeOK
  <2>6. Visible' = [Visible EXCEPT ![b] = c]
    BY <2>1, <2>3, <2>5, Zenon DEF Visible
  <2>7. Store!Write(p, b, c)
    BY <2>2, <2>4, <2>6, Zenon DEF Store!Write
  <2> QED BY <2>7, Zenon DEF Store!Next
<1>5. CASE LogWriteAbsorb(p) \/ LogWriteAppend(p)
  <2>1. UNCHANGED <<disk, logdata, hdr, cache, recovering, pc>>
    BY <1>5, Zenon DEF LogWriteAbsorb, LogWriteAppend, diskVars, cacheVars, ioVars
  <2>2. InOp' = InOp
    BY <2>1, Zenon DEF InOp
  <2>3. Recoverable' = Recoverable
    BY <2>1, RecoverableKept, Zenon
  <2>4. Visible' = Visible
    BY <2>1, <2>3, VisibleKept, Zenon DEF Bread
  <2> QED BY <2>2, <2>3, <2>4, Zenon DEF Store!vars
<1> QED BY <1>1, <1>2, <1>3, <1>4, <1>5, Zenon DEF ProcStep

LEMMA RefineWriteLog ==
  ASSUME LogInv, Counted, LogInv', WriteLog
  PROVE  UNCHANGED Store!vars
<1>1. /\ UNCHANGED <<disk, hdr, cache, recovering, pc>>
      /\ hdr = <<>> /\ hdr' = <<>>
  BY Zenon DEF WriteLog, LogInv, HeadInv, cacheVars, procVars
<1>2. SeqSet(<<>>) = {}
  BY DEF SeqSet
<1>3. Recoverable' = Recoverable
  BY <1>1, <1>2, Zenon DEF Recoverable, Overlay
<1>4. Visible' = Visible
  BY <1>1, <1>3, VisibleKept, Zenon DEF Bread
<1> QED BY <1>1, <1>3, <1>4, Zenon DEF Store!vars, InOp

\* The commit point.
LEMMA RefineWriteHead ==
  ASSUME LogInv, Counted, LogInv', WriteHead
  PROVE  Store!Commit
<1> USE DEF LogInv
<1>1. /\ UNCHANGED <<disk, logdata, cache, recovering, pc, lh>>
      /\ hdr = <<>> /\ hdr' = lh /\ phase = "write_head" /\ ~recovering
  BY Zenon DEF WriteHead, HeadInv, ControlInv, cacheVars, procVars, logVars
<1>2. InOp = {} /\ InOp' = InOp /\ \A p \in Proc : hold[p] = NoBlock
  BY <1>1, Zenon DEF ControlInv, InOp
<1>3. /\ Recoverable' \in [Blocks -> Content]
      /\ \A i \in 1 .. Len(lh) : Recoverable'[lh[i]] = logdata[i]
      /\ \A b \in Blocks : b \notin SeqSet(lh) => Recoverable'[b] = disk[b]
  <2>1. Recoverable' = Overlay(lh, logdata, disk)
    BY <1>1, Zenon DEF Recoverable
  <2>2. /\ lh \in Seq(Blocks) /\ Len(lh) <= LOGBLOCKS /\ NoDup(lh)
        /\ logdata \in [1 .. LOGBLOCKS -> Content] /\ disk \in [Blocks -> Content]
    BY Zenon DEF Counted, TypeOK, HeadInv
  <2> DEFINE new == Overlay(lh, logdata, disk)
  <2>3. /\ new \in [Blocks -> Content]
        /\ \A i \in 1 .. Len(lh) : new[lh[i]] = logdata[i]
        /\ \A b \in Blocks : b \notin SeqSet(lh) => new[b] = disk[b]
    BY <2>2, OverlayValue, Zenon
  <2> HIDE DEF new
  <2>4. Recoverable' = new
    BY <2>1, Zenon DEF new
  <2> QED BY <2>3, <2>4, Zenon
<1>4. ASSUME NEW b \in Blocks PROVE Recoverable'[b] = Bread(b)
  <2>1. CASE b \notin SeqSet(lh)
    <3>1. cache[b] \in {NoBlock, disk[b]}
      BY <1>2, <2>1, NoBlockAssumption, ZenonT(30) DEF DataInv, Held
    <3> QED BY <1>3, <2>1, <3>1, Zenon DEF Bread
  <2>2. ASSUME NEW i \in 1 .. Len(lh), b = lh[i] PROVE Recoverable'[b] = Bread(b)
    <3>1. cache[b] = logdata[i]
      BY <1>1, <2>2, CopiedWhole, Zenon
    <3>2. cache[b] # NoBlock
      BY <1>1, <2>2, PinnedCached, Zenon
    <3> QED BY <1>3, <2>2, <3>1, <3>2, Zenon DEF Bread
  <2> QED BY <2>1, <2>2, Zenon DEF SeqSet
<1>5. Recoverable' = Visible
  BY <1>1, <1>3, <1>4, Zenon DEF Visible
<1>6. Visible' = Visible
  BY <1>1, Zenon DEF Visible, Bread
<1> QED BY <1>2, <1>5, <1>6, Zenon DEF Store!Commit

LEMMA RefineInstall ==
  ASSUME LogInv, Counted, LogInv', Install
  PROVE  UNCHANGED Store!vars
<1> USE DEF LogInv
<1> DEFINE b == lh[tail]
<1>1. /\ UNCHANGED <<logdata, hdr, lh, recovering, pc>>
      /\ phase = "install" /\ hdr = lh
      /\ cache' = [cache EXCEPT ![b] = IF sec = 1 THEN logdata[tail] ELSE cache[b]]
      /\ disk' = [disk EXCEPT ![b][sec] = logdata[tail][sec]]
  BY Zenon DEF Install, HeadInv, logVars, procVars
<1>2. tail \in 1 .. Len(lh) /\ b \in Blocks /\ b \in SeqSet(hdr)
  <2>1. phase = "install" /\ hdr = lh
    BY <1>1, Zenon
  <2>2. tail \in 1 .. Len(lh)
    BY <2>1, SMTT(30) DEF HeadInv, TypeOK
  <2> QED BY <2>1, <2>2, LoggedBlocks, Zenon
<1>3. \A d \in Blocks : d # b => cache'[d] = cache[d] /\ disk'[d] = disk[d]
  BY <1>1, <1>2, Zenon DEF TypeOK
<1>4. Recoverable' = Recoverable
  BY <1>1, <1>2, <1>3 DEF Recoverable, Overlay
<1>5. ASSUME ~recovering, NEW d \in Blocks PROVE Bread(d)' = Bread(d)
  <2>1. CASE d # b
    BY <1>3, <2>1, Zenon DEF Bread
  <2>2. CASE d = b
    <3>1. cache[b] # NoBlock /\ cache[b] = logdata[tail]
      <4>1. cache[b] # NoBlock
        <5>1. tail >= tail
          BY <1>2
        <5> QED BY <1>1, <1>2, <1>5, <5>1, PinnedCached, ZenonT(30)
      <4>2. cache[b] \in {NoBlock, logdata[tail]}
        BY <1>1, <1>2, <1>5, Zenon DEF DataInv
      <4> QED BY <4>1, <4>2, ZenonT(30)
    <3>2. cache'[b] = logdata[tail]
      BY <1>1, <1>2, <3>1, Zenon DEF TypeOK
    <3> QED BY <2>2, <3>1, <3>2, Zenon DEF Bread
  <2> QED BY <2>1, <2>2, Zenon
<1>6. Visible' = Visible
  BY <1>1, <1>4, <1>5, VisibleKept, Zenon
<1> QED BY <1>1, <1>4, <1>6, Zenon DEF Store!vars, InOp

LEMMA RefineClearHead ==
  ASSUME LogInv, Counted, LogInv', ClearHead
  PROVE  UNCHANGED Store!vars
<1> USE DEF LogInv
<1>1. /\ UNCHANGED <<disk, logdata, cache, pc>> /\ recovering' = FALSE
      /\ hdr' = <<>> /\ hdr = lh /\ phase = "clear_head"
  BY Zenon DEF ClearHead, HeadInv, cacheVars, procVars
<1>2. InOp = {} /\ \A p \in Proc : hold[p] = NoBlock
  BY <1>1, Zenon DEF ControlInv, InOp
<1>3. Recoverable' = disk /\ Recoverable \in [Blocks -> Content]
  <2>1. SeqSet(<<>>) = {}
    BY SMTT(30) DEF SeqSet
  <2> QED BY <1>1, <2>1, RecoverableValue, Zenon DEF Recoverable, Overlay, TypeOK
<1>4. ASSUME NEW d \in Blocks
      PROVE  Recoverable[d] = disk[d] /\ Bread(d) = disk[d] /\ Bread(d)' = disk[d]
  <2>1. CASE d \notin SeqSet(lh)
    <3>1. cache[d] \in {NoBlock, disk[d]}
      <4>1. d \notin Held BY <1>2, NoBlockAssumption, Zenon DEF Held
      <4> QED BY <2>1, <4>1, Zenon DEF DataInv
    <3> QED BY <1>1, <2>1, <3>1, RecoverableValue, Zenon DEF Bread
  <2>2. ASSUME NEW i \in 1 .. Len(lh), d = lh[i]
        PROVE  Recoverable[d] = disk[d] /\ Bread(d) = disk[d] /\ Bread(d)' = disk[d]
    <3>1. disk[d] = logdata[i]
      BY <1>1, <2>2, InstalledWhole, Zenon
    <3>2. cache[d] \in {NoBlock, logdata[i]}
      BY <1>1, <2>2, Zenon DEF DataInv
    <3>3. Recoverable[d] = logdata[i]
      BY <1>1, <2>2, RecoverableValue, Zenon
    <3> QED BY <1>1, <3>1, <3>2, <3>3, Zenon DEF Bread
  <2> QED BY <2>1, <2>2, Zenon DEF SeqSet
<1>5. Recoverable' = Recoverable
  BY <1>3, <1>4 DEF TypeOK
<1>6. Visible' = Visible
  BY <1>1, <1>3, <1>4, <1>5, Zenon DEF Visible
<1> QED BY <1>1, <1>5, <1>6, Zenon DEF Store!vars, InOp

LEMMA RefineCacheStep ==
  ASSUME LogInv, Counted, NEW b \in Blocks, Evict(b) \/ Read(b)
  PROVE  UNCHANGED Store!vars
<1> USE DEF LogInv
<1>1. UNCHANGED <<disk, logdata, hdr, pc, recovering>>
  BY Zenon DEF Evict, Read, diskVars, procVars, ioVars
<1>2. Recoverable' = Recoverable
  BY <1>1, RecoverableKept, Zenon
<1>3. ASSUME ~recovering, NEW d \in Blocks PROVE Bread(d)' = Bread(d)
  <2>1. CASE Evict(b)
    <3>1. cache[b] \in {NoBlock, disk[b]}
      BY <1>3, <2>1, InvNoDirtyEviction, Zenon DEF Evict, NoDirtyEviction
    <3> QED BY <1>1, <2>1, <3>1, Zenon DEF Evict, Bread, TypeOK
  <2>2. CASE Read(b)
    BY <1>1, <2>2, ContentAssumption, Zenon DEF Read, Bread, TypeOK
  <2> QED BY <2>1, <2>2, Zenon
<1>4. Visible' = Visible
  BY <1>1, <1>2, <1>3, VisibleKept, Zenon
<1> QED BY <1>1, <1>2, <1>4, Zenon DEF Store!vars, InOp

LEMMA RefineCrash ==
  ASSUME LogInv, Counted, Crash
  PROVE  Store!Crash
<1>1. Recoverable' = Recoverable
  BY RecoverableKept, Zenon DEF Crash, diskVars
<1>2. Visible' = Recoverable' /\ InOp' = {}
  BY Zenon DEF Crash, Visible, InOp
<1> QED BY <1>1, <1>2, Zenon DEF Store!Crash

LEMMA RefineStep ==
  ASSUME LogInv, Counted, LogInv', [Next]_vars
  PROVE  [Store!Next]_(Store!vars)
<1>1. CASE ReadHead
  <2>1. UNCHANGED <<disk, logdata, hdr, cache, recovering, pc>>
    BY <1>1, Zenon DEF ReadHead, diskVars, cacheVars, procVars
  <2>2. Recoverable' = Recoverable
    BY <2>1, RecoverableKept, Zenon
  <2>3. Visible' = Visible
    BY <2>1, <2>2, VisibleKept, Zenon DEF Bread
  <2> QED BY <2>1, <2>2, <2>3, Zenon DEF Store!vars, InOp
<1>2. CASE IOStep
  BY <1>1, <1>2, RefineWriteLog, RefineWriteHead, RefineInstall, RefineClearHead, Zenon
  DEF IOStep, Store!Next
<1>3. CASE Crash
  BY <1>3, RefineCrash, Zenon DEF Store!Next
<1>4. CASE UNCHANGED vars
  <2>1. UNCHANGED <<disk, logdata, hdr, cache, recovering, pc>>
    BY <1>4, Zenon DEF vars, diskVars, cacheVars, procVars, ioVars
  <2>2. Recoverable' = Recoverable
    BY <2>1, RecoverableKept, Zenon
  <2>3. Visible' = Visible
    BY <2>1, <2>2, VisibleKept, Zenon DEF Bread
  <2> QED BY <2>1, <2>2, <2>3, Zenon DEF Store!vars, InOp
<1> QED BY <1>2, <1>3, <1>4, RefineProcStep, RefineCacheStep, Zenon DEF Next
-----------------------------------------------------------------------------
(* Lemmas that count *)

INSTANCE FiniteSetTheorems

-----------------------------------------------------------------------------
(* Operations *)

\* log_outstanding is at least one while a process is in an operation.
LEMMA OutstandingCounts ==
  ASSUME TypeOK, ControlInv
  PROVE  /\ IsFiniteSet(InOp)
         /\ \A p \in Proc : pc[p] = "op" => outstanding >= 1
         /\ \A p \in Proc : pc[p] = "op" /\ outstanding = 1 => InOp = {p}
<1>1. IsFiniteSet(InOp)
  BY ProcAssumption, FS_Subset, Zenon DEF InOp
<1>2. ASSUME NEW p \in Proc, pc[p] = "op"
      PROVE  outstanding >= 1 /\ (outstanding = 1 => InOp = {p})
  <2>1. p \in InOp
    BY <1>2, Zenon DEF InOp
  <2>2. Cardinality(InOp) \in Nat /\ Cardinality(InOp) # 0
    BY <1>1, <2>1, FS_CardinalityType, FS_EmptySet, Zenon
  <2>3. outstanding = 1 => \E x : InOp = {x}
    BY <1>1, FS_Singleton, Zenon DEF ControlInv
  <2> QED BY <2>1, <2>2, <2>3 DEF ControlInv
<1> QED BY <1>1, <1>2, Zenon

LEMMA LogLength ==
  ASSUME TypeOK, SpaceInv
  PROVE  /\ IsFiniteSet(Reserved) /\ Cardinality(Reserved) \in Nat
         /\ Len(lh) <= LOGBLOCKS
<1>1. IsFiniteSet(InOp \X (1 .. MAXOPBLOCKS))
  <2>1. IsFiniteSet(InOp)
    BY ProcAssumption, FS_Subset, Zenon DEF InOp
  <2>2. IsFiniteSet(1 .. MAXOPBLOCKS)
    BY SizeAssumption, FS_Interval, SMTT(30)
  <2> QED BY <2>1, <2>2, FS_Product, ZenonT(30)
<1>2. IsFiniteSet(Reserved)
  BY <1>1, FS_Subset, Zenon DEF Reserved
<1>3. Cardinality(Reserved) \in Nat
  BY <1>2, FS_CardinalityType, Zenon
<1>4. Len(lh) \in Nat /\ LOGBLOCKS \in Nat /\ Len(lh) + Cardinality(Reserved) <= LOGBLOCKS
  <2>1. lh \in Seq(Blocks) /\ Len(lh) + Cardinality(Reserved) <= LOGBLOCKS
    BY Zenon DEF SpaceInv, TypeOK
  <2> QED BY <2>1, SizeAssumption
<1>5. Len(lh) <= LOGBLOCKS
  BY <1>3, <1>4
<1> QED BY <1>2, <1>3, <1>5, Zenon

LEMMA ControlStep ==
  ASSUME LogInv, [Next]_vars
  PROVE  ControlInv'
<1> USE DEF LogInv
<1>0. IsFiniteSet(InOp) /\ Cardinality(InOp) \in Nat
  BY OutstandingCounts, FS_CardinalityType, ZenonT(30)
<1>1. ASSUME NEW p \in Proc, BeginSleep(p) PROVE ControlInv'
  <2>1. InOp' = InOp
    BY <1>1, Zenon DEF BeginSleep, TypeOK, InOp
  <2> QED BY <1>1, <2>1, ZenonT(30) DEF BeginSleep, TypeOK, ControlInv, logVars, ioVars
<1>2. ASSUME NEW p \in Proc, BeginAdmit(p) PROVE ControlInv'
  <2>1. InOp' = InOp \cup {p} /\ p \notin InOp
    BY <1>2, Zenon DEF BeginAdmit, TypeOK, InOp
  <2>2. outstanding' = Cardinality(InOp')
    BY <1>0, <1>2, <2>1, FS_AddElement, ZenonT(30) DEF BeginAdmit, ControlInv
  <2> QED BY <1>2, <2>2, ZenonT(30) DEF BeginAdmit, MustWait, TypeOK, ControlInv, ioVars
<1>3. ASSUME NEW p \in Proc, EndOp(p) PROVE ControlInv'
  <2>1. InOp' = InOp \ {p} /\ p \in InOp
    BY <1>3, Zenon DEF EndOp, Wakeup, TypeOK, InOp
  <2>2. outstanding' = Cardinality(InOp')
    BY <1>0, <1>3, <2>1, FS_RemoveElement, ZenonT(30) DEF EndOp, ControlInv
  <2> QED BY <1>3, <2>1, <2>2, ZenonT(30) DEF EndOp, Wakeup, TypeOK, ControlInv, ioVars
<1>4. ASSUME NEW p \in Proc, EndLastOp(p) PROVE ControlInv'
  <2>1. InOp = {p}
    BY <1>4, OutstandingCounts, ZenonT(30) DEF EndLastOp
  <2>2. InOp' = {}
    BY <1>4, <2>1, ZenonT(30) DEF EndLastOp, TypeOK, InOp
  <2>3. outstanding' = Cardinality(InOp')
    BY <1>4, <2>2, FS_EmptySet, Zenon DEF EndLastOp
  <2>4. ~committing /\ ~recovering
    BY <1>4, <2>1, ZenonT(30) DEF EndLastOp, ControlInv
  <2> QED BY <1>4, <2>2, <2>3, <2>4, ZenonT(30) DEF EndLastOp, TypeOK, ControlInv
<1>5. ASSUME NEW p \in Proc, CommitDone(p) PROVE ControlInv'
  <2>1. InOp' = InOp /\ InOp = {}
    BY <1>5, ZenonT(30) DEF CommitDone, Wakeup, TypeOK, ControlInv, InOp
  <2> QED BY <1>5, <2>1, ZenonT(30) DEF CommitDone, Wakeup, TypeOK, ControlInv
<1>6. ASSUME NEW p \in Proc, NEW b \in Blocks, NEW c \in Content, Modify(p, b, c)
      PROVE ControlInv'
  <2>1. InOp' = InOp
    BY <1>6, ZenonT(30) DEF Modify, InOp
  <2> QED BY <1>6, <2>1, ZenonT(30) DEF Modify, TypeOK, ControlInv, logVars, ioVars
<1>7. ASSUME NEW p \in Proc, LogWriteAbsorb(p) \/ LogWriteAppend(p)
      PROVE ControlInv'
  <2>1. InOp' = InOp
    BY <1>7, Zenon DEF LogWriteAbsorb, LogWriteAppend, InOp
  <2>2. /\ hold' = [hold EXCEPT ![p] = NoBlock]
        /\ UNCHANGED <<outstanding, committing, pc, phase, recovering>>
    BY <1>7, Zenon DEF LogWriteAbsorb, LogWriteAppend, logVars, ioVars
  <2> QED BY <2>1, <2>2, ZenonT(30) DEF TypeOK, ControlInv
<1>8. CASE IOStep
  <2>1. InOp' = InOp
    BY <1>8, ZenonT(30) DEF IOStep, WriteLog, WriteHead, Install, ClearHead, ReadHead,
                InOp, procVars
  <2>2. CASE WriteLog
    BY <2>1, <2>2, ZenonT(30) DEF WriteLog, Advance, ControlInv, TypeOK, logVars, procVars
  <2>3. CASE WriteHead
    BY <2>1, <2>3, ZenonT(30) DEF WriteHead, ControlInv, TypeOK, logVars, procVars
  <2>4. CASE Install
    <3>1. Advance("clear_head")
      BY <2>4, Zenon DEF Install
    <3> QED BY <2>1, <2>4, <3>1, ZenonT(30)
            DEF Install, Advance, ControlInv, TypeOK, logVars, procVars
  <2>5. CASE ClearHead
    BY <2>1, <2>5, ZenonT(30) DEF ClearHead, ControlInv, TypeOK, procVars
  <2>6. CASE ReadHead
    BY <2>1, <2>6, ZenonT(30) DEF ReadHead, ControlInv, TypeOK, procVars
  <2> QED BY <1>8, <2>2, <2>3, <2>4, <2>5, <2>6, ZenonT(30) DEF IOStep
<1>9. ASSUME NEW b \in Blocks, Evict(b) \/ Read(b) PROVE ControlInv'
  <2>1. UNCHANGED <<outstanding, committing, pc, hold, phase, recovering>>
    BY <1>9, Zenon DEF Evict, Read, logVars, procVars, ioVars
  <2>2. InOp' = InOp
    BY <2>1, Zenon DEF InOp
  <2> QED BY <2>1, <2>2, ZenonT(30) DEF ControlInv
<1>10. CASE Crash
  <2>1. InOp' = {}
    BY <1>10, Zenon DEF Crash, InOp
  <2> QED BY <1>10, <2>1, FS_EmptySet, ZenonT(30) DEF Crash, ControlInv
<1>11. CASE UNCHANGED vars
  BY <1>11, ZenonT(30) DEF vars, ControlInv, InOp, logVars, procVars, ioVars
<1> QED
  BY <1>1, <1>2, <1>3, <1>4, <1>5, <1>6, <1>7, <1>8, <1>9, <1>10, <1>11, SMTT(30)
  DEF Next, ProcStep

-----------------------------------------------------------------------------
(* Space in the log *)

LEMMA Above ==
  ASSUME NEW n \in Nat, NEW a \in Nat, NEW b \in Nat, n > b, a <= b
  PROVE  n > a
OBVIOUS

\* Operations that end, or write more, hold less of the log in reserve.
LEMMA ReservedShrinks ==
  ASSUME TypeOK, SpaceInv, TypeOK',
         \A q \in Proc : pc'[q] = "op" => pc[q] = "op" /\ wrote[q] \subseteq wrote'[q]
  PROVE  Reserved' \subseteq Reserved
<1>1. ASSUME NEW c \in Reserved' PROVE c \in Reserved
  <2>1. /\ c \in InOp' \X (1 .. MAXOPBLOCKS)
        /\ c[2] > Cardinality(wrote'[c[1]])
    BY Zenon DEF Reserved
  <2>2. PICK q \in InOp', n \in 1 .. MAXOPBLOCKS : c = <<q, n>>
    BY <2>1
  <2>3. c[1] = q /\ c[2] = n
    BY <2>2, Zenon
  <2>4. n > Cardinality(wrote'[q])
    BY <2>1, <2>3, Zenon
  <2>5. q \in Proc /\ pc'[q] = "op"
    BY Zenon DEF InOp
  <2>6. q \in InOp /\ wrote[q] \subseteq wrote'[q]
    BY <2>5, Zenon DEF InOp
  <2>7. wrote'[q] \subseteq Blocks
    BY <2>5, Zenon DEF TypeOK
  <2>8. IsFiniteSet(wrote'[q])
    BY <2>7, BlocksAssumption, FS_Subset, Zenon
  <2>9. /\ Cardinality(wrote[q]) <= Cardinality(wrote'[q])
        /\ Cardinality(wrote[q]) \in Nat /\ Cardinality(wrote'[q]) \in Nat
    BY <2>6, <2>8, FS_Subset, FS_CardinalityType, ZenonT(30)
  <2>10. n \in Nat
    BY SizeAssumption
  <2>11. n > Cardinality(wrote[q])
    BY <2>4, <2>9, <2>10, Above, Zenon
  <2>12. c \in InOp \X (1 .. MAXOPBLOCKS)
    BY <2>2, <2>6, Zenon
  <2> QED BY <2>3, <2>11, <2>12, Zenon DEF Reserved
<1> QED BY <1>1, Zenon

\* So they leave the space invariant in place if they add nothing to the log.
LEMMA SpaceKept ==
  ASSUME LogInv, TypeOK', UNCHANGED <<lh, hdr>>,
         \A q \in Proc : pc'[q] = "op" => pc[q] = "op" /\ wrote[q] \subseteq wrote'[q]
  PROVE  Len(lh') + Cardinality(Reserved') <= LOGBLOCKS
<1>1. Reserved' \subseteq Reserved
  <2>1. TypeOK /\ SpaceInv
    BY ZenonT(30) DEF LogInv
  <2> QED BY <2>1, ReservedShrinks, ZenonT(30)
<1>2. /\ IsFiniteSet(Reserved) /\ Cardinality(Reserved) \in Nat
      /\ Len(lh) + Cardinality(Reserved) <= LOGBLOCKS
  BY LogLength, Zenon DEF LogInv, SpaceInv
<1>3. Cardinality(Reserved') \in Nat /\ Cardinality(Reserved') <= Cardinality(Reserved)
  BY <1>1, <1>2, FS_Subset, FS_CardinalityType, Zenon
<1>4. lh \in Seq(Blocks) /\ lh' = lh
  BY Zenon DEF LogInv, TypeOK
<1>5. Len(lh) \in Nat /\ Len(lh') = Len(lh) /\ LOGBLOCKS \in Nat
  BY <1>4, SizeAssumption
<1> QED BY <1>2, <1>3, <1>5

\* While nobody is in an operation, nothing is reserved or written.
LEMMA NoneReserved ==
  ASSUME InOp = {}
  PROVE  Reserved = {} /\ Cardinality(Reserved) = 0
BY FS_EmptySet, Zenon DEF Reserved

LEMMA SpaceStep ==
  ASSUME LogInv, [Next]_vars, TypeOK', ControlInv'
  PROVE  SpaceInv'
<1> USE SizeAssumption DEF LogInv
<1>1. ASSUME NEW p \in Proc, BeginSleep(p) PROVE SpaceInv'
  <2>1. UNCHANGED <<lh, hdr, wrote, hold>>
    BY <1>1, Zenon DEF BeginSleep, diskVars, logVars
  <2>2. \A q \in Proc : pc'[q] = "op" => pc[q] = "op"
    BY <1>1, Zenon DEF BeginSleep, TypeOK
  <2>3. Len(lh') + Cardinality(Reserved') <= LOGBLOCKS
    BY <2>1, <2>2, SpaceKept, ZenonT(30)
  <2>4. \A q \in Proc : Claim(q)' = Claim(q)
    BY <2>1, Zenon DEF Claim
  <2>5. \A q \in Proc : pc'[q] # "op" => pc[q] # "op"
    BY <1>1, ZenonT(30) DEF BeginSleep, TypeOK
  <2> QED BY <2>1, <2>3, <2>4, <2>5, Zenon DEF SpaceInv
<1>2. ASSUME NEW p \in Proc, BeginAdmit(p) PROVE SpaceInv'
  <2>1. UNCHANGED <<lh, hdr, wrote, hold>>
    BY <1>2, Zenon DEF BeginAdmit, diskVars
  <2>2. IsFiniteSet(InOp') /\ IsFiniteSet(1 .. MAXOPBLOCKS)
    BY ProcAssumption, FS_Subset, FS_Interval DEF InOp
  <2>3. /\ IsFiniteSet(InOp' \X (1 .. MAXOPBLOCKS))
        /\ Cardinality(InOp' \X (1 .. MAXOPBLOCKS)) =
             Cardinality(InOp') * Cardinality(1 .. MAXOPBLOCKS)
    BY <2>2, FS_Product, Zenon
  <2>4. Cardinality(1 .. MAXOPBLOCKS) = MAXOPBLOCKS
    BY FS_Interval, SMTT(30)
  <2>5. Cardinality(InOp') = outstanding + 1
    BY <1>2, Zenon DEF BeginAdmit, ControlInv
  <2>6. Reserved' \subseteq InOp' \X (1 .. MAXOPBLOCKS)
    BY Zenon DEF Reserved
  <2>7. /\ Cardinality(Reserved') \in Nat
        /\ Cardinality(Reserved') <= (outstanding + 1) * MAXOPBLOCKS
    <3>1. /\ Cardinality(Reserved') \in Nat
          /\ Cardinality(Reserved') <= Cardinality(InOp' \X (1 .. MAXOPBLOCKS))
      BY <2>3, <2>6, FS_Subset, FS_CardinalityType, ZenonT(30)
    <3> QED BY <2>3, <2>4, <2>5, <3>1, Zenon
  <2>8. /\ Len(lh) + (outstanding + 1) * MAXOPBLOCKS <= LOGBLOCKS
        /\ Len(lh) \in Nat /\ Len(lh') = Len(lh) /\ (outstanding + 1) * MAXOPBLOCKS \in Nat
    <3>1. lh \in Seq(Blocks) /\ outstanding \in Nat
      BY Zenon DEF TypeOK
    <3>2. Len(lh) \in Nat /\ (outstanding + 1) * MAXOPBLOCKS \in Nat
      BY <3>1
    <3>3. ~(Len(lh) + (outstanding + 1) * MAXOPBLOCKS > LOGBLOCKS)
      BY <1>2, Zenon DEF BeginAdmit, MustWait
    <3> QED BY <2>1, <3>2, <3>3
  <2>9. Len(lh') + Cardinality(Reserved') <= LOGBLOCKS
    BY <2>7, <2>8
  <2>10. \A q \in Proc : Claim(q)' = Claim(q)
    BY <2>1, Zenon DEF Claim
  <2>11. \A q \in Proc : pc'[q] # "op" => pc[q] # "op"
    BY <1>2, Zenon DEF BeginAdmit, TypeOK
  <2> QED BY <2>1, <2>9, <2>10, <2>11, Zenon DEF SpaceInv
<1>3. ASSUME NEW p \in Proc, EndOp(p) \/ EndLastOp(p) PROVE SpaceInv'
  <2>1. /\ UNCHANGED <<lh, hdr, hold>>
        /\ wrote' = [wrote EXCEPT ![p] = {}]
        /\ hold[p] = NoBlock
    BY <1>3, Zenon DEF EndOp, EndLastOp, diskVars
  <2>2. \A q \in Proc : pc'[q] = "op" => pc[q] = "op" /\ q # p
    BY <1>3, Zenon DEF EndOp, EndLastOp, Wakeup, TypeOK
  <2>3. Len(lh') + Cardinality(Reserved') <= LOGBLOCKS
    BY <2>1, <2>2, SpaceKept, ZenonT(30) DEF TypeOK
  <2>4. \A q \in Proc : Claim(q)' = IF q = p THEN {} ELSE Claim(q)
    BY <2>1, Zenon DEF Claim, TypeOK
  <2>5. \A q \in Proc : Cardinality(Claim(q)') <= OPBLOCKS
    <3>1. Cardinality({}) <= OPBLOCKS
      BY FS_EmptySet
    <3>2. ASSUME NEW q \in Proc PROVE Cardinality(Claim(q)') <= OPBLOCKS
      <4>1. CASE q = p
        BY <2>4, <3>1, <4>1, Zenon
      <4>2. CASE q # p
        BY <2>4, <4>2, Zenon DEF SpaceInv
      <4> QED BY <4>1, <4>2, Zenon
    <3> QED BY <3>2, Zenon
  <2>6. \A q \in Proc : pc'[q] # "op" => q = p \/ pc[q] # "op"
    BY <1>3, Zenon DEF EndOp, EndLastOp, Wakeup, TypeOK
  <2>7. SeqSet(lh)' = SeqSet(lh)
    BY <2>1, Zenon DEF SeqSet
  <2>8. \A q \in Proc : wrote'[q] = {} \/ (q # p /\ wrote'[q] = wrote[q])
    BY <2>1, Zenon DEF TypeOK
  <2>9. \A q \in Proc : wrote'[q] \subseteq SeqSet(lh)'
    BY <2>7, <2>8, Zenon DEF SpaceInv
  <2>10. \A q \in Proc : pc'[q] # "op" => wrote'[q] = {}
    BY <2>6, <2>8, Zenon DEF SpaceInv
  <2>11. Len(hdr') <= LOGBLOCKS
    BY <2>1, ZenonT(30) DEF SpaceInv
  <2> QED BY <2>3, <2>5, <2>9, <2>10, <2>11, ZenonT(30) DEF SpaceInv
<1>4. ASSUME NEW p \in Proc, CommitDone(p) PROVE SpaceInv'
  <2>1. UNCHANGED <<lh, hdr, wrote, hold>>
    BY <1>4, Zenon DEF CommitDone, diskVars
  <2>2. \A q \in Proc : (pc'[q] = "op") = (pc[q] = "op")
    BY <1>4, Zenon DEF CommitDone, Wakeup, TypeOK
  <2>3. Len(lh') + Cardinality(Reserved') <= LOGBLOCKS
    BY <2>1, <2>2, SpaceKept, ZenonT(30)
  <2>4. (\A q \in Proc : Claim(q)' = Claim(q)) /\ SeqSet(lh)' = SeqSet(lh)
    BY <2>1, Zenon DEF Claim, SeqSet
  <2>5. \A q \in Proc : Cardinality(Claim(q)') <= OPBLOCKS
    BY <2>4, Zenon DEF SpaceInv
  <2>6. \A q \in Proc : wrote'[q] \subseteq SeqSet(lh)' /\ (pc'[q] # "op" => wrote'[q] = {})
    BY <2>1, <2>2, <2>4, Zenon DEF SpaceInv
  <2>7. Len(hdr') <= LOGBLOCKS
    BY <2>1, ZenonT(30) DEF SpaceInv
  <2> QED BY <2>3, <2>5, <2>6, <2>7, ZenonT(30) DEF SpaceInv
<1>5. ASSUME NEW p \in Proc, NEW b \in Blocks, NEW c \in Content, Modify(p, b, c)
      PROVE SpaceInv'
  <2>1. /\ UNCHANGED <<lh, hdr, wrote, pc>>
        /\ hold' = [hold EXCEPT ![p] = b] /\ hold[p] = NoBlock
    BY <1>5, ZenonT(30) DEF Modify, diskVars, logVars
  <2>2. Len(lh') + Cardinality(Reserved') <= LOGBLOCKS
    BY <2>1, SpaceKept, ZenonT(30)
  <2>3. \A q \in Proc : Claim(q)' = IF q = p THEN Claim(p) \cup {b} ELSE Claim(q)
    <3>1. \A q \in Proc : hold'[q] = IF q = p THEN b ELSE hold[q]
      BY <2>1, Zenon DEF TypeOK
    <3>2. b # NoBlock
      BY NoBlockAssumption, Zenon
    <3> QED BY <2>1, <3>1, <3>2 DEF Claim
  <2>4. Claim(p) = wrote[p] /\ IsFiniteSet(wrote[p])
    <3>1. Claim(p) = wrote[p]
      BY <2>1, ZenonT(30) DEF Claim
    <3>2. wrote[p] \subseteq Blocks
      BY DEF TypeOK
    <3> QED BY <3>1, <3>2, BlocksAssumption, FS_Subset, ZenonT(30)
  <2>5. b \in wrote[p] \/ Cardinality(wrote[p]) < OPBLOCKS
    BY <1>5, ZenonT(30) DEF Modify
  <2>6. Cardinality(Claim(p) \cup {b}) <= OPBLOCKS
    <3>1. /\ Cardinality(wrote[p]) \in Nat
          /\ Cardinality(wrote[p] \cup {b}) =
               IF b \in wrote[p] THEN Cardinality(wrote[p])
                                ELSE Cardinality(wrote[p]) + 1
      BY <2>4, FS_AddElement, FS_CardinalityType, ZenonT(30)
    <3>2. Cardinality(wrote[p]) <= OPBLOCKS
      BY <2>4, ZenonT(30) DEF SpaceInv
    <3> QED BY <2>4, <2>5, <3>1, <3>2
  <2>7. \A q \in Proc : Cardinality(Claim(q)') <= OPBLOCKS
    BY <2>3, <2>6, ZenonT(30) DEF SpaceInv
  <2>8. SeqSet(lh)' = SeqSet(lh)
    BY <2>1, Zenon DEF SeqSet
  <2>9. \A q \in Proc : wrote'[q] \subseteq SeqSet(lh)' /\ (pc'[q] # "op" => wrote'[q] = {})
    BY <2>1, <2>8, Zenon DEF SpaceInv
  <2>10. Len(hdr') <= LOGBLOCKS
    BY <2>1, ZenonT(30) DEF SpaceInv
  <2> QED BY <2>2, <2>7, <2>9, <2>10, ZenonT(30) DEF SpaceInv
<1>6. ASSUME NEW p \in Proc, LogWriteAbsorb(p) PROVE SpaceInv'
  <2>1. /\ UNCHANGED <<lh, hdr, pc>>
        /\ hold' = [hold EXCEPT ![p] = NoBlock]
        /\ wrote' = [wrote EXCEPT ![p] = wrote[p] \cup {hold[p]}]
        /\ hold[p] \in SeqSet(lh)
    BY <1>6, Zenon DEF LogWriteAbsorb, diskVars, logVars
  <2>2. Len(lh') + Cardinality(Reserved') <= LOGBLOCKS
    BY <2>1, SpaceKept, ZenonT(30) DEF TypeOK
  <2>3. hold[p] # NoBlock
    <3>1. PICK i \in 1 .. Len(lh) : hold[p] = lh[i]
      BY <2>1, Zenon DEF SeqSet
    <3>2. lh \in Seq(Blocks)
      BY Zenon DEF TypeOK
    <3>3. hold[p] \in Blocks
      BY <3>1, <3>2, SMTT(30)
    <3> QED BY <3>3, NoBlockAssumption, Zenon
  <2>4. \A q \in Proc : Claim(q)' = Claim(q)
    <3>1. \A q \in Proc : /\ hold'[q] = IF q = p THEN NoBlock ELSE hold[q]
                          /\ wrote'[q] = IF q = p THEN wrote[p] \cup {hold[p]} ELSE wrote[q]
      BY <2>1, Zenon DEF TypeOK
    <3> QED BY <2>3, <3>1 DEF Claim
  <2>5. pc[p] = "op"
    BY <2>3, Zenon DEF ControlInv
  <2>6. SeqSet(lh)' = SeqSet(lh)
    BY <2>1, Zenon DEF SeqSet
  <2>7. \A q \in Proc : wrote'[q] = IF q = p THEN wrote[p] \cup {hold[p]} ELSE wrote[q]
    BY <2>1, Zenon DEF TypeOK
  <2>8. \A q \in Proc : wrote'[q] \subseteq SeqSet(lh)'
    <3>1. \A q \in Proc : wrote[q] \subseteq SeqSet(lh)
      BY Zenon DEF SpaceInv
    <3>2. wrote[p] \cup {hold[p]} \subseteq SeqSet(lh)
      BY <2>1, <3>1, Zenon
    <3> QED BY <2>6, <2>7, <3>1, <3>2, Zenon
  <2>9. \A q \in Proc : pc'[q] # "op" => wrote'[q] = {}
    BY <2>1, <2>5, <2>7, ZenonT(30) DEF SpaceInv
  <2>10. \A q \in Proc : Cardinality(Claim(q)') <= OPBLOCKS
    BY <2>4, Zenon DEF SpaceInv
  <2>11. Len(hdr') <= LOGBLOCKS
    BY <2>1, ZenonT(30) DEF SpaceInv
  <2> QED BY <2>2, <2>8, <2>9, <2>10, <2>11, ZenonT(30) DEF SpaceInv
<1>7. ASSUME NEW p \in Proc, LogWriteAppend(p) PROVE SpaceInv'
  <2>1. /\ UNCHANGED <<hdr, pc>>
        /\ lh' = Append(lh, hold[p])
        /\ hold' = [hold EXCEPT ![p] = NoBlock]
        /\ wrote' = [wrote EXCEPT ![p] = wrote[p] \cup {hold[p]}]
        /\ hold[p] # NoBlock /\ hold[p] \notin SeqSet(lh)
    BY <1>7, Zenon DEF LogWriteAppend, diskVars
  <2>2. hold[p] \in Blocks /\ hold[p] \notin wrote[p] /\ pc[p] = "op"
    BY <2>1, ZenonT(30) DEF SpaceInv, TypeOK, ControlInv
  <2>3. \A q \in Proc : Claim(q)' = Claim(q)
    BY <2>1, SMTT(30) DEF Claim, TypeOK
  <2>4. IsFiniteSet(wrote[p]) /\ Cardinality(wrote[p]) \in Nat
    <3>1. wrote[p] \subseteq Blocks
      BY Zenon DEF TypeOK
    <3> QED BY <3>1, BlocksAssumption, FS_Subset, FS_CardinalityType, ZenonT(30)
  <2>5. Claim(p) = wrote[p] \cup {hold[p]}
    BY <2>1, Zenon DEF Claim
  <2>6. Cardinality(wrote'[p]) = Cardinality(wrote[p]) + 1
    <3>1. wrote'[p] = wrote[p] \cup {hold[p]}
      BY <2>1, Zenon DEF TypeOK
    <3>2. Cardinality(wrote[p] \cup {hold[p]}) =
            IF hold[p] \in wrote[p] THEN Cardinality(wrote[p])
                                   ELSE Cardinality(wrote[p]) + 1
      BY <2>4, FS_AddElement, ZenonT(30)
    <3> QED BY <2>2, <3>1, <3>2, Zenon
  <2>7. Cardinality(wrote[p]) + 1 <= OPBLOCKS
    <3>1. Cardinality(Claim(p)) <= OPBLOCKS
      BY Zenon DEF SpaceInv
    <3>2. Cardinality(wrote[p] \cup {hold[p]}) = Cardinality(wrote[p]) + 1
      BY <2>2, <2>4, FS_AddElement, ZenonT(30)
    <3> QED BY <2>5, <3>1, <3>2, Zenon
  <2> DEFINE e == <<p, Cardinality(wrote[p]) + 1>>
  <2>8. e \in Reserved
    BY <2>2, <2>4, <2>7, SMTT(30) DEF Reserved, InOp
  <2>9. e \notin Reserved'
    BY <2>4, <2>6, SMTT(30) DEF Reserved
  <2>10. Reserved' \subseteq Reserved
    BY <2>1, ReservedShrinks, Zenon DEF TypeOK
  <2>11. /\ IsFiniteSet(Reserved) /\ Cardinality(Reserved) \in Nat
         /\ Len(lh) + Cardinality(Reserved) <= LOGBLOCKS
    BY LogLength, ZenonT(30) DEF SpaceInv
  <2>12. /\ IsFiniteSet(Reserved \ {e})
         /\ Cardinality(Reserved \ {e}) = Cardinality(Reserved) - 1
    BY <2>8, <2>11, FS_RemoveElement, ZenonT(30)
  <2>13. /\ Cardinality(Reserved') \in Nat
         /\ Cardinality(Reserved') <= Cardinality(Reserved) - 1
    <3>1. Reserved' \in SUBSET (Reserved \ {e})
      BY <2>9, <2>10, Zenon
    <3> QED BY <2>12, <3>1, FS_Subset, FS_CardinalityType, SMTT(30)
  <2>14. Len(lh') = Len(lh) + 1 /\ Len(lh) \in Nat
    BY <2>1, <2>2, SMTT(30) DEF TypeOK
  <2>15. Len(lh') + Cardinality(Reserved') <= LOGBLOCKS
    BY <2>11, <2>13, <2>14, SMTT(30)
  <2>16. SeqSet(lh') = SeqSet(lh) \cup {hold[p]}
    <3>1. /\ \A i \in 1 .. Len(lh) : lh'[i] = lh[i]
          /\ lh'[Len(lh) + 1] = hold[p]
      BY <2>1, <2>2, SMTT(30) DEF TypeOK
    <3>2. 1 .. Len(lh') = (1 .. Len(lh)) \cup {Len(lh) + 1}
      BY <2>14
    <3> QED BY <3>1, <3>2, SMTT(30) DEF SeqSet
  <2>17. \A q \in Proc : wrote'[q] = IF q = p THEN wrote[p] \cup {hold[p]} ELSE wrote[q]
    BY <2>1, ZenonT(30) DEF TypeOK
  <2>18. \A q \in Proc : wrote'[q] \subseteq SeqSet(lh')
    BY <2>16, <2>17, Zenon DEF SpaceInv
  <2>19. SeqSet(lh)' = SeqSet(lh')
    BY Zenon DEF SeqSet
  <2>20. \A q \in Proc : pc'[q] # "op" => wrote'[q] = {}
    BY <2>1, <2>2, <2>17, ZenonT(30) DEF SpaceInv
  <2>21. \A q \in Proc : Cardinality(Claim(q)') <= OPBLOCKS
    BY <2>3, ZenonT(30) DEF SpaceInv
  <2>22. Len(hdr') <= LOGBLOCKS
    BY <2>1, ZenonT(30) DEF SpaceInv
  <2> QED BY <2>15, <2>18, <2>19, <2>20, <2>21, <2>22, ZenonT(30) DEF SpaceInv
<1>8. CASE IOStep
  <2>1. UNCHANGED <<pc, hold, wrote>>
    BY <1>8, Zenon DEF IOStep, WriteLog, WriteHead, Install, ClearHead, ReadHead,
                procVars
  <2>2. \A q \in Proc : Claim(q)' = Claim(q)
    BY <2>1, Zenon DEF Claim
  <2>3. Reserved' = Reserved
    BY <2>1, Zenon DEF Reserved, InOp
  <2>4. CASE WriteLog \/ Install
    <3>1. UNCHANGED <<lh, hdr>>
      BY <2>4, Zenon DEF WriteLog, Install, logVars
    <3>2. SeqSet(lh)' = SeqSet(lh)
      BY <3>1, ZenonT(30) DEF SeqSet
    <3> QED BY <2>1, <2>2, <2>3, <3>1, <3>2, ZenonT(30) DEF SpaceInv
  <2>5. CASE WriteHead
    <3>1. UNCHANGED lh /\ hdr' = lh
      BY <2>5, ZenonT(30) DEF WriteHead, logVars
    <3>2. SeqSet(lh)' = SeqSet(lh)
      BY <3>1, ZenonT(30) DEF SeqSet
    <3>3. Len(hdr') <= LOGBLOCKS
      BY <3>1, LogLength, ZenonT(30)
    <3> QED BY <2>1, <2>2, <2>3, <3>1, <3>2, <3>3, ZenonT(30) DEF SpaceInv
  <2>6. CASE ClearHead \/ ReadHead
    <3>1. InOp = {} /\ \A q \in Proc : wrote[q] = {}
      BY <2>6, Zenon DEF ClearHead, ReadHead, ControlInv, SpaceInv, InOp
    <3>2. Cardinality(Reserved') = 0
      BY <2>3, <3>1, NoneReserved, Zenon
    <3>3. Len(lh') \in Nat /\ Len(lh') <= LOGBLOCKS /\ Len(hdr') <= LOGBLOCKS
      <4>1. lh' \in Seq(Blocks) /\ LOGBLOCKS \in Nat /\ Len(hdr) <= LOGBLOCKS
        BY SizeAssumption, Zenon DEF TypeOK, SpaceInv
      <4>2. (lh' = <<>> /\ hdr' = <<>>) \/ (lh' = hdr /\ hdr' = hdr)
        BY <2>6, Zenon DEF ClearHead, ReadHead, diskVars
      <4> QED BY <4>1, <4>2
    <3>4. Len(lh') + Cardinality(Reserved') <= LOGBLOCKS
      BY <3>2, <3>3
    <3>5. \A q \in Proc : wrote'[q] = {}
      BY <2>1, <3>1, Zenon
    <3>6. \A q \in Proc : Cardinality(Claim(q)') <= OPBLOCKS
      BY <2>2, Zenon DEF SpaceInv
    <3> QED BY <3>3, <3>4, <3>5, <3>6, ZenonT(30) DEF SpaceInv
  <2> QED BY <1>8, <2>4, <2>5, <2>6, Zenon DEF IOStep
<1>9. ASSUME NEW b \in Blocks, Evict(b) \/ Read(b) PROVE SpaceInv'
  <2>1. UNCHANGED <<lh, hdr, pc, wrote, hold>>
    BY <1>9, Zenon DEF Evict, Read, diskVars, logVars, procVars
  <2>2. Reserved' = Reserved
    BY <2>1, Zenon DEF Reserved, InOp
  <2> QED BY <2>1, <2>2, ZenonT(30) DEF SpaceInv, Claim, SeqSet
<1>10. CASE Crash
  <2>1. InOp' = {}
    BY <1>10, Zenon DEF Crash, InOp
  <2>2. Cardinality(Reserved') = 0
    BY <2>1, FS_EmptySet, Zenon DEF Reserved
  <2>3. \A q \in Proc : Claim(q)' = {}
    BY <1>10, Zenon DEF Crash, Claim
  <2>4. \A q \in Proc : Cardinality(Claim(q)') <= OPBLOCKS
    BY <2>3, FS_EmptySet
  <2>5. Len(lh') = 0
    BY <1>10, Zenon DEF Crash
  <2>6. /\ \A q \in Proc : wrote'[q] = {}
        /\ hdr' = hdr
    BY <1>10, Zenon DEF Crash, diskVars
  <2>7. Len(lh') + Cardinality(Reserved') <= LOGBLOCKS
    BY <2>2, <2>5, SizeAssumption, SMTT(30)
  <2>8. Len(hdr') <= LOGBLOCKS
    BY <2>6, Zenon DEF SpaceInv
  <2> QED BY <2>4, <2>6, <2>7, <2>8, Zenon DEF SpaceInv
<1>11. CASE UNCHANGED vars
  <2>1. UNCHANGED <<lh, hdr, pc, wrote, hold>>
    BY <1>11, Zenon DEF vars, diskVars, logVars, procVars
  <2>2. Reserved' = Reserved
    BY <2>1, Zenon DEF Reserved, InOp
  <2> QED BY <2>1, <2>2, Zenon DEF SpaceInv, Claim, SeqSet
<1> QED
  BY <1>1, <1>2, <1>3, <1>4, <1>5, <1>6, <1>7, <1>8, <1>9, <1>10, <1>11, ZenonT(60)
  DEF Next, ProcStep

-----------------------------------------------------------------------------
(* What the panics test *)

LEMMA InvNoPanic ==
  ASSUME LogInv
  PROVE  NoPanic
<1> USE DEF LogInv
<1>1. ASSUME NEW p \in Proc, hold[p] # NoBlock
      PROVE  Len(lh) < LOGBLOCKS /\ outstanding >= 1
  <2>1. pc[p] = "op" /\ p \in InOp
    BY <1>1, Zenon DEF ControlInv, InOp
  <2>2. IsFiniteSet(wrote[p]) /\ Cardinality(wrote[p]) \in Nat
    BY BlocksAssumption, FS_Subset, FS_CardinalityType, Zenon DEF TypeOK
  <2>3. /\ IsFiniteSet(Claim(p)) /\ wrote[p] \subseteq Claim(p)
        /\ Cardinality(Claim(p)) <= OPBLOCKS
    <3>1. Claim(p) = wrote[p] \cup {hold[p]}
      BY <1>1, Zenon DEF Claim
    <3>2. IsFiniteSet(wrote[p] \cup {hold[p]})
      BY <2>2, FS_AddElement, Zenon
    <3>3. Cardinality(Claim(p)) <= OPBLOCKS
      BY Zenon DEF SpaceInv
    <3> QED BY <3>1, <3>2, <3>3, Zenon
  <2>4. Cardinality(wrote[p]) <= OPBLOCKS
    <3>1. /\ Cardinality(wrote[p]) <= Cardinality(Claim(p))
          /\ Cardinality(Claim(p)) \in Nat /\ OPBLOCKS \in Nat
      BY <2>3, FS_Subset, FS_CardinalityType, SizeAssumption, ZenonT(30)
    <3> QED BY <2>2, <2>3, <3>1
  <2>5. <<p, MAXOPBLOCKS>> \in Reserved
    BY <2>1, <2>2, <2>4, SizeAssumption DEF Reserved
  <2>6. Cardinality(Reserved) >= 1
    <3>1. IsFiniteSet(Reserved) /\ Cardinality(Reserved) \in Nat
      BY LogLength, Zenon
    <3>2. Cardinality(Reserved) # 0
      BY <2>5, <3>1, FS_EmptySet, ZenonT(30)
    <3> QED BY <3>1, <3>2
  <2>7. Len(lh) < LOGBLOCKS
    <3>1. lh \in Seq(Blocks) /\ Len(lh) + Cardinality(Reserved) <= LOGBLOCKS
      BY Zenon DEF SpaceInv, TypeOK
    <3>2. Cardinality(Reserved) \in Nat
      BY LogLength, Zenon
    <3> QED BY <2>6, <3>1, <3>2, SizeAssumption
  <2> QED BY <2>1, <2>7, OutstandingCounts, Zenon
<1> QED BY <1>1, Zenon DEF NoPanic, ControlInv

-----------------------------------------------------------------------------
(* The invariant *)

LEMMA InvCounted ==
  ASSUME LogInv
  PROVE  Counted
<1>1. InOp = {} => outstanding = 0
  BY FS_EmptySet, ZenonT(30) DEF LogInv, ControlInv
<1>2. ASSUME InOp # {} PROVE outstanding >= 1
  BY <1>2, OutstandingCounts, Zenon DEF LogInv, InOp
<1> QED BY <1>1, <1>2, LogLength, SMTT(30) DEF LogInv, Counted

LEMMA InvInit ==
  ASSUME Init
  PROVE  LogInv
<1> USE SizeAssumption DEF Init
<1>1. TypeOK
  <2>1. PICK v \in Val : logdata = [i \in 1 .. LOGBLOCKS |-> [s \in Sector |-> v]]
    OBVIOUS
  <2>2. logdata \in [1 .. LOGBLOCKS -> Content]
    BY <2>1, Zenon DEF Content
  <2>3. hdr \in Seq(Blocks) /\ lh \in Seq(Blocks)
    OBVIOUS
  <2>4. /\ wrote \in [Proc -> SUBSET Blocks]
        /\ hold \in [Proc -> Blocks \cup {NoBlock}]
        /\ pc \in [Proc -> {"idle", "sleep", "woken", "op", "commit"}]
    OBVIOUS
  <2>5. /\ cache \in [Blocks -> Content \cup {NoBlock}]
        /\ refcnt \in [Blocks -> Nat]
    OBVIOUS
  <2>6. phase \in Phases /\ tail \in 1 .. LOGBLOCKS \cup {1} /\ sec \in Sector
    BY DEF Phases, Sector
  <2> QED BY <2>2, <2>3, <2>4, <2>5, <2>6, ZenonT(30) DEF TypeOK
<1>2. InOp = {}
  BY Zenon DEF InOp
<1>3. ControlInv
  BY <1>2, FS_EmptySet, Zenon DEF ControlInv
<1>4. SpaceInv
  <2>1. Cardinality(Reserved) = 0
    BY <1>2, NoneReserved, Zenon
  <2>2. \A q \in Proc : Claim(q) = {}
    BY Zenon DEF Claim
  <2>3. \A q \in Proc : Cardinality(Claim(q)) <= OPBLOCKS
    <3>1. Cardinality({}) <= OPBLOCKS
      BY FS_EmptySet, SMTT(30)
    <3> QED BY <2>2, <3>1, Zenon
  <2> QED BY <2>1, <2>3 DEF SpaceInv
<1>5. HeadInv
  BY DEF HeadInv, NoDup
<1>6. RefcntExact
  <2>1. \A b \in Blocks : b \notin Held /\ b \notin Pinned /\ b \notin InIO
    BY NoBlockAssumption, ZenonT(30) DEF Held, Pinned, InIO
  <2> QED BY <2>1 DEF RefcntExact, Count
<1>7. DataInv
  BY DEF DataInv
<1> QED BY <1>1, <1>3, <1>4, <1>5, <1>6, <1>7, ZenonT(30) DEF LogInv

LEMMA InvStep ==
  ASSUME LogInv, [Next]_vars
  PROVE  LogInv'
<1>1. Counted
  BY InvCounted, Zenon
<1>2. TypeOK'
  BY <1>1, TypeStep, Zenon
<1>3. ControlInv'
  BY <1>2, ControlStep, Zenon
<1>4. SpaceInv'
  BY <1>2, <1>3, SpaceStep, Zenon
<1>5. outstanding' # 0 => InOp' # {}
  BY <1>3, FS_EmptySet, ZenonT(30) DEF ControlInv
<1>6. HeadInv'
  BY <1>1, <1>2, <1>5, HeadStep, Zenon
<1>7. RefcntExact'
  BY <1>1, <1>2, <1>3, <1>6, RefcntStep, Zenon
<1>8. DataInv'
  BY <1>1, <1>2, <1>6, DataStep, Zenon
<1> QED BY <1>2, <1>3, <1>4, <1>6, <1>7, <1>8, ZenonT(30) DEF LogInv

\* The invariant is inductive: it holds of every state of every instance.
THEOREM LogInvariant == Spec => []LogInv
BY InvInit, InvStep, PTL DEF Spec

-----------------------------------------------------------------------------
(* What follows from it *)

\* Types.
THEOREM TypeCorrect == Spec => []TypeOK
<1>1. LogInv => TypeOK
  BY Zenon DEF LogInv
<1> QED BY <1>1, LogInvariant, PTL

\* No reference to a buffer leaks or is given back twice.
THEOREM RefcntsExact == Spec => []RefcntExact
<1>1. LogInv => RefcntExact
  BY Zenon DEF LogInv
<1> QED BY <1>1, LogInvariant, PTL

\* log.c does not panic: with an operation writing fewer than MAXOPBLOCKS
\* blocks, begin_op's reservation keeps the header from filling up, and
\* log_write and end_op are never called when they must not be.
THEOREM NeverPanics == Spec => []NoPanic
BY InvNoPanic, LogInvariant, PTL

\* No buffer with contents of its own is recycled.
THEOREM NeverEvictsDirty == Spec => []NoDirtyEviction
BY InvNoDirtyEviction, InvCounted, LogInvariant, PTL

\* A crash when all is quiet loses nothing.
THEOREM QuietDurable == Spec => []QuietIsDurable
<1>1. LogInv => QuietIsDurable
  BY QuietClean, Zenon DEF QuietIsDurable
<1> QED BY <1>1, LogInvariant, PTL

-----------------------------------------------------------------------------
(* The atomic store *)

LEMMA RefineInit ==
  ASSUME Init
  PROVE  Store!Init
<1>1. LogInv
  BY InvInit, Zenon
<1>2. InOp = {} /\ Visible = Recoverable
  BY Zenon DEF Init, InOp, Visible
<1> QED BY <1>1, <1>2, RecoverableValue, Zenon DEF Store!Init

\* Crash atomicity: whatever the sizes, the number of processes and the
\* moments at which power fails, the log behaves as the atomic store.
THEOREM Refinement == Spec => CrashAtomic
<1>1. Init => Store!Init
  BY RefineInit, Zenon
<1>2. LogInv /\ LogInv' /\ [Next]_vars => [Store!Next]_(Store!vars)
  BY RefineStep, InvCounted, Zenon
<1> QED BY <1>1, <1>2, LogInvariant, PTL DEF Spec, CrashAtomic, Store!Spec
=============================================================================
