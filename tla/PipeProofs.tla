----------------------------- MODULE PipeProofs -----------------------------
(***************************************************************************)
(* Theorems about Pipe, for any number of processes, any size of the ring  *)
(* and any width of its counters: no wakeup is lost, the pipe is freed     *)
(* exactly when both ends are closed, and the ring is a queue.             *)
(***************************************************************************)
EXTENDS Pipe, TLAPS

InCall == {"wloop", "rwait", "rcopy"}

\* pi->lock is held from the entry of a call to its return or its sleep.
LockInv == \A p \in Proc : pc[p] \in InCall <=> lock = p

\* A process in a call has the descriptor it called with.
EndsInv ==
  \A p \in Proc :
     /\ pc[p] \in {"wloop", "wsleep", "wready"} => p \in writers
     /\ pc[p] \in {"rwait", "rcopy", "rsleep", "rready"} => p \in readers

\* What is true of the sleepers while a call is under way: the writer that
\* holds the lock may have put bytes, and will then wake the readers; the
\* reader that is copying may have taken bytes, and will then wake the writers.
ReaderSleeps(q) ==
  /\ writeopen /\ ~killed[q]
  /\ Empty \/ \E p \in Proc : pc[p] = "wloop" /\ readopen /\ ~killed[p]
WriterSleeps(q) ==
  /\ readopen /\ ~killed[q]
  /\ Full \/ \E p \in Proc : pc[p] = "rcopy"
SleepInv ==
  \A q \in Proc : /\ pc[q] = "rsleep" => ReaderSleeps(q)
                  /\ pc[q] = "wsleep" => WriterSleeps(q)

PipeInv == TypeOK /\ FreedOnce /\ LockInv /\ EndsInv /\ SleepInv

-----------------------------------------------------------------------------
LEMMA CountMod ==
  ASSUME NEW a \in Nat
  PROVE  a % COUNT \in 0 .. COUNT - 1
BY PipeSizes, Z3

LEMMA CountPositive == COUNT \in Nat \ {0}
BY PipeSizes

LEMMA IndexMod ==
  ASSUME NEW a \in Nat
  PROVE  a % PIPESIZE \in 0 .. PIPESIZE - 1
BY PipeSizes, SMTT(30)

\* One process's part of Next.
Step(p) ==
  \/ Descriptors(p) \/ \E r \in Proc : Fork(p, r)
  \/ WriteEnter(p) \/ ReadEnter(p) \/ Resume(p)
  \/ Write(p) \/ Read(p)

\* Types are kept by every operation.
LEMMA StepType ==
  ASSUME PipeInv, NEW p \in Proc, Step(p)
  PROVE  TypeOK'
<1> USE PipeDistinct DEF PipeInv, TypeOK, pipe, fds
<1>1. CASE PipeAlloc(p)
  <2>1. nread' \in 0 .. COUNT - 1 /\ nwrite' \in 0 .. COUNT - 1
    BY <1>1, PipeSizes DEF PipeAlloc
  <2>2. killed' \in [Proc -> BOOLEAN]
    BY <1>1, Zenon DEF PipeAlloc
  <2>3. readers' \subseteq Proc /\ writers' \subseteq Proc
    BY <1>1, Zenon DEF PipeAlloc
  <2>4. {readopen', writeopen', allocated'} \subseteq BOOLEAN
    BY <1>1, Zenon DEF PipeAlloc
  <2> QED BY <1>1, <2>1, <2>2, <2>3, <2>4, Zenon DEF PipeAlloc
<1>2. CASE CloseRead(p)
  BY <1>2, PipeSizes, CountMod, ZenonT(30) DEF CloseRead, Wake, WakeWriters
<1>3. CASE CloseWrite(p)
  BY <1>3, PipeSizes, CountMod, ZenonT(30) DEF CloseWrite, Wake, WakeReaders
<1>4. CASE Kill(p)
  BY <1>4, PipeSizes, CountMod, Zenon DEF Kill
<1>5. CASE WriteEnter(p)
  <2>1. left' \in [Proc -> 0 .. MAXN]
    BY <1>5, PipeSizes, Zenon DEF WriteEnter
  <2>2. pc' \in [Proc -> {"user", "wloop", "wsleep", "wready", "rwait", "rcopy",
                       "rsleep", "rready"}]
    BY <1>5, Zenon DEF WriteEnter
  <2>3. lock' \in Proc \cup {NoProc}
    BY <1>5, Zenon DEF WriteEnter
  <2> QED BY <1>5, <2>1, <2>2, <2>3, Zenon DEF WriteEnter
<1>6. CASE ReadEnter(p)
  <2>1. left' \in [Proc -> 0 .. MAXN]
    BY <1>6, PipeSizes, Zenon DEF ReadEnter
  <2>2. pc' \in [Proc -> {"user", "wloop", "wsleep", "wready", "rwait", "rcopy",
                       "rsleep", "rready"}]
    BY <1>6, Zenon DEF ReadEnter
  <2>3. lock' \in Proc \cup {NoProc}
    BY <1>6, Zenon DEF ReadEnter
  <2> QED BY <1>6, <2>1, <2>2, <2>3, Zenon DEF ReadEnter
<1>7. CASE Resume(p)
  BY <1>7, PipeSizes, CountMod, ZenonT(30) DEF Resume
<1>8. CASE WriteFail(p)
  <2>1. left' \in [Proc -> 0 .. MAXN]
    BY <1>8, PipeSizes DEF WriteFail, InWrite
  <2>2. pc' \in [Proc -> {"user", "wloop", "wsleep", "wready", "rwait", "rcopy",
                       "rsleep", "rready"}]
    BY <1>8, Zenon DEF WriteFail, InWrite
  <2>3. lock' \in Proc \cup {NoProc}
    BY <1>8, Zenon DEF WriteFail, InWrite
  <2> QED BY <1>8, <2>1, <2>2, <2>3, Zenon DEF WriteFail, InWrite
<1>9. CASE WriteFull(p)
  BY <1>9, PipeSizes, CountMod, ZenonT(30) DEF WriteFull, InWrite, MayWrite, Wake, WakeReaders
<1>10. CASE WriteByte(p)
  <2>1. left' \in [Proc -> 0 .. MAXN]
    BY <1>10, PipeSizes DEF WriteByte, InWrite, MayWrite
  <2>2. nwrite' \in 0 .. COUNT - 1
    BY <1>10, CountMod DEF WriteByte, InWrite, MayWrite
  <2>3. data' \in [0 .. PIPESIZE - 1 -> Byte]
    BY <1>10, ZenonT(30) DEF WriteByte, InWrite, MayWrite
  <2> QED BY <1>10, <2>1, <2>2, <2>3, Zenon DEF WriteByte, InWrite, MayWrite
<1>11. CASE WriteDone(p)
  <2>1. left' \in [Proc -> 0 .. MAXN]
    BY <1>11, PipeSizes DEF WriteDone, InWrite, Wake, WakeReaders
  <2>2. pc' \in [Proc -> {"user", "wloop", "wsleep", "wready", "rwait", "rcopy",
                       "rsleep", "rready"}]
    BY <1>11, Zenon DEF WriteDone, InWrite, Wake, WakeReaders
  <2>3. lock' \in Proc \cup {NoProc}
    BY <1>11, Zenon DEF WriteDone, InWrite, Wake, WakeReaders
  <2> QED BY <1>11, <2>1, <2>2, <2>3, Zenon DEF WriteDone, InWrite, Wake, WakeReaders
<1>12. CASE ReadSleep(p)
  BY <1>12, PipeSizes, CountMod, ZenonT(30) DEF ReadSleep, InRead
<1>13. CASE ReadKilled(p)
  <2>1. left' \in [Proc -> 0 .. MAXN]
    BY <1>13, PipeSizes DEF ReadKilled, InRead
  <2>2. pc' \in [Proc -> {"user", "wloop", "wsleep", "wready", "rwait", "rcopy",
                       "rsleep", "rready"}]
    BY <1>13, Zenon DEF ReadKilled, InRead
  <2>3. lock' \in Proc \cup {NoProc}
    BY <1>13, Zenon DEF ReadKilled, InRead
  <2> QED BY <1>13, <2>1, <2>2, <2>3, Zenon DEF ReadKilled, InRead
<1>14. CASE ReadGo(p)
  BY <1>14, PipeSizes, CountMod, ZenonT(30) DEF ReadGo, InRead
<1>15. CASE ReadByte(p)
  <2>1. left' \in [Proc -> 0 .. MAXN]
    BY <1>15, PipeSizes DEF ReadByte, InRead
  <2>2. nread' \in 0 .. COUNT - 1
    BY <1>15, CountMod DEF ReadByte, InRead
  <2>3. out' \in Byte \cup {Eof, Nothing}
    <3>1. nread \in Nat
      BY PipeSizes
    <3>2. nread % PIPESIZE \in 0 .. PIPESIZE - 1
      BY <3>1, IndexMod, Zenon
    <3>3. data[nread % PIPESIZE] \in Byte
      BY <3>2, Zenon
    <3> QED BY <1>15, <3>3, Zenon DEF ReadByte
  <2> QED BY <1>15, <2>1, <2>2, <2>3, Zenon DEF ReadByte, InRead
<1>16. CASE ReadDone(p)
  <2>1. left' \in [Proc -> 0 .. MAXN]
    BY <1>16, PipeSizes DEF ReadDone, InRead, Wake, WakeWriters
  <2>2. pc' \in [Proc -> {"user", "wloop", "wsleep", "wready", "rwait", "rcopy",
                       "rsleep", "rready"}]
    BY <1>16, Zenon DEF ReadDone, InRead, Wake, WakeWriters
  <2>3. lock' \in Proc \cup {NoProc}
    BY <1>16, Zenon DEF ReadDone, InRead, Wake, WakeWriters
  <2>4. out' \in Byte \cup {Eof, Nothing}
    BY <1>16, Zenon DEF ReadDone, InRead, Wake, WakeWriters
  <2> QED BY <1>16, <2>1, <2>2, <2>3, <2>4, Zenon DEF ReadDone, InRead, Wake, WakeWriters
<1>17. CASE \E r \in Proc : Fork(p, r)
  BY <1>17 DEF Fork
<1> QED BY <1>1, <1>2, <1>3, <1>4, <1>5, <1>6, <1>7, <1>8, <1>9, <1>10, <1>11, <1>12, <1>13, <1>14, <1>15, <1>16, <1>17, Zenon DEF Step, Descriptors, Write, Read

\* The lock follows the calls.
LEMMA StepLock ==
  ASSUME PipeInv, NEW p \in Proc, Step(p)
  PROVE  LockInv'
<1> USE PipeDistinct DEF PipeInv, TypeOK, FreedOnce, LockInv, EndsInv, InCall, pipe, fds
<1>1. CASE PipeAlloc(p)
  BY <1>1, Zenon DEF PipeAlloc
<1>2. CASE CloseRead(p)
  BY <1>2 DEF CloseRead, Wake, WakeWriters
<1>3. CASE CloseWrite(p)
  BY <1>3 DEF CloseWrite, Wake, WakeReaders
<1>4. CASE Kill(p)
  BY <1>4, Zenon DEF Kill
<1>5. CASE WriteEnter(p)
  BY <1>5, Zenon DEF WriteEnter
<1>6. CASE ReadEnter(p)
  BY <1>6, Zenon DEF ReadEnter
<1>7. CASE Resume(p)
  BY <1>7, Zenon DEF Resume
<1>8. CASE WriteFail(p)
  BY <1>8, Zenon DEF WriteFail, InWrite
<1>9. CASE WriteFull(p)
  BY <1>9, Zenon DEF WriteFull, InWrite, MayWrite, Wake, WakeReaders
<1>10. CASE WriteByte(p)
  BY <1>10, Zenon DEF WriteByte, InWrite, MayWrite
<1>11. CASE WriteDone(p)
  BY <1>11, Zenon DEF WriteDone, InWrite, MayWrite, Wake, WakeReaders
<1>12. CASE ReadSleep(p)
  BY <1>12, Zenon DEF ReadSleep, InRead
<1>13. CASE ReadKilled(p)
  BY <1>13, Zenon DEF ReadKilled, InRead
<1>14. CASE ReadGo(p)
  BY <1>14, Zenon DEF ReadGo, InRead
<1>15. CASE ReadByte(p)
  BY <1>15, Zenon DEF ReadByte, InRead
<1>16. CASE ReadDone(p)
  BY <1>16, Zenon DEF ReadDone, InRead, Wake, WakeWriters
<1>17. CASE \E r \in Proc : Fork(p, r)
  BY <1>17, Zenon DEF Fork
<1> QED BY <1>1, <1>2, <1>3, <1>4, <1>5, <1>6, <1>7, <1>8, <1>9, <1>10, <1>11, <1>12, <1>13, <1>14, <1>15, <1>16, <1>17, Zenon DEF Step, Descriptors, Write, Read

\* Nobody closes a descriptor it is using.
LEMMA StepEnds ==
  ASSUME PipeInv, NEW p \in Proc, Step(p)
  PROVE  EndsInv'
<1> USE PipeDistinct DEF PipeInv, TypeOK, FreedOnce, LockInv, EndsInv, InCall, pipe, fds
<1>1. CASE PipeAlloc(p)
  BY <1>1, Zenon DEF PipeAlloc
<1>2. CASE CloseRead(p)
  BY <1>2 DEF CloseRead, Wake, WakeWriters
<1>3. CASE CloseWrite(p)
  BY <1>3 DEF CloseWrite, Wake, WakeReaders
<1>4. CASE Kill(p)
  BY <1>4, Zenon DEF Kill
<1>5. CASE WriteEnter(p)
  BY <1>5, Zenon DEF WriteEnter
<1>6. CASE ReadEnter(p)
  BY <1>6, Zenon DEF ReadEnter
<1>7. CASE Resume(p)
  BY <1>7, ZenonT(30) DEF Resume
<1>8. CASE WriteFail(p)
  BY <1>8, Zenon DEF WriteFail, InWrite
<1>9. CASE WriteFull(p)
  BY <1>9, Zenon DEF WriteFull, InWrite, MayWrite, Wake, WakeReaders
<1>10. CASE WriteByte(p)
  BY <1>10, Zenon DEF WriteByte, InWrite, MayWrite
<1>11. CASE WriteDone(p)
  BY <1>11, Zenon DEF WriteDone, InWrite, MayWrite, Wake, WakeReaders
<1>12. CASE ReadSleep(p)
  BY <1>12, Zenon DEF ReadSleep, InRead
<1>13. CASE ReadKilled(p)
  BY <1>13, Zenon DEF ReadKilled, InRead
<1>14. CASE ReadGo(p)
  BY <1>14, Zenon DEF ReadGo, InRead
<1>15. CASE ReadByte(p)
  BY <1>15, Zenon DEF ReadByte, InRead
<1>16. CASE ReadDone(p)
  BY <1>16, Zenon DEF ReadDone, InRead, Wake, WakeWriters
<1>17. CASE \E r \in Proc : Fork(p, r)
  BY <1>17, Zenon DEF Fork
<1> QED BY <1>1, <1>2, <1>3, <1>4, <1>5, <1>6, <1>7, <1>8, <1>9, <1>10, <1>11, <1>12, <1>13, <1>14, <1>15, <1>16, <1>17, Zenon DEF Step, Descriptors, Write, Read

\* pipeclose frees with the second end.
LEMMA StepFreed ==
  ASSUME PipeInv, NEW p \in Proc, Step(p)
  PROVE  FreedOnce'
<1> USE PipeDistinct DEF PipeInv, TypeOK, FreedOnce, LockInv, EndsInv, InCall, pipe, fds
<1>1. CASE PipeAlloc(p)
  BY <1>1, Zenon DEF PipeAlloc
<1>2. CASE CloseRead(p)
  BY <1>2 DEF CloseRead, Wake, WakeWriters
<1>3. CASE CloseWrite(p)
  BY <1>3 DEF CloseWrite, Wake, WakeReaders
<1>4. CASE Kill(p)
  BY <1>4, Zenon DEF Kill
<1>5. CASE WriteEnter(p)
  BY <1>5, ZenonT(30) DEF WriteEnter
<1>6. CASE ReadEnter(p)
  BY <1>6, ZenonT(30) DEF ReadEnter
<1>7. CASE Resume(p)
  BY <1>7, Zenon DEF Resume
<1>8. CASE WriteFail(p)
  BY <1>8, Zenon DEF WriteFail, InWrite
<1>9. CASE WriteFull(p)
  BY <1>9, Zenon DEF WriteFull, InWrite, MayWrite, Wake, WakeReaders
<1>10. CASE WriteByte(p)
  BY <1>10, Zenon DEF WriteByte, InWrite, MayWrite
<1>11. CASE WriteDone(p)
  BY <1>11, Zenon DEF WriteDone, InWrite, MayWrite, Wake, WakeReaders
<1>12. CASE ReadSleep(p)
  BY <1>12, Zenon DEF ReadSleep, InRead
<1>13. CASE ReadKilled(p)
  BY <1>13, Zenon DEF ReadKilled, InRead
<1>14. CASE ReadGo(p)
  BY <1>14, Zenon DEF ReadGo, InRead
<1>15. CASE ReadByte(p)
  BY <1>15, Zenon DEF ReadByte, InRead
<1>16. CASE ReadDone(p)
  BY <1>16, Zenon DEF ReadDone, InRead, Wake, WakeWriters
<1>17. CASE \E r \in Proc : Fork(p, r)
  BY <1>17, SMTT(30) DEF Fork
<1> QED BY <1>1, <1>2, <1>3, <1>4, <1>5, <1>6, <1>7, <1>8, <1>9, <1>10, <1>11, <1>12, <1>13, <1>14, <1>15, <1>16, <1>17, ZenonT(30) DEF Step, Descriptors, Write, Read

\* Every change of what a sleeper waits for wakes it.
LEMMA StepSleep ==
  ASSUME PipeInv, NEW p \in Proc, Step(p)
  PROVE  SleepInv'
<1> USE PipeDistinct DEF PipeInv, TypeOK, FreedOnce, LockInv, EndsInv, SleepInv, ReaderSleeps, WriterSleeps, InCall, Empty, Full, pipe, fds
<1>1. CASE PipeAlloc(p)
  BY <1>1, Zenon DEF PipeAlloc
<1>2. CASE CloseRead(p)
  BY <1>2 DEF CloseRead, Wake, WakeWriters
<1>3. CASE CloseWrite(p)
  BY <1>3 DEF CloseWrite, Wake, WakeReaders
<1>4. CASE Kill(p)
  BY <1>4, Zenon DEF Kill
<1>5. CASE WriteEnter(p)
  BY <1>5, Zenon DEF WriteEnter
<1>6. CASE ReadEnter(p)
  BY <1>6, Zenon DEF ReadEnter
<1>7. CASE Resume(p)
  BY <1>7, ZenonT(30) DEF Resume
<1>8. CASE WriteFail(p)
  BY <1>8, Zenon DEF WriteFail, InWrite
<1>9. CASE WriteFull(p)
  BY <1>9, Zenon DEF WriteFull, InWrite, MayWrite, Wake, WakeReaders
<1>10. CASE WriteByte(p)
  BY <1>10, Zenon DEF WriteByte, InWrite, MayWrite
<1>11. CASE WriteDone(p)
  BY <1>11, Zenon DEF WriteDone, InWrite, MayWrite, Wake, WakeReaders
<1>12. CASE ReadSleep(p)
  BY <1>12, Zenon DEF ReadSleep, InRead
<1>13. CASE ReadKilled(p)
  BY <1>13, Zenon DEF ReadKilled, InRead
<1>14. CASE ReadGo(p)
  BY <1>14, Zenon DEF ReadGo, InRead
<1>15. CASE ReadByte(p)
  BY <1>15, Zenon DEF ReadByte, InRead
<1>16. CASE ReadDone(p)
  BY <1>16, Zenon DEF ReadDone, InRead, Wake, WakeWriters
<1>17. CASE \E r \in Proc : Fork(p, r)
  BY <1>17 DEF Fork
<1> QED BY <1>1, <1>2, <1>3, <1>4, <1>5, <1>6, <1>7, <1>8, <1>9, <1>10, <1>11, <1>12, <1>13, <1>14, <1>15, <1>16, <1>17, ZenonT(30) DEF Step, Descriptors, Write, Read

-----------------------------------------------------------------------------
LEMMA PipeInvInit ==
  ASSUME Init
  PROVE  PipeInv
<1> USE PipeDistinct DEF Init
<1>1. TypeOK
  <2>1. left \in [Proc -> 0 .. MAXN] /\ nread \in 0 .. COUNT - 1 /\ nwrite \in 0 .. COUNT - 1
    BY PipeSizes
  <2>2. killed \in [Proc -> BOOLEAN] /\ {readopen, writeopen, allocated} \subseteq BOOLEAN
    BY Zenon
  <2> QED BY <2>1, <2>2, Zenon DEF TypeOK
<1>2. FreedOnce /\ LockInv /\ EndsInv /\ SleepInv
  BY Zenon DEF FreedOnce, LockInv, EndsInv, SleepInv, InCall
<1> QED BY <1>1, <1>2, Zenon DEF PipeInv

LEMMA PipeInvStep ==
  ASSUME PipeInv, [Next]_vars
  PROVE  PipeInv'
<1>1. ASSUME NEW p \in Proc, Step(p)
      PROVE  PipeInv'
  BY <1>1, StepType, StepLock, StepEnds, StepFreed, StepSleep, Zenon DEF PipeInv
<1>2. CASE UNCHANGED vars
  BY <1>2, Zenon DEF vars, pipe, fds, PipeInv, TypeOK, FreedOnce, LockInv, EndsInv,
     SleepInv, ReaderSleeps, WriterSleeps, Empty, Full, InCall
<1> QED BY <1>1, <1>2, Zenon DEF Next, Step

\* The inductive invariant of pipe.c: while a call holds pi->lock, what a
\* sleeper waits for may have come only if that call is bound to wake it.
THEOREM PipeInvariant == Spec => []PipeInv
<1> QED BY PipeInvInit, PipeInvStep, PTL DEF Spec

\* The pipe is type correct: its counters wrap and its indexes stay in data.
THEOREM PipeTypes == Spec => []TypeOK
<1>1. PipeInv => TypeOK
  BY Zenon DEF PipeInv
<1> QED BY <1>1, PipeInvariant, PTL

\* pipeclose frees the page with the second end, never under a call.
THEOREM PipeFreedOnce == Spec => []FreedOnce
<1>1. PipeInv => FreedOnce
  BY Zenon DEF PipeInv
<1> QED BY <1>1, PipeInvariant, PTL

\* Nobody sleeps in piperead or pipewrite through what it waits for, however
\* many processes share the ends, fork, close and are killed.
THEOREM PipeNoLostWakeup == Spec => []NoLostWakeup
<1>1. PipeInv => NoLostWakeup
  BY PipeDistinct, Zenon DEF PipeInv, LockInv, InCall, SleepInv, ReaderSleeps,
     WriterSleeps, NoLostWakeup
<1> QED BY <1>1, PipeInvariant, PTL

-----------------------------------------------------------------------------
(* The ring is a queue *)

\* The ring never holds more than its size, also where the counters wrap.
RingInv == Used <= PIPESIZE

LEMMA DivisionUnique ==
  ASSUME NEW n \in Nat \ {0}, NEW k \in Int, NEW m \in Int,
         NEW r \in 0 .. n - 1, NEW s \in 0 .. n - 1, n * k + r = n * m + s
  PROVE  r = s
<1>1. n * (k - m) = s - r
  OBVIOUS
<1>2. CASE k > m
  <2>1. n * (k - m) >= n
    BY <1>2
  <2> QED BY <1>1, <2>1
<1>3. CASE k < m
  <2>1. n * (k - m) <= -n
    BY <1>3
  <2> QED BY <1>1, <2>1
<1>4. CASE k = m
  BY <1>4
<1> QED BY <1>2, <1>3, <1>4

LEMMA ModIs ==
  ASSUME NEW n \in Nat \ {0}, NEW k \in Int, NEW r \in 0 .. n - 1,
         NEW a \in Int, a = n * k + r
  PROVE  a % n = r
<1>1. /\ a = n * (a \div n) + (a % n)
      /\ a % n \in 0 .. n - 1 /\ a \div n \in Int
  OBVIOUS
<1> QED BY <1>1, DivisionUnique, ZenonT(30)

LEMMA ModSmall ==
  ASSUME NEW n \in Nat \ {0}, NEW a \in Int
  PROVE  /\ a \in 0 .. n - 1 => a % n = a
         /\ a \in n .. 2 * n - 1 => a % n = a - n
         /\ a \in -n .. -1 => a % n = a + n
OBVIOUS

LEMMA ModWrap ==
  ASSUME NEW n \in Nat \ {0}, NEW a \in 0 .. 2 * n - 1
  PROVE  a % n = IF a < n THEN a ELSE a - n
<1>1. CASE a < n
  BY <1>1, ModSmall
<1>2. CASE a >= n
  BY <1>2, ModSmall
<1> QED BY <1>1, <1>2

LEMMA ModDifference ==
  ASSUME NEW n \in Nat \ {0}, NEW x \in 0 .. n - 1, NEW y \in 0 .. n - 1
  PROVE  (x - y) % n = IF x >= y THEN x - y ELSE x - y + n
<1>1. CASE x >= y
  BY <1>1, ModSmall
<1>2. CASE x < y
  <2> DEFINE a == x - y
  <2>1. a \in Int /\ a \in -n .. -1
    BY <1>2
  <2> HIDE DEF a
  <2>2. a % n = a + n
    BY <2>1, ModSmall, ZenonT(30)
  <2> QED BY <1>2, <2>2 DEF a
<1> QED BY <1>1, <1>2

\* The counters wrap at a multiple of PIPESIZE, so wrapping keeps the index.
LEMMA WrapKeepsIndex ==
  ASSUME NEW x \in 0 .. 2 * COUNT - 1
  PROVE  (x % COUNT) % PIPESIZE = x % PIPESIZE
<1> USE PipeSizes
<1>1. CASE x < COUNT
  <2>1. x % COUNT = x
    BY <1>1, ModSmall
  <2> QED BY <2>1, Zenon
<1>2. CASE x >= COUNT
  <2>1. x % COUNT = x - COUNT
    BY <1>2, ModSmall
  <2> DEFINE k == COUNT \div PIPESIZE
             y == x - COUNT
             h == y \div PIPESIZE
             r == y % PIPESIZE
  <2>2. COUNT = PIPESIZE * k /\ k \in Int
    OBVIOUS
  <2>3. y = PIPESIZE * h + r /\ h \in Int /\ r \in 0 .. PIPESIZE - 1
    BY <1>2
  <2> HIDE DEF k, h, r
  <2>4. x = PIPESIZE * (h + k) + r
    BY <2>2, <2>3
  <2>5. x % PIPESIZE = r
    BY <2>2, <2>3, <2>4, ModIs
  <2> QED BY <2>1, <2>5, Zenon DEF r
<1> QED BY <1>1, <1>2

LEMMA SlotsApart ==
  ASSUME NEW x \in Nat, NEW d \in 1 .. PIPESIZE - 1
  PROVE  (x + d) % PIPESIZE # x % PIPESIZE
<1> USE PipeSizes
<1> DEFINE h == x \div PIPESIZE
           r == x % PIPESIZE
<1>1. x = PIPESIZE * h + r /\ h \in Int /\ r \in 0 .. PIPESIZE - 1
  OBVIOUS
<1> HIDE DEF h, r
<1>2. CASE r + d < PIPESIZE
  <2>1. x + d = PIPESIZE * h + (r + d) /\ r + d \in 0 .. PIPESIZE - 1
    BY <1>1, <1>2
  <2>2. (x + d) % PIPESIZE = r + d
    BY <1>1, <2>1, ModIs
  <2> QED BY <1>1, <2>2 DEF r
<1>3. CASE r + d >= PIPESIZE
  <2> DEFINE k == h + 1
             t == r + d - PIPESIZE
             a == x + d
  <2>1. a = PIPESIZE * k + t
    BY <1>1
  <2>2. t \in 0 .. PIPESIZE - 1 /\ k \in Int /\ a \in Int /\ t # r
    BY <1>1, <1>3
  <2> HIDE DEF k, t, a
  <2>3. a % PIPESIZE = t
    BY <2>1, <2>2, ModIs
  <2> QED BY <1>1, <2>2, <2>3, Zenon DEF r, a
<1> QED BY <1>1, <1>2, <1>3

\* The distance of the counters: empty is 0, full is PIPESIZE.
LEMMA Distance ==
  ASSUME NEW r \in 0 .. COUNT - 1, NEW w \in 0 .. COUNT - 1,
         NEW u, u = (w - r) % COUNT
  PROVE  /\ u \in 0 .. COUNT - 1
         /\ w = (r + u) % COUNT
         /\ r = w <=> u = 0
         /\ w = (r + PIPESIZE) % COUNT <=> u = PIPESIZE
<1> USE PipeSizes
<1>1. COUNT \in Nat \ {0} /\ w - r \in Int
  OBVIOUS
<1>2. u = IF w >= r THEN w - r ELSE w - r + COUNT
  BY <1>1, ModDifference
<1>3. u \in 0 .. COUNT - 1
  BY <1>2
<1>4. (r + u) % COUNT = IF r + u < COUNT THEN r + u ELSE r + u - COUNT
  <2> DEFINE a == r + u
  <2>1. a \in 0 .. 2 * COUNT - 1
    BY <1>3
  <2> HIDE DEF a
  <2>2. a % COUNT = IF a < COUNT THEN a ELSE a - COUNT
    BY <1>1, <2>1, ModWrap, ZenonT(30)
  <2> QED BY <2>2 DEF a
<1>5. (r + PIPESIZE) % COUNT = IF r + PIPESIZE < COUNT THEN r + PIPESIZE
                               ELSE r + PIPESIZE - COUNT
  <2> DEFINE a == r + PIPESIZE
  <2>1. a \in 0 .. 2 * COUNT - 1
    OBVIOUS
  <2> HIDE DEF a
  <2>2. a % COUNT = IF a < COUNT THEN a ELSE a - COUNT
    BY <1>1, <2>1, ModWrap, ZenonT(30)
  <2> QED BY <2>2 DEF a
<1> QED BY <1>2, <1>3, <1>4, <1>5

LEMMA CounterStep ==
  ASSUME NEW r \in 0 .. COUNT - 1, NEW w \in 0 .. COUNT - 1,
         NEW u, u = (w - r) % COUNT
  PROVE  /\ u < COUNT - 1 => (((w + 1) % COUNT) - r) % COUNT = u + 1
         /\ u > 0 => (w - ((r + 1) % COUNT)) % COUNT = u - 1
<1> USE PipeSizes
<1>1. COUNT \in Nat \ {0} /\ w - r \in Int
  OBVIOUS
<1>2. u = IF w >= r THEN w - r ELSE w - r + COUNT
  BY <1>1, ModDifference
<1>3. \A x \in 0 .. COUNT - 1 :
         (x + 1) % COUNT = IF x + 1 < COUNT THEN x + 1 ELSE 0
  BY <1>1, ModSmall
<1>4. \A x, y \in 0 .. COUNT - 1 :
         (x - y) % COUNT = IF x >= y THEN x - y ELSE x - y + COUNT
  BY <1>1, ModDifference, Zenon
<1> DEFINE w1 == (w + 1) % COUNT
           r1 == (r + 1) % COUNT
<1>5. /\ w1 \in 0 .. COUNT - 1 /\ w1 = IF w + 1 < COUNT THEN w + 1 ELSE 0
      /\ r1 \in 0 .. COUNT - 1 /\ r1 = IF r + 1 < COUNT THEN r + 1 ELSE 0
  BY <1>3
<1>6. /\ (w1 - r) % COUNT = IF w1 >= r THEN w1 - r ELSE w1 - r + COUNT
      /\ (w - r1) % COUNT = IF w >= r1 THEN w - r1 ELSE w - r1 + COUNT
  BY <1>4, <1>5, ZenonT(30)
<1> HIDE DEF w1, r1
<1>7. /\ u < COUNT - 1 => (w1 - r) % COUNT = u + 1
      /\ u > 0 => (w - r1) % COUNT = u - 1
  BY <1>2, <1>5, <1>6
<1> QED BY <1>7, Zenon DEF w1, r1

\* Where the i-th queued byte is.
Slot(i) == ((nread + i - 1) % COUNT) % PIPESIZE

LEMMA UsedFacts ==
  ASSUME TypeOK
  PROVE  /\ Used \in 0 .. COUNT - 1
         /\ nwrite = (nread + Used) % COUNT
         /\ Empty <=> Used = 0
         /\ Full <=> Used = PIPESIZE
<1>1. nread \in 0 .. COUNT - 1 /\ nwrite \in 0 .. COUNT - 1
  BY Zenon DEF TypeOK
<1> QED BY <1>1, Distance, ZenonT(30) DEF Used, Empty, Full

LEMMA WriteUsed ==
  ASSUME PipeInv, RingInv, NEW p \in Proc, WriteByte(p)
  PROVE  Used < PIPESIZE /\ Used' = Used + 1
<1>1. /\ nread \in 0 .. COUNT - 1 /\ nwrite \in 0 .. COUNT - 1
      /\ Used = (nwrite - nread) % COUNT
  BY Zenon DEF PipeInv, TypeOK, Used
<1>2. Used \in 0 .. COUNT - 1 /\ Used # PIPESIZE
  BY UsedFacts, Zenon DEF PipeInv, WriteByte
<1>3. Used < PIPESIZE /\ Used < COUNT - 1
  BY <1>2, PipeSizes DEF RingInv
<1>4. (((nwrite + 1) % COUNT) - nread) % COUNT = Used + 1
  BY <1>1, <1>3, CounterStep, Zenon
<1>5. nwrite' = (nwrite + 1) % COUNT /\ nread' = nread
  BY Zenon DEF WriteByte
<1> QED BY <1>3, <1>4, <1>5, Zenon DEF Used

LEMMA ReadUsed ==
  ASSUME PipeInv, RingInv, NEW p \in Proc, ReadByte(p)
  PROVE  Used > 0 /\ Used' = Used - 1
<1>1. /\ nread \in 0 .. COUNT - 1 /\ nwrite \in 0 .. COUNT - 1
      /\ Used = (nwrite - nread) % COUNT
  BY Zenon DEF PipeInv, TypeOK, Used
<1>2. Used \in 0 .. COUNT - 1 /\ Used > 0
  BY UsedFacts, PipeSizes DEF PipeInv, ReadByte
<1>3. (nwrite - ((nread + 1) % COUNT)) % COUNT = Used - 1
  BY <1>1, <1>2, CounterStep, ZenonT(30)
<1>4. nread' = (nread + 1) % COUNT /\ nwrite' = nwrite
  BY Zenon DEF ReadByte
<1>5. Used' = (nwrite' - nread') % COUNT
  BY Zenon DEF Used
<1> QED BY <1>2, <1>3, <1>4, <1>5, Zenon

\* The steps that leave the bytes alone.
KeepsRing == UNCHANGED <<data, nread, nwrite>>

LEMMA OnlyBytesMove ==
  ASSUME NEW p \in Proc, Step(p)
  PROVE  KeepsRing \/ PipeAlloc(p) \/ WriteByte(p) \/ ReadByte(p)
BY Zenon DEF Step, Descriptors, Write, Read, KeepsRing, CloseRead, CloseWrite, Kill,
   Fork, WriteEnter, ReadEnter, Resume, WriteFail, WriteFull, WriteDone,
   ReadSleep, ReadKilled, ReadGo, ReadDone, pipe

LEMMA RingStep ==
  ASSUME PipeInv, RingInv, NEW p \in Proc, Step(p)
  PROVE  RingInv'
<1>1. CASE KeepsRing
  BY <1>1, Zenon DEF KeepsRing, RingInv, Used
<1>2. CASE PipeAlloc(p)
  <2>1. Used' = 0 % COUNT
    BY <1>2 DEF PipeAlloc, Used
  <2> QED BY <2>1, PipeSizes, ModSmall DEF RingInv
<1>3. CASE WriteByte(p)
  BY <1>3, WriteUsed, UsedFacts, PipeSizes DEF RingInv, PipeInv
<1>4. CASE ReadByte(p)
  BY <1>4, ReadUsed, UsedFacts, PipeSizes DEF RingInv, PipeInv
<1> QED BY <1>1, <1>2, <1>3, <1>4, OnlyBytesMove, Zenon

\* Queued in terms of Slot.
LEMMA QueuedIs ==
  ASSUME PipeInv, allocated
  PROVE  /\ Queued = [i \in 1 .. Used |-> data[Slot(i)]]
         /\ Queued \in Seq(Byte) /\ Len(Queued) = Used
         /\ \A i \in 1 .. Used : Slot(i) \in 0 .. PIPESIZE - 1
<1>1. Queued = [i \in 1 .. Used |-> data[Slot(i)]]
  BY Zenon DEF Queued, Slot
<1>2. Used \in Nat
  BY UsedFacts, PipeSizes DEF PipeInv
<1>3. \A i \in 1 .. Used : Slot(i) \in 0 .. PIPESIZE - 1
  <2> TAKE i \in 1 .. Used
  <2>1. nread + i - 1 \in Nat
    BY <1>2, PipeSizes DEF PipeInv, TypeOK
  <2> DEFINE x == nread + i - 1
             y == x % COUNT
  <2> HIDE DEF x
  <2>2. y \in 0 .. COUNT - 1
    BY <2>1, CountMod, Zenon DEF x
  <2>3. y \in Nat
    BY <2>2, PipeSizes
  <2> HIDE DEF y
  <2>4. y % PIPESIZE \in 0 .. PIPESIZE - 1
    BY <2>3, IndexMod, Zenon
  <2> QED BY <2>4, Zenon DEF x, y, Slot
<1>4. \A i \in 1 .. Used : data[Slot(i)] \in Byte
  BY <1>3, Zenon DEF PipeInv, TypeOK
<1>5. [i \in 1 .. Used |-> data[Slot(i)]] \in Seq(Byte)
  BY <1>2, <1>4
<1>6. Len([i \in 1 .. Used |-> data[Slot(i)]]) = Used
  BY <1>2
<1> QED BY <1>1, <1>3, <1>5, <1>6, ZenonT(30)

LEMMA PutStep ==
  ASSUME PipeInv, RingInv, NEW p \in Proc, WriteByte(p)
  PROVE  Queue!Put
<1>1. readopen /\ writeopen /\ allocated /\ allocated'
  BY Zenon DEF PipeInv, FreedOnce, EndsInv, WriteByte, MayWrite, InWrite
<1>2. PICK ch \in Byte : data' = [data EXCEPT ![nwrite % PIPESIZE] = ch]
  BY ZenonT(30) DEF WriteByte
<1>3. Used < PIPESIZE /\ Used' = Used + 1 /\ Used \in Nat
  BY WriteUsed, UsedFacts, PipeSizes DEF PipeInv
<1>4. nread \in 0 .. COUNT - 1 /\ nwrite = (nread + Used) % COUNT
  BY UsedFacts, Zenon DEF PipeInv, TypeOK
<1>5. nwrite % PIPESIZE = (nread + Used) % PIPESIZE
  <2> DEFINE x == nread + Used
  <2>1. x \in 0 .. 2 * COUNT - 1
    BY <1>3, <1>4, PipeSizes
  <2> HIDE DEF x
  <2>2. (x % COUNT) % PIPESIZE = x % PIPESIZE
    BY <2>1, WrapKeepsIndex, Zenon
  <2> QED BY <1>4, <2>2, Zenon DEF x
<1>6. \A i \in 1 .. Used : Slot(i) # nwrite % PIPESIZE
  <2> TAKE i \in 1 .. Used
  <2> DEFINE x == nread + i - 1
             d == Used + 1 - i
  <2>1. /\ x \in 0 .. 2 * COUNT - 1 /\ x \in Nat
        /\ d \in 1 .. PIPESIZE - 1 /\ x + d = nread + Used
    BY <1>3, <1>4, PipeSizes
  <2>2. Slot(i) = (x % COUNT) % PIPESIZE
    BY Zenon DEF Slot
  <2> HIDE DEF x, d
  <2>3. Slot(i) = x % PIPESIZE
    BY <2>1, <2>2, WrapKeepsIndex, Zenon
  <2>4. (x + d) % PIPESIZE # x % PIPESIZE
    BY <2>1, SlotsApart, Zenon
  <2> QED BY <1>5, <2>1, <2>3, <2>4, Zenon
<1>7. Slot(Used + 1) = nwrite % PIPESIZE
  <2>1. nread + (Used + 1) - 1 = nread + Used
    BY <1>3, <1>4, PipeSizes
  <2> QED BY <1>4, <2>1, Zenon DEF Slot
<1>8. nwrite % PIPESIZE \in 0 .. PIPESIZE - 1
  <2>1. nwrite \in Nat
    BY PipeSizes DEF PipeInv, TypeOK
  <2> QED BY <2>1, IndexMod, Zenon
<1>9. /\ \A i \in 1 .. Used : data'[Slot(i)] = data[Slot(i)]
      /\ data'[Slot(Used + 1)] = ch
  <2>1. data \in [0 .. PIPESIZE - 1 -> Byte]
    BY Zenon DEF PipeInv, TypeOK
  <2>2. \A i \in 1 .. Used : Slot(i) \in 0 .. PIPESIZE - 1
    BY <1>1, QueuedIs, Zenon
  <2> HIDE DEF Slot
  <2>3. \A i \in 1 .. Used : data'[Slot(i)] = data[Slot(i)]
    BY <1>2, <1>6, <2>1, <2>2, Zenon
  <2> QED BY <1>2, <1>7, <1>8, <2>1, <2>3, Zenon
<1>10. Queued' = [i \in 1 .. Used + 1 |-> data'[Slot(i)]]
  <2>1. nread' = nread
    BY Zenon DEF WriteByte
  <2> QED BY <1>1, <1>3, <2>1, Zenon DEF Queued, Slot
<1>11. Queued' = Append(Queued, ch)
  <2>1. /\ Queued = [i \in 1 .. Used |-> data[Slot(i)]]
        /\ Queued \in Seq(Byte) /\ Len(Queued) = Used
    BY <1>1, QueuedIs, Zenon
  <2>2. Append(Queued, ch)
          = [i \in 1 .. Used + 1 |-> IF i = Used + 1 THEN ch ELSE Queued[i]]
    BY <2>1, <1>3
  <2>3. \A i \in 1 .. Used + 1 :
           data'[Slot(i)] = IF i = Used + 1 THEN ch ELSE Queued[i]
    BY <1>3, <1>9, <2>1
  <2> QED BY <1>10, <2>2, <2>3, Zenon
<1>12. Len(Queued) < PIPESIZE
  BY <1>1, <1>3, QueuedIs, Zenon
<1>13. UNCHANGED <<readopen, writeopen, out>>
  BY Zenon DEF WriteByte
<1> QED BY <1>1, <1>11, <1>12, <1>13, Zenon DEF Queue!Put

LEMMA TakeStep ==
  ASSUME PipeInv, RingInv, NEW p \in Proc, ReadByte(p)
  PROVE  Queue!Take
<1>1. readopen /\ allocated /\ allocated' /\ UNCHANGED <<data, readopen, writeopen>>
  BY Zenon DEF PipeInv, FreedOnce, EndsInv, ReadByte, InRead
<1>2. Used > 0 /\ Used' = Used - 1 /\ Used \in Nat /\ Used <= PIPESIZE
  BY ReadUsed, UsedFacts, PipeSizes DEF PipeInv, RingInv
<1>3. /\ nread \in 0 .. COUNT - 1 /\ nread' \in 0 .. COUNT - 1
      /\ nread' = IF nread + 1 < COUNT THEN nread + 1 ELSE nread + 1 - COUNT
  <2> DEFINE a == nread + 1
  <2>1. a \in 0 .. 2 * COUNT - 1 /\ nread' = a % COUNT
    BY PipeSizes DEF PipeInv, TypeOK, ReadByte
  <2> HIDE DEF a
  <2>2. a % COUNT = IF a < COUNT THEN a ELSE a - COUNT
    BY <2>1, CountPositive, ModWrap, ZenonT(30)
  <2> QED BY <2>1, <2>2, PipeSizes DEF a, PipeInv, TypeOK
<1>4. ASSUME NEW i \in 1 .. Used - 1
      PROVE  ((nread' + i - 1) % COUNT) % PIPESIZE = Slot(i + 1)
  <2> DEFINE x == nread' + i - 1
             y == nread + i
  <2>1. x \in 0 .. 2 * COUNT - 1 /\ y \in 0 .. 2 * COUNT - 1
    BY <1>2, <1>3, PipeSizes
  <2>2. y = x \/ (x \in 0 .. COUNT - 1 /\ y = x + COUNT)
    BY <1>2, <1>3, PipeSizes
  <2>3. nread + (i + 1) - 1 = y
    BY <1>2, <1>3, PipeSizes
  <2>4. Slot(i + 1) = (y % COUNT) % PIPESIZE
    BY <2>3, Zenon DEF Slot
  <2> HIDE DEF x, y
  <2>5. x % COUNT = y % COUNT
    <3>1. /\ x % COUNT = IF x < COUNT THEN x ELSE x - COUNT
          /\ y % COUNT = IF y < COUNT THEN y ELSE y - COUNT
      BY <2>1, CountPositive, ModWrap, ZenonT(30)
    <3> QED BY <2>1, <2>2, <3>1, PipeSizes
  <2> QED BY <2>4, <2>5, Zenon DEF x
<1>5. /\ Queued = [i \in 1 .. Used |-> data[Slot(i)]]
      /\ Queued \in Seq(Byte) /\ Len(Queued) = Used
  BY <1>1, QueuedIs, Zenon
<1>6. Queued' = [i \in 1 .. Used - 1 |-> data[((nread' + i - 1) % COUNT) % PIPESIZE]]
  BY <1>1, <1>2, Zenon DEF Queued
<1>7. Queued' = Tail(Queued)
  <2>1. Tail(Queued) = [i \in 1 .. Used - 1 |-> Queued[i + 1]]
    BY <1>2, <1>5
  <2>2. \A i \in 1 .. Used - 1 :
           data[((nread' + i - 1) % COUNT) % PIPESIZE] = Queued[i + 1]
    <3> TAKE i \in 1 .. Used - 1
    <3>1. i + 1 \in 1 .. Used
      BY <1>2
    <3> QED BY <1>4, <1>5, <3>1, Zenon
  <2> QED BY <1>6, <2>1, <2>2, Zenon
<1>8. Queued # <<>> /\ out' = Head(Queued)
  <2>1. Queued # <<>> /\ Head(Queued) = Queued[1] /\ 1 \in 1 .. Used
    BY <1>2, <1>5
  <2>2. Queued[1] = data[Slot(1)]
    BY <1>5, <2>1, Zenon
  <2>3. Slot(1) = nread % PIPESIZE
    <3>1. nread + 1 - 1 = nread /\ nread % COUNT = nread
      BY <1>3, PipeSizes, ModWrap
    <3> QED BY <3>1, Zenon DEF Slot
  <2> QED BY <2>1, <2>2, <2>3, Zenon DEF ReadByte
<1> QED BY <1>1, <1>7, <1>8, Zenon DEF Queue!Take

\* The steps that are none of the queue's business.
LEMMA QuietStep ==
  ASSUME KeepsRing, UNCHANGED <<readopen, writeopen, allocated, out>>
  PROVE  UNCHANGED Queue!vars
<1>1. Queued' = Queued
  BY Zenon DEF KeepsRing, Queued, Used
<1> QED BY <1>1, Zenon DEF Queue!vars

LEMMA OpenStep ==
  ASSUME PipeInv, NEW p \in Proc, PipeAlloc(p)
  PROVE  Queue!Open
<1>1. Queued = <<>> /\ ~readopen /\ ~writeopen
  BY Zenon DEF PipeInv, FreedOnce, PipeAlloc, Queued
<1>2. Used' = 0
  <2>1. Used' = 0 % COUNT
    BY DEF PipeAlloc, Used
  <2>2. 0 % COUNT = 0
    BY CountPositive, ModSmall
  <2> QED BY <2>1, <2>2, Zenon
<1>3. Queued' = <<>>
  BY <1>2 DEF PipeAlloc, Queued
<1> QED BY <1>1, <1>3, Zenon DEF PipeAlloc, Queue!Open

LEMMA CloseStep ==
  ASSUME PipeInv, NEW p \in Proc, CloseRead(p) \/ CloseWrite(p)
  PROVE  Queue!Close \/ UNCHANGED Queue!vars
<1>1. KeepsRing /\ UNCHANGED out
  BY Zenon DEF KeepsRing, CloseRead, CloseWrite
<1>2. CASE UNCHANGED <<readopen, writeopen, allocated>>
  BY <1>1, <1>2, QuietStep, Zenon
<1>3. CASE CloseRead(p) /\ readers' = {}
  <2>1. readopen /\ allocated /\ ~readopen' /\ writeopen' = writeopen /\ allocated' = writeopen
    BY <1>3, Zenon DEF PipeInv, FreedOnce, CloseRead
  <2>2. Queued' = IF readopen' \/ writeopen' THEN Queued ELSE <<>>
    BY <1>1, <2>1, Zenon DEF KeepsRing, Queued, Used
  <2> QED BY <1>1, <2>1, <2>2, ZenonT(30) DEF Queue!Close
<1>4. CASE CloseWrite(p) /\ writers' = {}
  <2>1. writeopen /\ allocated /\ ~writeopen' /\ readopen' = readopen /\ allocated' = readopen
    BY <1>4, Zenon DEF PipeInv, FreedOnce, CloseWrite
  <2>2. Queued' = IF readopen' \/ writeopen' THEN Queued ELSE <<>>
    BY <1>1, <2>1, Zenon DEF KeepsRing, Queued, Used
  <2> QED BY <1>1, <2>1, <2>2, ZenonT(30) DEF Queue!Close
<1> QED BY <1>2, <1>3, <1>4, ZenonT(30) DEF CloseRead, CloseWrite

LEMMA EndStep ==
  ASSUME PipeInv, NEW p \in Proc, ReadGo(p)
  PROVE  Queue!EndOfFile \/ UNCHANGED Queue!vars
<1>1. KeepsRing /\ UNCHANGED <<readopen, writeopen, allocated>>
  BY Zenon DEF ReadGo, pipe, KeepsRing
<1>2. CASE Empty
  <2>1. readopen /\ ~writeopen /\ allocated /\ out' = Eof
    BY <1>2, Zenon DEF PipeInv, FreedOnce, EndsInv, ReadGo, InRead
  <2>2. Queued = <<>>
    <3>1. Used = 0
      BY <1>2, UsedFacts, Zenon DEF PipeInv
    <3> QED BY <2>1, <3>1 DEF Queued
  <2>3. Queued' = Queued
    BY <1>1, Zenon DEF KeepsRing, Queued, Used
  <2> QED BY <1>1, <2>1, <2>2, <2>3, Zenon DEF Queue!EndOfFile
<1>3. CASE ~Empty
  BY <1>1, <1>3, QuietStep, Zenon DEF ReadGo
<1> QED BY <1>2, <1>3, Zenon

LEMMA ReturnStep ==
  ASSUME NEW p \in Proc, ReadDone(p)
  PROVE  Queue!Return
<1>1. Queued' = Queued
  BY Zenon DEF ReadDone, pipe, Queued, Used
<1> QED BY <1>1, Zenon DEF ReadDone, pipe, Queue!Return

LEMMA QueueStep ==
  ASSUME PipeInv, RingInv, NEW p \in Proc, Step(p)
  PROVE  Queue!Next \/ UNCHANGED Queue!vars
<1>1. CASE PipeAlloc(p)
  BY <1>1, OpenStep, Zenon DEF Queue!Next
<1>2. CASE CloseRead(p) \/ CloseWrite(p)
  BY <1>2, CloseStep, Zenon DEF Queue!Next
<1>3. CASE WriteByte(p)
  BY <1>3, PutStep, Zenon DEF Queue!Next
<1>4. CASE ReadByte(p)
  BY <1>4, TakeStep, Zenon DEF Queue!Next
<1>5. CASE ReadGo(p)
  BY <1>5, EndStep, Zenon DEF Queue!Next
<1>6. CASE ReadDone(p)
  BY <1>6, ReturnStep, Zenon DEF Queue!Next
<1>7. CASE \/ Kill(p) \/ \E r \in Proc : Fork(p, r)
           \/ WriteEnter(p) \/ ReadEnter(p) \/ Resume(p)
           \/ WriteFail(p) \/ WriteFull(p) \/ WriteDone(p)
           \/ ReadSleep(p) \/ ReadKilled(p)
  <2>1. KeepsRing /\ UNCHANGED <<readopen, writeopen, allocated, out>>
    BY <1>7, Zenon DEF KeepsRing, pipe, Kill, Fork, WriteEnter, ReadEnter, Resume,
       WriteFail, WriteFull, WriteDone, ReadSleep, ReadKilled
  <2> QED BY <2>1, QuietStep, Zenon
<1> QED BY <1>1, <1>2, <1>3, <1>4, <1>5, <1>6, <1>7, Zenon
        DEF Step, Descriptors, Write, Read

LEMMA QueueInit ==
  ASSUME Init
  PROVE  Queue!Init /\ RingInv
<1>1. Queued = <<>>
  BY Zenon DEF Init, Queued
<1>2. Used = 0
  <2>1. Used = 0 % COUNT
    BY DEF Init, Used
  <2>2. 0 % COUNT = 0
    BY CountPositive, ModSmall
  <2> QED BY <2>1, <2>2, Zenon
<1> QED BY <1>1, <1>2, PipeSizes DEF Init, Queue!Init, RingInv

LEMMA QueueNext ==
  ASSUME PipeInv, RingInv, [Next]_vars
  PROVE  RingInv' /\ [Queue!Next]_(Queue!vars)
<1>1. ASSUME NEW p \in Proc, Step(p)
      PROVE  RingInv' /\ [Queue!Next]_(Queue!vars)
  BY <1>1, RingStep, QueueStep, Zenon
<1>2. CASE UNCHANGED vars
  <2>1. KeepsRing /\ UNCHANGED <<readopen, writeopen, allocated, out>>
    BY <1>2, Zenon DEF vars, pipe, KeepsRing
  <2> QED BY <2>1, QuietStep, Zenon DEF KeepsRing, RingInv, Used
<1> QED BY <1>1, <1>2, Zenon DEF Next, Step

\* The ring of pipe.c implements the bounded queue of bytes, whatever its
\* size and wherever nread and nwrite wrap: no unread byte is overwritten,
\* bytes come out in the order they went in, and piperead returns 0 only when
\* the last of them has been read and the write end is closed.
THEOREM PipeIsQueue == Spec => IsQueue
<1> QED BY PipeInvariant, QueueInit, QueueNext, PTL DEF Spec, IsQueue, Queue!Spec
=============================================================================
