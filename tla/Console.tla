------------------------------ MODULE Console ------------------------------
(***************************************************************************)
(* The console's line discipline: kernel/console.c, fed by uartintr of     *)
(* kernel/uart.c.  cons_lock is held, with interrupts off, from a reader's *)
(* start or wakeup to its next sleep or return: until then nothing else    *)
(* runs.  Its loop goes one character per step; consoleintr is one step.   *)
(* Echo is left out.                                                       *)
(***************************************************************************)
EXTENDS Integers, Sequences

CONSTANTS
  Reader,          \* processes that read
  Count,           \* the counts they ask for
  INPUT_BUF_SIZE,
  UINT             \* the indices are modulo UINT (2^32 in the code)

\* The indices wrap around where the buffer does.
ASSUME ConsoleSizes ==
  /\ INPUT_BUF_SIZE \in Nat \ {0} /\ UINT \in Nat /\ UINT > INPUT_BUF_SIZE
  /\ UINT % INPUT_BUF_SIZE = 0 /\ Count \subseteq Nat

Newline == "\n"
Eof == "^D"
Key == {"x", "\r", Newline, Eof, "^U", "^H", "DEL", "^P", "NUL"}
Stored == {"x", Newline, Eof}

VARIABLES
  cons_buf, cons_r, cons_w, cons_e,
  reader,          \* "idle", "running" with cons_lock, "sleeping" or "runnable"
  left, target,    \* n and target of its call
  rkilled,         \* 1 when its process was killed
  rret             \* what its last call returned, 0 during a call

input == <<cons_buf, cons_r, cons_w, cons_e>>
call == <<left, target, rkilled, rret>>
consoleVars == <<input, reader, call>>

ConsoleInit ==
  /\ cons_buf = [k \in 0 .. INPUT_BUF_SIZE - 1 |-> "x"]
  /\ cons_r = 0 /\ cons_w = 0 /\ cons_e = 0
  /\ reader = [p \in Reader |-> "idle"]
  /\ left = [p \in Reader |-> 0] /\ target = left /\ rkilled = left /\ rret = left

Slot(i) == i % INPUT_BUF_SIZE
Plus1(i) == (i + 1) % UINT
Minus(a, b) == (a - b) % UINT

cons_unlocked == \A p \in Reader : reader[p] # "running"

-----------------------------------------------------------------------------
(* consoleintr *)

\* mutant: wakeup is left out.
WakeNobody == UNCHANGED reader

\* cons_r is the channel of every reader.
WakeReaders == reader' = [p \in Reader |-> IF reader[p] = "sleeping" THEN "runnable" ELSE reader[p]]

Finishes(c) == c \in {Newline, Eof} \/ Minus(Plus1(cons_e), cons_r) = INPUT_BUF_SIZE

Room == Minus(cons_e, cons_r) < INPUT_BUF_SIZE

Store(c) ==
  /\ Room
  /\ cons_buf' = [cons_buf EXCEPT ![Slot(cons_e)] = c] /\ cons_e' = Plus1(cons_e)
  /\ IF Finishes(c) THEN cons_w' = Plus1(cons_e) /\ WakeReaders ELSE UNCHANGED <<cons_w, reader>>
  /\ UNCHANGED <<cons_r, call>>

\* How far ^U goes back: to the start of the line.
LineLength ==
  CHOOSE k \in 0 .. Minus(cons_e, cons_w) :
    /\ k = Minus(cons_e, cons_w) \/ cons_buf[Slot(Minus(cons_e, k + 1))] = Newline
    /\ \A j \in 0 .. k - 1 : cons_buf[Slot(Minus(cons_e, j + 1))] # Newline

KillLine == cons_e' = Minus(cons_e, LineLength) /\ UNCHANGED <<cons_buf, cons_r, cons_w, reader, call>>

\* mutant: backspace goes on into finished lines.
MayEraseAny == cons_e # cons_r

MayErase == cons_e # cons_w

Backspace ==
  /\ MayErase /\ cons_e' = Minus(cons_e, 1)
  /\ UNCHANGED <<cons_buf, cons_r, cons_w, reader, call>>

\* Nothing changes for ^P, a zero, and where the conditions above fail.
consoleintr(key) ==
  /\ cons_unlocked
  /\ \/ key = "^U" /\ KillLine
     \/ key \in {"^H", "DEL"} /\ Backspace
     \/ key \in {"x", "\r", Newline, Eof} /\ Store(IF key = "\r" THEN Newline ELSE key)

-----------------------------------------------------------------------------
(* consoleread *)

\* The process may have been killed on its way into the call.
consoleread(p, n, killed) ==
  /\ cons_unlocked /\ reader[p] = "idle"
  /\ reader' = [reader EXCEPT ![p] = "running"]
  /\ left' = [left EXCEPT ![p] = n] /\ target' = [target EXCEPT ![p] = n]
  /\ rkilled' = [rkilled EXCEPT ![p] = killed] /\ rret' = [rret EXCEPT ![p] = 0]
  /\ UNCHANGED input

Returns(p, n) ==
  /\ reader' = [reader EXCEPT ![p] = "idle"] /\ rret' = [rret EXCEPT ![p] = n]
  /\ left' = [left EXCEPT ![p] = 0] /\ target' = [target EXCEPT ![p] = 0]
  /\ rkilled' = [rkilled EXCEPT ![p] = 0]
  /\ UNCHANGED <<cons_buf, cons_w, cons_e>>

SleepReader(p) == reader' = [reader EXCEPT ![p] = "sleeping"] /\ UNCHANGED <<input, call>>

\* Where cons_r is left at an end-of-file.
PastEof(p) == IF left[p] < target[p] THEN cons_r ELSE Plus1(cons_r)

\* The next character; either_copyout may fail.
ReadChar(p, c) ==
  \/ c = Eof /\ cons_r' = PastEof(p) /\ Returns(p, target[p] - left[p])
  \/ c # Eof /\ cons_r' = Plus1(cons_r) /\ Returns(p, target[p] - left[p])
  \/ c = Newline /\ cons_r' = Plus1(cons_r) /\ Returns(p, target[p] - (left[p] - 1))
  \/ /\ c \notin {Newline, Eof}
     /\ cons_r' = Plus1(cons_r) /\ left' = [left EXCEPT ![p] = @ - 1]
     /\ UNCHANGED <<cons_buf, cons_w, cons_e, reader, target, rkilled, rret>>

ReadLoop(p) ==
  /\ reader[p] = "running"
  /\ \/ left[p] = 0 /\ Returns(p, target[p]) /\ UNCHANGED cons_r
     \/ left[p] > 0 /\ cons_r = cons_w /\ rkilled[p] = 1 /\ Returns(p, -1) /\ UNCHANGED cons_r
     \/ left[p] > 0 /\ cons_r = cons_w /\ rkilled[p] = 0 /\ SleepReader(p)
     \/ left[p] > 0 /\ cons_r # cons_w /\ ReadChar(p, cons_buf[Slot(cons_r)])

\* The reader goes on after sleep.
Resume(p) ==
  /\ cons_unlocked /\ reader[p] = "runnable"
  /\ reader' = [reader EXCEPT ![p] = "running"] /\ UNCHANGED <<input, call>>

\* kill wakes a sleeping process.
KillReader(p) ==
  /\ cons_unlocked /\ reader[p] # "idle"
  /\ rkilled' = [rkilled EXCEPT ![p] = 1]
  /\ reader' = [reader EXCEPT ![p] = "runnable"]
  /\ UNCHANGED <<input, left, target, rret>>

ConsoleNext ==
  \/ \E key \in Key : consoleintr(key)
  \/ \E p \in Reader : \/ ReadLoop(p) \/ Resume(p) \/ KillReader(p)
                       \/ \E n \in Count, killed \in {0, 1} : consoleread(p, n, killed)

ConsoleSpec == ConsoleInit /\ [][ConsoleNext]_consoleVars

-----------------------------------------------------------------------------
(* Properties *)

Used == Minus(cons_e, cons_r)
Ready == Minus(cons_w, cons_r)
Text == [k \in 1 .. Used |-> cons_buf[Slot(cons_r + k - 1)]]

ConsoleTypeOK ==
  /\ cons_buf \in [0 .. INPUT_BUF_SIZE - 1 -> Stored]
  /\ {cons_r, cons_w, cons_e} \subseteq 0 .. UINT - 1
  /\ reader \in [Reader -> {"idle", "running", "sleeping", "runnable"}]
  /\ left \in [Reader -> Nat] /\ target \in [Reader -> Nat] /\ rret \in [Reader -> Int]
  /\ rkilled \in [Reader -> {0, 1}] /\ \A p \in Reader : left[p] <= target[p]

\* The reader, the finished lines and the line being edited follow each other
\* within one buffer, and the line has no end in it.
BufferInOrder ==
  /\ Ready <= Used /\ Used <= INPUT_BUF_SIZE
  /\ \A k \in Ready + 1 .. Used : Text[k] \notin {Newline, Eof}

\* A full buffer is not a dead end: when consoleintr has no room left for a
\* newline, all of the buffer has been handed to the readers.
FullIsReadable == Used = INPUT_BUF_SIZE => cons_w = cons_e

\* One reader at a time has cons_lock; a reader sleeps only while nothing is
\* ready for it: consoleintr's wakeup is never missed, nor does a reader take
\* the wakeup meant for another.
NoLostWakeup ==
  /\ \A p, q \in Reader : reader[p] = "running" /\ reader[q] = "running" => p = q
  /\ \A p \in Reader : reader[p] = "sleeping" => cons_r = cons_w /\ rkilled[p] = 0

\* Readers are woken for what there is to read: BufferInOrder, FullIsReadable
\* and NoLostWakeup, and every variable has its type.
ReadersReady == ConsoleTypeOK /\ BufferInOrder /\ FullIsReadable /\ NoLostWakeup

Got == [p \in Reader |-> IF reader[p] = "idle" THEN -1 ELSE target[p] - left[p]]

T == INSTANCE Terminal WITH Size <- INPUT_BUF_SIZE, Char <- Stored,
                            text <- Text, finished <- Ready, got <- Got, result <- rret

\* The ring buffer of consoleintr and consoleread is a terminal, the abstract
\* specification of module Terminal: a finished line is never edited, lost or
\* duplicated, readers of any number take characters in order, a read returns
\* how many it was given, at most a line, an end-of-file is kept for a read of
\* its own ("Save ^D for next time, to make sure caller gets a 0-byte result"),
\* and the indices may wrap around.
IsTerminal == T!Spec
=============================================================================
