--------------------------- MODULE ConsoleProofs ---------------------------
(***************************************************************************)
(* The console of console.c is a terminal, for any number of readers, any  *)
(* size of the buffer and any width of the indices that is a multiple of   *)
(* it.  ReadersReady is inductive; the refinement follows from it.         *)
(***************************************************************************)
EXTENDS Console, TLAPS

-----------------------------------------------------------------------------
(* Indices: remainders, and the distance of two indices that wrap around *)

\* A remainder is unique.
LEMMA DivisionUnique ==
  ASSUME NEW n \in Nat \ {0}, NEW k \in Int, NEW m \in Int,
         NEW r \in 0 .. n - 1, NEW s \in 0 .. n - 1, n * k + r = n * m + s
  PROVE  r = s
<1>1. n * (k - m) = s - r
  OBVIOUS
<1>2. CASE k > m
  <2>1. n * (k - m) >= n
    BY <1>2
  <2> QED BY <1>1, <2>1
<1>3. CASE k < m
  <2>1. n * (k - m) <= -n
    BY <1>3
  <2> QED BY <1>1, <2>1
<1>4. CASE k = m
  BY <1>4
<1> QED BY <1>2, <1>3, <1>4

LEMMA ModIs ==
  ASSUME NEW n \in Nat \ {0}, NEW k \in Int, NEW r \in 0 .. n - 1,
         NEW a \in Int, a = n * k + r
  PROVE  a % n = r
<1>1. /\ a = n * (a \div n) + (a % n)
      /\ a % n \in 0 .. n - 1 /\ a \div n \in Int
  OBVIOUS
<1> QED BY <1>1, DivisionUnique, ZenonT(30)

LEMMA ModSmall ==
  ASSUME NEW n \in Nat \ {0}, NEW a \in Int
  PROVE  /\ a \in 0 .. n - 1 => a % n = a
         /\ a \in n .. 2 * n - 1 => a % n = a - n
         /\ a \in -n .. -1 => a % n = a + n
OBVIOUS

\* cons_e++ and the difference of two indices.
LEMMA Indices ==
  /\ \A i \in 0 .. UINT - 1 : Plus1(i) = IF i + 1 < UINT THEN i + 1 ELSE 0
  /\ \A i, j \in 0 .. UINT - 1 : Minus(i, j) = IF i >= j THEN i - j ELSE i - j + UINT
<1>1. UINT \in Nat \ {0}
  BY ConsoleSizes
<1>2. ASSUME NEW i \in 0 .. UINT - 1 PROVE Plus1(i) = IF i + 1 < UINT THEN i + 1 ELSE 0
  BY <1>1, ModSmall DEF Plus1
<1>3. ASSUME NEW i \in 0 .. UINT - 1, NEW j \in 0 .. UINT - 1
      PROVE  Minus(i, j) = IF i >= j THEN i - j ELSE i - j + UINT
  <2>1. CASE i >= j
    BY <1>1, <2>1, ModSmall DEF Minus
  <2>2. CASE i < j
    <3> DEFINE a == i - j
    <3>1. a \in Int /\ a \in -UINT .. -1
      BY <1>1, <2>2
    <3> HIDE DEF a
    <3>2. a % UINT = a + UINT
      BY <1>1, <3>1, ModSmall, ZenonT(30)
    <3> QED BY <2>2, <3>2 DEF a, Minus
  <2> QED BY <2>1, <2>2
<1> QED BY <1>2, <1>3, Zenon

\* A slot is in the buffer.
LEMMA SlotType ==
  ASSUME NEW i \in Nat
  PROVE  Slot(i) \in 0 .. INPUT_BUF_SIZE - 1
BY ConsoleSizes, SMTT(30) DEF Slot

\* The indices wrap at a multiple of the buffer's size, which keeps the slot.
LEMMA WrapKeepsSlot ==
  ASSUME NEW i \in Nat
  PROVE  Slot(i + UINT) = Slot(i)
<1> DEFINE n == INPUT_BUF_SIZE
           k == UINT \div n
           h == i \div n
           r == i % n
           a == i + UINT
<1>0. n \in Nat \ {0} /\ UINT \in Nat /\ UINT % n = 0
  BY ConsoleSizes, Zenon
<1> HIDE DEF n
<1>1. UINT = n * k /\ k \in Int
  BY <1>0
<1>2. i = n * h + r /\ h \in Int /\ r \in 0 .. n - 1
  BY <1>0
<1> HIDE DEF k, h, r
<1> DEFINE q == h + k
<1>3. a = n * q + r /\ q \in Int /\ a \in Int
  BY <1>0, <1>1, <1>2
<1> HIDE DEF q, a
<1>4. a % n = r
  BY <1>0, <1>2, <1>3, ModIs
<1> QED BY <1>4, Zenon DEF Slot, a, r, n

\* Indices less than a buffer apart have different slots.
LEMMA SlotsApart ==
  ASSUME NEW i \in Nat, NEW d \in 1 .. INPUT_BUF_SIZE - 1
  PROVE  Slot(i + d) # Slot(i)
<1> DEFINE n == INPUT_BUF_SIZE
           h == i \div n
           r == i % n
           a == i + d
<1>0. n \in Nat \ {0} /\ d \in 1 .. n - 1
  BY ConsoleSizes, Zenon
<1> HIDE DEF n
<1>1. i = n * h + r /\ h \in Int /\ r \in 0 .. n - 1
  BY <1>0
<1> HIDE DEF h, r
<1>2. CASE r + d < n
  <2>1. a = n * h + (r + d) /\ r + d \in 0 .. n - 1 /\ a \in Int
    BY <1>0, <1>1, <1>2
  <2> HIDE DEF a
  <2>2. a % n = r + d
    BY <1>0, <1>1, <2>1, ModIs
  <2> QED BY <1>0, <1>1, <2>2 DEF r, a, n, Slot
<1>3. CASE r + d >= n
  <2> DEFINE k == h + 1
             t == r + d - n
  <2>1. a = n * k + t
    BY <1>0, <1>1
  <2>2. t \in 0 .. n - 1 /\ k \in Int /\ a \in Int /\ t # r
    BY <1>0, <1>1, <1>3
  <2> HIDE DEF k, t, a
  <2>3. a % n = t
    BY <1>0, <2>1, <2>2, ModIs, Zenon
  <2> QED BY <1>1, <2>2, <2>3, Zenon DEF r, a, n, Slot
<1> QED BY <1>0, <1>1, <1>2, <1>3

-----------------------------------------------------------------------------
(* The ring as a text *)

\* Append and Tail as functions.
LEMMA AppendIs ==
  ASSUME NEW S, NEW s \in Seq(S), NEW n \in Nat, n = Len(s), NEW c \in S
  PROVE  Append(s, c) = [k \in 1 .. n + 1 |-> IF k = n + 1 THEN c ELSE s[k]]
<1>1. s = [k \in 1 .. n |-> s[k]]
  OBVIOUS
<1>2. PICK f : s = [k \in 1 .. n |-> f[k]]
  BY <1>1, Zenon
<1> QED BY <1>2

LEMMA TailIs ==
  ASSUME NEW S, NEW s \in Seq(S), NEW n \in Nat, n = Len(s), n # 0
  PROVE  Tail(s) = [k \in 1 .. n - 1 |-> s[k + 1]]
<1>1. s = [k \in 1 .. n |-> s[k]]
  OBVIOUS
<1>2. PICK f : s = [k \in 1 .. n |-> f[k]]
  BY <1>1, Zenon
<1> QED BY <1>2

\* What the distances of the three indices say.
LEMMA Distances ==
  ASSUME ConsoleTypeOK, BufferInOrder
  PROVE  /\ Used \in 0 .. INPUT_BUF_SIZE /\ Ready \in 0 .. Used
         /\ cons_r \in 0 .. UINT - 1 /\ cons_w \in 0 .. UINT - 1 /\ cons_e \in 0 .. UINT - 1
         /\ cons_w = cons_e <=> Ready = Used
         /\ cons_r = cons_w <=> Ready = 0
         /\ cons_e = IF cons_r + Used < UINT THEN cons_r + Used ELSE cons_r + Used - UINT
         /\ Minus(cons_e, cons_w) = Used - Ready
<1>1. /\ cons_r \in 0 .. UINT - 1 /\ cons_w \in 0 .. UINT - 1 /\ cons_e \in 0 .. UINT - 1
      /\ UINT \in Nat /\ INPUT_BUF_SIZE \in Nat /\ UINT > INPUT_BUF_SIZE
      /\ Ready <= Used /\ Used <= INPUT_BUF_SIZE
  BY ConsoleSizes, Zenon DEF ConsoleTypeOK, BufferInOrder
<1>2. /\ Used = IF cons_e >= cons_r THEN cons_e - cons_r ELSE cons_e - cons_r + UINT
      /\ Ready = IF cons_w >= cons_r THEN cons_w - cons_r ELSE cons_w - cons_r + UINT
      /\ Minus(cons_e, cons_w) = IF cons_e >= cons_w THEN cons_e - cons_w ELSE cons_e - cons_w + UINT
  BY <1>1, Indices, Zenon DEF Used, Ready
<1> QED BY <1>1, <1>2

\* Slots of the text.
LEMMA TextSlots ==
  ASSUME ConsoleTypeOK, BufferInOrder
  PROVE  /\ \A k \in 1 .. Used : Slot(cons_r + k - 1) \in 0 .. INPUT_BUF_SIZE - 1
         /\ Slot(cons_e) \in 0 .. INPUT_BUF_SIZE - 1 /\ Slot(cons_e) = Slot(cons_r + Used)
         /\ Used < INPUT_BUF_SIZE => \A k \in 1 .. Used : Slot(cons_r + k - 1) # Slot(cons_e)
<1>1. /\ Used \in 0 .. INPUT_BUF_SIZE /\ Used \in Nat /\ cons_r \in Nat /\ cons_e \in Nat
      /\ cons_e = IF cons_r + Used < UINT THEN cons_r + Used ELSE cons_r + Used - UINT
      /\ UINT \in Nat /\ INPUT_BUF_SIZE \in Nat
  BY Distances, ConsoleSizes
<1>2. \A k \in 1 .. Used : cons_r + k - 1 \in Nat
  BY <1>1
<1>3. Slot(cons_e) = Slot(cons_r + Used)
  <2>1. CASE cons_e = cons_r + Used
    BY <2>1, Zenon
  <2>2. CASE cons_e + UINT = cons_r + Used
    BY <2>2, <1>1, WrapKeepsSlot, Zenon
  <2> QED BY <1>1, <2>1, <2>2
<1>4. ASSUME NEW k \in 1 .. Used, Used < INPUT_BUF_SIZE PROVE Slot(cons_r + k - 1) # Slot(cons_e)
  <2> DEFINE i == cons_r + k - 1
             d == Used + 1 - k
  <2>1. i \in Nat /\ d \in 1 .. INPUT_BUF_SIZE - 1 /\ i + d = cons_r + Used
    BY <1>1, <1>4
  <2> HIDE DEF i, d
  <2>2. Slot(i + d) # Slot(i)
    BY <2>1, SlotsApart, Zenon
  <2> QED BY <1>3, <2>1, <2>2, Zenon DEF i
<1>5. Slot(cons_e) \in 0 .. INPUT_BUF_SIZE - 1
  BY <1>1, SlotType, Zenon
<1>6. ASSUME NEW k \in 1 .. Used PROVE Slot(cons_r + k - 1) \in 0 .. INPUT_BUF_SIZE - 1
  BY <1>2, SlotType, Zenon
<1> QED BY <1>3, <1>4, <1>5, <1>6, Zenon

\* The text is a sequence of stored characters.
LEMMA TextIs ==
  ASSUME ConsoleTypeOK, BufferInOrder
  PROVE  /\ Text \in Seq(Stored) /\ Len(Text) = Used
         /\ \A k \in 1 .. Used : Text[k] = cons_buf[Slot(cons_r + k - 1)]
<1>1. Used \in Nat
  BY Distances, ConsoleSizes
<1>2. \A k \in 1 .. Used : cons_buf[Slot(cons_r + k - 1)] \in Stored
  BY TextSlots, Zenon DEF ConsoleTypeOK
<1> QED BY <1>1, <1>2 DEF Text

\* A character is added at the end.
LEMMA TextPut ==
  ASSUME ConsoleTypeOK, BufferInOrder, NEW c \in Stored, Used < INPUT_BUF_SIZE,
         cons_buf' = [cons_buf EXCEPT ![Slot(cons_e)] = c], cons_e' = Plus1(cons_e),
         cons_r' = cons_r
  PROVE  /\ Used' = Used + 1 /\ Text' = Append(Text, c)
         /\ cons_e' \in 0 .. UINT - 1 /\ cons_buf' \in [0 .. INPUT_BUF_SIZE - 1 -> Stored]
         /\ Used' = Minus(Plus1(cons_e), cons_r)
<1>1. /\ Used \in 0 .. INPUT_BUF_SIZE /\ cons_r \in 0 .. UINT - 1 /\ cons_e \in 0 .. UINT - 1
      /\ UINT \in Nat /\ INPUT_BUF_SIZE \in Nat /\ UINT > INPUT_BUF_SIZE
  BY Distances, ConsoleSizes, Zenon
<1>2. cons_e' = (IF cons_e + 1 < UINT THEN cons_e + 1 ELSE 0) /\ cons_e' \in 0 .. UINT - 1
  BY <1>1, Indices
<1>3. /\ Used = IF cons_e >= cons_r THEN cons_e - cons_r ELSE cons_e - cons_r + UINT
      /\ Used' = IF cons_e' >= cons_r THEN cons_e' - cons_r ELSE cons_e' - cons_r + UINT
  BY <1>1, <1>2, Indices, Zenon DEF Used
<1>4. Used' = Used + 1 /\ Used' = Minus(Plus1(cons_e), cons_r)
  BY <1>1, <1>2, <1>3 DEF Used
<1>5. cons_buf \in [0 .. INPUT_BUF_SIZE - 1 -> Stored]
  BY Zenon DEF ConsoleTypeOK
<1>6. cons_buf' \in [0 .. INPUT_BUF_SIZE - 1 -> Stored]
  BY <1>5, ZenonT(30)
<1>7. /\ \A k \in 1 .. Used : Slot(cons_r + k - 1) # Slot(cons_e)
      /\ \A k \in 1 .. Used : Slot(cons_r + k - 1) \in 0 .. INPUT_BUF_SIZE - 1
      /\ Slot(cons_e) \in 0 .. INPUT_BUF_SIZE - 1 /\ Slot(cons_e) = Slot(cons_r + Used)
  BY TextSlots, Zenon
<1>8. \A k \in 1 .. Used : cons_buf'[Slot(cons_r + k - 1)] = cons_buf[Slot(cons_r + k - 1)]
  BY <1>5, <1>7, Zenon
<1>9. cons_buf'[Slot(cons_r + Used)] = c
  BY <1>5, <1>7, Zenon
<1>10. /\ Text \in Seq(Stored) /\ Len(Text) = Used
       /\ \A k \in 1 .. Used : Text[k] = cons_buf[Slot(cons_r + k - 1)]
  BY TextIs, Zenon
<1>11. Text' = [k \in 1 .. Used + 1 |-> cons_buf'[Slot(cons_r + k - 1)]]
  BY <1>4 DEF Text, Slot
<1>12. Append(Text, c) = [k \in 1 .. Used + 1 |-> IF k = Used + 1 THEN c ELSE Text[k]]
  <2>1. Text \in Seq(Stored) /\ Len(Text) = Used /\ Used \in Nat
    BY <1>1, <1>10
  <2> QED BY <2>1, AppendIs
<1>13. ASSUME NEW k \in 1 .. Used + 1
       PROVE  cons_buf'[Slot(cons_r + k - 1)] = IF k = Used + 1 THEN c ELSE Text[k]
  <2>1. CASE k = Used + 1
    <3>1. cons_r + k - 1 = cons_r + Used
      BY <1>1, <2>1
    <3> QED BY <2>1, <3>1, <1>9, Zenon
  <2>2. CASE k # Used + 1
    <3>1. k \in 1 .. Used
      BY <1>1, <2>2
    <3> QED BY <2>2, <3>1, <1>8, <1>10, Zenon
  <2> QED BY <2>1, <2>2, Zenon
<1>14. Text' = Append(Text, c)
  BY <1>11, <1>12, <1>13, Zenon
<1> QED BY <1>2, <1>4, <1>6, <1>14, Zenon

\* The end of the line moves back.
LEMMA TextErase ==
  ASSUME ConsoleTypeOK, BufferInOrder, NEW d \in 0 .. Used - Ready,
         cons_e' = Minus(cons_e, d), UNCHANGED <<cons_buf, cons_r, cons_w>>
  PROVE  /\ Used' = Used - d /\ Ready' = Ready /\ Text' = SubSeq(Text, 1, Used - d)
         /\ cons_e' \in 0 .. UINT - 1 /\ \A k \in 1 .. Used - d : Text'[k] = Text[k]
<1>1. /\ Used \in 0 .. INPUT_BUF_SIZE /\ Ready \in 0 .. Used /\ cons_r \in 0 .. UINT - 1
      /\ cons_e \in 0 .. UINT - 1
      /\ UINT \in Nat /\ INPUT_BUF_SIZE \in Nat /\ UINT > INPUT_BUF_SIZE
  BY Distances, ConsoleSizes, Zenon
<1>2. d \in 0 .. UINT - 1 /\ d \in Nat
  BY <1>1
<1>3. cons_e' = (IF cons_e >= d THEN cons_e - d ELSE cons_e - d + UINT) /\ cons_e' \in 0 .. UINT - 1
  BY <1>1, <1>2, Indices
<1>4. /\ Used = IF cons_e >= cons_r THEN cons_e - cons_r ELSE cons_e - cons_r + UINT
      /\ Used' = IF cons_e' >= cons_r THEN cons_e' - cons_r ELSE cons_e' - cons_r + UINT
  BY <1>1, <1>3, Indices, Zenon DEF Used
<1>5. Used' = Used - d
  BY <1>1, <1>2, <1>3, <1>4
<1>6. /\ Text \in Seq(Stored) /\ Len(Text) = Used
      /\ \A k \in 1 .. Used : Text[k] = cons_buf[Slot(cons_r + k - 1)]
  BY TextIs, Zenon
<1>7. Text' = [k \in 1 .. Used - d |-> cons_buf[Slot(cons_r + k - 1)]]
  BY <1>5, Zenon DEF Text, Slot
<1>8. SubSeq(Text, 1, Used - d) = [k \in 1 .. Used - d |-> Text[k]]
  BY <1>1, <1>2, <1>6
<1>9. \A k \in 1 .. Used - d : k \in 1 .. Used
  BY <1>1, <1>2
<1>10. Text' = SubSeq(Text, 1, Used - d)
  BY <1>6, <1>7, <1>8, <1>9, Zenon
<1>11. \A k \in 1 .. Used - d : Text'[k] = Text[k]
  BY <1>6, <1>7, <1>9, Zenon
<1>12. Ready' = Ready
  BY Zenon DEF Ready, Minus
<1> QED BY <1>3, <1>5, <1>10, <1>11, <1>12, Zenon

\* The first character is taken.
LEMMA TextTake ==
  ASSUME ConsoleTypeOK, BufferInOrder, cons_r # cons_w,
         cons_r' = Plus1(cons_r), UNCHANGED <<cons_buf, cons_w, cons_e>>
  PROVE  /\ Used' = Used - 1 /\ Ready > 0 /\ Ready' = Ready - 1 /\ Text' = Tail(Text)
         /\ cons_r' \in 0 .. UINT - 1 /\ Head(Text) = cons_buf[Slot(cons_r)]
         /\ \A k \in 1 .. Used - 1 : Text'[k] = Text[k + 1]
<1>1. /\ Used \in 0 .. INPUT_BUF_SIZE /\ Ready \in 0 .. Used /\ cons_r \in 0 .. UINT - 1
      /\ cons_e \in 0 .. UINT - 1 /\ cons_w \in 0 .. UINT - 1 /\ Ready # 0
      /\ UINT \in Nat /\ INPUT_BUF_SIZE \in Nat /\ UINT > INPUT_BUF_SIZE
  BY Distances, ConsoleSizes, Zenon
<1>2. cons_r' = (IF cons_r + 1 < UINT THEN cons_r + 1 ELSE 0) /\ cons_r' \in 0 .. UINT - 1
  BY <1>1, Indices
<1>3. /\ Used = IF cons_e >= cons_r THEN cons_e - cons_r ELSE cons_e - cons_r + UINT
      /\ Used' = IF cons_e >= cons_r' THEN cons_e - cons_r' ELSE cons_e - cons_r' + UINT
      /\ Ready = IF cons_w >= cons_r THEN cons_w - cons_r ELSE cons_w - cons_r + UINT
      /\ Ready' = IF cons_w >= cons_r' THEN cons_w - cons_r' ELSE cons_w - cons_r' + UINT
  BY <1>1, <1>2, Indices, ZenonT(30) DEF Used, Ready
<1>4. Used' = Used - 1 /\ Ready' = Ready - 1
  BY <1>1, <1>2, <1>3
<1>5. /\ Text \in Seq(Stored) /\ Len(Text) = Used
      /\ \A k \in 1 .. Used : Text[k] = cons_buf[Slot(cons_r + k - 1)]
  BY TextIs, Zenon
<1>6. Text' = [k \in 1 .. Used - 1 |-> cons_buf[Slot(cons_r' + k - 1)]]
  BY <1>4, Zenon DEF Text, Slot
<1>7. Tail(Text) = [k \in 1 .. Used - 1 |-> Text[k + 1]]
  <2>1. Text \in Seq(Stored) /\ Len(Text) = Used /\ Used \in Nat /\ Used # 0
    BY <1>1, <1>5
  <2> QED BY <2>1, TailIs, Zenon
<1>8. ASSUME NEW k \in 1 .. Used - 1 PROVE cons_buf[Slot(cons_r' + k - 1)] = Text[k + 1]
  <2>1. k + 1 \in 1 .. Used /\ cons_r + (k + 1) - 1 = cons_r + k /\ cons_r' + k - 1 \in Nat
    BY <1>1, <1>2
  <2>2. Slot(cons_r' + k - 1) = Slot(cons_r + k)
    <3>1. CASE cons_r' + k - 1 = cons_r + k
      BY <3>1, Zenon
    <3>2. CASE (cons_r' + k - 1) + UINT = cons_r + k
      BY <3>2, <2>1, WrapKeepsSlot, Zenon
    <3> QED BY <1>1, <1>2, <3>1, <3>2
  <2>3. Text[k + 1] = cons_buf[Slot(cons_r + (k + 1) - 1)]
    BY <1>5, <2>1, Zenon
  <2> QED BY <2>1, <2>2, <2>3, Zenon
<1>9. Text' = Tail(Text)
  BY <1>6, <1>7, <1>8, Zenon
<1>10. \A k \in 1 .. Used - 1 : Text'[k] = Text[k + 1]
  BY <1>6, <1>8, Zenon
<1>11. Head(Text) = cons_buf[Slot(cons_r)]
  <2>1. Text # <<>> /\ Head(Text) = Text[1] /\ 1 \in 1 .. Used /\ cons_r + 1 - 1 = cons_r
    BY <1>1, <1>5
  <2> QED BY <2>1, <1>5, Zenon
<1>12. Ready > 0
  BY <1>1
<1> QED BY <1>2, <1>4, <1>9, <1>10, <1>11, <1>12, ZenonT(30)

-----------------------------------------------------------------------------
(* consoleintr *)

\* A character that is typed; a finished line wakes the readers.
LEMMA StoreKeeps ==
  ASSUME ReadersReady, cons_unlocked, NEW c \in Stored, Store(c)
  PROVE  ReadersReady' /\ T!Type(c)
<1>1. /\ ConsoleTypeOK /\ BufferInOrder /\ FullIsReadable /\ NoLostWakeup
      /\ Used < INPUT_BUF_SIZE
      /\ cons_buf' = [cons_buf EXCEPT ![Slot(cons_e)] = c] /\ cons_e' = Plus1(cons_e)
      /\ cons_r' = cons_r /\ UNCHANGED <<left, target, rkilled, rret>>
  BY Zenon DEF ReadersReady, Store, Room, Used, call
<1>2. /\ Used' = Used + 1 /\ Text' = Append(Text, c)
      /\ cons_e' \in 0 .. UINT - 1 /\ cons_buf' \in [0 .. INPUT_BUF_SIZE - 1 -> Stored]
      /\ Used' = Minus(Plus1(cons_e), cons_r)
  BY <1>1, TextPut, ZenonT(30)
<1>3. /\ Used \in 0 .. INPUT_BUF_SIZE /\ Ready \in 0 .. Used
      /\ cons_r \in 0 .. UINT - 1 /\ cons_w \in 0 .. UINT - 1 /\ cons_e \in 0 .. UINT - 1
      /\ INPUT_BUF_SIZE \in Nat
  BY <1>1, Distances, ConsoleSizes, Zenon
<1>4. /\ Text \in Seq(Stored) /\ Len(Text) = Used
  BY <1>1, TextIs, Zenon
<1>5. Finishes(c) <=> (c \in {Newline, Eof} \/ Used + 1 = INPUT_BUF_SIZE)
  BY <1>2, Zenon DEF Finishes
<1>6. /\ \A k \in 1 .. Used : Text'[k] = Text[k]
      /\ Text'[Used + 1] = c
  BY <1>2, <1>3, <1>4
<1>7. CASE Finishes(c)
  <2>1. /\ cons_w' = cons_e' /\ Ready' = Used + 1
        /\ reader' = [p \in Reader |-> IF reader[p] = "sleeping" THEN "runnable" ELSE reader[p]]
    <3>1. cons_w' = cons_e' /\ WakeReaders
      BY <1>1, <1>7, Zenon DEF Store
    <3>2. Ready' = Used'
      BY <3>1, Zenon DEF Ready, Used
    <3> QED BY <3>1, <3>2, <1>2, Zenon DEF WakeReaders
  <2>2. ConsoleTypeOK'
    BY <1>1, <1>2, <2>1, Zenon DEF ConsoleTypeOK
  <2>3. BufferInOrder' /\ FullIsReadable'
    <3>1. Used' \in Int /\ Ready' = Used' /\ Used' <= INPUT_BUF_SIZE /\ Ready' + 1 .. Used' = {}
      BY <1>1, <1>2, <1>3, <2>1
    <3> QED BY <2>1, <3>1 DEF BufferInOrder, FullIsReadable
  <2>4. NoLostWakeup'
    BY <1>1, <2>1, Zenon DEF NoLostWakeup, cons_unlocked, ConsoleTypeOK
  <2>5. Got' = Got
    <3>1. \A p \in Reader : reader'[p] = "idle" <=> reader[p] = "idle"
      BY <2>1, Zenon
    <3> QED BY <1>1, <3>1, Zenon DEF Got
  <2>6. Ready' = IF c \in {Newline, Eof} \/ Len(Text) + 1 = INPUT_BUF_SIZE THEN Len(Text) + 1 ELSE Ready
    BY <1>4, <1>5, <1>7, <2>1, Zenon
  <2> QED BY <1>1, <1>2, <1>4, <2>2, <2>3, <2>4, <2>5, <2>6, Zenon DEF ReadersReady, T!Type
<1>8. CASE ~Finishes(c)
  <2>1. cons_w' = cons_w /\ reader' = reader /\ Ready' = Ready
    BY <1>1, <1>8, Zenon DEF Store, Ready
  <2>2. ConsoleTypeOK'
    BY <1>1, <1>2, <2>1, Zenon DEF ConsoleTypeOK
  <2>3. BufferInOrder'
    <3>1. ASSUME NEW k \in Ready + 1 .. Used + 1 PROVE Text'[k] \notin {Newline, Eof}
      <4>1. CASE k = Used + 1
        BY <4>1, <1>5, <1>6, <1>8, Zenon
      <4>2. CASE k # Used + 1
        <5>1. k \in 1 .. Used /\ k \in Ready + 1 .. Used
          BY <4>2, <1>3
        <5> QED BY <5>1, <1>1, <1>6, Zenon DEF BufferInOrder
      <4> QED BY <4>1, <4>2, Zenon
    <3>2. /\ Ready' <= Used' /\ Used' <= INPUT_BUF_SIZE
          /\ Ready' + 1 .. Used' = Ready + 1 .. Used + 1
      BY <1>1, <1>2, <1>3, <2>1
    <3> QED BY <3>1, <3>2, ZenonT(30) DEF BufferInOrder
  <2>4. FullIsReadable' /\ NoLostWakeup'
    BY <1>1, <1>2, <1>5, <1>8, <2>1, Zenon DEF FullIsReadable, NoLostWakeup
  <2>5. Got' = Got
    BY <1>1, <2>1, Zenon DEF Got
  <2>6. Ready' = IF c \in {Newline, Eof} \/ Len(Text) + 1 = INPUT_BUF_SIZE THEN Len(Text) + 1 ELSE Ready
    BY <1>4, <1>5, <1>8, <2>1, Zenon
  <2> QED BY <1>1, <1>2, <1>4, <2>2, <2>3, <2>4, <2>5, <2>6, Zenon DEF ReadersReady, T!Type
<1> QED BY <1>7, <1>8, Zenon

\* ^U finds no newline in the line, and goes back to its start.
LEMMA WholeLine ==
  ASSUME ConsoleTypeOK, BufferInOrder
  PROVE  LineLength = Used - Ready
<1>1. /\ Used \in 0 .. INPUT_BUF_SIZE /\ Ready \in 0 .. Used
      /\ cons_r \in 0 .. UINT - 1 /\ cons_e \in 0 .. UINT - 1
      /\ cons_e = IF cons_r + Used < UINT THEN cons_r + Used ELSE cons_r + Used - UINT
      /\ Minus(cons_e, cons_w) = Used - Ready
      /\ INPUT_BUF_SIZE \in Nat /\ UINT \in Nat /\ UINT > INPUT_BUF_SIZE
  BY Distances, ConsoleSizes, Zenon
<1>2. ASSUME NEW j \in 0 .. (Used - Ready) - 1
      PROVE  cons_buf[Slot(Minus(cons_e, j + 1))] # Newline
  <2> DEFINE m == j + 1
             i == Minus(cons_e, m)
             k == Used - j
  <2>1. m \in 0 .. UINT - 1 /\ k \in 1 .. Used /\ k \in Ready + 1 .. Used /\ k = Used - m + 1
    BY <1>1
  <2> HIDE DEF m, k
  <2>2. i = (IF cons_e >= m THEN cons_e - m ELSE cons_e - m + UINT) /\ i \in Nat
    BY <1>1, <2>1, Indices
  <2> HIDE DEF i
  <2>3. Slot(i) = Slot(cons_r + k - 1)
    <3>1. CASE i = cons_r + k - 1
      BY <3>1, Zenon
    <3>2. CASE i + UINT = cons_r + k - 1
      BY <3>2, <2>2, WrapKeepsSlot, Zenon
    <3> QED BY <1>1, <2>1, <2>2, <3>1, <3>2
  <2>4. Text[k] = cons_buf[Slot(cons_r + k - 1)] /\ Text[k] # Newline
    BY <2>1, TextIs, Zenon DEF BufferInOrder
  <2> QED BY <2>3, <2>4, Zenon DEF i, m
<1> DEFINE D == Used - Ready
           P(k) == /\ k = D \/ cons_buf[Slot(Minus(cons_e, k + 1))] = Newline
                   /\ \A j \in 0 .. k - 1 : cons_buf[Slot(Minus(cons_e, j + 1))] # Newline
<1>3. D \in 0 .. D /\ P(D)
  BY <1>1, <1>2
<1>4. ASSUME NEW k \in 0 .. D, P(k) PROVE k = D
  <2>1. CASE k # D
    <3>1. k \in 0 .. D - 1
      BY <1>1, <2>1
    <3> QED BY <3>1, <1>2, <1>4, <2>1, Zenon
  <2> QED BY <2>1, Zenon
<1>5. LineLength = CHOOSE k \in 0 .. D : P(k)
  BY <1>1, Zenon DEF LineLength
<1> HIDE DEF D, P
<1>6. LineLength \in 0 .. D /\ P(LineLength)
  BY <1>3, <1>5, Zenon
<1> QED BY <1>4, <1>6, Zenon DEF D

\* Characters of the line are erased.
LEMMA EraseKeeps ==
  ASSUME ReadersReady, NEW d \in {1, Used - Ready}, d <= Used - Ready,
         cons_e' = Minus(cons_e, d), UNCHANGED <<cons_buf, cons_r, cons_w, reader, call>>
  PROVE  ReadersReady' /\ T!Erase
<1>1. /\ ConsoleTypeOK /\ BufferInOrder /\ FullIsReadable /\ NoLostWakeup
      /\ UNCHANGED <<left, target, rkilled, rret>>
  BY Zenon DEF ReadersReady, call
<1>2. /\ Used \in 0 .. INPUT_BUF_SIZE /\ Ready \in 0 .. Used /\ INPUT_BUF_SIZE \in Nat
      /\ cons_w = cons_e <=> Ready = Used
  BY <1>1, Distances, ConsoleSizes, Zenon
<1>3. d \in 0 .. Used - Ready
  BY <1>2
<1>4. /\ Used' = Used - d /\ Ready' = Ready /\ Text' = SubSeq(Text, 1, Used - d)
      /\ cons_e' \in 0 .. UINT - 1 /\ \A k \in 1 .. Used - d : Text'[k] = Text[k]
  BY <1>1, <1>3, TextErase, Zenon
<1>5. ConsoleTypeOK'
  BY <1>1, <1>4, Zenon DEF ConsoleTypeOK
<1>6. BufferInOrder'
  <2>1. ASSUME NEW k \in Ready + 1 .. Used - d PROVE Text'[k] \notin {Newline, Eof}
    <3>1. k \in 1 .. Used - d /\ k \in Ready + 1 .. Used
      BY <1>2, <1>3
    <3> QED BY <3>1, <1>1, <1>4, Zenon DEF BufferInOrder
  <2> QED BY <1>2, <1>3, <1>4, <2>1, SMTT(30) DEF BufferInOrder
<1>7. FullIsReadable'
  <2>1. Used' = INPUT_BUF_SIZE => d = 0 /\ Used = INPUT_BUF_SIZE
    BY <1>2, <1>3, <1>4
  <2>2. d = 0 => cons_e' = cons_e
    <3>1. cons_e \in 0 .. UINT - 1 /\ 0 \in 0 .. UINT - 1 /\ UINT \in Nat
      BY <1>1, ConsoleSizes DEF ConsoleTypeOK
    <3> QED BY <3>1, Indices
  <2> QED BY <1>1, <2>1, <2>2, Zenon DEF FullIsReadable
<1>8. NoLostWakeup'
  BY <1>1, Zenon DEF NoLostWakeup
<1>9. Len(Text) = Used
  BY <1>1, TextIs, Zenon
<1>10. T!Erase
  <2>1. Got' = Got
    BY <1>1, Zenon DEF Got
  <2>2. Used - d \in {Len(Text) - 1, Ready} /\ Ready <= Used - d
    BY <1>2, <1>3, <1>9
  <2> QED BY <1>1, <1>4, <2>1, <2>2, Zenon DEF T!Erase
<1> QED BY <1>5, <1>6, <1>7, <1>8, <1>10, Zenon DEF ReadersReady

\* Every key.
LEMMA IntrKeeps ==
  ASSUME ReadersReady, NEW key \in Key, consoleintr(key)
  PROVE  ReadersReady' /\ T!Next
<1>1. ConsoleTypeOK /\ BufferInOrder /\ Used \in Nat /\ Ready \in 0 .. Used
  BY Distances, ConsoleSizes DEF ReadersReady
<1>2. CASE KillLine
  <2>1. LineLength = Used - Ready
    BY <1>1, WholeLine, Zenon
  <2> DEFINE d == LineLength
  <2>2. d \in {1, Used - Ready} /\ d <= Used - Ready
    BY <1>1, <2>1
  <2>3. cons_e' = Minus(cons_e, d) /\ UNCHANGED <<cons_buf, cons_r, cons_w, reader, call>>
    BY <1>2, Zenon DEF KillLine
  <2> HIDE DEF d
  <2> QED BY <2>2, <2>3, EraseKeeps, Zenon DEF T!Next
<1>3. CASE Backspace
  <2>1. /\ cons_e # cons_w /\ cons_e' = Minus(cons_e, 1)
        /\ UNCHANGED <<cons_buf, cons_r, cons_w, reader, call>>
    BY <1>3, Zenon DEF Backspace, MayErase
  <2>2. 1 <= Used - Ready
    BY <1>1, <2>1, Distances
  <2> QED BY <2>1, <2>2, EraseKeeps, Zenon DEF T!Next
<1>4. ASSUME key \in {"x", "\r", Newline, Eof}, Store(IF key = "\r" THEN Newline ELSE key)
      PROVE  ReadersReady' /\ T!Next
  <2>1. PICK c \in Stored : Store(c)
    BY <1>4, Zenon DEF Stored, Newline, Eof
  <2>2. cons_unlocked
    BY Zenon DEF consoleintr
  <2> QED BY <2>1, <2>2, StoreKeeps, Zenon DEF T!Next
<1> QED BY <1>2, <1>3, <1>4, Zenon DEF consoleintr

-----------------------------------------------------------------------------
(* consoleread *)

\* What leaves the buffer alone.
LEMMA InputKept ==
  ASSUME ConsoleTypeOK, BufferInOrder, FullIsReadable, UNCHANGED input
  PROVE  /\ UNCHANGED <<cons_buf, cons_r, cons_w, cons_e>>
         /\ BufferInOrder' /\ FullIsReadable' /\ Text' = Text /\ Ready' = Ready
<1>1. UNCHANGED <<cons_buf, cons_r, cons_w, cons_e>>
  BY Zenon DEF input
<1>2. Used' = Used /\ Ready' = Ready /\ Text' = Text
  BY <1>1, Zenon DEF Used, Ready, Text, Slot, Minus
<1> QED BY <1>1, <1>2, Zenon DEF BufferInOrder, FullIsReadable

\* What a character that is taken leaves.
LEMMA TakeKept ==
  ASSUME ConsoleTypeOK, BufferInOrder, FullIsReadable, cons_r # cons_w,
         cons_r' = Plus1(cons_r), UNCHANGED <<cons_buf, cons_w, cons_e>>
  PROVE  /\ BufferInOrder' /\ FullIsReadable' /\ cons_r' \in 0 .. UINT - 1
         /\ Ready > 0 /\ Ready' = Ready - 1 /\ Text' = Tail(Text)
         /\ Head(Text) = cons_buf[Slot(cons_r)]
<1>1. /\ Used' = Used - 1 /\ Ready > 0 /\ Ready' = Ready - 1 /\ Text' = Tail(Text)
      /\ cons_r' \in 0 .. UINT - 1 /\ Head(Text) = cons_buf[Slot(cons_r)]
      /\ \A k \in 1 .. Used - 1 : Text'[k] = Text[k + 1]
  BY TextTake, Zenon
<1>2. Used \in 0 .. INPUT_BUF_SIZE /\ Ready \in 0 .. Used /\ INPUT_BUF_SIZE \in Nat
  BY Distances, ConsoleSizes, Zenon
<1>3. ASSUME NEW k \in Ready .. Used - 1 PROVE Text'[k] \notin {Newline, Eof}
  <2>1. k \in 1 .. Used - 1 /\ k + 1 \in Ready + 1 .. Used
    BY <1>1, <1>2
  <2> QED BY <2>1, <1>1, ZenonT(30) DEF BufferInOrder
<1>4. /\ Ready' <= Used' /\ Used' <= INPUT_BUF_SIZE /\ Used' # INPUT_BUF_SIZE
      /\ Ready' + 1 .. Used' = Ready .. Used - 1
  BY <1>1, <1>2
<1>5. BufferInOrder'
  BY <1>3, <1>4, ZenonT(30) DEF BufferInOrder
<1> QED BY <1>1, <1>4, <1>5, Zenon DEF FullIsReadable

\* The reader that runs returns: of the others none runs, and those that sleep
\* need what was true before.
LEMMA ReturnKeeps ==
  ASSUME ReadersReady, NEW p \in Reader, reader[p] = "running", NEW n \in Int, Returns(p, n),
         BufferInOrder', FullIsReadable', cons_r' \in 0 .. UINT - 1,
         cons_r' = cons_r \/ cons_r # cons_w
  PROVE  ReadersReady' /\ Got[p] = target[p] - left[p] /\ T!Returns(p, n)
<1>1. /\ ConsoleTypeOK /\ NoLostWakeup
      /\ reader' = [reader EXCEPT ![p] = "idle"] /\ rret' = [rret EXCEPT ![p] = n]
      /\ left' = [left EXCEPT ![p] = 0] /\ target' = [target EXCEPT ![p] = 0]
      /\ rkilled' = [rkilled EXCEPT ![p] = 0]
      /\ UNCHANGED <<cons_buf, cons_w, cons_e>>
  BY Zenon DEF ReadersReady, Returns
<1>2. ConsoleTypeOK'
  BY <1>1 DEF ConsoleTypeOK
<1>3. NoLostWakeup'
  BY <1>1, Zenon DEF NoLostWakeup, ConsoleTypeOK
<1>4. /\ Got[p] = target[p] - left[p] /\ target[p] - left[p] # -1
  BY <1>1 DEF Got, ConsoleTypeOK
<1>5. Got' = [Got EXCEPT ![p] = -1]
  BY <1>1, ZenonT(30) DEF Got, ConsoleTypeOK
<1> QED BY <1>1, <1>2, <1>3, <1>4, <1>5, Zenon DEF ReadersReady, T!Returns, T!NotReading

\* The loop of consoleread, a character at a time.
LEMMA LoopKeeps ==
  ASSUME ReadersReady, NEW p \in Reader, ReadLoop(p)
  PROVE  ReadersReady' /\ [T!Next]_(T!vars)
<1>1. /\ ConsoleTypeOK /\ BufferInOrder /\ FullIsReadable /\ NoLostWakeup /\ reader[p] = "running"
      /\ cons_r \in 0 .. UINT - 1
      /\ left[p] \in Nat /\ target[p] \in Nat /\ left[p] <= target[p]
  BY Zenon DEF ReadersReady, ReadLoop, ConsoleTypeOK
<1>2. ASSUME NEW n \in Int, Returns(p, n), UNCHANGED cons_r, n \in {target[p] - left[p], -1}
      PROVE  ReadersReady' /\ T!Next
  <2>1. UNCHANGED input
    BY <1>2, Zenon DEF Returns, input
  <2>2. /\ BufferInOrder' /\ FullIsReadable' /\ Text' = Text /\ Ready' = Ready
    BY <1>1, <2>1, InputKept, Zenon
  <2>3. ReadersReady' /\ Got[p] = target[p] - left[p] /\ T!Returns(p, n)
    BY <1>1, <1>2, <2>2, ReturnKeeps, Zenon
  <2>4. T!Ends(p)
    BY <1>2, <2>2, <2>3, Zenon DEF T!Ends
  <2> QED BY <2>3, <2>4, Zenon DEF T!Next
<1>3. ASSUME NEW n \in Int, Returns(p, n), cons_r # cons_w, cons_r' = Plus1(cons_r),
             LET c == cons_buf[Slot(cons_r)] got == target[p] - left[p]
             IN  \/ c = Newline /\ n = got + 1
                 \/ c = Eof /\ got = 0 /\ n = 0
                 \/ c # Eof /\ n = got
      PROVE  ReadersReady' /\ T!Next
  <2>1. UNCHANGED <<cons_buf, cons_w, cons_e>>
    BY <1>3, Zenon DEF Returns
  <2>2. /\ BufferInOrder' /\ FullIsReadable' /\ cons_r' \in 0 .. UINT - 1
        /\ Ready > 0 /\ Ready' = Ready - 1 /\ Text' = Tail(Text)
        /\ Head(Text) = cons_buf[Slot(cons_r)]
    BY <1>1, <1>3, <2>1, TakeKept, Zenon
  <2>3. ReadersReady' /\ Got[p] = target[p] - left[p] /\ T!Returns(p, n)
    BY <1>1, <1>3, <2>2, ReturnKeeps, Zenon
  <2>4. T!EndsWith(p)
    BY <1>3, <2>2, <2>3, Zenon DEF T!EndsWith
  <2> QED BY <2>3, <2>4, Zenon DEF T!Next
<1>4. CASE left[p] = 0 /\ Returns(p, target[p]) /\ UNCHANGED cons_r
  <2>1. target[p] = target[p] - left[p] /\ target[p] \in Int
    BY <1>1, <1>4
  <2> QED BY <2>1, <1>2, <1>4, Zenon
<1>5. CASE Returns(p, -1) /\ UNCHANGED cons_r
  BY <1>2, <1>5
<1>6. CASE left[p] > 0 /\ cons_r = cons_w /\ rkilled[p] = 0 /\ SleepReader(p)
  <2>1. /\ reader' = [reader EXCEPT ![p] = "sleeping"] /\ UNCHANGED <<left, target, rkilled, rret>>
        /\ UNCHANGED input
    BY <1>6, Zenon DEF SleepReader, call
  <2>2. /\ UNCHANGED <<cons_buf, cons_r, cons_w, cons_e>>
        /\ BufferInOrder' /\ FullIsReadable' /\ Text' = Text /\ Ready' = Ready
    BY <1>1, <2>1, InputKept, Zenon
  <2>3. ConsoleTypeOK' /\ NoLostWakeup'
    BY <1>1, <1>6, <2>1, <2>2, Zenon DEF ConsoleTypeOK, NoLostWakeup
  <2>4. Got' = Got
    BY <1>1, <2>1, Zenon DEF Got, ConsoleTypeOK
  <2> QED BY <2>1, <2>2, <2>3, <2>4, Zenon DEF ReadersReady, T!vars
<1>7. ASSUME left[p] > 0, cons_r # cons_w, ReadChar(p, cons_buf[Slot(cons_r)])
      PROVE  ReadersReady' /\ T!Next
  <2> DEFINE c == cons_buf[Slot(cons_r)]
  <2>1. CASE c = Eof /\ cons_r' = PastEof(p) /\ Returns(p, target[p] - left[p])
    <3>1. target[p] - left[p] \in Int
      BY <1>1
    <3>2. CASE left[p] < target[p]
      BY <2>1, <3>1, <3>2, <1>2, Zenon DEF PastEof
    <3>3. CASE left[p] = target[p]
      <4>1. target[p] - left[p] = 0 /\ cons_r' = Plus1(cons_r)
        BY <1>1, <2>1, <3>3 DEF PastEof
      <4> QED BY <2>1, <3>1, <4>1, <1>3, <1>7, Zenon
    <3> QED BY <1>1, <3>2, <3>3
  <2>2. CASE c # Eof /\ cons_r' = Plus1(cons_r) /\ Returns(p, target[p] - left[p])
    <3>1. target[p] - left[p] \in Int
      BY <1>1
    <3> QED BY <2>2, <3>1, <1>3, <1>7, Zenon
  <2>3. CASE c = Newline /\ cons_r' = Plus1(cons_r) /\ Returns(p, target[p] - (left[p] - 1))
    <3> DEFINE n == target[p] - (left[p] - 1)
    <3>1. n \in Int /\ n = (target[p] - left[p]) + 1 /\ Returns(p, n)
      BY <1>1, <2>3
    <3> HIDE DEF n
    <3> QED BY <2>3, <3>1, <1>3, <1>7, Zenon
  <2>4. CASE /\ c \notin {Newline, Eof}
             /\ cons_r' = Plus1(cons_r) /\ left' = [left EXCEPT ![p] = @ - 1]
             /\ UNCHANGED <<cons_buf, cons_w, cons_e, reader, target, rkilled, rret>>
    <3>1. /\ BufferInOrder' /\ FullIsReadable' /\ cons_r' \in 0 .. UINT - 1
          /\ Ready > 0 /\ Ready' = Ready - 1 /\ Text' = Tail(Text) /\ Head(Text) = c
      BY <1>1, <1>7, <2>4, TakeKept, Zenon
    <3>2. ConsoleTypeOK'
      BY <1>1, <1>7, <2>4, <3>1, SMTT(30) DEF ConsoleTypeOK
    <3>3. NoLostWakeup'
      BY <1>1, <1>7, <2>4, Zenon DEF NoLostWakeup
    <3>4. Got[p] # -1 /\ Got' = [Got EXCEPT ![p] = @ + 1]
      <4>1. Got[p] = target[p] - left[p] /\ target[p] - left[p] # -1
        BY <1>1 DEF Got
      <4>2. left'[p] = left[p] - 1 /\ \A q \in Reader \ {p} : left'[q] = left[q]
        BY <1>1, <2>4, Zenon DEF ConsoleTypeOK
      <4>3. target[p] - left'[p] = (target[p] - left[p]) + 1
        BY <1>1, <4>2, SMTT(30)
      <4>4. Got'[p] = Got[p] + 1
        BY <1>1, <2>4, <4>1, <4>3, Zenon DEF Got
      <4>5. \A q \in Reader \ {p} : Got'[q] = Got[q]
        BY <2>4, <4>2 DEF Got
      <4>6. Got' = [Got EXCEPT ![p] = Got[p] + 1]
        BY <4>4, <4>5, ZenonT(30) DEF Got
      <4> QED BY <4>1, <4>6, Zenon
    <3>5. T!More(p)
      BY <2>4, <3>1, <3>4, Zenon DEF T!More, T!NotReading
    <3> QED BY <3>1, <3>2, <3>3, <3>5, Zenon DEF ReadersReady, T!Next
  <2> QED BY <1>7, <2>1, <2>2, <2>3, <2>4, Zenon DEF ReadChar
<1> QED BY <1>4, <1>5, <1>6, <1>7, Zenon DEF ReadLoop

\* A call, a wakeup and a kill leave the text alone.
LEMMA CallKeeps ==
  ASSUME ReadersReady, NEW p \in Reader,
         Resume(p) \/ KillReader(p) \/ \E n \in Count, killed \in {0, 1} : consoleread(p, n, killed)
  PROVE  ReadersReady' /\ [T!Next]_(T!vars)
<1>1. /\ ConsoleTypeOK /\ BufferInOrder /\ FullIsReadable /\ NoLostWakeup
      /\ \A q \in Reader : reader[q] # "running"
      /\ UNCHANGED input
  BY Zenon DEF ReadersReady, Resume, KillReader, consoleread, cons_unlocked
<1>2. /\ UNCHANGED <<cons_buf, cons_r, cons_w, cons_e>>
      /\ BufferInOrder' /\ FullIsReadable' /\ Text' = Text /\ Ready' = Ready
  BY <1>1, InputKept, Zenon
<1>3. CASE Resume(p)
  <2>1. /\ reader[p] = "runnable" /\ reader' = [reader EXCEPT ![p] = "running"]
        /\ UNCHANGED <<left, target, rkilled, rret>>
    BY <1>3, Zenon DEF Resume, call
  <2>2. ConsoleTypeOK' /\ NoLostWakeup' /\ Got' = Got
    BY <1>1, <1>2, <2>1, Zenon DEF ConsoleTypeOK, NoLostWakeup, Got
  <2> QED BY <1>2, <2>1, <2>2, Zenon DEF ReadersReady, T!vars
<1>4. CASE KillReader(p)
  <2>1. /\ reader[p] # "idle" /\ reader' = [reader EXCEPT ![p] = "runnable"]
        /\ rkilled' = [rkilled EXCEPT ![p] = 1] /\ UNCHANGED <<left, target, rret>>
    BY <1>4, Zenon DEF KillReader
  <2>2. ConsoleTypeOK' /\ NoLostWakeup' /\ Got' = Got
    BY <1>1, <1>2, <2>1, Zenon DEF ConsoleTypeOK, NoLostWakeup, Got
  <2> QED BY <1>2, <2>1, <2>2, Zenon DEF ReadersReady, T!vars
<1>5. ASSUME NEW n \in Count, NEW killed \in {0, 1}, consoleread(p, n, killed)
      PROVE  ReadersReady' /\ T!Next
  <2>1. /\ reader[p] = "idle" /\ reader' = [reader EXCEPT ![p] = "running"] /\ n \in Nat
        /\ left' = [left EXCEPT ![p] = n] /\ target' = [target EXCEPT ![p] = n]
        /\ rkilled' = [rkilled EXCEPT ![p] = killed] /\ rret' = [rret EXCEPT ![p] = 0]
    BY <1>5, ConsoleSizes, Zenon DEF consoleread
  <2>2. ConsoleTypeOK' /\ NoLostWakeup'
    BY <1>1, <1>2, <2>1 DEF ConsoleTypeOK, NoLostWakeup
  <2>3. Got[p] = -1 /\ Got' = [Got EXCEPT ![p] = 0]
    <3>1. reader \in [Reader -> {"idle", "running", "sleeping", "runnable"}]
          /\ left \in [Reader -> Nat] /\ target \in [Reader -> Nat]
      BY <1>1, Zenon DEF ConsoleTypeOK
    <3>2. reader'[p] = "running" /\ target'[p] - left'[p] = 0
      BY <2>1, <3>1
    <3>3. \A q \in Reader \ {p} : reader'[q] = reader[q] /\ left'[q] = left[q] /\ target'[q] = target[q]
      BY <2>1, <3>1, Zenon
    <3>4. Got[p] = -1
      BY <2>1, Zenon DEF Got
    <3>5. Got'[p] = 0
      BY <3>2, Zenon DEF Got
    <3>6. \A q \in Reader \ {p} : Got'[q] = Got[q]
      BY <3>3, Zenon DEF Got
    <3> QED BY <3>4, <3>5, <3>6, ZenonT(30) DEF Got
  <2>4. T!Begin(p)
    BY <1>2, <2>1, <2>3, Zenon DEF T!Begin, T!NotReading
  <2> QED BY <1>2, <2>2, <2>4, Zenon DEF ReadersReady, T!Next
<1> QED BY <1>3, <1>4, <1>5, Zenon

-----------------------------------------------------------------------------
(* The theorems *)

LEMMA ConsoleStarts == ConsoleInit => ReadersReady /\ T!Init
<1> SUFFICES ASSUME ConsoleInit PROVE ReadersReady /\ T!Init
  OBVIOUS
<1>1. /\ cons_buf = [k \in 0 .. INPUT_BUF_SIZE - 1 |-> "x"]
      /\ cons_r = 0 /\ cons_w = 0 /\ cons_e = 0
      /\ reader = [p \in Reader |-> "idle"]
      /\ left = [p \in Reader |-> 0] /\ target = left /\ rkilled = left /\ rret = left
      /\ UINT \in Nat /\ 0 \in 0 .. UINT - 1 /\ INPUT_BUF_SIZE \in Nat \ {0}
  BY ConsoleSizes DEF ConsoleInit
<1>2. Used = 0 /\ Ready = 0
  BY <1>1, Indices DEF Used, Ready
<1>3. ConsoleTypeOK
  BY <1>1 DEF ConsoleTypeOK, Stored
<1>4. BufferInOrder /\ FullIsReadable /\ NoLostWakeup
  BY <1>1, <1>2 DEF BufferInOrder, FullIsReadable, NoLostWakeup
<1>5. Text = <<>>
  BY <1>2 DEF Text
<1>6. Got = [p \in Reader |-> -1]
  BY <1>1, Zenon DEF Got
<1> QED BY <1>1, <1>2, <1>3, <1>4, <1>5, <1>6, Zenon DEF ReadersReady, T!Init, T!NotReading

LEMMA ConsoleSteps ==
  ASSUME ReadersReady, [ConsoleNext]_consoleVars
  PROVE  ReadersReady' /\ [T!Next]_(T!vars)
<1>1. CASE UNCHANGED consoleVars
  <2>1. /\ ConsoleTypeOK /\ BufferInOrder /\ FullIsReadable /\ NoLostWakeup /\ UNCHANGED input
        /\ UNCHANGED <<reader, left, target, rkilled, rret>>
    BY <1>1, Zenon DEF ReadersReady, consoleVars, call
  <2>2. /\ UNCHANGED <<cons_buf, cons_r, cons_w, cons_e>>
        /\ BufferInOrder' /\ FullIsReadable' /\ Text' = Text /\ Ready' = Ready
    BY <2>1, InputKept, Zenon
  <2>3. ConsoleTypeOK' /\ NoLostWakeup' /\ Got' = Got
    BY <2>1, <2>2, Zenon DEF ConsoleTypeOK, NoLostWakeup, Got
  <2> QED BY <2>1, <2>2, <2>3, Zenon DEF ReadersReady, T!vars
<1>2. ASSUME NEW key \in Key, consoleintr(key) PROVE ReadersReady' /\ T!Next
  BY <1>2, IntrKeeps, Zenon
<1>3. ASSUME NEW p \in Reader, ReadLoop(p) PROVE ReadersReady' /\ [T!Next]_(T!vars)
  BY <1>3, LoopKeeps, Zenon
<1>4. ASSUME NEW p \in Reader,
             Resume(p) \/ KillReader(p) \/ \E n \in Count, killed \in {0, 1} : consoleread(p, n, killed)
      PROVE  ReadersReady' /\ [T!Next]_(T!vars)
  BY <1>4, CallKeeps, Zenon
<1> QED BY <1>1, <1>2, <1>3, <1>4, Zenon DEF ConsoleNext

\* No reader sleeps on what consoleintr has finished, a full buffer is handed
\* over, and the three indices stay in order where they wrap around.
THEOREM ConsoleReadersReady == ConsoleSpec => []ReadersReady
BY ConsoleStarts, ConsoleSteps, PTL DEF ConsoleSpec

\* The ring buffer is a terminal: lines are edited until they are finished and
\* then read in order, once, at most a line at a time (consoleintr,
\* consoleread).
THEOREM ConsoleIsTerminal == ConsoleSpec => IsTerminal
BY ConsoleStarts, ConsoleSteps, ConsoleReadersReady, PTL DEF ConsoleSpec, IsTerminal, T!Spec
=============================================================================
