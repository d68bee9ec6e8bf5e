------------------------- MODULE BufferCacheProofs -------------------------
(***************************************************************************)
(* The buffer cache of bio.c is the disk, for any number of buffers and    *)
(* blocks.  CacheSound is inductive.                                       *)
(***************************************************************************)
EXTENDS BufferCache, FiniteSetTheorems, TLAPS

-----------------------------------------------------------------------------
(* virtio_disk_rw *)

\* A block is read as a sequence of sectors.
LEMMA ReadIsData ==
  ASSUME BufTypeOK, NEW m \in Block
  PROVE  DiskRead(m) \in BlockData
<1>1. \A s \in 1 .. SECTORS : SectorOf(m, s) \in Sector
  BY BufferSizes DEF SectorOf, Sector, SECTORS, Block
<1> QED
  BY <1>1, Zenon DEF DiskRead, BlockData, BufTypeOK

\* What does not change the disk does not change what is read.
LEMMA ReadSame ==
  ASSUME UNCHANGED disk, NEW m \in Block
  PROVE  DiskRead(m)' = DiskRead(m)
BY Zenon DEF DiskRead

\* A write is read back, and no other block changes.
LEMMA ReadWritten ==
  ASSUME BufTypeOK, NEW m \in Block, NEW d \in BlockData, disk' = DiskWrite(m, d)
  PROVE  /\ disk' \in [Sector -> Int] /\ DiskRead(m)' = d
         /\ \A k \in Block : k # m => DiskRead(k)' = DiskRead(k)
<1>1. \A k \in Block, s \in 1 .. SECTORS :
        /\ SectorOf(k, s) \in Sector /\ SectorOf(k, s) \div SECTORS = k
        /\ (SectorOf(k, s) % SECTORS) + 1 = s
  BY BufferSizes DEF SectorOf, Sector, SECTORS, Block
<1>2. \A k \in Sector : (k % SECTORS) + 1 \in 1 .. SECTORS
  BY BufferSizes DEF Sector, SECTORS
<1>3. disk' \in [Sector -> Int]
  BY <1>2, Zenon DEF DiskWrite, BufTypeOK, BlockData
<1>4. \A k \in Block, s \in 1 .. SECTORS :
        disk'[SectorOf(k, s)] = IF k = m THEN d[s] ELSE disk[SectorOf(k, s)]
  BY <1>1, Zenon DEF DiskWrite
<1>5. DiskRead(m)' = d
  BY <1>4, Zenon DEF DiskRead, BlockData
<1>6. ASSUME NEW k \in Block, k # m PROVE DiskRead(k)' = DiskRead(k)
  BY <1>4, <1>6, Zenon DEF DiskRead
<1> QED
  BY <1>3, <1>5, <1>6, Zenon

-----------------------------------------------------------------------------
(* The list *)

\* Every buffer has a rank of its own from 1 on.
LEMMA Ranks ==
  ASSUME BufTypeOK, ListSound
  PROVE  /\ \A b \in Buf : rank[b] \in 1 .. NBUF /\ b \in Link /\ b # bhead
         /\ rank[bhead] = 0 /\ bhead \in Link /\ \A b \in Link : b # bhead => b \in Buf
BY BufferSizes, SMTT(30) DEF BufTypeOK, ListSound, Link, Buf, bhead

\* brelse puts a buffer in front and leaves the order of the others.
LEMMA FrontSound ==
  ASSUME BufTypeOK, ListSound, NEW b \in Buf,
         next' = NextFront(b, NextWithout(b)[bhead]),
         prev' = PrevFront(b, NextWithout(b)[bhead]), rank' = RankLast(b)
  PROVE  /\ next' \in [Link -> Link] /\ prev' \in [Link -> Link] /\ rank' \in [Link -> 0 .. NBUF]
         /\ ListSound'
<1> DEFINE first == NextWithout(b)[bhead]
<1>1. /\ next \in [Link -> Link] /\ prev \in [Link -> Link] /\ rank \in [Link -> 0 .. NBUF]
      /\ b \in Link /\ b # bhead /\ bhead \in Link /\ rank[b] \in 1 .. NBUF /\ rank[bhead] = 0
      /\ \A c \in Link : c # bhead => rank[c] \in 1 .. NBUF
      /\ bhead = 0 /\ NBUF \in Nat \ {0}
  BY Ranks, BufferSizes, Zenon DEF BufTypeOK, bhead
<1>2. \A c, d \in Link : rank[c] = rank[d] => c = d
  BY Zenon DEF ListSound
<1>3. \A c \in Link : /\ rank[next[c]] = IF c = bhead THEN NBUF ELSE rank[c] - 1
                      /\ rank[prev[c]] = IF rank[c] = NBUF THEN 0 ELSE rank[c] + 1
  BY Zenon DEF ListSound
<1>4. /\ NextWithout(b) \in [Link -> Link] /\ PrevWithout(b) \in [Link -> Link] /\ first \in Link
  BY <1>1, Zenon DEF NextWithout, PrevWithout
<1>5. /\ next' \in [Link -> Link] /\ prev' \in [Link -> Link] /\ rank' \in [Link -> 0 .. NBUF]
  BY <1>1, <1>4 DEF NextFront, PrevFront, RankLast
<1>6. /\ \A c \in Link : rank'[c] = IF c = b THEN NBUF
                                  ELSE IF rank[c] > rank[b] THEN rank[c] - 1 ELSE rank[c]
  BY <1>1, Zenon DEF RankLast
<1>d. /\ \A c \in Link : c # b /\ rank[c] > rank[b] => rank'[c] = rank[c] - 1
      /\ \A c \in Link : c # b /\ rank[c] < rank[b] => rank'[c] = rank[c]
      /\ NBUF \in Int /\ rank[b] \in Int /\ 1 <= rank[b] /\ rank[b] <= NBUF
      /\ \A c \in Link : rank[c] \in Int /\ 0 <= rank[c] /\ rank[c] <= NBUF
  BY <1>1, <1>6
<1>7. /\ rank'[bhead] = 0 /\ \A c, d \in Link : rank'[c] = rank'[d] => c = d
  BY <1>1, <1>2, <1>6
\* The list without b.
<1>a. ASSUME NEW c \in Link PROVE prev[next[c]] = c /\ next[prev[c]] = c
  <2>1. /\ next[c] \in Link /\ prev[c] \in Link /\ rank[c] \in 0 .. NBUF
        /\ rank[next[c]] = (IF c = bhead THEN NBUF ELSE rank[c] - 1)
        /\ rank[prev[c]] = (IF rank[c] = NBUF THEN 0 ELSE rank[c] + 1)
        /\ (c # bhead => rank[c] \in 1 .. NBUF)
    BY <1>1, <1>3, Zenon
  <2>2. /\ prev[next[c]] \in Link /\ next[prev[c]] \in Link
        /\ rank[prev[next[c]]] = (IF rank[next[c]] = NBUF THEN 0 ELSE rank[next[c]] + 1)
        /\ rank[next[prev[c]]] = (IF prev[c] = bhead THEN NBUF ELSE rank[prev[c]] - 1)
        /\ (prev[c] # bhead => rank[prev[c]] \in 1 .. NBUF)
    BY <1>1, <1>3, <2>1, ZenonT(30)
  <2>3. rank[prev[next[c]]] = rank[c] /\ rank[next[prev[c]]] = rank[c]
    BY <1>1, <2>1, <2>2
  <2> QED
    BY <1>2, <2>2, <2>3, Zenon
<1>b. /\ next[b] \in Link /\ prev[b] \in Link /\ rank[next[b]] = rank[b] - 1
      /\ rank[prev[b]] = IF rank[b] = NBUF THEN 0 ELSE rank[b] + 1
  BY <1>1, <1>3, Zenon
<1>8. /\ next[b] \in Link /\ prev[b] \in Link /\ next[b] # b /\ prev[b] # b
      /\ \A c \in Link : c # b => (next[c] = b <=> c = prev[b]) /\ (prev[c] = b <=> c = next[b])
  <2>1. next[b] # b /\ prev[b] # b
    BY <1>1, <1>b
  <2> QED
    BY <2>1, <1>1, <1>a, <1>b, Zenon
<1>9. \A c \in Link : c # b =>
        /\ NextWithout(b)[c] = IF c = prev[b] THEN next[b] ELSE next[c]
        /\ PrevWithout(b)[c] = IF c = next[b] THEN prev[b] ELSE prev[c]
  BY <1>1, <1>8, Zenon DEF NextWithout, PrevWithout
<1>10. /\ first # b /\ first = IF bhead = prev[b] THEN next[b] ELSE next[bhead]
  BY <1>1, <1>8, <1>9, Zenon
<1>11. \A c \in Link :
         /\ next'[c] = IF c = bhead THEN b ELSE IF c = b THEN first
                       ELSE IF c = prev[b] THEN next[b] ELSE next[c]
         /\ prev'[c] = IF c = first THEN b ELSE IF c = b THEN bhead
                       ELSE IF c = next[b] THEN prev[b] ELSE prev[c]
  BY <1>1, <1>4, <1>8, <1>9, <1>10, Zenon DEF NextFront, PrevFront
<1>c. rank'[b] = NBUF /\ rank'[first] = NBUF - 1 /\ rank'[bhead] = 0
  <2>1. rank[next[bhead]] = NBUF
    BY <1>1, <1>3, Zenon
  <2>2. CASE bhead = prev[b]
    <3>1. rank[b] = NBUF
      BY <2>2, <1>1, <1>b
    <3>2. first = next[b] /\ first # b /\ rank[first] = NBUF - 1
      BY <2>2, <3>1, <1>b, <1>8, <1>10, Zenon
    <3>3. rank'[first] = rank[first]
      BY <3>1, <3>2, <1>4, <1>d
    <3> QED
      BY <3>2, <3>3, <1>6, <1>7, <1>1, Zenon
  <2>3. CASE bhead # prev[b]
    <3>1. rank[b] # NBUF
      BY <2>3, <1>1, <1>2, <1>b, ZenonT(30)
    <3> QED
      <4>1. first = next[bhead] /\ first # b /\ rank[first] = NBUF
        BY <2>1, <2>3, <1>10, Zenon
      <4>2. rank'[first] = rank[first] - 1
        BY <3>1, <4>1, <1>4, <1>d
      <4> QED
        BY <4>1, <4>2, <1>6, <1>7, <1>1, Zenon
  <2> QED
    BY <2>2, <2>3, Zenon
<1>12. ASSUME NEW c \in Link PROVE rank'[next'[c]] = IF c = bhead THEN NBUF ELSE rank'[c] - 1
  <2>1. CASE c = bhead
    BY <2>1, <1>1, <1>6, <1>11, Zenon
  <2>2. CASE c = b
    BY <2>2, <1>1, <1>c, <1>11, Zenon
  <2>3. CASE c # bhead /\ c # b /\ c = prev[b]
    <3>1. rank[c] = rank[b] + 1 /\ next'[c] = next[b]
      BY <2>3, <1>1, <1>b, <1>11
    <3>2. rank'[c] = rank[b] /\ rank'[next[b]] = rank[b] - 1
      BY <2>3, <3>1, <1>b, <1>d, <1>8
    <3> QED
      BY <2>3, <3>1, <3>2, Zenon
  <2>4. CASE c # bhead /\ c # b /\ c # prev[b]
    <3>1. /\ next'[c] = next[c] /\ next[c] \in Link /\ next[c] # b /\ rank[next[c]] = rank[c] - 1
          /\ rank[c] # rank[b] /\ rank[c] \in 1 .. NBUF
      BY <2>4, <1>1, <1>2, <1>3, <1>8, <1>11, ZenonT(30)
    <3>2. rank[c] # rank[b] + 1
      <4>1. CASE rank[b] = NBUF
        BY <3>1, <4>1, <1>d
      <4>2. CASE rank[b] # NBUF
        BY <4>2, <2>4, <1>2, <1>b, Zenon
      <4> QED
        BY <4>1, <4>2, Zenon
    <3>3. CASE rank[c] < rank[b]
      BY <2>4, <3>1, <3>3, <1>d
    <3>4. CASE rank[c] > rank[b]
      <4>1. rank[next[c]] > rank[b]
        BY <3>1, <3>2, <3>4, <1>d
      <4>2. rank'[next[c]] = rank[next[c]] - 1 /\ rank'[c] = rank[c] - 1
        BY <4>1, <2>4, <3>1, <3>4, <1>d, Zenon
      <4> QED
        BY <4>2, <2>4, <3>1, Zenon
    <3> QED
      BY <3>1, <3>3, <3>4, <1>d, SMTT(30)
  <2> QED
    BY <2>1, <2>2, <2>3, <2>4, Zenon
<1>13. ASSUME NEW c \in Link PROVE rank'[prev'[c]] = IF rank'[c] = NBUF THEN 0 ELSE rank'[c] + 1
  <2>1. CASE c = b
    BY <2>1, <1>1, <1>c, <1>10, <1>11, Zenon
  <2>2. CASE c = first
    BY <2>2, <1>1, <1>c, <1>10, <1>11
  <2>3. CASE c # first /\ c # b /\ c = next[b]
    <3>1. prev'[c] = prev[b] /\ prev[b] # bhead
      BY <2>3, <1>10, <1>11, Zenon
    <3>2. rank[b] # NBUF /\ rank[prev[b]] = rank[b] + 1
      BY <3>1, <1>1, <1>2, <1>b, ZenonT(30)
    <3>3. rank'[c] = rank[b] - 1 /\ rank'[prev[b]] = rank[b]
      BY <2>3, <3>2, <1>b, <1>d, <1>8, SMTT(30)
    <3> QED
      BY <3>1, <3>3, <1>d
  <2>4. CASE c # first /\ c # b /\ c # next[b]
    <3>1. /\ prev'[c] = prev[c] /\ prev[c] \in Link /\ prev[c] # b
          /\ rank[prev[c]] = (IF rank[c] = NBUF THEN 0 ELSE rank[c] + 1)
          /\ rank[c] # rank[b] /\ rank[c] \in 0 .. NBUF
      BY <2>4, <1>1, <1>2, <1>3, <1>8, <1>11
    <3>2. rank[c] # rank[b] - 1
      BY <2>4, <3>1, <1>1, <1>2, <1>b, ZenonT(30)
    <3>3. rank[c] # NBUF
      BY <2>4, <3>1, <1>1, <1>a, <1>2, <1>10, ZenonT(60)
    <3>4. rank'[c] # NBUF
      BY <2>4, <1>c, <1>1, <1>7, Zenon
    <3> QED
      <4>1. rank[prev[c]] = rank[c] + 1
        BY <3>1, <3>3, Zenon
      <4>2. CASE rank[c] < rank[b]
        <5>1. rank[prev[c]] < rank[b]
          BY <4>1, <4>2, <3>2, <1>d
        <5>2. rank'[prev[c]] = rank[prev[c]] /\ rank'[c] = rank[c]
          BY <5>1, <4>2, <2>4, <3>1, <1>d, Zenon
        <5> QED
          BY <5>2, <4>1, <3>1, <3>4, Zenon
      <4>3. CASE rank[c] > rank[b]
        <5>1. rank'[prev[c]] = rank[prev[c]] - 1 /\ rank'[c] = rank[c] - 1
          BY <4>1, <4>3, <2>4, <3>1, <1>d, SMTT(30)
        <5> QED
          BY <5>1, <4>1, <3>1, <3>4, SMTT(30)
      <4> QED
        BY <4>2, <4>3, <3>1, <1>d
  <2> QED
    BY <2>1, <2>2, <2>3, <2>4, Zenon
<1> QED
  BY <1>5, <1>7, <1>12, <1>13, ZenonT(30) DEF ListSound
-----------------------------------------------------------------------------
(* Steps that leave the buffers alone: bread and the steps of its search *)

\* What no step of the search changes.
LEMMA Untouched ==
  ASSUME CacheSound,
         UNCHANGED <<list, blockno, valid, refcnt, locked, data, dirty, disk, pinned, latest, bpanic>>
  PROVE  /\ ListSound' /\ BuffersExact' /\ Transparent' /\ ChangesKept' /\ bpanic' = "none"
         /\ Cardinality(pinned') <= PINS /\ Holding' = Holding
         /\ (at' \in Link /\ want' \in Block /\ loop' \in {"cached", "unused"} => BufTypeOK')
<1>1. /\ UNCHANGED <<next, prev, rank>> /\ UNCHANGED <<blockno, valid, refcnt, locked, data, dirty>>
      /\ UNCHANGED <<disk, pinned, latest, bpanic>>
  BY Zenon DEF list
<1>2. Holding' = Holding /\ \A m : Cached(m)' = Cached(m)
  BY <1>1, Zenon DEF Holding, Cached
<1>3. ListSound'
  BY <1>1, Zenon DEF ListSound, CacheSound
<1>4. BuffersExact'
  BY <1>1, <1>2, Zenon DEF BuffersExact, CacheSound
<1>5. Transparent'
  BY <1>1, <1>2, ReadSame DEF Transparent, CacheSound
<1>6. ChangesKept'
  BY <1>1, ReadSame, Zenon DEF ChangesKept, CacheSound
<1>7. at' \in Link /\ want' \in Block /\ loop' \in {"cached", "unused"} => BufTypeOK'
  BY <1>1, Zenon DEF BufTypeOK, CacheSound
<1> QED
  BY <1>1, <1>2, <1>3, <1>4, <1>5, <1>6, <1>7, Zenon DEF CacheSound, InLimits

\* bread starts at the buffer released last.
LEMMA ReadKeeps ==
  ASSUME CacheSound, NEW m \in Block, bread(m)
  PROVE  CacheSound'
<1>1. /\ UNCHANGED <<list, blockno, valid, refcnt, locked, data, dirty, disk, pinned, latest, bpanic>>
      /\ loop' = "cached" /\ at' = next[bhead] /\ want' = m
      /\ Cardinality(Holding) < HOLD /\ \A b \in Holding : blockno[b] # m
  BY Zenon DEF bread
<1>2. /\ BufTypeOK /\ ListSound /\ rank' = rank /\ blockno' = blockno /\ bhead \in Link
  BY <1>1, Ranks, Zenon DEF CacheSound, list
<1>3. at' \in Link /\ rank[at'] = NBUF
  BY <1>1, <1>2, Zenon DEF BufTypeOK, ListSound
<1>4. BufTypeOK'
  BY <1>1, <1>3, Untouched, Zenon
<1>5. SearchExact'
  <2>1. \A b \in Buf : rank[b] \in 1 .. NBUF
    BY <1>2, Ranks, Zenon
  <2> QED
    BY <1>1, <1>2, <1>3, <2>1, BufferSizes DEF SearchExact
<1>6. InLimits'
  BY <1>1, <1>2, Untouched, Zenon DEF InLimits
<1> QED
  BY <1>1, <1>4, <1>5, <1>6, Untouched, Zenon DEF CacheSound

\* A step of a loop that looks at the next buffer.
LEMMA GoesKeeps ==
  ASSUME CacheSound, loop \in {"cached", "unused"},
         NEW l \in {"cached", "unused"}, NEW c \in Link, Goes(l, c), SearchExact'
  PROVE  CacheSound'
<1>1. /\ UNCHANGED <<list, blockno, valid, refcnt, locked, data, dirty, disk, pinned, latest, bpanic>>
      /\ loop' = l /\ at' = c /\ want' = want /\ blockno' = blockno
  BY Zenon DEF Goes
<1>2. want \in Block /\ Cardinality(Holding) < HOLD /\ \A b \in Holding : blockno[b] # want
  BY Zenon DEF CacheSound, InLimits
<1>3. BufTypeOK'
  BY <1>1, <1>2, Untouched, Zenon
<1>4. InLimits'
  BY <1>1, <1>2, Untouched, Zenon DEF InLimits
<1> QED
  BY <1>1, <1>3, <1>4, Untouched, Zenon DEF CacheSound

-----------------------------------------------------------------------------
(* bget finds a buffer *)

\* A buffer that is not free is held or pinned, and there are more buffers than
\* can be.
LEMMA SomeFree ==
  ASSUME CacheSound, Cardinality(Holding) < HOLD
  PROVE  \E b \in Buf : refcnt[b] = 0
<1> SUFFICES ASSUME \A b \in Buf : refcnt[b] # 0 PROVE FALSE
  OBVIOUS
<1> DEFINE P == {b \in Buf : blockno[b] \in pinned}
<1>1. /\ BufTypeOK /\ BuffersExact /\ Cardinality(pinned) <= PINS
  BY Zenon DEF CacheSound, InLimits
<1>2. Buf = Holding \cup P
  <2>1. \A b \in Buf : locked[b] \in {0, 1} /\ (locked[b] = 1 \/ blockno[b] \in pinned)
    BY <1>1 DEF BufTypeOK, BuffersExact
  <2> QED
    BY <2>1, Zenon DEF Holding
<1>3. IsFiniteSet(Buf) /\ Cardinality(Buf) = NBUF
  BY FS_Interval, BufferSizes DEF Buf
<1>4. IsFiniteSet(pinned) /\ Cardinality(pinned) \in Nat
  <2>1. IsFiniteSet(Block)
    BY FS_Interval, BufferSizes DEF Block
  <2>2. pinned \subseteq Block
    BY <1>1, Zenon DEF BufTypeOK
  <2> QED
    BY <2>1, <2>2, FS_Subset, FS_CardinalityType, Zenon
<1>5. IsFiniteSet(P) /\ Cardinality(P) <= Cardinality(pinned)
  <2> DEFINE f == [b \in P |-> blockno[b]]
  <2>1. f \in [P -> pinned]
    OBVIOUS
  <2>2. \A b, c \in P : f[b] = f[c] => b = c
    BY <1>1, Zenon DEF BuffersExact, Cached, BufTypeOK
  <2>3. f \in Injection(P, pinned)
    BY <2>1, <2>2, Zenon DEF Injection, IsInjective
  <2> QED
    BY <2>3, <1>4, FS_Injection, Zenon
<1>6. IsFiniteSet(Holding) /\ Holding \subseteq Buf
  BY <1>3, FS_Subset, Zenon DEF Holding
<1>7. Cardinality(Holding \cup P) = Cardinality(Holding) + Cardinality(P) - Cardinality(Holding \cap P)
  BY <1>5, <1>6, FS_Union, Zenon
<1>8. /\ Cardinality(Holding) \in Nat /\ Cardinality(P) \in Nat /\ Cardinality(Holding \cap P) \in Nat
  BY <1>5, <1>6, FS_CardinalityType, FS_Intersection, ZenonT(30)
<1> HIDE DEF P
<1> QED
  BY <1>1, <1>2, <1>3, <1>4, <1>5, <1>7, <1>8, BufferSizes

\* The first loop: what is not at this buffer may be at the next; at the end of
\* the list the block has no buffer.
LEMMA CachedKeeps ==
  ASSUME CacheSound, SearchCached
  PROVE  CacheSound'
<1>1. /\ BufTypeOK /\ ListSound /\ BuffersExact /\ Transparent /\ ChangesKept /\ bpanic = "none"
      /\ loop = "cached" /\ want \in Block /\ at \in Link /\ bhead \in Link
      /\ \A b \in Buf : rank[b] > rank[at] => blockno[b] # want
      /\ \A b \in Holding : blockno[b] # want
      /\ \A b \in Buf : rank[b] \in 1 .. NBUF /\ b \in Link /\ b # bhead
      /\ rank[bhead] = 0 /\ (at # bhead => at \in Buf)
  BY Ranks, Zenon DEF SearchCached, CacheSound, InLimits, SearchExact, BufTypeOK
<1>2. CASE at = bhead
  <2>1. Goes("unused", prev[bhead])
    BY <1>2, Zenon DEF SearchCached
  <2>2. /\ loop' = "unused" /\ at' = prev[bhead] /\ want' = want /\ rank' = rank /\ blockno' = blockno
        /\ refcnt' = refcnt
    BY <2>1, Zenon DEF Goes, list
  <2>3. prev[bhead] \in Link /\ rank[prev[bhead]] = 1 /\ prev[bhead] # bhead
    <3>1. /\ prev[bhead] \in Link
          /\ rank[prev[bhead]] = (IF rank[bhead] = NBUF THEN 0 ELSE rank[bhead] + 1)
      BY <1>1, ZenonT(30) DEF BufTypeOK, ListSound
    <3> QED
      BY <1>1, <3>1, BufferSizes
  <2>4. SearchExact'
    BY <1>1, <1>2, <2>2, <2>3, SMTT(30) DEF SearchExact
  <2> QED
    BY <1>1, <2>1, <2>3, <2>4, GoesKeeps, Zenon
<1>3. CASE at # bhead /\ blockno[at] # want
  <2>1. Goes("cached", next[at])
    BY <1>3, Zenon DEF SearchCached
  <2>2. /\ loop' = "cached" /\ at' = next[at] /\ want' = want /\ rank' = rank /\ blockno' = blockno
    BY <2>1, Zenon DEF Goes, list
  <2>3. next[at] \in Link /\ rank[next[at]] = rank[at] - 1 /\ rank[at] \in 1 .. NBUF
    BY <1>1, <1>3, Zenon DEF BufTypeOK, ListSound
  <2>4. ASSUME NEW b \in Buf, rank[b] > rank[next[at]] PROVE blockno[b] # want
    <3>1. CASE b = at
      BY <3>1, <1>3, Zenon
    <3>2. CASE b # at
      <4>1. rank[b] # rank[at]
        BY <3>2, <1>1, Zenon DEF ListSound
      <4>2. rank[b] > rank[at]
        BY <4>1, <2>3, <2>4, <1>1
      <4> QED
        BY <4>2, <1>1, Zenon
    <3> QED
      BY <3>1, <3>2, Zenon
  <2>5. SearchExact'
    BY <2>2, <2>4, Zenon DEF SearchExact
  <2> QED
    BY <1>1, <2>1, <2>3, <2>5, GoesKeeps, Zenon
<1>4. CASE at # bhead /\ blockno[at] = want
  <2>1. /\ refcnt' = [refcnt EXCEPT ![at] = @ + 1] /\ blockno' = blockno /\ Got(valid[at])
    BY <1>4, Zenon DEF SearchCached
  <2>2. at \in Buf /\ at \in Cached(want) /\ valid[at] = 1 /\ locked[at] = 0
    BY <1>1, <1>4 DEF Cached, Transparent, Holding, BufTypeOK
  <2>3. /\ locked' = [locked EXCEPT ![at] = 1] /\ valid' = [valid EXCEPT ![at] = 1] /\ data' = data
        /\ loop' = "none" /\ at' = bhead /\ want' = NoBlock
        /\ UNCHANGED <<next, prev, rank>> /\ UNCHANGED <<dirty, disk, pinned, latest, bpanic>>
    BY <2>1, <2>2, Zenon DEF Got, list
  <2>4. BufTypeOK'
    BY <1>1, <2>1, <2>2, <2>3, SMTT(30) DEF BufTypeOK
  <2>5. ListSound'
    BY <1>1, <2>3, Zenon DEF ListSound
  <2>6. BuffersExact'
    BY <1>1, <2>1, <2>2, <2>3, SMTT(30) DEF BuffersExact, Cached, BufTypeOK
  <2>7. Transparent'
    <3>1. \A m : Cached(m)' = Cached(m)
      BY <2>1, Zenon DEF Cached
    <3>2. \A b \in Buf : valid[b] = 1 => valid'[b] = 1
      BY <1>1, <2>3, Zenon DEF BufTypeOK
    <3>3. \A m : Cached(m) \subseteq Buf
      BY Zenon DEF Cached
    <3> QED
      BY <1>1, <2>3, <3>1, <3>2, <3>3, ReadSame, ZenonT(30) DEF Transparent
  <2>8. ChangesKept'
    BY <1>1, <1>4, <2>1, <2>2, <2>3, ReadSame, SMTT(30) DEF ChangesKept, BufTypeOK
  <2>9. SearchExact' /\ InLimits'
    BY <2>3, Zenon DEF SearchExact, InLimits, CacheSound
  <2> QED
    BY <1>1, <2>3, <2>4, <2>5, <2>6, <2>7, <2>8, <2>9, Zenon DEF CacheSound
<1> QED
  BY <1>2, <1>3, <1>4, Zenon

\* The second loop: a buffer that is free is recycled, without loss; there is
\* one before the end of the list.
LEMMA UnusedKeeps ==
  ASSUME CacheSound, SearchUnused
  PROVE  CacheSound'
<1>1. /\ BufTypeOK /\ ListSound /\ BuffersExact /\ Transparent /\ ChangesKept /\ bpanic = "none"
      /\ loop = "unused" /\ want \in Block /\ at \in Link /\ bhead \in Link
      /\ \A b \in Buf : blockno[b] # want /\ (at = bhead \/ rank[b] < rank[at] => refcnt[b] > 0)
      /\ Cardinality(Holding) < HOLD
      /\ \A b \in Buf : rank[b] \in 1 .. NBUF /\ b \in Link /\ b # bhead
      /\ rank[bhead] = 0 /\ (at # bhead => at \in Buf)
  BY Ranks, Zenon DEF SearchUnused, CacheSound, InLimits, SearchExact, BufTypeOK
<1>2. CASE at = bhead
  BY <1>1, <1>2, SomeFree, SMTT(30)
<1>3. CASE at # bhead /\ refcnt[at] # 0
  <2>1. Goes("unused", prev[at])
    BY <1>3, Zenon DEF SearchUnused
  <2>2. /\ loop' = "unused" /\ at' = prev[at] /\ want' = want /\ rank' = rank /\ blockno' = blockno
        /\ refcnt' = refcnt
    BY <2>1, Zenon DEF Goes, list
  <2>3. /\ prev[at] \in Link /\ rank[prev[at]] = (IF rank[at] = NBUF THEN 0 ELSE rank[at] + 1)
        /\ rank[at] \in 1 .. NBUF /\ refcnt[at] > 0
    BY <1>1, <1>3 DEF BufTypeOK, ListSound
  <2>4. ASSUME NEW b \in Buf, prev[at] = bhead \/ rank[b] < rank[prev[at]] PROVE refcnt[b] > 0
    <3>1. CASE b = at
      BY <3>1, <2>3, Zenon
    <3>2. CASE b # at
      <4>1. rank[b] # rank[at]
        BY <3>2, <1>1, Zenon DEF ListSound
      <4>2. prev[at] = bhead => rank[at] = NBUF
        BY <2>3, <1>1, SMTT(30)
      <4>3. rank[b] < rank[at]
        BY <4>1, <4>2, <2>3, <2>4, <1>1, SMTT(30)
      <4> QED
        BY <4>3, <1>1, Zenon
    <3> QED
      BY <3>1, <3>2, Zenon
  <2>5. SearchExact'
    BY <1>1, <2>2, <2>4, Zenon DEF SearchExact
  <2> QED
    BY <1>1, <2>1, <2>3, <2>5, GoesKeeps, Zenon
<1>4. CASE at # bhead /\ refcnt[at] = 0
  <2>1. /\ refcnt' = [refcnt EXCEPT ![at] = 1] /\ blockno' = [blockno EXCEPT ![at] = want]
        /\ Got(0)
    BY <1>4, Zenon DEF SearchUnused, RecycledValid
  <2>2. /\ at \in Buf /\ locked[at] = 0 /\ blockno[at] \notin pinned /\ dirty[at] = 0
    BY <1>1, <1>4 DEF BufTypeOK, BuffersExact, ChangesKept
  <2>3. /\ locked' = [locked EXCEPT ![at] = 1] /\ valid' = [valid EXCEPT ![at] = 1]
        /\ data' = [data EXCEPT ![at] = DiskRead(want)]
        /\ loop' = "none" /\ at' = bhead /\ want' = NoBlock
        /\ UNCHANGED <<next, prev, rank>> /\ UNCHANGED <<dirty, disk, pinned, latest, bpanic>>
    BY <2>1 DEF Got, list
  <2>4. want \notin pinned /\ DiskRead(want) = latest[want] /\ DiskRead(want) \in BlockData
    <3>1. Cached(want) = {}
      BY <1>1, Zenon DEF Cached
    <3> QED
      BY <1>1, <3>1, ReadIsData, Zenon DEF BuffersExact, Transparent
  <2>5. BufTypeOK'
    BY <1>1, <2>1, <2>2, <2>3, <2>4, SMTT(30) DEF BufTypeOK
  <2>6. ListSound'
    BY <1>1, <2>3, ZenonT(30) DEF ListSound
  <2>7. /\ blockno'[at] = want /\ data'[at] = DiskRead(want) /\ valid'[at] = 1 /\ locked'[at] = 1
        /\ refcnt'[at] = 1
        /\ \A b \in Buf : b # at => /\ blockno'[b] = blockno[b] /\ data'[b] = data[b]
                                    /\ valid'[b] = valid[b] /\ locked'[b] = locked[b]
                                    /\ refcnt'[b] = refcnt[b]
    BY <1>1, <2>1, <2>2, <2>3, Zenon DEF BufTypeOK
  <2>8. BuffersExact'
    <3>1. ASSUME NEW m \in Block, NEW b \in Cached(m)', NEW c \in Cached(m)' PROVE b = c
      <4>1. b \in Buf /\ c \in Buf /\ blockno'[b] = m /\ blockno'[c] = m
        BY <3>1, Zenon DEF Cached
      <4>2. \A d \in Buf : blockno[d] # want
        BY <1>1, ZenonT(30)
      <4>3. b # at /\ c # at => b \in Cached(m) /\ c \in Cached(m)
        BY <2>7, <4>1, ZenonT(30) DEF Cached
      <4>4. b = at => c = at
        BY <2>7, <4>1, <4>2, Zenon
      <4>5. c = at => b = at
        BY <2>7, <4>1, <4>2, Zenon
      <4> QED BY <1>1, <4>3, <4>4, <4>5, ZenonT(30) DEF BuffersExact
    <3>2. \A b \in Buf : refcnt'[b] = locked'[b] + IF blockno'[b] \in pinned' THEN 1 ELSE 0
      BY <1>1, <2>2, <2>3, <2>4, <2>7, SMTT(30) DEF BuffersExact
    <3>3. \A m \in pinned' : Cached(m)' # {}
      BY <1>1, <2>2, <2>3, <2>7, SMTT(30) DEF BuffersExact, Cached
    <3> QED
      BY <3>1, <3>2, <3>3, Zenon DEF BuffersExact
  <2>9. Transparent'
    <3>1. ASSUME NEW m \in Block, NEW b \in Cached(m)' PROVE valid'[b] = 1 /\ data'[b] = latest'[m]
      BY <3>1, <1>1, <2>2, <2>3, <2>4, <2>7, SMTT(30) DEF Transparent, Cached
    <3>2. ASSUME NEW m \in Block, Cached(m)' = {} PROVE DiskRead(m)' = latest'[m]
      <4>1. CASE m = blockno[at]
        BY <4>1, <1>1, <2>2, <2>3, ReadSame, ZenonT(30) DEF Transparent, ChangesKept, Cached
      <4>2. CASE m # blockno[at]
        <5>1. Cached(m) = {}
          BY <3>2, <4>2, <2>2, <2>7, SMTT(30) DEF Cached
        <5> QED
          BY <5>1, <1>1, <2>3, ReadSame, Zenon DEF Transparent
      <4> QED
        BY <4>1, <4>2, Zenon
    <3> QED
      BY <3>1, <3>2, Zenon DEF Transparent
  <2>10. ChangesKept'
    <3>1. ASSUME NEW b \in Buf
          PROVE  /\ dirty'[b] = 1 => refcnt'[b] > 0
                 /\ refcnt'[b] > 0 => blockno'[b] \in Block
      <4>1. CASE b = at
        BY <4>1, <1>1, <2>2, <2>3, <2>7, SMTT(30)
      <4>2. CASE b # at
        BY <4>2, <1>1, <2>3, <2>7, Zenon DEF ChangesKept
      <4> QED
        BY <4>1, <4>2, Zenon
    <3>2. ASSUME NEW b \in Buf, NEW m \in Block, dirty'[b] = 0, blockno'[b] = m
          PROVE  DiskRead(m)' = data'[b]
      <4>0. DiskRead(m)' = DiskRead(m)
        BY <2>3, ReadSame, Zenon
      <4>1. CASE b = at
        BY <4>0, <4>1, <2>7, <3>2, Zenon
      <4>2. CASE b # at
        <5>1. blockno[b] = m /\ dirty[b] = 0 /\ data'[b] = data[b]
          BY <4>2, <2>3, <2>7, <3>2, Zenon
        <5>2. DiskRead(m) = data[b]
          BY <5>1, <1>1, Zenon DEF ChangesKept
        <5> QED
          BY <4>0, <5>1, <5>2, Zenon
      <4> QED
        BY <4>1, <4>2, Zenon
    <3>3. ASSUME NEW b \in Buf, dirty'[b] = 0, blockno'[b] \in Block
          PROVE  DiskRead(blockno[b])' = data'[b]
      BY <3>2, <3>3, Zenon
    <3> QED
      BY <3>1, <3>3, Zenon DEF ChangesKept
  <2>11. SearchExact' /\ InLimits'
    BY <2>3, ZenonT(30) DEF SearchExact, InLimits, CacheSound
  <2> QED
    BY <1>1, <2>3, <2>5, <2>6, <2>8, <2>9, <2>10, <2>11, Zenon DEF CacheSound
<1> QED
  BY <1>2, <1>3, <1>4, Zenon

-----------------------------------------------------------------------------
(* What the holder of a buffer does *)

\* A held buffer has a block, and no search goes on.
LEMMA Held ==
  ASSUME CacheSound, Between, NEW b \in Holding
  PROVE  /\ b \in Buf /\ locked[b] = 1 /\ blockno[b] \in Block /\ refcnt[b] > 0 /\ refcnt[b] \in Nat
         /\ refcnt[b] = 1 + IF blockno[b] \in pinned THEN 1 ELSE 0
         /\ \A c \in Buf : blockno[c] = blockno[b] => c = b
<1>1. /\ BufTypeOK /\ BuffersExact /\ ChangesKept /\ b \in Buf /\ locked[b] = 1
  BY Zenon DEF CacheSound, Holding
<1>2. refcnt[b] = (1 + IF blockno[b] \in pinned THEN 1 ELSE 0) /\ refcnt[b] \in Nat
  <2>1. refcnt[b] \in Nat
    BY <1>1, Zenon DEF BufTypeOK
  <2>2. refcnt[b] = locked[b] + IF blockno[b] \in pinned THEN 1 ELSE 0
    BY <1>1, Zenon DEF BuffersExact
  <2> QED
    BY <1>1, <2>1, <2>2, Zenon
<1>3. blockno[b] \in Block
  BY <1>1, <1>2 DEF ChangesKept
<1> QED
  BY <1>1, <1>2, <1>3 DEF BuffersExact, Cached

\* The log never pins more blocks than it may.
LEMMA PinnedFinite ==
  ASSUME CacheSound
  PROVE  IsFiniteSet(pinned) /\ Cardinality(pinned) \in Nat
<1>1. IsFiniteSet(Block)
  BY FS_Interval, BufferSizes, SMTT(30) DEF Block
<1>2. pinned \subseteq Block
  BY Zenon DEF CacheSound, BufTypeOK
<1> QED
  BY <1>1, <1>2, FS_Subset, FS_CardinalityType, Zenon

\* A change goes to the only buffer of its block.
LEMMA ChangeKeeps ==
  ASSUME CacheSound, NEW b \in Buf, NEW d \in BufData, Change(b, d)
  PROVE  CacheSound'
<1>1. /\ BufTypeOK /\ ListSound /\ BuffersExact /\ Transparent /\ ChangesKept /\ bpanic = "none"
      /\ Between /\ b \in Holding /\ d \in BlockData
  BY BufferSizes, Zenon DEF CacheSound, Change, BlockData, SECTORS
<1>2. /\ data' = [data EXCEPT ![b] = d] /\ dirty' = [dirty EXCEPT ![b] = 1]
      /\ latest' = [latest EXCEPT ![blockno[b]] = d]
      /\ UNCHANGED <<next, prev, rank>> /\ UNCHANGED <<loop, at, want>>
      /\ UNCHANGED <<blockno, valid, refcnt, locked, disk, pinned, bpanic>> /\ loop = "none"
  BY Zenon DEF Change, list, search, Between
<1>3. /\ locked[b] = 1 /\ blockno[b] \in Block /\ refcnt[b] > 0
      /\ \A c \in Buf : blockno[c] = blockno[b] => c = b
  BY <1>1, Held, Zenon
<1>4. BufTypeOK'
  BY <1>1, <1>2, <1>3, SMTT(30) DEF BufTypeOK
<1>5. ListSound' /\ \A m : Cached(m)' = Cached(m)
  BY <1>1, <1>2, Zenon DEF ListSound, Cached
<1>6. BuffersExact'
  BY <1>1, <1>2, <1>5, Zenon DEF BuffersExact
<1>7. /\ data'[b] = d /\ dirty'[b] = 1 /\ latest'[blockno[b]] = d
      /\ \A c \in Buf : c # b => data'[c] = data[c] /\ dirty'[c] = dirty[c]
      /\ \A m \in Block : m # blockno[b] => latest'[m] = latest[m]
  BY <1>1, <1>2, <1>3, Zenon DEF BufTypeOK
<1>8. Transparent'
  BY <1>1, <1>2, <1>3, <1>5, <1>7, ReadSame, SMTT(30) DEF Transparent, Cached
<1>9. ChangesKept'
  BY <1>1, <1>2, <1>3, <1>7, ReadSame, SMTT(30) DEF ChangesKept
<1>10. SearchExact' /\ InLimits'
  BY <1>2, ZenonT(30) DEF SearchExact, InLimits, CacheSound
<1> QED
  BY <1>1, <1>2, <1>4, <1>5, <1>6, <1>8, <1>9, <1>10, Zenon DEF CacheSound

\* A write brings the disk up to date with the buffer.
LEMMA WriteKeeps ==
  ASSUME CacheSound, NEW b \in Buf, bwrite(b)
  PROVE  CacheSound'
<1>1. /\ BufTypeOK /\ ListSound /\ BuffersExact /\ Transparent /\ ChangesKept /\ bpanic = "none"
      /\ Between /\ b \in Holding
  BY Zenon DEF CacheSound, bwrite
<1>0. disk' = DiskWrite(blockno[b], data[b])
  BY Zenon DEF bwrite
<1>2. /\ dirty' = [dirty EXCEPT ![b] = 0]
      /\ UNCHANGED <<next, prev, rank>> /\ UNCHANGED <<loop, at, want>>
      /\ UNCHANGED <<blockno, valid, refcnt, locked, data, pinned, latest, bpanic>> /\ loop = "none"
  BY ZenonT(30) DEF bwrite, list, search, Between
<1>3. /\ locked[b] = 1 /\ blockno[b] \in Block /\ data[b] \in BlockData
      /\ \A c \in Buf : blockno[c] = blockno[b] => c = b
  BY <1>1, Held, Zenon DEF BufTypeOK
<1>4. /\ disk' \in [Sector -> Int] /\ DiskRead(blockno[b])' = data[b]
      /\ \A k \in Block : k # blockno[b] => DiskRead(k)' = DiskRead(k)
  <2>1. PICK m \in Block : m = blockno[b]
    BY <1>3, Zenon
  <2>2. /\ disk' \in [Sector -> Int] /\ DiskRead(m)' = data[b]
        /\ \A k \in Block : k # m => DiskRead(k)' = DiskRead(k)
    BY <1>0, <1>1, <1>2, <1>3, <2>1, ReadWritten, Zenon
  <2>3. DiskRead(blockno[b])' = DiskRead(m)'
    BY <1>2, <2>1, Zenon
  <2> QED
    BY <2>1, <2>2, <2>3, Zenon
<1>5. BufTypeOK'
  BY <1>1, <1>2, <1>4, ZenonT(30) DEF BufTypeOK
<1>6. ListSound' /\ \A m : Cached(m)' = Cached(m)
  BY <1>1, <1>2, ZenonT(30) DEF ListSound, Cached
<1>7. BuffersExact'
  BY <1>1, <1>2, <1>6, ZenonT(30) DEF BuffersExact
<1>8. Transparent'
  <2>1. \A m \in Block : Cached(m) = {} => m # blockno[b]
    BY Zenon DEF Cached
  <2> QED
    BY <1>1, <1>2, <1>4, <1>6, <2>1, ZenonT(30) DEF Transparent
<1>9. ChangesKept'
  <2>1. ASSUME NEW c \in Buf
        PROVE  /\ dirty'[c] = 1 => refcnt'[c] > 0
               /\ refcnt'[c] > 0 => blockno'[c] \in Block
    BY <1>1, <1>2, Zenon DEF ChangesKept, BufTypeOK
  <2>2. ASSUME NEW c \in Buf, NEW m \in Block, dirty'[c] = 0, blockno[c] = m
        PROVE  DiskRead(m)' = data[c]
    <3>1. CASE c = b
      <4>1. DiskRead(blockno[b])' = DiskRead(m)'
        BY <3>1, <2>2, <1>2, Zenon
      <4> QED
        BY <3>1, <4>1, <1>4, Zenon
    <3>2. CASE c # b
      <4>1. dirty[c] = 0 /\ m # blockno[b]
        BY <3>2, <2>2, <1>1, <1>2, <1>3, ZenonT(30) DEF BufTypeOK
      <4> QED
        BY <4>1, <2>2, <1>1, <1>4, Zenon DEF ChangesKept
    <3> QED
      BY <3>1, <3>2, Zenon
  <2>3. ASSUME NEW c \in Buf, dirty'[c] = 0, blockno'[c] \in Block
        PROVE  DiskRead(blockno[c])' = data'[c]
    BY <2>2, <2>3, <1>2, ZenonT(30)
  <2> QED
    BY <2>1, <2>3, Zenon DEF ChangesKept
<1>10. SearchExact' /\ InLimits'
  BY <1>2, Zenon DEF SearchExact, InLimits, CacheSound
<1> QED
  BY <1>1, <1>2, <1>5, <1>6, <1>7, <1>8, <1>9, <1>10, Zenon DEF CacheSound

\* bpin adds the reference of the log.
LEMMA PinKeeps ==
  ASSUME CacheSound, NEW b \in Buf, bpin(b)
  PROVE  CacheSound'
<1>1. /\ BufTypeOK /\ ListSound /\ BuffersExact /\ Transparent /\ ChangesKept /\ bpanic = "none"
      /\ Between /\ b \in Holding /\ blockno[b] \notin pinned /\ Cardinality(pinned) < PINS
  BY Zenon DEF CacheSound, bpin
<1>2. /\ refcnt' = [refcnt EXCEPT ![b] = @ + 1] /\ pinned' = pinned \cup {blockno[b]}
      /\ UNCHANGED <<next, prev, rank>> /\ UNCHANGED <<loop, at, want>>
      /\ UNCHANGED <<blockno, valid, locked, data, dirty, disk, latest, bpanic>> /\ loop = "none"
  BY Zenon DEF bpin, list, search, Between
<1>3. /\ blockno[b] \in Block /\ refcnt[b] \in Nat
      /\ \A c \in Buf : blockno[c] = blockno[b] => c = b
  BY <1>1, Held, Zenon
<1>4. BufTypeOK'
  BY <1>1, <1>2, <1>3, SMTT(30) DEF BufTypeOK
<1>5. ListSound' /\ \A m : Cached(m)' = Cached(m)
  BY <1>1, <1>2, Zenon DEF ListSound, Cached
<1>6. BuffersExact'
  BY <1>1, <1>2, <1>3, <1>5, SMTT(30) DEF BuffersExact, Cached, BufTypeOK
<1>7. Transparent'
  BY <1>1, <1>2, <1>5, ReadSame, Zenon DEF Transparent
<1>8. ChangesKept'
  BY <1>1, <1>2, <1>3, ReadSame, SMTT(30) DEF ChangesKept, BufTypeOK
<1>9. SearchExact' /\ InLimits'
  <2>1. Cardinality(pinned') = Cardinality(pinned) + 1
    BY <1>1, <1>2, PinnedFinite, FS_AddElement, ZenonT(30)
  <2>2. Cardinality(pinned') <= PINS
    BY <2>1, <1>1, PinnedFinite, BufferSizes, SMTT(30)
  <2> QED
    BY <1>2, <2>2, Zenon DEF SearchExact, InLimits
<1> QED
  BY <1>1, <1>2, <1>4, <1>5, <1>6, <1>7, <1>8, <1>9, Zenon DEF CacheSound

\* bunpin takes it away; the holder still has its own.
LEMMA UnpinKeeps ==
  ASSUME CacheSound, NEW b \in Buf, bunpin(b)
  PROVE  CacheSound'
<1>1. /\ BufTypeOK /\ ListSound /\ BuffersExact /\ Transparent /\ ChangesKept /\ bpanic = "none"
      /\ Between /\ b \in Holding /\ blockno[b] \in pinned /\ dirty[b] = 0
  BY Zenon DEF CacheSound, bunpin
<1>2. /\ refcnt' = [refcnt EXCEPT ![b] = @ - 1] /\ pinned' = pinned \ {blockno[b]}
      /\ UNCHANGED <<next, prev, rank>> /\ UNCHANGED <<loop, at, want>>
      /\ UNCHANGED <<blockno, valid, locked, data, dirty, disk, latest, bpanic>> /\ loop = "none"
  BY Zenon DEF bunpin, list, search, Between
<1>3. /\ blockno[b] \in Block /\ refcnt[b] = 2 /\ locked[b] = 1
      /\ \A c \in Buf : blockno[c] = blockno[b] => c = b
  BY <1>1, Held, SMTT(30)
<1>4. BufTypeOK'
  BY <1>1, <1>2, <1>3, SMTT(30) DEF BufTypeOK
<1>5. ListSound' /\ \A m : Cached(m)' = Cached(m)
  BY <1>1, <1>2, ZenonT(30) DEF ListSound, Cached
<1>6. BuffersExact'
  BY <1>1, <1>2, <1>3, <1>5, SMTT(30) DEF BuffersExact, Cached, BufTypeOK
<1>7. Transparent'
  BY <1>1, <1>2, <1>5, ReadSame, ZenonT(30) DEF Transparent
<1>8. ChangesKept'
  BY <1>1, <1>2, <1>3, ReadSame, SMTT(30) DEF ChangesKept, BufTypeOK
<1>9. SearchExact' /\ InLimits'
  <2>1. Cardinality(pinned') <= Cardinality(pinned) /\ Cardinality(pinned') \in Nat
    BY <1>2, PinnedFinite, FS_Subset, FS_CardinalityType, Zenon
  <2>2. Cardinality(pinned') <= PINS
    BY <2>1, PinnedFinite, BufferSizes, SMTT(30) DEF CacheSound, InLimits
  <2> QED
    BY <1>2, <2>2, ZenonT(30) DEF SearchExact, InLimits
<1> QED
  BY <1>1, <1>2, <1>4, <1>5, <1>6, <1>7, <1>8, <1>9, Zenon DEF CacheSound

\* brelse: what was changed stays in a buffer that the log refers to.
LEMMA ReleaseKeeps ==
  ASSUME CacheSound, NEW b \in Buf, brelse(b)
  PROVE  CacheSound'
<1>1. /\ BufTypeOK /\ ListSound /\ BuffersExact /\ Transparent /\ ChangesKept /\ bpanic = "none"
      /\ Between /\ b \in Holding /\ (dirty[b] = 0 \/ blockno[b] \in pinned)
  BY Zenon DEF CacheSound, brelse
<1>2. /\ locked' = [locked EXCEPT ![b] = 0] /\ refcnt' = [refcnt EXCEPT ![b] = @ - 1]
      /\ UNCHANGED <<loop, at, want>>
      /\ UNCHANGED <<blockno, valid, data, dirty, disk, pinned, latest, bpanic>> /\ loop = "none"
  BY Zenon DEF brelse, search, Between
<1>3. /\ blockno[b] \in Block /\ refcnt[b] \in Nat /\ locked[b] = 1
      /\ refcnt[b] = 1 + IF blockno[b] \in pinned THEN 1 ELSE 0
  BY <1>1, Held, Zenon
<1>4. /\ next' \in [Link -> Link] /\ prev' \in [Link -> Link] /\ rank' \in [Link -> 0 .. NBUF]
      /\ ListSound'
  <2>1. CASE refcnt[b] = 1
    BY <2>1, <1>1, FrontSound, Zenon DEF brelse
  <2>2. CASE refcnt[b] # 1
    <3>1. UNCHANGED <<next, prev, rank>>
      BY <2>2, ZenonT(30) DEF brelse, list
    <3> QED
      BY <1>1, <3>1, ZenonT(30) DEF ListSound, BufTypeOK
  <2> QED
    BY <2>1, <2>2, Zenon
<1>5. BufTypeOK'
  BY <1>1, <1>2, <1>3, <1>4 DEF BufTypeOK
<1>6. \A m : Cached(m)' = Cached(m)
  BY <1>2, Zenon DEF Cached
<1>7. BuffersExact'
  BY <1>1, <1>2, <1>3, <1>6, SMTT(30) DEF BuffersExact, BufTypeOK
<1>8. Transparent'
  BY <1>1, <1>2, <1>6, ReadSame, Zenon DEF Transparent
<1>9. ChangesKept'
  BY <1>1, <1>2, <1>3, ReadSame, SMTT(30) DEF ChangesKept, BufTypeOK
<1>10. SearchExact' /\ InLimits'
  BY <1>2, Zenon DEF SearchExact, InLimits, CacheSound
<1> QED
  BY <1>1, <1>2, <1>4, <1>5, <1>7, <1>8, <1>9, <1>10, Zenon DEF CacheSound

-----------------------------------------------------------------------------
(* The theorem *)

\* binit: the list as it is made, and a cache without blocks.
LEMMA InitSound == BufInit => CacheSound
<1> SUFFICES ASSUME BufInit PROVE CacheSound
  OBVIOUS
<1>1. /\ NBUF \in Nat \ {0} /\ NBLOCK \in Nat /\ PINS \in Nat
      /\ loop = "none" /\ at = bhead /\ want = NoBlock /\ pinned = {} /\ bpanic = "none"
      /\ refcnt = [b \in Buf |-> 0] /\ valid = refcnt /\ locked = refcnt /\ dirty = refcnt
      /\ blockno = [b \in Buf |-> NoBlock] /\ data = [b \in Buf |-> Blank]
      /\ latest = [m \in Block |-> Blank] /\ disk = [k \in Sector |-> k % SECTORS]
  BY BufferSizes, Zenon DEF BufInit
<1>2. /\ next = [b \in Link |-> IF b = bhead THEN NBUF ELSE b - 1]
      /\ prev = [b \in Link |-> IF b = NBUF THEN bhead ELSE b + 1]
      /\ rank = [b \in Link |-> b]
  BY Zenon DEF BufInit
<1>3. Blank \in BlockData /\ disk \in [Sector -> Int]
  BY <1>1 DEF Blank, BlockData, SECTORS, Sector
<1>4. Link = 0 .. NBUF /\ bhead = 0
  BY <1>1 DEF Link, Buf, bhead
<1>5. next \in [Link -> Link] /\ prev \in [Link -> Link] /\ rank \in [Link -> 0 .. NBUF]
  BY <1>1, <1>2, <1>4, SMTT(30)
<1>6. BufTypeOK
  <2>1. {valid, locked, dirty} \subseteq [Buf -> {0, 1}] /\ refcnt \in [Buf -> Nat]
    BY <1>1, Zenon
  <2>2. /\ blockno \in [Buf -> Block \cup {NoBlock}] /\ data \in [Buf -> BlockData]
        /\ latest \in [Block -> BlockData] /\ at \in Link
    BY <1>1, <1>3, <1>4
  <2> QED
    BY <1>1, <1>3, <1>5, <2>1, <2>2, Zenon DEF BufTypeOK
<1>7. ListSound
  BY <1>1, <1>2, <1>4, <1>5 DEF ListSound
<1>8. \A m \in Block : Cached(m) = {} /\ DiskRead(m) = Blank
  <2>1. ASSUME NEW m \in Block PROVE Cached(m) = {}
    BY <1>1 DEF Cached, Block, NoBlock
  <2>2. ASSUME NEW m \in Block, NEW s \in 1 .. SECTORS PROVE disk[SectorOf(m, s)] = s - 1
    <3>1. SectorOf(m, s) \in Sector /\ SectorOf(m, s) % SECTORS = s - 1
      BY <1>1, SMTT(30) DEF SectorOf, Sector, SECTORS, Block
    <3> QED
      BY <1>1, <3>1, Zenon
  <2> QED
    BY <2>1, <2>2, Zenon DEF DiskRead, Blank
<1>9. BuffersExact /\ Transparent
  BY <1>1, <1>8 DEF BuffersExact, Transparent
<1>10. ChangesKept
  BY <1>1 DEF ChangesKept, Block, NoBlock
<1>11. SearchExact /\ InLimits
  BY <1>1, FS_EmptySet DEF SearchExact, InLimits
<1> QED
  BY <1>1, <1>6, <1>7, <1>9, <1>10, <1>11, Zenon DEF CacheSound

\* The buffer cache is the disk, whatever the order of reads, writes, pins and
\* releases: the list stays whole and sorted, a block has one buffer, it has
\* what was last put into it, and bget finds a buffer as long as there are as
\* many as are held and pinned (bget, bread, bwrite, brelse, bpin, bunpin).
THEOREM CacheIsSound == BufSpec => []CacheSound
<1>1. CacheSound /\ [BufNext]_bufVars => CacheSound'
  <2> SUFFICES ASSUME CacheSound, [BufNext]_bufVars PROVE CacheSound'
    OBVIOUS
  <2>1. ASSUME NEW m \in Block, bread(m) PROVE CacheSound'
    BY <2>1, ReadKeeps, Zenon
  <2>2. CASE SearchCached
    BY <2>2, CachedKeeps, Zenon
  <2>3. CASE SearchUnused
    BY <2>3, UnusedKeeps, Zenon
  <2>4. ASSUME NEW b \in Buf, bwrite(b) \/ bpin(b) \/ bunpin(b) \/ brelse(b) PROVE CacheSound'
    BY <2>4, WriteKeeps, PinKeeps, UnpinKeeps, ReleaseKeeps, Zenon
  <2>5. ASSUME NEW b \in Buf, NEW d \in BufData, Change(b, d) PROVE CacheSound'
    BY <2>5, ChangeKeeps, Zenon
  <2>6. CASE UNCHANGED bufVars
    <3>1. /\ UNCHANGED <<next, prev, rank>> /\ UNCHANGED <<loop, at, want>>
          /\ UNCHANGED <<blockno, valid, refcnt, locked, data, dirty, disk, pinned, latest, bpanic>>
          /\ UNCHANGED list
      BY <2>6, Zenon DEF bufVars, list, search
    <3>2. BufTypeOK'
      BY <3>1, Zenon DEF BufTypeOK, CacheSound
    <3>3. SearchExact' /\ InLimits'
      BY <3>1, Untouched, Zenon DEF SearchExact, InLimits, CacheSound
    <3> QED
      BY <3>1, <3>2, <3>3, Untouched, Zenon DEF CacheSound
  <2> QED
    BY <2>1, <2>2, <2>3, <2>4, <2>5, <2>6, Zenon DEF BufNext
<1> QED
  BY <1>1, InitSound, PTL DEF BufSpec
=============================================================================
