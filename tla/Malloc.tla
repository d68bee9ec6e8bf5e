------------------------------- MODULE Malloc -------------------------------
(***************************************************************************)
(* malloc and free of user/umalloc.c.  An address counts units, the size   *)
(* of a Header; base is at address 0, below the heap.  hdr has the headers *)
(* of all blocks, free or not: between them is the data of the program.    *)
(* Each loop is a recursion over the pointers it follows.                  *)
(***************************************************************************)
EXTENDS Integers, FiniteSets, FiniteSetsExt, Functions, TLC

CONSTANTS
  HEAP,        \* units the process can have: sbrk fails above
  CORE,        \* units morecore asks for at least: 4096
  HEADER,      \* bytes of a unit
  REQUESTS     \* sizes asked for, in bytes

base == 0
Null == -1

VARIABLES
  hdr,         \* s.ptr and s.size of every header
  freep,
  brk,         \* the end of the heap
  core,        \* ghost: the units morecore got
  inuse        \* ghost: the blocks given out, with the bytes asked for

vars == <<hdr, freep, brk, core, inuse>>

Init ==
  /\ hdr = [a \in {base} |-> [ptr |-> base, size |-> 0]] /\ freep = Null
  /\ brk = 1 /\ core = {} /\ inuse = <<>>

-----------------------------------------------------------------------------
(* free *)

\* The free block after which bp is put.
RECURSIVE Place(_, _, _)
Place(h, bp, p) ==
  IF \/ bp > p /\ bp < h[p].ptr
     \/ p >= h[p].ptr /\ (bp > p \/ bp < h[p].ptr) THEN p
  ELSE Place(h, bp, h[p].ptr)

Drop(h, a) == Restrict(h, DOMAIN h \ {a})

\* mutant: a block is not joined with the one above it.
JoinUpNot(h, bp, p) == [h EXCEPT ![bp].ptr = h[p].ptr]

JoinUp(h, bp, p) ==
  IF bp + h[bp].size = h[p].ptr
  THEN Drop([h EXCEPT ![bp] = [ptr |-> h[h[p].ptr].ptr, size |-> @.size + h[h[p].ptr].size]], h[p].ptr)
  ELSE [h EXCEPT ![bp].ptr = h[p].ptr]

JoinDown(h, bp, p) ==
  IF p + h[p].size = bp
  THEN Drop([h EXCEPT ![p] = [ptr |-> h[bp].ptr, size |-> @.size + h[bp].size]], bp)
  ELSE [h EXCEPT ![p].ptr = bp]

\* The two joins at place p, and freep.  The block above p, if it is joined, is
\* no longer a header, but p is.
Freed(h, bp, p) == [hdr |-> JoinDown(JoinUp(h, bp, p), bp, p), freep |-> p]

FreeBlock(s, bp) == Freed(s.hdr, bp, Place(s.hdr, bp, s.freep)) @@ s

-----------------------------------------------------------------------------
(* malloc *)

Units(nbytes) == (nbytes + HEADER - 1) \div HEADER + 1

MaxOf(a, b) == IF a < b THEN b ELSE a

\* morecore, when sbrk gives nu units at brk.
MoreCore(s, nu) ==
  FreeBlock([s EXCEPT !.hdr = (s.brk :> [ptr |-> 0, size |-> nu]) @@ @, !.brk = @ + nu,
                      !.core = @ \cup (s.brk .. s.brk + nu - 1)], s.brk)

\* Block p, if it is of this size, or the end of it.
Take(s, prevp, p, n) ==
  IF s.hdr[p].size = n
  THEN [s EXCEPT !.freep = prevp, !.hdr[prevp].ptr = s.hdr[p].ptr, !.got = p]
  ELSE [s EXCEPT !.freep = prevp, !.got = p + s.hdr[p].size - n,
                 !.hdr = ((p + s.hdr[p].size - n) :> [ptr |-> 0, size |-> n])
                         @@ [@ EXCEPT ![p].size = @ - n]]

FullCircle(s, prevp, p) == p = s.freep

\* The search from p on; more says whether sbrk would succeed.
RECURSIVE Search(_, _, _, _, _)
Search(s, prevp, p, n, more) ==
  IF s.hdr[p].size >= n THEN Take(s, prevp, p, n)
  ELSE IF ~FullCircle(s, prevp, p) THEN Search(s, p, s.hdr[p].ptr, n, more)
  ELSE IF ~more \/ s.brk + MaxOf(n, CORE) > HEAP THEN s
  ELSE LET t == MoreCore(s, MaxOf(n, CORE)) IN Search(t, t.freep, t.hdr[t.freep].ptr, n, more)

\* The free list starts with base alone.
Start == [hdr |-> hdr, freep |-> IF freep = Null THEN base ELSE freep, brk |-> brk, core |-> core,
          got |-> Null]

malloc(nbytes, more) ==
  \E s \in {Search(Start, Start.freep, hdr[Start.freep].ptr, Units(nbytes), more)} :
    /\ hdr' = s.hdr /\ freep' = s.freep /\ brk' = s.brk /\ core' = s.core
    /\ inuse' = IF s.got = Null THEN inuse ELSE (s.got :> nbytes) @@ inuse

free(bp) ==
  /\ bp \in DOMAIN inuse
  /\ \E s \in {FreeBlock([hdr |-> hdr, freep |-> freep], bp)} : hdr' = s.hdr /\ freep' = s.freep
  /\ inuse' = Restrict(inuse, DOMAIN inuse \ {bp})
  /\ UNCHANGED <<brk, core>>

\* The program may take memory with sbrk itself, between two calls.
Sbrk == brk < HEAP /\ brk' = brk + 1 /\ UNCHANGED <<hdr, freep, core, inuse>>

Next ==
  \/ \E nbytes \in REQUESTS, more \in BOOLEAN : malloc(nbytes, more)
  \/ \E bp \in DOMAIN inuse : free(bp)
  \/ Sbrk

Spec == Init /\ [][Next]_vars

-----------------------------------------------------------------------------
(* Properties *)

FreeBlocks == DOMAIN hdr \ DOMAIN inuse
Block(a) == a .. a + hdr[a].size - 1

\* Every variable has its type.
TypeOK ==
  /\ \A a \in DOMAIN hdr : a \in 0 .. HEAP /\ hdr[a].ptr \in 0 .. HEAP /\ hdr[a].size \in 0 .. HEAP
  /\ freep \in {Null} \cup FreeBlocks /\ brk \in 1 .. HEAP /\ DOMAIN inuse \subseteq DOMAIN hdr

\* The free list goes through the free blocks in the order of their addresses
\* and back to base, and no two of them touch: whatever the order of the frees,
\* neighbours are joined.
FreeListSound ==
  \A a \in FreeBlocks :
    LET above == {b \in FreeBlocks : b > a}
    IN  /\ hdr[a].ptr = IF above = {} THEN base ELSE Min(above)
        /\ a # base => a + hdr[a].size \notin FreeBlocks

\* The units morecore got are in one block each, free or given out: blocks do
\* not overlap and no unit is lost.  A block given out has room for the bytes
\* that were asked for.
UnitsConserved ==
  /\ \A a, b \in DOMAIN hdr : a # b => Block(a) \cap Block(b) = {}
  /\ UNION {Block(a) : a \in DOMAIN hdr} = core
  /\ \A a \in DOMAIN inuse : (hdr[a].size - 1) * HEADER >= inuse[a]

\* The heap is in order: FreeListSound and UnitsConserved.
HeapSound == FreeListSound /\ UnitsConserved
=============================================================================
