------------------------------ MODULE Strings ------------------------------
(***************************************************************************)
(* The memory and string functions of kernel/string.c and user/ulib.c, and *)
(* printint of the two printf.c.  They run on a small memory of bytes, 0   *)
(* being NUL; a pointer is an address, and each loop is a recursion whose  *)
(* parameters are the variables it changes.                                *)
(***************************************************************************)
EXTENDS Integers, Sequences, FiniteSets, FiniteSetsExt

CONSTANTS
  SIZE,       \* bytes of memory
  BYTES,      \* values of a byte
  WORD,       \* bytes of a word: 4
  UINT        \* 2^32

Addr == 0 .. SIZE - 1
Byte == 0 .. BYTES - 1

VARIABLE mem

vars == mem

Init == mem = [a \in Addr |-> 0]

-----------------------------------------------------------------------------
(* Memory *)

Byte1(m, d, c) == [m EXCEPT ![d] = c]
Word1(m, d, c) == [a \in Addr |-> IF a \in d .. d + WORD - 1 THEN c ELSE m[a]]

RECURSIVE FillBytes(_, _, _, _), FillWords(_, _, _, _, _), FillHead(_, _, _, _, _)
FillBytes(m, d, c, k) == IF k = 0 THEN m ELSE FillBytes(Byte1(m, d, c), d + 1, c, k - 1)

FillWords(m, d, c, i, n) ==
  IF i + WORD <= n THEN FillWords(Word1(m, d + i, c), d, c, i + WORD, n)
  ELSE FillBytes(m, d + i, c, n - i)
FillHead(m, d, c, i, n) ==
  IF i < n /\ (d + i) % WORD # 0 THEN FillHead(Byte1(m, d + i, c), d, c, i + 1, n)
  ELSE FillWords(m, d, c, i, n)

\* memset of the kernel: bytes up to a word boundary, words, and the rest.
Memset(m, d, c, n) == FillHead(m, d, c, 0, n)
\* memset of user programs.
UserMemset(m, d, c, n) == FillBytes(m, d, c, n)

RECURSIVE Up(_, _, _, _), Down(_, _, _, _)
Up(m, d, s, k) == IF k = 0 THEN m ELSE Up(Byte1(m, d, m[s]), d + 1, s + 1, k - 1)
Down(m, d, s, k) == IF k = 0 THEN m ELSE Down(Byte1(m, d - 1, m[s - 1]), d - 1, s - 1, k - 1)

\* mutant: the copy always goes up.
MemmoveUp(m, d, s, n) == Up(m, d, s, n)

\* memmove of the kernel goes down only when the end of the source would be
\* overwritten; that of user programs whenever the source is not above.
Memmove(m, d, s, n) == IF s < d /\ s + n > d THEN Down(m, d + n, s + n, n) ELSE Up(m, d, s, n)
UserMemmove(m, d, s, n) == IF s > d THEN Up(m, d, s, n) ELSE Down(m, d + n, s + n, n)

RECURSIVE Memcmp(_, _, _, _)
Memcmp(m, p, q, n) ==
  IF n = 0 THEN 0 ELSE IF m[p] # m[q] THEN m[p] - m[q] ELSE Memcmp(m, p + 1, q + 1, n - 1)

-----------------------------------------------------------------------------
(* Strings *)

RECURSIVE Strlen(_, _), Strchr(_, _, _), Strcmp(_, _, _), Strncmp(_, _, _, _)
Strlen(m, s) == IF m[s] = 0 THEN 0 ELSE 1 + Strlen(m, s + 1)
\* 0 when there is none; the strings looked at are not at address 0.
Strchr(m, s, c) == IF m[s] = 0 THEN 0 ELSE IF m[s] = c THEN s ELSE Strchr(m, s + 1, c)
Strcmp(m, p, q) == IF m[p] # 0 /\ m[p] = m[q] THEN Strcmp(m, p + 1, q + 1) ELSE m[p] - m[q]
Strncmp(m, p, q, n) ==
  IF n > 0 /\ m[p] # 0 /\ m[p] = m[q] THEN Strncmp(m, p + 1, q + 1, n - 1)
  ELSE IF n = 0 THEN 0 ELSE m[p] - m[q]

RECURSIVE Strncpy(_, _, _, _), CopyUp(_, _, _, _), Strcpy(_, _, _)
Strncpy(m, s, t, n) ==
  IF n <= 0 THEN m
  ELSE IF m[t] = 0 THEN FillBytes(m, s, 0, n)
  ELSE Strncpy(Byte1(m, s, m[t]), s + 1, t + 1, n - 1)

\* The loop of safestrcpy, which copies the NUL too, and the NUL after it; n is
\* what --n compares.
CopyUp(m, s, t, n) ==
  IF n - 1 <= 0 THEN Byte1(m, s, 0)
  ELSE IF m[t] = 0 THEN Byte1(Byte1(m, s, 0), s + 1, 0)
  ELSE CopyUp(Byte1(m, s, m[t]), s + 1, t + 1, n - 1)
Safestrcpy(m, s, t, n) == IF n <= 0 THEN m ELSE CopyUp(m, s, t, n)
Strcpy(m, s, t) ==
  IF m[t] = 0 THEN Byte1(m, s, 0) ELSE Strcpy(Byte1(m, s, m[t]), s + 1, t + 1)

-----------------------------------------------------------------------------
(* Numbers: digits from the last one, in base 10 or 16 *)

Int32(x) == IF x < UINT \div 2 THEN x ELSE x - UINT

\* What printint prints the digits of; -(int)xx is taken modulo 2^32.
Magnitude(xx, sign) == IF sign /\ Int32(xx) < 0 THEN (-Int32(xx)) % UINT ELSE xx

RECURSIVE Digits(_, _)
Digits(x, base) == <<x % base>> \o IF x \div base = 0 THEN <<>> ELSE Digits(x \div base, base)

\* The printed sign, and the digits as they are printed.
Printint(xx, base, sign) ==
  [neg |-> sign /\ Int32(xx) < 0,
   digits |-> LET d == Digits(Magnitude(xx, sign), base)
              IN  [i \in 1 .. Len(d) |-> d[Len(d) + 1 - i]]]

\* atoi of ulib.c: the value of the digits at the start of a string.
RECURSIVE Atoi(_, _)
Atoi(ds, n) == IF ds = <<>> THEN n ELSE Atoi(Tail(ds), (n * 10 + Head(ds)) % UINT)

-----------------------------------------------------------------------------
\* A string that ends inside the memory.
Terminated(a) == \E b \in a .. SIZE - 1 : mem[b] = 0
\* The lengths that fit at an address.
Fits(a) == 0 .. SIZE - a

Next ==
  \E d \in Addr :
    \/ \E c \in Byte, n \in Fits(d) : mem' = Memset(mem, d, c, n) \/ mem' = UserMemset(mem, d, c, n)
    \/ \E s \in Addr :
         \/ \E n \in Fits(d) \cap Fits(s) : \/ mem' = Memmove(mem, d, s, n)
                                           \/ mem' = UserMemmove(mem, d, s, n)
         \/ \E n \in Fits(d) \cap Fits(s) :
              \* the strings do not overlap
              /\ d + n <= s \/ s + n <= d
              /\ mem' = Strncpy(mem, d, s, n) \/ mem' = Safestrcpy(mem, d, s, n)
         \/ /\ Terminated(s) /\ d + Strlen(mem, s) < SIZE
            /\ d + Strlen(mem, s) < s \/ s + Strlen(mem, s) < d
            /\ mem' = Strcpy(mem, d, s)

Spec == Init /\ [][Next]_vars

-----------------------------------------------------------------------------
(* Properties: the functions against what they are for *)

\* Every variable has its type.
TypeOK == mem \in [Addr -> Byte]

\* memset, of the kernel and of user programs, sets the n bytes and no other,
\* whatever the alignment of their ends.
FillExact ==
  \A d \in Addr, c \in Byte : \A n \in Fits(d) :
    /\ Memset(mem, d, c, n) = [a \in Addr |-> IF a \in d .. d + n - 1 THEN c ELSE mem[a]]
    /\ UserMemset(mem, d, c, n) = Memset(mem, d, c, n)

\* memmove, of the kernel and of user programs, moves the bytes that were there
\* before, however source and destination overlap.
MoveExact ==
  \A d, s \in Addr : \A n \in Fits(d) \cap Fits(s) :
    /\ Memmove(mem, d, s, n) =
         [a \in Addr |-> IF a \in d .. d + n - 1 THEN mem[s + a - d] ELSE mem[a]]
    /\ UserMemmove(mem, d, s, n) = Memmove(mem, d, s, n)

Str(a) == [i \in 1 .. Strlen(mem, a) |-> mem[a + i - 1]]
Prefix(x, n) == SubSeq(x, 1, IF n < Len(x) THEN n ELSE Len(x))

\* memcmp, strcmp and strncmp return 0 exactly for equal bytes, strings and
\* prefixes, and the sign turns when the arguments are swapped; strchr finds the
\* first occurrence.
CompareExact ==
  \A p, q \in Addr :
    /\ \A n \in Fits(p) \cap Fits(q) :
         Memcmp(mem, p, q, n) = 0 <=> \A i \in 0 .. n - 1 : mem[p + i] = mem[q + i]
    /\ Terminated(p) /\ Terminated(q) =>
         /\ Strcmp(mem, p, q) = 0 <=> Str(p) = Str(q)
         /\ Strcmp(mem, p, q) = -Strcmp(mem, q, p)
         /\ \A n \in 0 .. SIZE :
              /\ Strncmp(mem, p, q, n) = 0 <=> Prefix(Str(p), n) = Prefix(Str(q), n)
              /\ Strncmp(mem, p, q, n) = -Strncmp(mem, q, p, n)
    /\ p > 0 /\ Terminated(p) =>
         \A c \in Byte \ {0} :
           Strchr(mem, p, c) =
             LET at == {a \in p .. p + Strlen(mem, p) - 1 : mem[a] = c} IN IF at = {} THEN 0 ELSE Min(at)

\* strncpy writes exactly n bytes, the string and NULs; safestrcpy writes at
\* most n, the longest prefix with a NUL, or two, after it.  Neither looks at the source
\* after its NUL.
CopyBounded ==
  \A d, s \in Addr : \A n \in Fits(d) \cap Fits(s) :
    (d + n <= s \/ s + n <= d) =>
      LET len == Cardinality({b \in s .. s + n - 1 : \A a \in s .. b : mem[a] # 0})
          Copied(k, zeros) == [a \in Addr |-> IF a \in d .. d + k - 1 THEN mem[s + a - d]
                                             ELSE IF a \in d + k .. d + k + zeros - 1 THEN 0 ELSE mem[a]]
      IN  /\ Strncpy(mem, d, s, n) = Copied(len, n - len)
          /\ Safestrcpy(mem, d, s, n) =
               IF n = 0 THEN mem ELSE IF len < n - 1 THEN Copied(len, 2) ELSE Copied(n - 1, 1)

\* A number in memory.
Number == (mem[0] + BYTES * mem[1] + BYTES * BYTES * mem[2] + BYTES * BYTES * BYTES * mem[3]) % UINT

\* printint prints the number, as the digits read back say: signed or not, in
\* base 10 and 16, the least integer included.
PrintExact ==
  \A xx \in {Number}, base \in {10, 16}, sign \in BOOLEAN :
    LET p == Printint(xx, base, sign)
        RECURSIVE Value(_, _)
        Value(ds, n) == IF ds = <<>> THEN n ELSE Value(Tail(ds), n * base + Head(ds))
    IN  /\ (IF p.neg THEN -1 ELSE 1) * Value(p.digits, 0) = IF sign THEN Int32(xx) ELSE xx
        /\ p.digits[1] = 0 => Len(p.digits) = 1
        /\ base = 10 /\ ~p.neg => Atoi(p.digits, 0) = xx

\* The functions of string.c, ulib.c and printf.c do what their names say.
StringsExact == FillExact /\ MoveExact /\ CompareExact /\ CopyBounded /\ PrintExact
=============================================================================
