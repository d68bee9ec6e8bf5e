-------------------------------- MODULE Grep --------------------------------
(***************************************************************************)
(* user/grep.c: the matcher of regular expressions, and the loop that cuts *)
(* what read returns into lines, whatever the sizes of the pieces.  re and *)
(* text are sequences; the NUL at their end is Head of an empty one.       *)
(***************************************************************************)
EXTENDS Integers, Sequences, SequencesExt, FiniteSets

CONSTANTS
  BUF,         \* bytes of buf
  MAXINPUT,    \* bytes read at most
  MAXRE        \* length of a pattern

Meta == {"^", "$", ".", "*"}
Text == {"a", "$"}
NL == "NL"

VARIABLES
  pattern,
  buf,         \* the m bytes at the start of buf
  out,         \* the lines written
  input,       \* ghost: what was read so far
  done         \* read has returned 0, or less

vars == <<pattern, buf, out, input, done>>

UpTo(S, n) == UNION {[1 .. k -> S] : k \in 0 .. n}

Init ==
  /\ pattern \in UpTo(Text \cup Meta, MAXRE)
  /\ buf = <<>> /\ out = <<>> /\ input = <<>> /\ done = FALSE

-----------------------------------------------------------------------------
(* match *)

At(s, i) == IF i <= Len(s) THEN s[i] ELSE "NUL"

RECURSIVE matchhere(_, _), matchstar(_, _, _)
matchhere(re, text) ==
  IF re = <<>> THEN TRUE
  ELSE IF At(re, 2) = "*" THEN matchstar(re[1], SubSeq(re, 3, Len(re)), text)
  ELSE IF re = <<"$">> THEN text = <<>>
  ELSE text # <<>> /\ (re[1] = "." \/ re[1] = Head(text)) /\ matchhere(Tail(re), Tail(text))

matchstar(c, re, text) ==
  \/ matchhere(re, text)
  \/ text # <<>> /\ (Head(text) = c \/ c = ".") /\ matchstar(c, re, Tail(text))

\* Every suffix of the text, the empty one included.
match(re, text) ==
  IF At(re, 1) = "^" THEN matchhere(Tail(re), text)
  ELSE \E i \in 1 .. Len(text) + 1 : matchhere(re, SubSeq(text, i, Len(text)))

-----------------------------------------------------------------------------
(* grep *)

\* mutant: what is left of a line is not kept for the next read.
RestLost(b) == <<>>

\* What follows the last newline is moved to the start of buf.
Rest(b) == IF ~Contains(b, NL) THEN b ELSE SubSeq(b, SelectLastInSeq(b, LAMBDA c : c = NL) + 1, Len(b))

\* The lines that end in b.
RECURSIVE Lines(_)
Lines(b) ==
  IF ~Contains(b, NL) THEN <<>>
  ELSE LET q == SelectInSeq(b, LAMBDA c : c = NL)
       IN  <<SubSeq(b, 1, q - 1)>> \o Lines(SubSeq(b, q + 1, Len(b)))

\* One round of the loop, when read returns the bytes of piece; with no room
\* left, read of 0 bytes returns 0.
Read(piece) ==
  /\ ~done
  /\ buf' = Rest(buf \o piece)
  /\ out' = out \o SelectSeq(Lines(buf \o piece), LAMBDA l : match(pattern, l))
  /\ input' = input \o piece
  /\ UNCHANGED <<pattern, done>>

Eof == ~done /\ done' = TRUE /\ UNCHANGED <<pattern, buf, out, input>>

Room == IF BUF - Len(buf) - 1 < MAXINPUT - Len(input) THEN BUF - Len(buf) - 1
        ELSE MAXINPUT - Len(input)

Next ==
  \/ \E piece \in UpTo(Text \cup {NL}, Room) : piece # <<>> /\ Read(piece)
  \/ Eof

Spec == Init /\ [][Next]_vars

-----------------------------------------------------------------------------
(* What a pattern means, without a search *)

\* An item is a character, or "." for any, and whether it is repeated.
RECURSIVE Items(_)
Items(re) ==
  IF re = <<>> THEN <<>>
  ELSE IF At(re, 2) = "*" THEN <<[c |-> re[1], star |-> TRUE]>> \o Items(SubSeq(re, 3, Len(re)))
  ELSE IF re = <<"$">> THEN <<[c |-> "end", star |-> FALSE]>>
  ELSE <<[c |-> re[1], star |-> FALSE]>> \o Items(Tail(re))

Fits(item, piece) ==
  IF item.c = "end" THEN piece = <<>>
  ELSE /\ item.star \/ Len(piece) = 1
       /\ \A i \in 1 .. Len(piece) : item.c \in {".", piece[i]}

\* The text can be cut so that each item has its piece.  ^ holds the first cut
\* at the start, $ the last one at the end.
Means(re, text) ==
  LET anchored == At(re, 1) = "^"
      items == Items(IF anchored THEN Tail(re) ELSE re)
      k == Len(items)
  IN  \E cut \in [0 .. k -> 0 .. Len(text)] :
        /\ \A i \in 1 .. k : cut[i - 1] <= cut[i] /\ Fits(items[i], SubSeq(text, cut[i - 1] + 1, cut[i]))
        /\ anchored => cut[0] = 0
        /\ (k > 0 /\ items[k].c = "end") => cut[k] = Len(text)

-----------------------------------------------------------------------------
(* Properties *)

\* grep writes exactly the lines of its input that have a match, in order,
\* however read has cut the input, and has kept what follows the last newline.
GrepExact ==
  /\ out = SelectSeq(Lines(input), LAMBDA l : Means(pattern, l))
  /\ buf = Rest(input) /\ Len(buf) < BUF
=============================================================================
