------------------------------ MODULE Terminal ------------------------------
(***************************************************************************)
(* What the console promises: the user edits a line, a finished line can   *)
(* no longer be edited, and readers take what is finished in order: a read *)
(* gives at most one line, and an end-of-file alone.                       *)
(***************************************************************************)
EXTENDS Integers, Sequences

CONSTANTS
  Reader,
  Size,        \* characters that are kept
  Char,        \* characters that can be stored
  Newline, Eof

VARIABLES
  text,        \* the finished lines, not read yet, and the line being edited
  finished,    \* how many characters of text are finished
  got,         \* what each read was given so far, or NotReading
  result       \* what the last read of each reader returned

NotReading == -1

vars == <<text, finished, got, result>>

Init ==
  /\ text = <<>> /\ finished = 0
  /\ got = [p \in Reader |-> NotReading] /\ result = [p \in Reader |-> 0]

\* A character is added while there is room; the line is finished by a
\* newline, by end-of-file or by the last character there is room for.
Type(c) ==
  /\ Len(text) < Size /\ text' = Append(text, c)
  /\ finished' = IF c \in {Newline, Eof} \/ Len(text) + 1 = Size THEN Len(text) + 1 ELSE finished
  /\ UNCHANGED <<got, result>>

\* The last character of the line, or all of it.
Erase ==
  /\ \E n \in {Len(text) - 1, finished} : finished <= n /\ text' = SubSeq(text, 1, n)
  /\ UNCHANGED <<finished, got, result>>

Begin(p) ==
  /\ got[p] = NotReading
  /\ got' = [got EXCEPT ![p] = 0] /\ result' = [result EXCEPT ![p] = 0]
  /\ UNCHANGED <<text, finished>>

\* The read goes on.
More(p) ==
  /\ got[p] # NotReading /\ got' = [got EXCEPT ![p] = @ + 1]
  /\ finished > 0 /\ Head(text) \notin {Newline, Eof}
  /\ text' = Tail(text) /\ finished' = finished - 1
  /\ UNCHANGED result

Returns(p, n) ==
  /\ got[p] # NotReading
  /\ got' = [got EXCEPT ![p] = NotReading] /\ result' = [result EXCEPT ![p] = n]

\* The read ends with a newline, or with an end-of-file when it has nothing
\* else; a character that cannot be given to the reader is lost.
EndsWith(p) ==
  /\ finished > 0 /\ text' = Tail(text) /\ finished' = finished - 1
  /\ \/ Head(text) = Newline /\ Returns(p, got[p] + 1)
     \/ Head(text) = Eof /\ got[p] = 0 /\ Returns(p, 0)
     \/ Head(text) # Eof /\ Returns(p, got[p])

\* The read ends with what it has, or with -1 since its process was killed.
Ends(p) == (Returns(p, got[p]) \/ Returns(p, -1)) /\ UNCHANGED <<text, finished>>

Next ==
  \/ Erase \/ \E c \in Char : Type(c)
  \/ \E p \in Reader : Begin(p) \/ More(p) \/ EndsWith(p) \/ Ends(p)

Spec == Init /\ [][Next]_vars
=============================================================================
