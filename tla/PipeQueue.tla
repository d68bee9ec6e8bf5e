----------------------------- MODULE PipeQueue -----------------------------
(***************************************************************************)
(* What a pipe promises its users: a bounded queue of bytes, delivered in  *)
(* the order they were put, an end of file only after the last byte of a   *)
(* closed write end, and nothing accepted once no one can read.            *)
(***************************************************************************)
EXTENDS Naturals, Sequences

CONSTANTS Byte, Capacity, Eof, Nothing

VARIABLES q, readopen, writeopen, out
vars == <<q, readopen, writeopen, out>>

Init == q = <<>> /\ ~readopen /\ ~writeopen /\ out = Nothing

\* pipe(): a new queue, both ends open.
Open ==
  /\ ~readopen /\ ~writeopen
  /\ readopen' /\ writeopen'
  /\ UNCHANGED <<q, out>>

Put ==
  /\ readopen /\ writeopen /\ Len(q) < Capacity
  /\ \E b \in Byte : q' = Append(q, b)
  /\ UNCHANGED <<readopen, writeopen, out>>

Take ==
  /\ readopen /\ q # <<>>
  /\ out' = Head(q) /\ q' = Tail(q)
  /\ UNCHANGED <<readopen, writeopen>>

EndOfFile ==
  /\ readopen /\ ~writeopen /\ q = <<>>
  /\ out' = Eof
  /\ UNCHANGED <<q, readopen, writeopen>>

\* The read returns with what it took.
Return == out' = Nothing /\ UNCHANGED <<q, readopen, writeopen>>

\* What is still queued when the last end closes is dropped.
Close ==
  /\ \/ readopen /\ ~readopen' /\ UNCHANGED writeopen
     \/ writeopen /\ ~writeopen' /\ UNCHANGED readopen
  /\ q' = IF readopen' \/ writeopen' THEN q ELSE <<>>
  /\ UNCHANGED out

Next == Open \/ Put \/ Take \/ EndOfFile \/ Return \/ Close

Spec == Init /\ [][Next]_vars
=============================================================================
