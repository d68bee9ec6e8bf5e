--------------------------- MODULE AtomicStore ---------------------------
(***************************************************************************)
(* What kernel/log.c promises its callers: a block store on which the      *)
(* updates of the operations between two quiet moments become durable all  *)
(* at once, and a crash undoes exactly the updates that are not durable.   *)
(***************************************************************************)
CONSTANTS Blocks, Content, Proc

VARIABLES
  durable,  \* what a crash goes back to
  current,  \* what a read returns
  active    \* the processes between begin_op and end_op

vars == <<durable, current, active>>

Init ==
  /\ durable \in [Blocks -> Content]
  /\ current = durable
  /\ active = {}

\* The first operation of a group starts on durable contents only.
Begin(p) ==
  /\ p \notin active
  /\ active = {} => current = durable
  /\ active' = active \cup {p}
  /\ UNCHANGED <<durable, current>>

Write(p, b, c) ==
  /\ p \in active
  /\ current' = [current EXCEPT ![b] = c]
  /\ UNCHANGED <<durable, active>>

End(p) ==
  /\ p \in active
  /\ active' = active \ {p}
  /\ UNCHANGED <<durable, current>>

Commit ==
  /\ active = {}
  /\ durable' = current
  /\ UNCHANGED <<current, active>>

Crash ==
  /\ current' = durable
  /\ active' = {}
  /\ UNCHANGED durable

Next ==
  \/ \E p \in Proc : Begin(p) \/ End(p)
  \/ \E p \in Proc, b \in Blocks, c \in Content : Write(p, b, c)
  \/ Commit
  \/ Crash

Spec == Init /\ [][Next]_vars
=============================================================================
