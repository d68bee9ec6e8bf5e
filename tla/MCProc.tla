------------------------------ MODULE MCProc ------------------------------
(* The sets of system calls for which the runs instantiate Proc. *)
EXTENDS Proc
LifeCalls  == {"fork", "exit", "wait", "kill", "getpid", "fault"}
AllCalls   == LifeCalls \cup {"pause", "read"}
TreeCalls  == {"fork", "exit", "wait", "kill", "getpid"}
PauseCalls == {"pause", "getpid"}
ReadCalls  == {"read", "getpid"}
SpinCalls  == {"fork", "getpid"}
=============================================================================
