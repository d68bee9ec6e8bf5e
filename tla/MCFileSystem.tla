---------------------------- MODULE MCFileSystem ----------------------------
(* FileSystem for TLC. *)
EXTENDS FileSystem, TLC

Rooted(elem) == [abs |-> TRUE, elem |-> elem]
Local(elem)  == [abs |-> FALSE, elem |-> elem]

\* Two names at the root and one below them.
RootPaths == {Rooted(e) : e \in {<<"a">>, <<"b">>, <<"a", "b">>, <<"a", "..">>}}

\* The same directory through current directories.
LocalPaths == {Rooted(<<"a">>), Local(<<"b">>), Local(<<"..">>)}

\* Processes are interchangeable.
Symm == Permutations(Proc)
=============================================================================
