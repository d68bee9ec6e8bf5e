------------------------------- MODULE Shell -------------------------------
(***************************************************************************)
(* The parser of the shell, user/sh.c, against a grammar.  A line is a     *)
(* sequence of characters, all letters being "a" and all white space " ";  *)
(* positions are indices into it, and the NUL is after its end.  The       *)
(* parsing functions map a position to the command, the position after it  *)
(* and whether it is ok; without that the shell has called panic.          *)
(***************************************************************************)
EXTENDS Integers, Sequences, FiniteSets

CONSTANTS
  MAXARGS,
  MAXLINE      \* longest line that is tried (a bound)

Symbols == {"<", "|", ">", "&", ";", "(", ")"}
Char == Symbols \cup {"a", " "}
NUL == "0"

VARIABLE line

\* The character at s; strings past the end are not read.
CharAt(l, s) == IF s > Len(l) THEN NUL ELSE l[s]

-----------------------------------------------------------------------------
(* Tokens *)

RECURSIVE Blank(_, _), WordEnd(_, _)
\* The first position from s on that is not white space.
Blank(l, s) == IF CharAt(l, s) = " " THEN Blank(l, s + 1) ELSE s
WordEnd(l, s) == IF CharAt(l, s) = "a" THEN WordEnd(l, s + 1) ELSE s

Token(l, ret, q, eq) == [ret |-> ret, q |-> q, eq |-> eq, s |-> Blank(l, eq)]

\* The token at a position s without white space.
TokenAt(l, s) ==
  CASE CharAt(l, s) = NUL -> Token(l, NUL, s, s)
    [] CharAt(l, s) = "a" -> Token(l, "a", s, WordEnd(l, s))
    [] CharAt(l, s) = ">" /\ CharAt(l, s + 1) = ">" -> Token(l, "+", s, s + 2)
    [] OTHER -> Token(l, CharAt(l, s), s, s + 1)

GetToken(l, s) == TokenAt(l, Blank(l, s))
Peek(l, s, toks) == CharAt(l, Blank(l, s)) \in toks

-----------------------------------------------------------------------------
(* Commands; a word is the positions where it starts and ends *)

ExecCmd(argv) == [type |-> "EXEC", argv |-> argv]
RedirCmd(cmd, tok, q, eq) ==
  [type |-> "REDIR", cmd |-> cmd, file |-> <<q, eq>>, mode |-> tok, fd |-> IF tok = "<" THEN 0 ELSE 1]
PipeCmd(left, right) == [type |-> "PIPE", left |-> left, right |-> right]
ListCmd(left, right) == [type |-> "LIST", left |-> left, right |-> right]
BackCmd(cmd) == [type |-> "BACK", cmd |-> cmd]

Parsed(cmd, s) == [ok |-> TRUE, cmd |-> cmd, s |-> s]
Panic(why) == [ok |-> FALSE, cmd |-> why, s |-> 0]

-----------------------------------------------------------------------------
(* The parser *)

RECURSIVE ParseLine(_, _), ParsePipe(_, _), ParseRedirs(_, _, _), ParseArgs(_, _, _), Backs(_, _)

ParseFile(l, cmd, tok, t) ==
  IF t.ret # "a" THEN Panic("missing file for redirection")
  ELSE ParseRedirs(l, RedirCmd(cmd, tok, t.q, t.eq), t.s)

ParseRedirs(l, cmd, s) ==
  IF Peek(l, s, {"<", ">"})
  THEN ParseFile(l, cmd, GetToken(l, s).ret, GetToken(l, GetToken(l, s).s))
  ELSE Parsed(cmd, s)

\* parseblock, after its line r.
ParseClose(l, r) ==
  IF ~r.ok THEN r
  ELSE IF ~Peek(l, r.s, {")"}) THEN Panic("syntax - missing )")
  ELSE ParseRedirs(l, r.cmd, GetToken(l, r.s).s)

ParseBlock(l, s) == ParseClose(l, ParseLine(l, GetToken(l, s).s))

\* The command that all redirections of ret are around, and its replacement:
\* cmd stays the execcmd while ret grows around it.
RECURSIVE Inner(_, _)
Inner(ret, argv) ==
  IF ret.type = "REDIR" THEN [ret EXCEPT !.cmd = Inner(ret.cmd, argv)] ELSE ExecCmd(argv)

TooMany(argc) == argc >= MAXARGS

\* The loop of parseexec at ret with the arguments argv.
ParseArg(l, r, argv, t) ==
  IF t.ret # "a" THEN Panic("syntax")
  ELSE IF TooMany(Len(argv) + 1) THEN Panic("too many args")
  ELSE ParseArgs(l, ParseRedirs(l, r.cmd, t.s), Append(argv, <<t.q, t.eq>>))

ParseArgs(l, r, argv) ==
  IF ~r.ok THEN r
  ELSE IF Peek(l, r.s, {"|", ")", "&", ";"}) \/ GetToken(l, r.s).ret = NUL
  THEN Parsed(Inner(r.cmd, argv), r.s)
  ELSE ParseArg(l, r, argv, GetToken(l, r.s))

ParseExec(l, s) ==
  IF Peek(l, s, {"("}) THEN ParseBlock(l, s)
  ELSE ParseArgs(l, ParseRedirs(l, ExecCmd(<<>>), s), <<>>)

PipeOf(left, right) == IF right.ok THEN Parsed(PipeCmd(left, right.cmd), right.s) ELSE right

PipeOn(l, r) ==
  IF r.ok /\ Peek(l, r.s, {"|"}) THEN PipeOf(r.cmd, ParsePipe(l, GetToken(l, r.s).s)) ELSE r

ParsePipe(l, s) == PipeOn(l, ParseExec(l, s))

Backs(l, r) ==
  IF r.ok /\ Peek(l, r.s, {"&"}) THEN Backs(l, Parsed(BackCmd(r.cmd), GetToken(l, r.s).s)) ELSE r

ListOf(left, right) == IF right.ok THEN Parsed(ListCmd(left, right.cmd), right.s) ELSE right
LineOn(l, r) ==
  IF r.ok /\ Peek(l, r.s, {";"}) THEN ListOf(r.cmd, ParseLine(l, GetToken(l, r.s).s)) ELSE r

ParseLine(l, s) == LineOn(l, Backs(l, ParsePipe(l, s)))

\* parsecmd, without nulterminate.
AllOf(l, r) == IF r.ok /\ Blank(l, r.s) # Len(l) + 1 THEN Panic("syntax") ELSE r
ParseCmd(l) == AllOf(l, ParseLine(l, 1))

Branches(cmd) == <<cmd.left, cmd.right>>

\* The positions where nulterminate writes a NUL.
RECURSIVE NulTerminate(_)
NulTerminate(cmd) ==
  CASE cmd.type = "EXEC" -> {cmd.argv[i][2] : i \in 1 .. Len(cmd.argv)}
    [] cmd.type = "REDIR" -> NulTerminate(cmd.cmd) \cup {cmd.file[2]}
    [] cmd.type = "BACK" -> NulTerminate(cmd.cmd)
    [] OTHER -> UNION {NulTerminate(Branches(cmd)[i]) : i \in DOMAIN Branches(cmd)}

-----------------------------------------------------------------------------
(* A grammar: the commands that the tokens i to j - 1 of ts can be *)

RECURSIVE Lex(_, _)
Lex(l, s) == LET t == GetToken(l, s) IN IF t.ret = NUL THEN <<>> ELSE <<t>> \o Lex(l, t.s)

IsRedir(ts, i) == ts[i].ret \in {"<", ">", "+"}

RECURSIVE Around(_, _, _, _)
\* cmd with the redirections among the tokens i to j - 1, the last outermost.
Around(ts, cmd, i, j) ==
  IF i = j THEN cmd
  ELSE IF IsRedir(ts, i)
  THEN Around(ts, RedirCmd(cmd, ts[i].ret, ts[i + 1].q, ts[i + 1].eq), i + 2, j)
  ELSE Around(ts, cmd, i + 1, j)

IsFile(ts, k, i) == k > i /\ IsRedir(ts, k - 1)
Args(ts, i, j) ==
  LET args == {k \in i .. j - 1 : ts[k].ret = "a" /\ ~IsFile(ts, k, i)}
  IN  [n \in 1 .. Cardinality(args) |->
         LET k == CHOOSE k \in args : Cardinality({m \in args : m <= k}) = n
         IN  <<ts[k].q, ts[k].eq>>]

Redirected(ts, i, j) ==
  \A k \in i .. j - 1 : /\ ts[k].ret = "a" \/ IsRedir(ts, k)
                        /\ IsRedir(ts, k) => k + 1 < j /\ ts[k + 1].ret = "a"

Simple(ts, i, j) ==
  IF Redirected(ts, i, j) /\ Len(Args(ts, i, j)) < MAXARGS
  THEN {Around(ts, ExecCmd(Args(ts, i, j)), i, j)} ELSE {}

RECURSIVE Lines(_, _, _), Pipes(_, _, _), Behind(_, _)
Behind(cmd, n) == IF n = 0 THEN cmd ELSE BackCmd(Behind(cmd, n - 1))

Block(ts, i, j) ==
  IF i < j /\ ts[i].ret = "("
  THEN UNION {{Around(ts, c, m + 1, j) : c \in Lines(ts, i + 1, m)} :
                m \in {k \in i + 1 .. j - 1 : /\ ts[k].ret = ")" /\ Redirected(ts, k + 1, j)
                                              /\ Args(ts, k + 1, j) = <<>>}}
  ELSE {}

Pipes(ts, i, j) ==
  Simple(ts, i, j) \cup Block(ts, i, j)
    \cup UNION {{PipeCmd(a, b) : a \in Simple(ts, i, m) \cup Block(ts, i, m), b \in Pipes(ts, m + 1, j)} :
                  m \in {k \in i .. j - 1 : ts[k].ret = "|"}}

\* A pipe followed by any number of & up to j.
Jobs(ts, i, j) ==
  UNION {{Behind(c, j - m) : c \in Pipes(ts, i, m)} :
           m \in {k \in i .. j : \A n \in k .. j - 1 : ts[n].ret = "&"}}

Lines(ts, i, j) ==
  Jobs(ts, i, j)
    \cup UNION {{ListCmd(a, b) : a \in Jobs(ts, i, m), b \in Lines(ts, m + 1, j)} :
                  m \in {k \in i .. j - 1 : ts[k].ret = ";"}}

-----------------------------------------------------------------------------
(* The lines *)

Init == line = <<>>
Type(c) == Len(line) < MAXLINE /\ line' = Append(line, c)
Next == \E c \in Char : Type(c)
Spec == Init /\ [][Next]_line

-----------------------------------------------------------------------------
(* Properties *)

\* Every variable has its type.
TypeOK == line \in Seq(Char)

\* parsecmd accepts a line exactly when it is in the language, with the one
\* command it stands for: every word and redirection in its place, & and ;
\* below |, and argv never fuller than execcmd has room for.
ParseExact ==
  LET r == ParseCmd(line)
      ts == Lex(line, 1)
  IN  Lines(ts, 1, Len(ts) + 1) = IF r.ok THEN {r.cmd} ELSE {}

\* The words of a command.
RECURSIVE Words(_)
Words(cmd) ==
  CASE cmd.type = "EXEC" -> {cmd.argv[i] : i \in 1 .. Len(cmd.argv)}
    [] cmd.type = "REDIR" -> Words(cmd.cmd) \cup {cmd.file}
    [] cmd.type = "BACK" -> Words(cmd.cmd)
    [] OTHER -> Words(cmd.left) \cup Words(cmd.right)

\* Once nulterminate has written its NULs, in the buffer that the words point
\* into, each word ends where it did in the line, and none is cut short.
WordsEnd ==
  LET r == ParseCmd(line)
      nuls == NulTerminate(r.cmd) \cup {Len(line) + 1}
  IN  r.ok => \A w \in Words(r.cmd) : w[2] \in nuls /\ nuls \cap w[1] .. w[2] - 1 = {}

\* parsecmd reads the language: ParseExact and WordsEnd.
ShellReads == ParseExact /\ WordsEnd
=============================================================================
