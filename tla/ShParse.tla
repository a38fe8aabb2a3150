------------------------------ MODULE ShParse -------------------------------
(***************************************************************************)
(* The recursive-descent parser of sh.c.  A line is its sequence of        *)
(* tokens, as gettoken() cuts it; a word is a member of Words.  Every      *)
(* parse operator returns the tree it made and the tokens that are left,   *)
(* or Error where the code prints a message and exits.                     *)
(***************************************************************************)
EXTENDS Naturals, Sequences, SequencesExt

CONSTANTS Words, MAXARGS

RedirOps == {"<", ">", ">>"}
Symbols == RedirOps \cup {"|", "&", ";", "(", ")"}

\* The constructors.
ExecCmd(argv) == [type |-> "EXEC", argv |-> argv]
RedirCmd(c, r) == [type |-> "REDIR", cmd |-> c, file |-> r.file, fd |-> r.fd]
PipeCmd(l, r) == [type |-> "PIPE", left |-> l, right |-> r]
ListCmd(l, r) == [type |-> "LIST", left |-> l, right |-> r]
BackCmd(c) == [type |-> "BACK", cmd |-> c]
Syntax == [type |-> "SYNTAX"]

Parsed(c, rest) == [cmd |-> c, rest |-> rest]
Error == Parsed(Syntax, <<>>)
Peek(s, toks) == s # <<>> /\ Head(s) \in toks

\* redircmd() around a command, once per redirection and in their order.
Redir(op, word) == [file |-> word, fd |-> IF op = "<" THEN 0 ELSE 1]
Wrap(c, redirs) == FoldLeft(RedirCmd, c, redirs)

\* The redirections at the head of s.
RECURSIVE ParseRedirs(_)
ParseRedirs(s) ==
  IF ~Peek(s, RedirOps) THEN [ok |-> TRUE, redirs |-> <<>>, rest |-> s]
  ELSE IF Len(s) = 1 \/ s[2] \notin Words THEN [ok |-> FALSE, redirs |-> <<>>, rest |-> s]
  ELSE LET r == ParseRedirs(SubSeq(s, 3, Len(s)))
       IN  [r EXCEPT !.redirs = <<Redir(s[1], s[2])>> \o @]

\* The loop of parseexec(): words, each with the redirections after it.
RECURSIVE ParseArgs(_, _, _)
ParseArgs(argv, redirs, s) ==
  IF s = <<>> \/ Peek(s, {"|", ")", "&", ";"}) THEN Parsed(Wrap(ExecCmd(argv), redirs), s)
  ELSE IF Head(s) \notin Words \/ Len(argv) + 1 >= MAXARGS THEN Error
  ELSE LET r == ParseRedirs(Tail(s))
       IN  IF r.ok THEN ParseArgs(Append(argv, Head(s)), redirs \o r.redirs, r.rest) ELSE Error

RECURSIVE ParseLine(_)

ParseBlock(s) ==
  LET c == ParseLine(Tail(s))
      r == ParseRedirs(Tail(c.rest))
  IN  IF c.cmd = Syntax \/ ~Peek(c.rest, {")"}) THEN Error
      ELSE IF r.ok THEN Parsed(Wrap(c.cmd, r.redirs), r.rest) ELSE Error

ParseExec(s) ==
  IF Peek(s, {"("}) THEN ParseBlock(s)
  ELSE LET r == ParseRedirs(s) IN IF r.ok THEN ParseArgs(<<>>, r.redirs, r.rest) ELSE Error

ParsePipeOnce(s) ==
  LET l == ParseExec(s)
      r == ParseExec(Tail(l.rest))
  IN  IF ~Peek(l.rest, {"|"}) THEN l
      ELSE IF r.cmd = Syntax THEN Error ELSE Parsed(PipeCmd(l.cmd, r.cmd), r.rest)

RECURSIVE ParsePipe(_)
ParsePipe(s) ==
  LET l == ParseExec(s)
      r == ParsePipe(Tail(l.rest))
  IN  IF ~Peek(l.rest, {"|"}) THEN l
      ELSE IF r.cmd = Syntax THEN Error ELSE Parsed(PipeCmd(l.cmd, r.cmd), r.rest)

RECURSIVE ParseBacks(_)
ParseBacks(c) == IF Peek(c.rest, {"&"}) THEN ParseBacks(Parsed(BackCmd(c.cmd), Tail(c.rest))) ELSE c

ParseLine(s) ==
  LET l == ParseBacks(ParsePipe(s))
      r == ParseLine(Tail(l.rest))
  IN  IF ~Peek(l.rest, {";"}) THEN l
      ELSE IF r.cmd = Syntax THEN Error ELSE Parsed(ListCmd(l.cmd, r.cmd), r.rest)

\* parsecmd(): what is left over is an error.
ParseCmd(s) == LET c == ParseLine(s) IN IF c.rest = <<>> THEN c.cmd ELSE Syntax

-----------------------------------------------------------------------------
(* The grammar, as the set of trees of a sequence of tokens:               *)
(*   line ::= back | back ; line        back ::= pipe | back &             *)
(*   pipe ::= exec | exec "|" pipe                                         *)
(*   exec ::= ( line ) redir* | a mix of words and redirections            *)

Upto(s, i) == SubSeq(s, 1, i - 1)
After(s, i) == SubSeq(s, i + 1, Len(s))
Where(s, tok) == {i \in DOMAIN s : s[i] = tok}

Plain(s) ==
  \A i \in DOMAIN s : \/ s[i] \in Words
                      \/ s[i] \in RedirOps /\ i < Len(s) /\ s[i + 1] \in Words
IsFile(s, i) == i > 1 /\ s[i - 1] \in RedirOps
SelectAt(s, Test(_)) == SelectSeq([i \in DOMAIN s |-> i], Test)
ArgsOf(s) == LET at == SelectAt(s, LAMBDA i : s[i] \in Words /\ ~IsFile(s, i))
             IN  [k \in DOMAIN at |-> s[at[k]]]
RedirsOf(s) == LET at == SelectAt(s, LAMBDA i : s[i] \in RedirOps)
               IN  [k \in DOMAIN at |-> Redir(s[at[k]], s[at[k] + 1])]

RECURSIVE LineTrees(_)
RECURSIVE BackTrees(_)
RECURSIVE PipeTrees(_)

ExecTrees(s) ==
  (IF Plain(s) /\ Len(ArgsOf(s)) < MAXARGS THEN {Wrap(ExecCmd(ArgsOf(s)), RedirsOf(s))} ELSE {})
  \cup (IF s # <<>> /\ Head(s) = "("
        THEN UNION {{Wrap(c, RedirsOf(After(s, i))) : c \in LineTrees(Tail(Upto(s, i)))} :
                      i \in {j \in Where(s, ")") : Plain(After(s, j)) /\ ArgsOf(After(s, j)) = <<>>}}
        ELSE {})

PipeTrees(s) ==
  ExecTrees(s) \cup
    UNION {{PipeCmd(l, r) : l \in ExecTrees(Upto(s, i)), r \in PipeTrees(After(s, i))} : i \in Where(s, "|")}

BackTrees(s) ==
  PipeTrees(s) \cup
    (IF s # <<>> /\ Last(s) = "&" THEN {BackCmd(c) : c \in BackTrees(Front(s))} ELSE {})

LineTrees(s) ==
  BackTrees(s) \cup
    UNION {{ListCmd(l, r) : l \in BackTrees(Upto(s, i)), r \in LineTrees(After(s, i))} : i \in Where(s, ";")}

\* The parser accepts the lines that the grammar generates, and the tree it
\* makes is the only one the grammar has.
ParsesGrammar(s) ==
  LineTrees(s) = IF ParseCmd(s) = Syntax THEN {} ELSE {ParseCmd(s)}
=============================================================================
