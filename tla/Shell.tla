------------------------------- MODULE Shell --------------------------------
(***************************************************************************)
(* The shell, sh.c, on open files and pipes: main() reads a line and forks *)
(* a child that parses it and runs the tree with runcmd(), which forks,    *)
(* pipes, redirects, waits and execs.                                      *)
(*                                                                         *)
(* A process is the sequence of system calls it has still to make: todo[p].*)
(* runcmd() makes none between two calls of itself, so "run" is replaced   *)
(* by the calls of the command as soon as it comes up.  Process 0 is the   *)
(* shell; the parent NULL stands for init.                                 *)
(***************************************************************************)
EXTENDS File, ShParse

CONSTANTS Lines,      \* the lines that are entered
          MaxLen,     \* bound on the tokens of a line that is not entered
          MaxLines,   \* bound on the lines
          MaxKills    \* bound on the calls of kill()

VARIABLES st,       \* p->state: "UNUSED", "RUNNING" or "ZOMBIE"
          parent,
          todo,
          pfd,      \* p[2] of runcmd(), with the descriptors of pipe()
          line,     \* what has been typed
          ran,      \* the trees of the lines that were entered
          kills,
          failed    \* a fork(), a pipe(), an open() failed or a process was killed

pvars == <<st, parent, todo, pfd>>
uvars == <<line, ran, kills>>
vars == <<fvars, pvars, uvars, failed>>

Sh == 0
Unused == {p \in Procs : st[p] = "UNUSED"}
Kids(p) == {q \in Procs : st[q] # "UNUSED" /\ parent[q] = p}

-----------------------------------------------------------------------------
\* System calls as instructions; the descriptors P0 and P1 are p[0] and p[1].
P0 == -1
P1 == -2
I(op) == [op |-> op]
CloseI(fd) == [op |-> "close", fd |-> fd]
DupI(fd) == [op |-> "dup", fd |-> fd]
ForkI(code) == [op |-> "fork", code |-> code]
RunI(c) == [op |-> "run", cmd |-> c]
Exit == <<I("exit")>>

\* The programs: "e" stands for echo with an argument of one character, which
\* it prints with a newline, each by a putc(); "c" is a filter that
\* copies its input to its output (the cat.c of this repository is commented
\* out), and exec() of another word fails.
Text == <<1, 2>>
Putc(c) == [op |-> "write", bytes |-> <<c>>]
Program(word) ==
  CASE word = "e" -> [n \in 1 .. Len(Text) |-> Putc(Text[n])]
    [] word = "c" -> <<I("read")>>
    [] OTHER -> <<>>

PipeCodeOpen(c) ==
  <<I("pipe"),
    ForkI(<<CloseI(1), DupI(P1), CloseI(P0), CloseI(P1), RunI(c.left)>>),
    ForkI(<<CloseI(0), DupI(P0), CloseI(P0), RunI(c.right)>>),
    CloseI(P0), CloseI(P1), I("wait"), I("wait"), I("exit")>>

PipeCode(c) ==
  <<I("pipe"),
    ForkI(<<CloseI(1), DupI(P1), CloseI(P0), CloseI(P1), RunI(c.left)>>),
    ForkI(<<CloseI(0), DupI(P0), CloseI(P0), CloseI(P1), RunI(c.right)>>),
    CloseI(P0), CloseI(P1), I("wait"), I("wait"), I("exit")>>

ListCodeAsync(c) == <<ForkI(<<RunI(c.left)>>), RunI(c.right)>>

ListCode(c) == <<ForkI(<<RunI(c.left)>>), I("wait"), RunI(c.right)>>

\* runcmd().
Code(c) ==
  CASE c.type = "SYNTAX" -> Exit
    [] c.type = "EXEC" -> IF c.argv = <<>> THEN Exit ELSE Program(c.argv[1]) \o Exit
    [] c.type = "REDIR" -> <<CloseI(c.fd), [op |-> "open", file |-> c.file, write |-> c.fd = 1], RunI(c.cmd)>>
    [] c.type = "LIST" -> ListCode(c)
    [] c.type = "PIPE" -> PipeCode(c)
    [] c.type = "BACK" -> <<ForkI(<<RunI(c.cmd)>>), I("exit")>>

Unfold(code) == IF Head(code).op = "run" THEN Code(Head(code).cmd) ELSE code

-----------------------------------------------------------------------------
Init ==
  /\ ofile = [p \in Procs |-> [fd \in Slots |-> IF p = Sh /\ fd <= 2 THEN 1 ELSE NULL]]
  /\ file = [f \in Files |-> IF f = 1 THEN [Closed EXCEPT !.ref = 3, !.type = "INODE", !.readable = TRUE,
                                                          !.writable = TRUE, !.ip = Console]
                             ELSE Closed]
  /\ pipe = [i \in Pipes |-> NULL]
  /\ asleep = [p \in Procs |-> NULL]
  /\ killed = [p \in Procs |-> FALSE]
  /\ call = [p \in Procs |-> NULL]
  /\ res = [p \in Procs |-> Failed]
  /\ disk = [ip \in Inodes |-> IF ip = Console THEN <<>> ELSE NULL]
  /\ st = [p \in Procs |-> IF p = Sh THEN "RUNNING" ELSE "UNUSED"]
  /\ parent = [p \in Procs |-> NULL]
  /\ todo = [p \in Procs |-> IF p = Sh THEN <<I("getcmd")>> ELSE <<>>]
  /\ pfd = [p \in Procs |-> <<0, 0>>]
  /\ line = <<>> /\ ran = <<>> /\ kills = 0 /\ failed = FALSE

\* The next instruction of p is op, and p is in no unfinished call.
At(p, op) ==
  /\ st[p] = "RUNNING" /\ call[p] = NULL /\ asleep[p] = NULL
  /\ Head(todo[p]).op = op
  /\ killed[p] => op = "exit"

Arg(p) == Head(todo[p])
Fd(p, fd) == IF fd < 0 THEN pfd[p][-fd] ELSE fd
Go(p, code) == todo' = [todo EXCEPT ![p] = code]
Continue(p) == Go(p, Unfold(Tail(todo[p])))

SameProcs == UNCHANGED <<st, parent, pfd, uvars>>

\* getcmd(): the user types, and enters a line.
Type(tok) ==
  /\ At(Sh, "getcmd") /\ Len(ran) < MaxLines
  /\ Len(line) < MaxLen \/ \E l \in Lines : IsPrefix(Append(line, tok), l)
  /\ line' = Append(line, tok)
  /\ UNCHANGED <<fvars, pvars, ran, kills, failed>>

\* main(): if(fork1() == 0) runcmd(parsecmd(buf)); wait();
Enter ==
  /\ At(Sh, "getcmd") /\ line \in Lines
  /\ Go(Sh, <<ForkI(<<RunI(ParseCmd(line))>>), I("wait"), I("getcmd")>>)
  /\ line' = <<>>
  /\ ran' = Append(ran, ParseCmd(line))
  /\ UNCHANGED <<fvars, st, parent, pfd, kills, failed>>

\* fork1().
Fork(p) ==
  /\ At(p, "fork")
  /\ IF Unused = {}
     THEN Go(p, Exit) /\ failed' = TRUE /\ UNCHANGED <<fvars, st, parent, pfd>>
     ELSE LET q == Least(Unused) IN
          /\ st' = [st EXCEPT ![q] = "RUNNING"]
          /\ parent' = [parent EXCEPT ![q] = p]
          /\ pfd' = [pfd EXCEPT ![q] = pfd[p]]
          /\ todo' = [todo EXCEPT ![p] = Unfold(Tail(@)), ![q] = Unfold(Arg(p).code)]
          /\ DupAll(p, q)
          /\ killed' = [killed EXCEPT ![q] = FALSE]
          /\ UNCHANGED <<pipe, asleep, call, res, disk, failed>>
  /\ UNCHANGED uvars

ClosesFd(p) == At(p, "close") /\ Close(p, Fd(p, Arg(p).fd)) /\ Continue(p) /\ SameProcs /\ UNCHANGED failed
DupsFd(p) == At(p, "dup") /\ Dup(p, Fd(p, Arg(p).fd)) /\ Continue(p) /\ SameProcs /\ UNCHANGED failed

\* pipe(p) < 0 and open() < 0 end in exit().
MakesPipe(p) == At(p, "pipe") /\ PipeCall(p) /\ Go(p, <<I("piped")>> \o Tail(todo[p])) /\ SameProcs /\ UNCHANGED failed

HasPipe(p) ==
  /\ At(p, "piped")
  /\ IF res[p].ok
     THEN Continue(p) /\ pfd' = [pfd EXCEPT ![p] = res[p].data] /\ UNCHANGED failed
     ELSE Go(p, Exit) /\ failed' = TRUE /\ UNCHANGED pfd
  /\ UNCHANGED <<fvars, st, parent, uvars>>

Opens(p) ==
  /\ At(p, "open")
  /\ IF OpenFits(p, Arg(p).file, Arg(p).write)
     THEN Open(p, Arg(p).file, Arg(p).write) /\ Continue(p) /\ UNCHANGED failed
     ELSE Go(p, Exit) /\ failed' = TRUE /\ UNCHANGED fvars
  /\ SameProcs

Writes(p) == At(p, "write") /\ Start(p, 1, "write", Arg(p).bytes) /\ Continue(p) /\ SameProcs /\ UNCHANGED failed

Reads(p) ==
  /\ At(p, "read") /\ Start(p, 0, "read", <<>>)
  /\ Go(p, <<I("copy"), I("exit")>>)
  /\ SameProcs /\ UNCHANGED failed

\* The filter writes what it has read and reads on, until there is no more,
Copies(p) ==
  /\ At(p, "copy")
  /\ IF res[p].data = <<>>
     THEN Continue(p) /\ UNCHANGED fvars
     ELSE Start(p, 1, "write", res[p].data) /\ Go(p, <<I("recheck"), I("exit")>>)
  /\ SameProcs /\ UNCHANGED failed

\* or until a write fails.
Rechecks(p) ==
  /\ At(p, "recheck")
  /\ Go(p, IF res[p].ok THEN <<I("read"), I("exit")>> ELSE Exit)
  /\ SameProcs /\ UNCHANGED <<fvars, failed>>

\* wait(): a zombie child is freed; without children it returns at once.
Waits(p) ==
  /\ At(p, "wait")
  /\ \/ Kids(p) = {} /\ UNCHANGED st
     \/ \E q \in Kids(p) : st[q] = "ZOMBIE" /\ st' = [st EXCEPT ![q] = "UNUSED"]
  /\ Continue(p)
  /\ UNCHANGED <<fvars, parent, pfd, uvars, failed>>

\* exit(): the open files one by one, then the children go to init.
Exits(p) ==
  LET open == {fd \in Fds : ofile[p][fd] # NULL} IN
  /\ At(p, "exit")
  /\ IF open # {}
     THEN Close(p, Least(open)) /\ UNCHANGED pvars
     ELSE /\ st' = [st EXCEPT ![p] = "ZOMBIE"]
          /\ parent' = [q \in Procs |-> IF q \in Kids(p) THEN NULL ELSE parent[q]]
          /\ UNCHANGED <<fvars, todo, pfd>>
  /\ UNCHANGED <<uvars, failed>>

\* init waits for what was left to it.
InitReaps(p) ==
  /\ st[p] = "ZOMBIE" /\ parent[p] = NULL /\ p # Sh
  /\ st' = [st EXCEPT ![p] = "UNUSED"]
  /\ UNCHANGED <<fvars, parent, todo, pfd, uvars, failed>>

\* A killed process exits on its way back from a call.
Dies(p) ==
  /\ st[p] = "RUNNING" /\ killed[p] /\ call[p] = NULL /\ todo[p] # Exit
  /\ Go(p, Exit)
  /\ UNCHANGED <<fvars, st, parent, pfd, uvars, failed>>

Kills(p) ==
  /\ kills < MaxKills /\ p # Sh /\ st[p] = "RUNNING" /\ ~killed[p]
  /\ Kill(p)
  /\ kills' = kills + 1
  /\ failed' = TRUE
  /\ UNCHANGED <<pvars, line, ran>>

Step(p) ==
  \/ CallStep(p) /\ UNCHANGED <<pvars, uvars, failed>>
  \/ Fork(p) \/ ClosesFd(p) \/ DupsFd(p) \/ MakesPipe(p) \/ HasPipe(p) \/ Opens(p)
  \/ Writes(p) \/ Reads(p) \/ Copies(p) \/ Rechecks(p)
  \/ Waits(p) \/ Exits(p) \/ InitReaps(p) \/ Dies(p)

Next ==
  \/ \E tok \in Words \cup Symbols : Type(tok)
  \/ Enter
  \/ \E p \in Procs : Step(p) \/ Kills(p)

\* The scheduler runs a process whenever one can run (module Kthread); which one
\* is left open, and nobody has to type or to kill.
Spec == Init /\ [][Next]_vars /\ WF_vars(\E p \in Procs : Step(p))

-----------------------------------------------------------------------------
\* What a command means: a state is the input left, the output so far, what
\* background commands have still to write, and the inodes; a command leads to
\* one of a set of states.  The bytes of a background command come anywhere
\* among those that follow.  A command that is piped or redirected has its own
\* output, which takes the place of the beginning of a file; a file that cannot
\* be opened ends the command.
RECURSIVE Shuffles(_, _)
Shuffles(a, b) ==
  IF a = <<>> \/ b = <<>> THEN {a \o b}
  ELSE {<<Head(a)>> \o x : x \in Shuffles(Tail(a), b)} \cup {<<Head(b)>> \o x : x \in Shuffles(a, Tail(b))}

Prints(s, bytes) ==
  UNION {{[s EXCEPT !.out = @ \o x, !.bg = Rest(@, n)] : x \in Shuffles(bytes, SubSeq(s.bg, 1, n))} :
         n \in 0 .. Len(s.bg)}

RECURSIVE Meaning(_, _)
Meaning(s, c) ==
  LET own(input, n) == [in |-> input, out |-> <<>>, bg |-> <<>>, disk |-> n] IN
  CASE c.type = "EXEC" ->
         IF c.argv = <<>> \/ c.argv[1] \notin {"e", "c"} THEN {s}
         ELSE IF c.argv[1] = "e" THEN Prints(s, Text)
         ELSE Prints([s EXCEPT !.in = <<>>], s.in)
    [] c.type = "REDIR" /\ c.fd = 0 ->
         IF s.disk[c.file] = NULL THEN {s}
         ELSE {[m EXCEPT !.in = s.in] : m \in Meaning([s EXCEPT !.in = s.disk[c.file]], c.cmd)}
    [] c.type = "REDIR" /\ c.fd = 1 ->
         LET old == IF s.disk[c.file] = NULL THEN <<>> ELSE s.disk[c.file]
         IN  {[s EXCEPT !.in = m.in, !.disk = [m.disk EXCEPT ![c.file] = Overwrite(@, 0, m.out \o m.bg)]] :
              m \in Meaning(own(s.in, [s.disk EXCEPT ![c.file] = old]), c.cmd)}
    [] c.type = "PIPE" ->
         UNION {{[m EXCEPT !.in = l.in] : m \in Meaning([s EXCEPT !.in = l.out \o l.bg, !.disk = l.disk], c.right)} :
                l \in Meaning(own(s.in, s.disk), c.left)}
    [] c.type = "LIST" -> UNION {Meaning(m, c.right) : m \in Meaning(s, c.left)}
    [] c.type = "BACK" ->
         UNION {{[s EXCEPT !.in = m.in, !.disk = m.disk, !.bg = x] : x \in Shuffles(s.bg, m.out \o m.bg)} :
                m \in Meaning(own(s.in, s.disk), c.cmd)}
    [] OTHER -> {s}

\* What all the lines may have left.
Wanted ==
  FoldLeft(LAMBDA S, c : UNION {Meaning(s, c) : s \in S},
           {[in |-> <<>>, out |-> <<>>, bg |-> <<>>, disk |-> [n \in Names |-> NULL]]}, ran)

\* The shell is at its prompt, or gone, and every other process is gone.
Idle ==
  /\ st[Sh] = "ZOMBIE" \/ Head(todo[Sh]).op = "getcmd"
  /\ \A p \in Procs \ {Sh} : st[p] = "UNUSED"

\* Once all processes of the lines are done, the console and the files hold
\* what the lines mean, whatever the order in which the processes, the ends
\* of the pipes and the shared offsets moved: output is mixed only where a
\* command runs in the background.
OutputRight ==
  Idle /\ ~failed =>
    \E s \in Wanted : disk[Console] = s.out \o s.bg /\ \A n \in Names : disk[n] = s.disk[n]

\* parsecmd() on everything that can be typed.
ParserRight == ParsesGrammar(line)

\* Every line comes to its end: no process waits for good for a child or at
\* the end of a pipe, whichever process is killed.
Finishes == <>[]Idle
=============================================================================
