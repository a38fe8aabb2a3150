---------------------------- MODULE DeviceProofs ----------------------------
(***************************************************************************)
(* Proofs about modules Spinlock and Devices, for every number of CPUs and *)
(* processes and every bound on interrupts, keys and calls.                *)
(***************************************************************************)
EXTENDS Devices, WellFoundedInduction, TLAPS

(* What a context has still to do is read backwards, from its end: a mode  *)
(* is what holds in front of an operation.                                 *)
Channels == {"input", "ticks"}
LockOf(ch) == IF ch = "input" THEN "cons" ELSE "tickslock"

ModeRecords ==
  [held : SUBSET Locks,             \* the locks that the context has
   spins : BOOLEAN,                 \* it is waiting in acquire()
   intr : BOOLEAN,                  \* inside a handler
   exits : BOOLEAN,                 \* in exit()
   sleeps : Channels \cup {"no"},   \* sched() of a sleep() is still to come
   wakes : Channels \cup {"no"},    \* wakeup() is still to come
   naps : BOOLEAN,                  \* inside sys_sleep()
   proc : BOOLEAN]                  \* a process, not a scheduler

Modes ==
  {a \in ModeRecords :
     /\ a.sleeps # "no" => a.held \in {{LockOf(a.sleeps)}, {"ptable"}, {LockOf(a.sleeps), "ptable"}}
     /\ a.wakes # "no" => a.intr}

Mode(held, pr) ==
  [held |-> held, spins |-> FALSE, intr |-> FALSE, exits |-> FALSE, sleeps |-> "no",
   wakes |-> "no", naps |-> FALSE, proc |-> pr]
Idle(pr) == Mode({}, pr)

\* Operations that end with a release() of their lock.
Quiet(a, lk) == a.held = {lk} /\ a.sleeps = "no" /\ a.wakes = "no"
OfCall(a, lk) == a = Mode({lk}, TRUE)
Releases(o, a) ==
  \/ o.op = "release"
  \/ o.op = "consputs" /\ o.lk = "cons" /\ o.n = <<"a", Newline>> /\ Quiet(a, "cons")
  \/ o.op = "getc" /\ o.lk = "cons" /\ o.n \in BOOLEAN /\ Quiet(a, "cons") /\ a.intr
  \/ o.op = "slot" /\ o.lk = "ptable" /\ o.n \in Nat /\ a = Mode({"ptable"}, FALSE)
  \/ o.op = "ticks0" /\ o.lk = "tickslock" /\ o.n \in Nat /\ OfCall(a, "tickslock")
  \/ o.op = "consoleread" /\ o.lk = "cons" /\ o.n \in Int /\ o.target \in Int /\ o.n <= o.target /\ OfCall(a, "cons")
  \/ o.op = "kill" /\ o.lk = "ptable" /\ o.n \in Procs /\ OfCall(a, "ptable")
  \/ o.op = "change_tickets" /\ o.lk = "ptable" /\ o.n \in Int /\ o.q \in Procs /\ OfCall(a, "ptable")

\* sched(), by the state that the process goes to.
Schedules(o, a, b) ==
  /\ o.op = "sched" /\ o.lk = "ptable"
  /\ \/ /\ o.state = "ZOMBIE" /\ o.n = NULL /\ a = [Mode({"ptable"}, TRUE) EXCEPT !.exits = TRUE]
        /\ b = Idle(TRUE)
     \/ /\ o.state = "RUNNABLE" /\ o.n = NULL /\ Quiet(a, "ptable") /\ ~a.spins /\ a.proc
        /\ b = a
     \/ /\ o.state = "SLEEPING" /\ o.n \in Channels
        /\ a = [Mode({"ptable"}, TRUE) EXCEPT !.sleeps = o.n, !.naps = (o.n = "ticks")]
        /\ b = [a EXCEPT !.sleeps = "no"]

\* From mode a, operation o leads to mode b.
Goes(o, a, b) ==
  \/ /\ o.op \in {"acquire", "xchg"} /\ o.lk \in Locks \ a.held
     /\ a.held = {} \/ (o.lk = "ptable" /\ a.held \in {{"cons"}, {"tickslock"}})
     /\ a.spins = (o.op = "xchg")
     /\ b = [a EXCEPT !.held = @ \cup {o.lk}, !.spins = FALSE]
  \/ /\ o.lk \in a.held /\ ~a.spins /\ Releases(o, a)
     /\ b = [a EXCEPT !.held = @ \ {o.lk}]
  \/ /\ o.op = "wakeup" /\ o.lk = "ptable" /\ o.n \in Channels
     /\ "ptable" \in a.held /\ ~a.spins /\ a.sleeps = "no" /\ a.wakes = o.n
     /\ b = [a EXCEPT !.held = @ \ {"ptable"}, !.wakes = "no"]
  \/ /\ o.op = "sys_sleep" /\ o.lk = "tickslock"
     /\ o.n \in Nat /\ o.t0 \in 0 .. TicksWrap - 1 /\ o.at \in Nat
     /\ a = [Mode({"tickslock"}, TRUE) EXCEPT !.naps = TRUE]
     /\ b = Idle(TRUE)
  \/ /\ o.op = "tick" /\ o.lk = NULL
     /\ a.held = {"tickslock"} /\ a.sleeps = "no" /\ a.wakes = "ticks" /\ ~a.spins
     /\ b = a
  \/ /\ o.op = "leave" /\ o.lk = NULL /\ o.n \in BOOLEAN
     /\ a.held = {} /\ a.intr /\ a.wakes = "no" /\ ~a.spins
     /\ b = a
  \/ /\ o.op = "iret" /\ o.lk = NULL
     /\ a.held = {} /\ a.intr /\ a.wakes = "no" /\ ~a.spins
     /\ b = [a EXCEPT !.intr = FALSE]
  \/ o.op = "ret" /\ o.lk = NULL /\ a = Idle(TRUE) /\ b = Idle(TRUE)
  \/ Schedules(o, a, b)

Values == Int \cup BOOLEAN \cup {NULL} \cup Channels \cup {<<"a", Newline>>}
OpNames ==
  {"acquire", "xchg", "release", "wakeup", "consputs", "getc", "slot", "ticks0", "kill",
   "tick", "leave", "iret", "ret", "resume"}
Ops ==
  [op : OpNames, n : Values, lk : Locks \cup {NULL}]
    \cup [op : {"sched"}, n : Values, lk : Locks, state : {"SLEEPING", "RUNNABLE", "ZOMBIE"}]
    \cup [op : {"consoleread"}, n : Values, lk : Locks, target : Values]
    \cup [op : {"sys_sleep"}, n : Values, lk : Locks, t0 : Values, at : Values]
    \cup [op : {"change_tickets"}, n : Values, lk : Locks, q : Values]

\* From mode a, the operations s lead to mode b.
Runs(s, a, b) ==
  /\ s \in Seq(Ops)
  /\ \E h \in [1 .. Len(s) + 1 -> Modes] :
       /\ h[1] = a /\ h[Len(s) + 1] = b
       /\ \A i \in 1 .. Len(s) : Goes(s[i], h[i], h[i + 1])

-----------------------------------------------------------------------------
(* Sequences of operations.                                                *)
LEMMA RunsEmpty ==
  ASSUME NEW a \in Modes
  PROVE  Runs(<<>>, a, a)
<1> DEFINE h == [i \in 1 .. 1 |-> a]
<1>1. h \in [1 .. Len(<<>>) + 1 -> Modes] /\ h[1] = a /\ h[Len(<<>>) + 1] = a
  OBVIOUS
<1>2. 1 .. Len(<<>>) = {} /\ <<>> \in Seq(Ops)
  OBVIOUS
<1> HIDE DEF h
<1> QED
  BY <1>1, <1>2 DEF Runs

LEMMA RunsOne ==
  ASSUME NEW o \in Ops, NEW a \in Modes, NEW b \in Modes, Goes(o, a, b)
  PROVE  Runs(<<o>>, a, b)
<1> DEFINE h == [i \in 1 .. 2 |-> IF i = 1 THEN a ELSE b]
<1>1. h \in [1 .. Len(<<o>>) + 1 -> Modes]
  OBVIOUS
<1>2. h[1] = a /\ h[Len(<<o>>) + 1] = b
  OBVIOUS
<1>3. \A i \in 1 .. Len(<<o>>) : Goes(<<o>>[i], h[i], h[i + 1])
  OBVIOUS
<1>4. <<o>> \in Seq(Ops)
  OBVIOUS
<1> HIDE DEF h
<1> QED
  BY <1>1, <1>2, <1>3, <1>4, Zenon DEF Runs

LEMMA RunsCat ==
  ASSUME NEW s, NEW t, NEW a, NEW b, NEW c, Runs(s, a, b), Runs(t, b, c)
  PROVE  Runs(s \o t, a, c)
<1>1. s \in Seq(Ops) /\ t \in Seq(Ops) /\ s \o t \in Seq(Ops) /\ Len(s \o t) = Len(s) + Len(t)
  BY DEF Runs
<1>2. PICK g \in [1 .. Len(s) + 1 -> Modes] :
        /\ g[1] = a /\ g[Len(s) + 1] = b
        /\ \A i \in 1 .. Len(s) : Goes(s[i], g[i], g[i + 1])
  BY DEF Runs
<1>3. PICK h \in [1 .. Len(t) + 1 -> Modes] :
        /\ h[1] = b /\ h[Len(t) + 1] = c
        /\ \A i \in 1 .. Len(t) : Goes(t[i], h[i], h[i + 1])
  BY DEF Runs
<1> DEFINE f == [i \in 1 .. Len(s \o t) + 1 |-> IF i <= Len(s) THEN g[i] ELSE h[i - Len(s)]]
<1>4. f \in [1 .. Len(s \o t) + 1 -> Modes]
  BY <1>1, <1>2, <1>3
<1>5. f[1] = a /\ f[Len(s \o t) + 1] = c
  BY <1>1, <1>2, <1>3
<1>6. ASSUME NEW i \in 1 .. Len(s \o t) PROVE Goes((s \o t)[i], f[i], f[i + 1])
  <2>1. CASE i < Len(s)
    <3>1. (s \o t)[i] = s[i] /\ f[i] = g[i] /\ f[i + 1] = g[i + 1] /\ i \in 1 .. Len(s)
      BY <1>1, <2>1
    <3> QED
      BY <1>2, <3>1
  <2>2. CASE i = Len(s)
    <3>1. (s \o t)[i] = s[i] /\ f[i] = g[i] /\ f[i + 1] = h[1] /\ i \in 1 .. Len(s)
      BY <1>1, <2>2
    <3> QED
      BY <1>2, <1>3, <2>2, <3>1
  <2>3. CASE i > Len(s)
    <3> DEFINE j == i - Len(s)
    <3>1. j \in 1 .. Len(t) /\ (s \o t)[i] = t[j] /\ f[i] = h[j] /\ f[i + 1] = h[j + 1]
      BY <1>1, <2>3
    <3> HIDE DEF j
    <3> QED
      BY <1>3, <3>1
  <2> QED
    BY <1>1, <2>1, <2>2, <2>3
<1> QED
  BY <1>1, <1>4, <1>5, <1>6 DEF Runs

LEMMA RunsHead ==
  ASSUME NEW s, NEW a, NEW c, Runs(s, a, c), s # <<>>
  PROVE  /\ a \in Modes /\ s \in Seq(Ops) /\ Head(s) \in Ops /\ Tail(s) \in Seq(Ops)
         /\ s = <<Head(s)>> \o Tail(s)
         /\ \E b \in Modes : Goes(Head(s), a, b) /\ Runs(Tail(s), b, c)
<1>1. s \in Seq(Ops) /\ Len(s) >= 1 /\ Len(Tail(s)) = Len(s) - 1 /\ Head(s) = s[1] /\ Tail(s) \in Seq(Ops)
  BY DEF Runs
<1>2. PICK g \in [1 .. Len(s) + 1 -> Modes] :
        /\ g[1] = a /\ g[Len(s) + 1] = c
        /\ \A i \in 1 .. Len(s) : Goes(s[i], g[i], g[i + 1])
  BY DEF Runs
<1> DEFINE f == [i \in 1 .. Len(Tail(s)) + 1 |-> g[i + 1]]
<1>3. f \in [1 .. Len(Tail(s)) + 1 -> Modes] /\ f[1] = g[2] /\ f[Len(Tail(s)) + 1] = c
  BY <1>1, <1>2
<1>4. \A i \in 1 .. Len(Tail(s)) : Goes(Tail(s)[i], f[i], f[i + 1])
  <2> TAKE i \in 1 .. Len(Tail(s))
  <2>1. Tail(s)[i] = s[i + 1] /\ f[i] = g[i + 1] /\ f[i + 1] = g[(i + 1) + 1] /\ i + 1 \in 1 .. Len(s)
    BY <1>1
  <2> QED
    BY <1>2, <2>1
<1>5. Runs(Tail(s), g[2], c)
  BY <1>1, <1>3, <1>4 DEF Runs
<1>6. Goes(Head(s), a, g[2])
  BY <1>1, <1>2
<1>7. g[1] \in Modes /\ g[2] \in Modes
  BY <1>1, <1>2
<1>8. s = <<Head(s)>> \o Tail(s) /\ Head(s) \in Ops
  BY <1>1
<1> QED
  BY <1>1, <1>2, <1>5, <1>6, <1>7, <1>8

LEMMA RunsEnd ==
  ASSUME NEW a, NEW b, Runs(<<>>, a, b)
  PROVE  a = b /\ a \in Modes
BY DEF Runs

LEMMA Induction ==
  ASSUME NEW T \in SUBSET Nat, 0 \in T, \A n \in T : n + 1 \in T
  PROVE  T = Nat
<1> SUFFICES ASSUME Nat \ T # {} PROVE FALSE
  OBVIOUS
<1> DEFINE R == {ss \in Nat \X Nat : ss[1] < ss[2]}
<1>1. IsWellFoundedOn(R, Nat)
  BY NatLessThanWellFounded, Zenon DEF OpToRel
<1>2. \A m, n \in Nat : m < n => <<m, n>> \in R
  OBVIOUS
<1> HIDE DEF R
<1>3. PICK n \in Nat \ T : \A m \in Nat \ T : ~(<<m, n>> \in R)
  BY <1>1, WFMin, Zenon
<1>4. \A m \in Nat \ T : ~(m < n)
  BY <1>2, <1>3
<1>5. n # 0 /\ n - 1 \in Nat
  OBVIOUS
<1>6. n - 1 \in T
  BY <1>4, <1>5
<1> QED
  BY <1>6

-----------------------------------------------------------------------------
(* A mode says which operations are ahead.                                 *)
InsideOf(s, lk) ==
  \E i \in DOMAIN s :
    /\ s[i].lk = lk /\ s[i].op \notin {"acquire", "xchg"}
    /\ \A j \in 1 .. i - 1 : s[j].lk # lk
HasOp(s, name) == \E i \in DOMAIN s : s[i].op = name
HasExit(s) == \E i \in DOMAIN s : s[i].op = "sched" /\ s[i].state = "ZOMBIE"
HasSleep(s, ch) == \E i \in DOMAIN s : s[i].op = "sched" /\ s[i].state = "SLEEPING" /\ s[i].n = ch
HasWakeup(s, ch) == \E i \in DOMAIN s : s[i].op = "wakeup" /\ s[i].n = ch

Foretells(a, s) ==
  /\ \A lk \in Locks : lk \in a.held <=> InsideOf(s, lk)
  /\ a.intr <=> HasOp(s, "iret")
  /\ a.exits <=> HasExit(s)
  /\ \A ch \in Channels : a.sleeps = ch <=> HasSleep(s, ch)
  /\ \A ch \in Channels : a.wakes = ch => HasWakeup(s, ch)
  /\ a.wakes = "no" => ~HasOp(s, "wakeup")
  /\ a.naps <=> HasOp(s, "sys_sleep")

LEMMA HasCat ==
  ASSUME NEW s \in Seq(Ops), NEW t \in Seq(Ops)
  PROVE  /\ \A name : HasOp(s \o t, name) <=> HasOp(s, name) \/ HasOp(t, name)
         /\ HasExit(s \o t) <=> HasExit(s) \/ HasExit(t)
         /\ \A ch : HasSleep(s \o t, ch) <=> HasSleep(s, ch) \/ HasSleep(t, ch)
         /\ \A ch : HasWakeup(s \o t, ch) <=> HasWakeup(s, ch) \/ HasWakeup(t, ch)
<1>1. /\ DOMAIN (s \o t) = 1 .. Len(s) + Len(t)
      /\ DOMAIN s = 1 .. Len(s) /\ DOMAIN t = 1 .. Len(t)
  OBVIOUS
<1>2. /\ \A i \in DOMAIN s : i \in DOMAIN (s \o t) /\ (s \o t)[i] = s[i]
      /\ \A i \in DOMAIN t : i + Len(s) \in DOMAIN (s \o t) /\ (s \o t)[i + Len(s)] = t[i]
  BY <1>1
<1>3. ASSUME NEW i \in DOMAIN (s \o t)
      PROVE  \/ i \in DOMAIN s /\ (s \o t)[i] = s[i]
             \/ \E j \in DOMAIN t : (s \o t)[i] = t[j]
  <2>1. CASE i > Len(s)
    <3>1. i - Len(s) \in DOMAIN t /\ (s \o t)[i] = t[i - Len(s)]
      BY <1>1, <2>1
    <3> QED
      BY <3>1
  <2>2. CASE i <= Len(s)
    BY <1>1, <2>2
  <2> QED
    BY <1>1, <2>1, <2>2
<1> DEFINE u == s \o t
<1> HIDE DEF u
<1>4. /\ \A i \in DOMAIN s : i \in DOMAIN u /\ u[i] = s[i]
      /\ \A i \in DOMAIN t : \E j \in DOMAIN u : u[j] = t[i]
      /\ \A i \in DOMAIN u : (i \in DOMAIN s /\ u[i] = s[i]) \/ \E j \in DOMAIN t : u[i] = t[j]
  BY <1>2, <1>3 DEF u
<1>5. \A name : HasOp(u, name) <=> HasOp(s, name) \/ HasOp(t, name)
  BY <1>4 DEF HasOp
<1>6. HasExit(u) <=> HasExit(s) \/ HasExit(t)
  BY <1>4 DEF HasExit
<1>7. \A ch : HasSleep(u, ch) <=> HasSleep(s, ch) \/ HasSleep(t, ch)
  BY <1>4 DEF HasSleep
<1>8. \A ch : HasWakeup(u, ch) <=> HasWakeup(s, ch) \/ HasWakeup(t, ch)
  BY <1>4 DEF HasWakeup
<1> QED
  BY <1>5, <1>6, <1>7, <1>8 DEF u

LEMMA HasOne ==
  ASSUME NEW o
  PROVE  /\ \A name : HasOp(<<o>>, name) <=> o.op = name
         /\ HasExit(<<o>>) <=> o.op = "sched" /\ o.state = "ZOMBIE"
         /\ \A ch : HasSleep(<<o>>, ch) <=> o.op = "sched" /\ o.state = "SLEEPING" /\ o.n = ch
         /\ \A ch : HasWakeup(<<o>>, ch) <=> o.op = "wakeup" /\ o.n = ch
<1>1. DOMAIN <<o>> = {1} /\ <<o>>[1] = o
  OBVIOUS
<1> DEFINE s == <<o>>
<1> HIDE DEF s
<1>2. DOMAIN s = {1} /\ s[1] = o
  BY <1>1 DEF s
<1> QED
  BY <1>2 DEF s, HasOp, HasExit, HasSleep, HasWakeup

LEMMA InsideCons ==
  ASSUME NEW o \in Ops, NEW t \in Seq(Ops), NEW lk
  PROVE  InsideOf(<<o>> \o t, lk)
           <=> IF o.lk = lk THEN o.op \notin {"acquire", "xchg"} ELSE InsideOf(t, lk)
<1> DEFINE s == <<o>> \o t
<1>1. s \in Seq(Ops) /\ Len(s) = Len(t) + 1 /\ s[1] = o /\ \A i \in 1 .. Len(t) : s[i + 1] = t[i]
  OBVIOUS
<1>2. DOMAIN s = 1 .. Len(t) + 1 /\ DOMAIN t = 1 .. Len(t) /\ Len(t) \in Nat
  BY <1>1
<1> HIDE DEF s
<1>3. CASE o.lk = lk
  <2>1. o.op \notin {"acquire", "xchg"} => InsideOf(s, lk)
    <3>1. 1 \in DOMAIN s /\ 1 .. 1 - 1 = {}
      BY <1>2
    <3> QED
      BY <1>1, <1>3, <3>1 DEF InsideOf
  <2>2. ASSUME InsideOf(s, lk) PROVE o.op \notin {"acquire", "xchg"}
    <3>1. PICK i \in DOMAIN s : /\ s[i].lk = lk /\ s[i].op \notin {"acquire", "xchg"}
                                /\ \A j \in 1 .. i - 1 : s[j].lk # lk
      BY <2>2 DEF InsideOf
    <3>2. i = 1
      BY <1>1, <1>2, <1>3, <3>1
    <3> QED
      BY <1>1, <3>1, <3>2
  <2> QED
    BY <1>3, <2>1, <2>2 DEF s
<1>4. CASE o.lk # lk
  <2>1. ASSUME InsideOf(t, lk) PROVE InsideOf(s, lk)
    <3>1. PICK i \in DOMAIN t : /\ t[i].lk = lk /\ t[i].op \notin {"acquire", "xchg"}
                                /\ \A j \in 1 .. i - 1 : t[j].lk # lk
      BY <2>1 DEF InsideOf
    <3>2. i + 1 \in DOMAIN s /\ s[i + 1] = t[i]
      BY <1>1, <1>2
    <3>3. ASSUME NEW j \in 1 .. (i + 1) - 1 PROVE s[j].lk # lk
      <4>1. CASE j = 1
        BY <1>1, <1>4, <4>1
      <4>2. CASE j # 1
        <5>1. j - 1 \in 1 .. i - 1 /\ j - 1 \in 1 .. Len(t)
          BY <1>2, <4>2
        <5>2. s[(j - 1) + 1] = t[j - 1]
          BY <1>1, <5>1
        <5> QED
          BY <3>1, <5>1, <5>2
      <4> QED
        BY <4>1, <4>2
    <3> QED
      BY <3>1, <3>2, <3>3 DEF InsideOf
  <2>2. ASSUME InsideOf(s, lk) PROVE InsideOf(t, lk)
    <3>1. PICK i \in DOMAIN s : /\ s[i].lk = lk /\ s[i].op \notin {"acquire", "xchg"}
                                /\ \A j \in 1 .. i - 1 : s[j].lk # lk
      BY <2>2 DEF InsideOf
    <3>2. i # 1
      BY <1>1, <1>4, <3>1
    <3>3. i - 1 \in DOMAIN t /\ i - 1 \in 1 .. Len(t)
      BY <1>2, <3>2
    <3>4. s[(i - 1) + 1] = t[i - 1] /\ (i - 1) + 1 = i
      BY <1>1, <1>2, <3>3
    <3>5. ASSUME NEW j \in 1 .. (i - 1) - 1 PROVE t[j].lk # lk
      <4>1. j + 1 \in 1 .. i - 1 /\ j \in 1 .. Len(t)
        BY <1>2
      <4> QED
        BY <1>1, <3>1, <4>1
    <3> QED
      BY <3>1, <3>3, <3>4, <3>5 DEF InsideOf
  <2> QED
    BY <1>4, <2>1, <2>2 DEF s
<1> QED
  BY <1>3, <1>4

LEMMA ForetellsEmpty ==
  ASSUME NEW pr
  PROVE  Foretells(Idle(pr), <<>>)
<1>1. DOMAIN <<>> = {}
  OBVIOUS
<1> QED
  BY <1>1 DEF Foretells, Idle, Mode, Channels, InsideOf, HasOp, HasExit, HasSleep, HasWakeup

\* What an operation does to a mode, field by field.
Adds(o, a, b) ==
  /\ \A lk \in Locks : lk \in a.held <=> IF o.lk = lk THEN o.op \notin {"acquire", "xchg"} ELSE lk \in b.held
  /\ a.intr <=> o.op = "iret" \/ b.intr
  /\ a.exits <=> (o.op = "sched" /\ o.state = "ZOMBIE") \/ b.exits
  /\ \A ch \in Channels : a.sleeps = ch <=> (o.op = "sched" /\ o.state = "SLEEPING" /\ o.n = ch) \/ b.sleeps = ch
  /\ \A ch \in Channels : a.wakes = ch => (o.op = "wakeup" /\ o.n = ch) \/ b.wakes = ch
  /\ a.wakes = "no" => o.op # "wakeup" /\ b.wakes = "no"
  /\ a.naps <=> o.op = "sys_sleep" \/ b.naps

LEMMA GoesAdds ==
  ASSUME NEW o \in Ops, NEW a \in Modes, NEW b \in Modes, Goes(o, a, b)
  PROVE  Adds(o, a, b)
<1>a. a \in ModeRecords /\ b \in ModeRecords
  BY DEF Modes
<1>b. NULL \notin Locks
  BY SpinlockAssumption
<1>1. CASE /\ o.op \in {"acquire", "xchg"} /\ o.lk \in Locks \ a.held
           /\ b = [a EXCEPT !.held = @ \cup {o.lk}, !.spins = FALSE]
  BY <1>a, <1>1 DEF Adds, ModeRecords, Channels
<1>2. CASE /\ o.lk \in a.held /\ Releases(o, a)
           /\ b = [a EXCEPT !.held = @ \ {o.lk}]
  <2>1. o.op \notin {"acquire", "xchg", "iret", "sched", "wakeup", "sys_sleep"}
    BY <1>2 DEF Releases
  <2> QED
    BY <1>a, <1>2, <2>1 DEF Adds, ModeRecords, Channels
<1>3. CASE /\ o.op = "wakeup" /\ o.lk = "ptable" /\ o.n \in Channels
           /\ "ptable" \in a.held /\ ~a.spins /\ a.sleeps = "no" /\ a.wakes = o.n
           /\ b = [a EXCEPT !.held = @ \ {"ptable"}, !.wakes = "no"]
  BY <1>a, <1>3 DEF Adds, ModeRecords, Channels
<1>4. CASE /\ o.op = "sys_sleep" /\ o.lk = "tickslock"
           /\ a = [Mode({"tickslock"}, TRUE) EXCEPT !.naps = TRUE]
           /\ b = Idle(TRUE)
  BY <1>a, <1>4 DEF Adds, Mode, Idle, Channels
<1>5. CASE o.op \in {"tick", "leave", "ret"} /\ o.lk = NULL /\ b = a
  BY <1>a, <1>b, <1>5 DEF Adds
<1>6. CASE /\ o.op = "iret" /\ o.lk = NULL
           /\ a.held = {} /\ a.intr /\ a.wakes = "no" /\ ~a.spins
           /\ b = [a EXCEPT !.intr = FALSE]
  BY <1>a, <1>b, <1>6 DEF Adds, ModeRecords, Channels
<1>7. CASE Schedules(o, a, b)
  <2>1. CASE o.op = "sched" /\ o.lk = "ptable" /\ o.state = "RUNNABLE" /\ Quiet(a, "ptable") /\ b = a
    BY <1>a, <2>1 DEF Adds, Quiet
  <2>2. CASE /\ o.op = "sched" /\ o.lk = "ptable" /\ o.state = "ZOMBIE"
             /\ a = [Mode({"ptable"}, TRUE) EXCEPT !.exits = TRUE] /\ b = Idle(TRUE)
    BY <2>2 DEF Adds, Mode, Idle, Channels
  <2>3. CASE /\ o.op = "sched" /\ o.lk = "ptable" /\ o.state = "SLEEPING" /\ o.n \in Channels
             /\ a = [Mode({"ptable"}, TRUE) EXCEPT !.sleeps = o.n, !.naps = (o.n = "ticks")]
             /\ b = [a EXCEPT !.sleeps = "no"]
    BY <2>3 DEF Adds, Mode, Idle, Channels
  <2> QED
    BY <1>7, <2>1, <2>2, <2>3 DEF Schedules
<1> QED
  BY <1>1, <1>2, <1>3, <1>4, <1>5, <1>6, <1>7 DEF Goes

LEMMA ForetellsCons ==
  ASSUME NEW o \in Ops, NEW t \in Seq(Ops), NEW a \in Modes, NEW b \in Modes,
         Goes(o, a, b), Foretells(b, t)
  PROVE  Foretells(a, <<o>> \o t)
<1> DEFINE s == <<o>> \o t
<1>1. <<o>> \in Seq(Ops)
  OBVIOUS
<1>2. /\ \A name : HasOp(s, name) <=> o.op = name \/ HasOp(t, name)
      /\ HasExit(s) <=> (o.op = "sched" /\ o.state = "ZOMBIE") \/ HasExit(t)
      /\ \A ch : HasSleep(s, ch) <=> (o.op = "sched" /\ o.state = "SLEEPING" /\ o.n = ch) \/ HasSleep(t, ch)
      /\ \A ch : HasWakeup(s, ch) <=> (o.op = "wakeup" /\ o.n = ch) \/ HasWakeup(t, ch)
  BY <1>1, HasCat, HasOne
<1>3. \A lk \in Locks : InsideOf(s, lk)
        <=> IF o.lk = lk THEN o.op \notin {"acquire", "xchg"} ELSE InsideOf(t, lk)
  BY InsideCons
<1> HIDE DEF s
<1>4. Adds(o, a, b)
  BY GoesAdds
<1>5. Foretells(a, s)
  BY <1>2, <1>3, <1>4 DEF Foretells, Adds
<1> QED
  BY <1>5 DEF s

\* The mode in front of a whole stack foretells it.
LEMMA RunsForetell ==
  ASSUME NEW s, NEW a, NEW pr \in BOOLEAN, Runs(s, a, Idle(pr))
  PROVE  Foretells(a, s)
<1> DEFINE T == {n \in Nat : \A u, b : Runs(u, b, Idle(pr)) /\ Len(u) = n => Foretells(b, u)}
<1>1. 0 \in T
  <2> SUFFICES ASSUME NEW u, NEW b, Runs(u, b, Idle(pr)), Len(u) = 0 PROVE Foretells(b, u)
    OBVIOUS
  <2>1. u \in Seq(Ops)
    BY DEF Runs
  <2>2. u = <<>>
    BY <2>1
  <2> QED
    BY <2>2, RunsEnd, ForetellsEmpty
<1>2. ASSUME NEW n \in T PROVE n + 1 \in T
  <2> SUFFICES ASSUME NEW u, NEW b, Runs(u, b, Idle(pr)), Len(u) = n + 1 PROVE Foretells(b, u)
    OBVIOUS
  <2>1. u \in Seq(Ops) /\ n \in Nat
    BY DEF Runs
  <2>2. u # <<>> /\ Len(Tail(u)) = n
    BY <2>1
  <2>3. PICK c \in Modes : Goes(Head(u), b, c) /\ Runs(Tail(u), c, Idle(pr))
    BY <2>2, RunsHead
  <2>4. b \in Modes /\ Head(u) \in Ops /\ Tail(u) \in Seq(Ops) /\ u = <<Head(u)>> \o Tail(u)
    BY <2>2, RunsHead
  <2>5. Foretells(c, Tail(u))
    BY <2>2, <2>3
  <2>6. Foretells(b, <<Head(u)>> \o Tail(u))
    BY <2>3, <2>4, <2>5, ForetellsCons
  <2> QED
    BY <2>4, <2>6
<1>3. T = Nat
  <2> HIDE DEF T
  <2>1. T \in SUBSET Nat
    BY DEF T
  <2> QED
    BY <1>1, <1>2, <2>1, Induction
<1>4. Len(s) \in Nat
  BY DEF Runs
<1>5. Len(s) \in T
  BY <1>3, <1>4
<1> QED
  BY <1>5

-----------------------------------------------------------------------------
(* The functions of the kernel, as sequences of operations.                *)
With(a, lk) == [a EXCEPT !.held = @ \cup {lk}, !.spins = FALSE]
Without(a, lk) == [a EXCEPT !.held = @ \ {lk}]

LEMMA Tuples ==
  ASSUME NEW o1, NEW o2, NEW o3, NEW o4, NEW o5
  PROVE  /\ <<o1, o2>> = <<o1>> \o <<o2>>
         /\ <<o1, o2, o3>> = <<o1>> \o <<o2, o3>>
         /\ <<o1, o2, o3, o4>> = <<o1>> \o <<o2, o3, o4>>
         /\ <<o1, o2, o3, o4, o5>> = <<o1>> \o <<o2, o3, o4, o5>>
<1>1. <<o1, o2>> = Append(<<o1>>, o2)
  OBVIOUS
<1>2. Append(<<o1>>, o2) = <<o1>> \o <<o2>>
  OBVIOUS
<1>3. <<o1, o2, o3>> = <<o1>> \o <<o2, o3>>
  OBVIOUS
<1>4. <<o1, o2, o3, o4>> = <<o1>> \o <<o2, o3, o4>>
  OBVIOUS
<1>5. <<o1, o2, o3, o4, o5>> = <<o1>> \o <<o2, o3, o4, o5>>
  OBVIOUS
<1> QED
  BY <1>1, <1>2, <1>3, <1>4, <1>5

LEMMA FourTuples ==
  ASSUME NEW o1, NEW o2, NEW o3, NEW o4
  PROVE  <<o1, o2, o3, o4>> = <<o1, o2>> \o <<o3, o4>>
OBVIOUS

LEMMA RunsTwo ==
  ASSUME NEW o1, NEW o2, NEW a, NEW b, NEW c, Runs(<<o1>>, a, b), Runs(<<o2>>, b, c)
  PROVE  Runs(<<o1, o2>>, a, c)
<1>1. <<o1, o2>> = <<o1>> \o <<o2>>
  BY Tuples
<1> QED
  BY <1>1, RunsCat

LEMMA RunsThree ==
  ASSUME NEW o1, NEW o2, NEW o3, NEW a, NEW b, NEW c, NEW d,
         Runs(<<o1>>, a, b), Runs(<<o2>>, b, c), Runs(<<o3>>, c, d)
  PROVE  Runs(<<o1, o2, o3>>, a, d)
<1>1. <<o1, o2, o3>> = <<o1>> \o <<o2, o3>>
  BY Tuples
<1> QED
  BY <1>1, RunsCat, RunsTwo

LEMMA RunsAcquire ==
  ASSUME NEW a \in Modes, NEW lk \in Locks \ a.held, ~a.spins,
         a.held = {} \/ (lk = "ptable" /\ a.held \in {{"cons"}, {"tickslock"}}),
         a.sleeps # "no" => a.held = {LockOf(a.sleeps)}
  PROVE  With(a, lk) \in Modes /\ Runs(<<Acquire(lk)>>, a, With(a, lk))
<1>1. a \in ModeRecords
  BY DEF Modes
<1>2. With(a, lk) \in ModeRecords
  BY <1>1 DEF With, ModeRecords
<1>3. /\ With(a, lk).held = a.held \cup {lk} /\ With(a, lk).sleeps = a.sleeps
      /\ With(a, lk).wakes = a.wakes /\ With(a, lk).intr = a.intr
  BY <1>1 DEF With, ModeRecords
<1>4. With(a, lk) \in Modes
  BY <1>2, <1>3 DEF Modes, LockOf, Locks
<1>5. Acquire(lk) \in Ops /\ Acquire(lk).op = "acquire" /\ Acquire(lk).lk = lk
  BY DEF Acquire, Under, Ops, Values, OpNames
<1>6. Goes(Acquire(lk), a, With(a, lk))
  BY <1>1, <1>5 DEF Goes, With, ModeRecords
<1> QED
  BY <1>4, <1>5, <1>6, RunsOne

LEMMA RunsRelease ==
  ASSUME NEW a \in Modes, NEW lk \in a.held, ~a.spins,
         a.sleeps # "no" => a.held \ {lk} = {"ptable"}
  PROVE  Without(a, lk) \in Modes /\ Runs(<<Release(lk)>>, a, Without(a, lk))
<1>1. a \in ModeRecords
  BY DEF Modes
<1>2. Without(a, lk) \in ModeRecords
  BY <1>1 DEF Without, ModeRecords
<1>3. /\ Without(a, lk).held = a.held \ {lk} /\ Without(a, lk).sleeps = a.sleeps
      /\ Without(a, lk).wakes = a.wakes /\ Without(a, lk).intr = a.intr
  BY <1>1 DEF Without, ModeRecords
<1>4. Without(a, lk) \in Modes
  BY <1>2, <1>3 DEF Modes
<1>5. lk \in Locks
  BY <1>1 DEF ModeRecords
<1>6. Release(lk) \in Ops /\ Release(lk).op = "release" /\ Release(lk).lk = lk
  BY <1>5 DEF Release, Under, Ops, Values, OpNames
<1>7. Goes(Release(lk), a, Without(a, lk))
  BY <1>6 DEF Goes, Releases, Without
<1> QED
  BY <1>4, <1>6, <1>7, RunsOne

LEMMA RunsWakeup ==
  ASSUME NEW a \in Modes, NEW ch \in Channels, a.held \in {{"cons"}, {"tickslock"}}, ~a.spins,
         a.intr, a.sleeps = "no", a.wakes = "no"
  PROVE  /\ [a EXCEPT !.wakes = ch] \in Modes
         /\ Runs(Wakeup(ch), [a EXCEPT !.wakes = ch], a)
<1>1. a \in ModeRecords
  BY DEF Modes
<1> DEFINE m == [a EXCEPT !.wakes = ch]
           w == With(m, "ptable")
           o == Under("wakeup", ch, "ptable")
<1>2. m \in Modes
  BY <1>1 DEF Modes, ModeRecords
<1>3. m.held = a.held /\ ~m.spins /\ m.sleeps = "no" /\ "ptable" \in Locks \ m.held /\ m \in ModeRecords
  BY <1>1 DEF Locks, ModeRecords
<1>4. w \in Modes /\ Runs(<<Acquire("ptable")>>, m, w)
  <2> HIDE DEF m
  <2> QED
    BY <1>2, <1>3, RunsAcquire
<1>5. o \in Ops /\ o.op = "wakeup" /\ o.lk = "ptable" /\ o.n = ch
  BY DEF Under, Ops, Values, Locks, OpNames
<1>6. w.held = a.held \cup {"ptable"} /\ ~w.spins /\ w.sleeps = "no" /\ w.wakes = ch
  BY <1>1 DEF With, ModeRecords
<1>7. a = [w EXCEPT !.held = @ \ {"ptable"}, !.wakes = "no"]
  BY <1>1 DEF With, ModeRecords
<1>8. Goes(o, w, a)
  <2> HIDE DEF w, o
  <2> QED
    BY <1>5, <1>6, <1>7 DEF Goes
<1>9. Runs(<<o>>, w, a)
  BY <1>4, <1>5, <1>8, RunsOne
<1>10. Runs(<<Acquire("ptable"), o>>, m, a)
  BY <1>4, <1>9, RunsTwo
<1> QED
  BY <1>2, <1>10 DEF Wakeup

\* Modes, field by field.
Same(a, b) ==
  /\ a.spins = b.spins /\ a.intr = b.intr /\ a.exits = b.exits /\ a.sleeps = b.sleeps
  /\ a.wakes = b.wakes /\ a.naps = b.naps /\ a.proc = b.proc
LEMMA ModeEqual ==
  ASSUME NEW a \in ModeRecords, NEW b \in ModeRecords, Same(a, b), a.held = b.held
  PROVE  a = b
BY DEF ModeRecords, Same

LEMMA WithFields ==
  ASSUME NEW a \in ModeRecords, NEW lk \in Locks
  PROVE  /\ With(a, lk) \in ModeRecords /\ With(a, lk).held = a.held \cup {lk}
         /\ ~a.spins => Same(With(a, lk), a)
         /\ Without(a, lk) \in ModeRecords /\ Without(a, lk).held = a.held \ {lk}
         /\ Same(Without(a, lk), a)
BY DEF With, Without, ModeRecords, Same

LEMMA ModeIn ==
  ASSUME NEW a \in Modes
  PROVE  /\ a \in ModeRecords
         /\ a.held = {} => a.sleeps = "no"
<1>1. a \in ModeRecords
  BY DEF Modes
<1>2. a.held = {} => a.sleeps = "no"
  BY DEF Modes
<1> QED
  BY <1>1, <1>2

LEMMA ModeConstants ==
  ASSUME NEW pr \in BOOLEAN, NEW S \in SUBSET Locks
  PROVE  /\ Mode(S, pr) \in Modes
         /\ [Mode(S, pr) EXCEPT !.exits = TRUE] \in Modes
         /\ [Mode(S, pr) EXCEPT !.naps = TRUE] \in Modes
BY DEF Mode, Modes, ModeRecords, Channels

LEMMA RunsYield ==
  ASSUME NEW a \in Modes, a.held = {}, ~a.spins, a.wakes = "no", a.proc
  PROVE  Runs(Yield, a, a)
<1>1. a \in ModeRecords /\ a.sleeps = "no"
  BY ModeIn
<1> DEFINE w == With(a, "ptable")
           o == Sched("RUNNABLE", NULL)
<1>2. w \in Modes /\ Runs(<<Acquire("ptable")>>, a, w)
  BY <1>1, RunsAcquire DEF Locks
<1>3. w.held = {"ptable"} /\ ~w.spins /\ w.sleeps = "no" /\ w.wakes = "no" /\ w.proc
  BY <1>1 DEF With, ModeRecords
<1>4. o \in Ops /\ o.op = "sched" /\ o.lk = "ptable" /\ o.state = "RUNNABLE" /\ o.n = NULL
  BY DEF Sched, Ops, Values, Locks
<1>5. a = Without(w, "ptable")
  BY <1>1 DEF With, Without, ModeRecords
<1> HIDE DEF w, o
<1>6. Goes(o, w, w)
  BY <1>3, <1>4 DEF Goes, Schedules, Quiet
<1>7. Runs(<<o>>, w, w)
  BY <1>2, <1>4, <1>6, RunsOne
<1>8. Runs(<<Release("ptable")>>, w, a)
  BY <1>2, <1>3, <1>5, RunsRelease
<1> QED
  BY <1>2, <1>7, <1>8, RunsThree DEF Yield, o

LEMMA RunsExit ==
  Runs(Exit, [Idle(TRUE) EXCEPT !.exits = TRUE], Idle(TRUE))
<1> DEFINE a == [Idle(TRUE) EXCEPT !.exits = TRUE]
           w == [Mode({"ptable"}, TRUE) EXCEPT !.exits = TRUE]
           o == Sched("ZOMBIE", NULL)
<1>1. a \in Modes /\ w \in Modes /\ Idle(TRUE) \in Modes
  BY ModeConstants DEF Idle, Locks
<1>2. a.held = {} /\ ~a.spins /\ a.sleeps = "no" /\ With(a, "ptable") = w
  <2>1. /\ a.held = {} /\ ~a.spins /\ a.sleeps = "no" /\ w.held = {"ptable"} /\ Same(a, w)
        /\ a \in ModeRecords /\ w \in ModeRecords
    BY <1>1, ModeIn DEF Idle, Mode, Same
  <2> HIDE DEF a, w
  <2>2. With(a, "ptable") \in ModeRecords /\ With(a, "ptable").held = {"ptable"} /\ Same(With(a, "ptable"), a)
    BY <2>1, WithFields DEF Locks
  <2>3. Same(With(a, "ptable"), w)
    BY <2>1, <2>2 DEF Same
  <2> QED
    BY <2>1, <2>2, <2>3, ModeEqual
<1>3. o \in Ops /\ o.op = "sched" /\ o.lk = "ptable" /\ o.state = "ZOMBIE" /\ o.n = NULL
  BY DEF Sched, Ops, Values, Locks
<1> HIDE DEF a, o
<1>4. Runs(<<Acquire("ptable")>>, a, w)
  <2>1. "ptable" \in Locks \ a.held
    BY <1>2 DEF Locks
  <2> HIDE DEF w
  <2> QED
    BY <1>1, <1>2, <2>1, RunsAcquire
<1>5. Goes(o, w, Idle(TRUE))
  BY <1>3 DEF Goes, Schedules
<1>6. Runs(<<o>>, w, Idle(TRUE))
  BY <1>1, <1>3, <1>5, RunsOne
<1> QED
  BY <1>4, <1>6, RunsTwo DEF Exit, a, o

LEMMA RunsCprintf ==
  ASSUME NEW a \in Modes, a.held = {}, ~a.spins, a.wakes = "no"
  PROVE  Runs(Cprintf, a, a)
<1>1. a \in ModeRecords /\ a.sleeps = "no"
  BY ModeIn
<1> DEFINE w == With(a, "cons")
           o == Under("consputs", <<"a", Newline>>, "cons")
<1>2. w \in Modes /\ Runs(<<Acquire("cons")>>, a, w)
  BY <1>1, RunsAcquire DEF Locks
<1>3. w.held = {"cons"} /\ ~w.spins /\ w.sleeps = "no" /\ w.wakes = "no"
  BY <1>1 DEF With, ModeRecords
<1>4. o \in Ops /\ o.op = "consputs" /\ o.lk = "cons" /\ o.n = <<"a", Newline>>
  BY DEF Under, Ops, Values, Locks, OpNames
<1>5. a = [w EXCEPT !.held = @ \ {"cons"}]
  BY <1>1 DEF With, ModeRecords
<1> HIDE DEF w, o
<1>6. Goes(o, w, a)
  BY <1>3, <1>4, <1>5 DEF Goes, Releases, Quiet
<1>7. Runs(<<o>>, w, a)
  BY <1>2, <1>4, <1>6, RunsOne
<1> QED
  BY <1>2, <1>7, RunsTwo DEF Cprintf, o

\* The handler of the clock.
LEMMA RunsTick ==
  ASSUME NEW a \in Modes, a.held = {}, ~a.spins, a.wakes = "no", a.intr
  PROVE  [a EXCEPT !.wakes = "ticks"] \in Modes /\ Runs(Tick, [a EXCEPT !.wakes = "ticks"], a)
<1>1. a \in ModeRecords /\ a.sleeps = "no"
  BY ModeIn
<1> DEFINE m == [a EXCEPT !.wakes = "ticks"]
           w == With(m, "tickslock")
           v == With(a, "tickslock")
           o == Op("tick", 0)
<1>2. /\ m \in Modes /\ m.held = {} /\ ~m.spins /\ m.sleeps = "no"
      /\ v \in Modes /\ v.held = {"tickslock"} /\ ~v.spins /\ v.sleeps = "no" /\ v.wakes = "no" /\ v.intr
  BY <1>1 DEF With, Modes, ModeRecords, Channels, Locks
<1>3. w = [v EXCEPT !.wakes = "ticks"] /\ a = Without(v, "tickslock")
  BY <1>1 DEF With, Without, ModeRecords
<1>4. w.held = {"tickslock"} /\ ~w.spins /\ w.sleeps = "no" /\ w.wakes = "ticks"
  BY <1>1 DEF With, ModeRecords
<1>5. o \in Ops /\ o.op = "tick" /\ o.lk = NULL
  BY DEF Op, Ops, Values, OpNames
<1>6. w \in Modes /\ Runs(<<Acquire("tickslock")>>, m, w)
  <2> HIDE DEF m
  <2> QED
    BY <1>2, RunsAcquire DEF Locks
<1> HIDE DEF w, v, m, o
<1>7. Goes(o, w, w)
  BY <1>4, <1>5 DEF Goes
<1>8. Runs(<<o>>, w, w)
  BY <1>5, <1>6, <1>7, RunsOne
<1>9. Runs(Wakeup("ticks"), w, v)
  BY <1>2, <1>3, RunsWakeup DEF Channels
<1>10. Runs(<<Release("tickslock")>>, v, a)
  BY <1>2, <1>3, RunsRelease
<1>11. Runs(<<Acquire("tickslock"), o>> \o Wakeup("ticks"), m, v)
  BY <1>6, <1>8, <1>9, RunsTwo, RunsCat
<1>12. Runs((<<Acquire("tickslock"), o>> \o Wakeup("ticks")) \o <<Release("tickslock")>>, m, a)
  BY <1>10, <1>11, RunsCat
<1> QED
  BY <1>2, <1>12 DEF Tick, m, o

LEMMA RunsLeave ==
  ASSUME NEW a \in Modes, a.held = {}, ~a.spins, ~a.intr, NEW y \in BOOLEAN
  PROVE  /\ [a EXCEPT !.intr = TRUE] \in Modes
         /\ a.wakes = "no" /\ a.sleeps = "no"
         /\ Runs(<<Op("leave", y), Op("iret", 0)>>, [a EXCEPT !.intr = TRUE], a)
<1>1. a \in ModeRecords /\ a.sleeps = "no" /\ a.wakes = "no"
  BY ModeIn DEF Modes
<1> DEFINE m == [a EXCEPT !.intr = TRUE]
           o == Op("leave", y)
           q == Op("iret", 0)
<1>2. m \in Modes /\ m.held = {} /\ ~m.spins /\ m.intr /\ m.wakes = "no" /\ a = [m EXCEPT !.intr = FALSE]
  BY <1>1 DEF Modes, ModeRecords
<1>3. o \in Ops /\ o.op = "leave" /\ o.lk = NULL /\ o.n \in BOOLEAN
  BY DEF Op, Ops, Values, OpNames
<1>4. q \in Ops /\ q.op = "iret" /\ q.lk = NULL
  BY DEF Op, Ops, Values, OpNames
<1> HIDE DEF m, o, q
<1>5. Goes(o, m, m) /\ Goes(q, m, a)
  BY <1>2, <1>3, <1>4 DEF Goes
<1>6. Runs(<<o>>, m, m) /\ Runs(<<q>>, m, a)
  BY <1>2, <1>3, <1>4, <1>5, RunsOne
<1> QED
  BY <1>1, <1>2, <1>6, RunsTwo DEF m, o, q

\* The handlers, in front of what the context was doing.
LEMMA RunsTraps ==
  ASSUME NEW a \in Modes, a.held = {}, ~a.spins, ~a.intr
  PROVE  /\ \A c \in CPUs : \E b \in Modes :
              /\ b.held = {} /\ ~b.spins /\ b.intr /\ b.exits = a.exits
              /\ Runs(TimerTrap(c), b, a)
         /\ \E b \in Modes :
              /\ b.held = {} /\ ~b.spins /\ b.intr /\ b.exits = a.exits
              /\ Runs(ConsoleTrap, b, a)
<1> DEFINE m == [a EXCEPT !.intr = TRUE]
           w == With(m, "cons")
           o == Under("getc", FALSE, "cons")
<1>1. /\ m \in Modes /\ a.wakes = "no" /\ a.sleeps = "no" /\ a \in ModeRecords
      /\ \A y \in BOOLEAN : Runs(<<Op("leave", y), Op("iret", 0)>>, m, a)
  BY RunsLeave, ModeIn
<1>2. m.held = {} /\ ~m.spins /\ m.intr /\ m.wakes = "no" /\ m.sleeps = "no" /\ m.exits = a.exits
  BY <1>1 DEF ModeRecords
<1>3. w.held = {"cons"} /\ ~w.spins /\ w.intr /\ w.wakes = "no" /\ w.sleeps = "no"
  BY <1>1 DEF ModeRecords, With
<1>4. m = [w EXCEPT !.held = @ \ {"cons"}]
  BY <1>1 DEF ModeRecords, With
<1>5. o \in Ops /\ o.op = "getc" /\ o.lk = "cons" /\ o.n = FALSE
  BY DEF Under, Ops, OpNames, Values, Locks
<1> HIDE DEF m
<1>6. w \in Modes /\ Runs(<<Acquire("cons")>>, m, w)
  BY <1>1, <1>2, RunsAcquire DEF Locks
<1> HIDE DEF o, w
<1>7. Goes(o, w, m)
  BY <1>3, <1>4, <1>5 DEF Goes, Releases, Quiet
<1>8. Runs(<<Acquire("cons"), o>>, m, m)
  BY <1>1, <1>5, <1>6, <1>7, RunsOne, RunsTwo
<1>9. Runs(<<Acquire("cons"), o>> \o <<Op("leave", FALSE), Op("iret", 0)>>, m, a)
  BY <1>1, <1>8, RunsCat
<1>10. ConsoleTrap = <<Acquire("cons"), o>> \o <<Op("leave", FALSE), Op("iret", 0)>>
  <2> DEFINE o3 == Op("leave", FALSE)
             o4 == Op("iret", 0)
             o1 == Acquire("cons")
  <2>1. ConsoleTrap = <<o1, o, o3, o4>>
    BY Zenon DEF ConsoleTrap, o
  <2> HIDE DEF o1, o3, o4
  <2>2. <<o1, o, o3, o4>> = <<o1, o>> \o <<o3, o4>>
    BY FourTuples
  <2> QED
    BY <2>1, <2>2, Zenon DEF o1, o3, o4
<1>11. ASSUME NEW c \in CPUs
       PROVE  \E b \in Modes :
                /\ b.held = {} /\ ~b.spins /\ b.intr /\ b.exits = a.exits
                /\ Runs(TimerTrap(c), b, a)
  <2>1. CASE c = 0
    <3> DEFINE b == [m EXCEPT !.wakes = "ticks"]
    <3>1. b \in Modes /\ Runs(Tick, b, m)
      BY <1>1, <1>2, RunsTick
    <3>2. b.held = {} /\ ~b.spins /\ b.intr /\ b.exits = a.exits
      BY <1>1, <1>2, ModeIn DEF ModeRecords
    <3>3. Runs(Tick \o <<Op("leave", TRUE), Op("iret", 0)>>, b, a)
      BY <1>1, <3>1, RunsCat
    <3> HIDE DEF b
    <3> QED
      BY <2>1, <3>1, <3>2, <3>3 DEF TimerTrap
  <2>2. CASE c # 0
    <3>1. Runs(<<>>, m, m)
      BY <1>1, RunsEmpty
    <3>2. Runs(<<>> \o <<Op("leave", TRUE), Op("iret", 0)>>, m, a)
      BY <1>1, <3>1, RunsCat
    <3> QED
      BY <1>1, <1>2, <2>2, <3>2 DEF TimerTrap
  <2> QED
    BY <2>1, <2>2
<1> QED
  BY <1>1, <1>2, <1>9, <1>10, <1>11

\* sleep(), from consoleread() and sys_sleep().
Asleep(ch) == [Mode({LockOf(ch)}, TRUE) EXCEPT !.sleeps = ch, !.naps = (ch = "ticks")]
Awake(ch) == [Mode({LockOf(ch)}, TRUE) EXCEPT !.naps = (ch = "ticks")]
LEMMA RunsSleep ==
  ASSUME NEW ch \in Channels
  PROVE  Asleep(ch) \in Modes /\ Runs(Sleep(ch, LockOf(ch)), Asleep(ch), Awake(ch))
<1> DEFINE lk == LockOf(ch)
           m2 == With(Asleep(ch), "ptable")
           m3 == Without(m2, lk)
           m4 == [m3 EXCEPT !.sleeps = "no"]
           m5 == Without(m4, "ptable")
           o == Sched("SLEEPING", ch)
<1>1. Asleep(ch) \in Modes /\ Awake(ch) \in Modes /\ lk \in Locks /\ lk # "ptable"
  BY DEF Asleep, Awake, Mode, Modes, ModeRecords, Channels, LockOf, Locks
<1>2. /\ Asleep(ch).held = {lk} /\ ~Asleep(ch).spins /\ Asleep(ch).sleeps = ch /\ lk \in {"cons", "tickslock"}
      /\ "ptable" \in Locks \ Asleep(ch).held
  BY DEF Asleep, Mode, LockOf, Channels, Locks
<1>3. m2 \in Modes /\ Runs(<<Acquire("ptable")>>, Asleep(ch), m2)
  BY <1>1, <1>2, RunsAcquire
<1>4. m2.held = {lk, "ptable"} /\ ~m2.spins /\ m2.sleeps = ch
  BY <1>1, <1>2 DEF With, Asleep, Mode
<1>5. m3 \in Modes /\ Runs(<<Release(lk)>>, m2, m3)
  <2> HIDE DEF m2
  <2> QED
    BY <1>1, <1>3, <1>4, RunsRelease
<1> DEFINE n3 == [Mode({"ptable"}, TRUE) EXCEPT !.sleeps = ch, !.naps = (ch = "ticks")]
           n4 == [Mode({"ptable"}, TRUE) EXCEPT !.naps = (ch = "ticks")]
           n5 == [Mode({}, TRUE) EXCEPT !.naps = (ch = "ticks")]
<1>a. /\ n3 \in Modes /\ n3.held = {"ptable"} /\ Same(n3, Asleep(ch)) /\ Asleep(ch).held = {lk}
      /\ n4 \in Modes /\ n4.held = {"ptable"} /\ Same(n4, Awake(ch)) /\ Awake(ch).held = {lk}
      /\ n5 \in Modes /\ n5.held = {} /\ Same(n5, Awake(ch)) /\ ~n5.spins /\ n5.sleeps = "no"
      /\ ~n4.spins /\ n4.sleeps = "no" /\ n4 = [n3 EXCEPT !.sleeps = "no"]
  <2>1. n3 \in Modes /\ n4 \in Modes /\ n5 \in Modes
    BY DEF Mode, Modes, ModeRecords, LockOf, Channels, Locks
  <2>2. n3.held = {"ptable"} /\ Same(n3, Asleep(ch)) /\ Asleep(ch).held = {lk}
    BY DEF Mode, Same, Asleep
  <2>3. n4.held = {"ptable"} /\ Same(n4, Awake(ch)) /\ Awake(ch).held = {lk} /\ ~n4.spins /\ n4.sleeps = "no"
    BY DEF Mode, Same, Awake
  <2>4. n5.held = {} /\ Same(n5, Awake(ch)) /\ ~n5.spins /\ n5.sleeps = "no"
    BY DEF Mode, Same, Awake
  <2>5. n4 = [n3 EXCEPT !.sleeps = "no"]
    <3> DEFINE m == [n3 EXCEPT !.sleeps = "no"]
    <3>1. m \in ModeRecords /\ Same(m, n4) /\ m.held = n4.held /\ n4 \in ModeRecords
      BY <2>1, ModeIn DEF Mode, ModeRecords, Same
    <3> HIDE DEF m, n4
    <3>2. m = n4
      BY <3>1, ModeEqual
    <3> QED
      BY <3>2 DEF m
  <2> QED
    BY <2>1, <2>2, <2>3, <2>4, <2>5
<1>6. m3 = n3
  <2> HIDE DEF n3
  <2>1. Asleep(ch) \in ModeRecords /\ n3 \in ModeRecords
    BY <1>1, <1>a, ModeIn
  <2>2. m2 \in ModeRecords /\ Same(m2, Asleep(ch)) /\ m2.held = {lk, "ptable"}
    BY <1>1, <1>2, <2>1, WithFields DEF Locks
  <2> HIDE DEF m2
  <2>3. m3 \in ModeRecords /\ Same(m3, m2) /\ m3.held = {"ptable"}
    BY <1>1, <2>2, WithFields
  <2> HIDE DEF m3
  <2>4. Same(m3, n3)
    BY <1>a, <2>2, <2>3 DEF Same
  <2> QED
    BY <1>a, <2>1, <2>3, <2>4, ModeEqual
<1>7. o \in Ops /\ o.op = "sched" /\ o.lk = "ptable" /\ o.state = "SLEEPING" /\ o.n = ch
  BY DEF Sched, Ops, Values, Locks
<1>8. m4 = n4 /\ m4 \in Modes /\ m4.held = {"ptable"} /\ ~m4.spins /\ m4.sleeps = "no"
  <2> HIDE DEF n4, n3, m3
  <2> QED
    BY <1>6, <1>a
<1>9. Runs(<<o>>, m3, m4)
  <2>1. Goes(o, m3, m4)
    <3> HIDE DEF o, m3
    <3> QED
      BY <1>6, <1>7 DEF Goes, Schedules
  <2> QED
    BY <1>5, <1>7, <1>8, <2>1, RunsOne
<1>10. m5 \in Modes /\ Runs(<<Release("ptable")>>, m4, m5)
  <2> HIDE DEF m4
  <2> QED
    BY <1>8, RunsRelease
<1> HIDE DEF m4, n3, n4, n5
<1>11. m5 = n5
  <2>1. n4 \in ModeRecords /\ n5 \in ModeRecords /\ m5 \in ModeRecords
    BY <1>a, <1>10, ModeIn
  <2>2. Same(m5, n4) /\ m5.held = {}
    BY <1>8, <1>a, <2>1, WithFields DEF Locks
  <2>3. Same(m5, n5)
    BY <1>a, <2>2 DEF Same
  <2> QED
    BY <1>a, <2>1, <2>2, <2>3, ModeEqual
<1>12. m5.held = {} /\ ~m5.spins /\ m5.sleeps = "no" /\ With(m5, lk) = Awake(ch)
  <2>1. n5 \in ModeRecords /\ Awake(ch) \in ModeRecords
    BY <1>a, <1>1, ModeIn
  <2>2. With(n5, lk) \in ModeRecords /\ Same(With(n5, lk), n5) /\ With(n5, lk).held = {lk}
    BY <1>a, <1>1, <2>1, WithFields
  <2>3. Same(With(n5, lk), Awake(ch))
    BY <1>a, <2>2 DEF Same
  <2> QED
    BY <1>a, <1>11, <2>1, <2>2, <2>3, ModeEqual
<1> HIDE DEF m5
<1>13. Runs(<<Acquire(lk)>>, m5, Awake(ch))
  BY <1>1, <1>10, <1>12, RunsAcquire
<1> HIDE DEF m2, m3, m4, lk, o
<1>14. Runs(<<o, Release("ptable"), Acquire(lk)>>, m3, Awake(ch))
  BY <1>9, <1>10, <1>13, RunsThree
<1>15. Runs(<<Acquire("ptable"), Release(lk)>> \o <<o, Release("ptable"), Acquire(lk)>>, Asleep(ch), Awake(ch))
  BY <1>3, <1>5, <1>14, RunsTwo, RunsCat
<1>16. Sleep(ch, lk) = <<Acquire("ptable"), Release(lk)>> \o <<o, Release("ptable"), Acquire(lk)>>
  BY DEF Sleep, o
<1> QED
  BY <1>1, <1>15, <1>16 DEF lk

-----------------------------------------------------------------------------
(* The inductive invariant: the CPUs and what their contexts have to do.   *)
CpuRecords == [proc : Procs \cup {NULL}, ncli : Nat, intena : BOOLEAN, if : BOOLEAN]
Positions == 0 .. COLS * ROWS - 1
Rings == [buf : [0 .. INPUT_BUF - 1 -> Keys], r : 0 .. Wrap - 1, w : 0 .. Wrap - 1, e : 0 .. Wrap - 1]
Filled(r, w, e) == Minus(w, r) + Minus(e, w) <= INPUT_BUF
Inputs == {in \in Rings : Filled(in.r, in.w, in.e)}
States == {"RUNNING", "RUNNABLE", "SLEEPING", "ZOMBIE"}

DevTypes ==
  /\ cpu \in [CPUs -> CpuRecords]
  /\ lock \in [Locks -> CPUs \cup {NULL}]
  /\ k \in [Contexts -> Seq(Ops)]
  /\ input \in Inputs /\ pos \in Positions
  /\ state \in [Procs -> States] /\ chan \in [Procs -> Channels \cup {NULL}]
  /\ killed \in [Procs -> BOOLEAN] /\ tickets \in [Procs -> Int]
  /\ ticks \in 0 .. TicksWrap - 1 /\ elapsed \in Nat

\* CPU u, with locks L, runs a context in mode a: ncli counts the locks, and
\* the interrupts are on, or will be, outside of handlers.
One(lk, S) == IF lk \in S THEN 1 ELSE 0
Weight(a) ==
  One("cons", a.held) + One("tickslock", a.held) + One("ptable", a.held) + (IF a.spins THEN 1 ELSE 0)
Fits(u, L, a) ==
  /\ a.held = L
  /\ u.ncli = Weight(a)
  /\ u.if => u.ncli = 0 /\ ~a.intr
  /\ u.ncli > 0 /\ u.intena => ~a.intr
  /\ u.proc # NULL /\ ~a.exits /\ ~a.intr => IF u.ncli = 0 THEN u.if ELSE u.intena

HeldBy(c) == {lk \in Locks : lock[lk] = c}
OnCpu(u, L, s) == \E a \in Modes : Runs(s, a, Idle(u.proc # NULL)) /\ Fits(u, L, a)

\* A process that waits for the scheduler, in sched(): it has kept intena.
Resumes(n, a) ==
  /\ a.held = {"ptable"} /\ ~a.spins
  /\ n => ~a.intr
  /\ ~a.exits /\ ~a.intr => n
OffCpu(s) ==
  /\ s # <<>> /\ Head(s).op = "resume" /\ Head(s).n \in BOOLEAN
  /\ \E a \in Modes : Runs(Tail(s), a, Idle(TRUE)) /\ Resumes(Head(s).n, a)

Waiting == {"RUNNABLE", "SLEEPING"}
Looks(n) == <<Under("slot", n, "ptable")>>
RunInv ==
  /\ \A c \in CPUs : OnCpu(cpu[c], HeldBy(c), k[Ctx(c)])
  /\ \A c \in CPUs : P(c) # NULL => state[P(c)] = "RUNNING" /\ \E n \in Nat : k[SchedulerOf(c)] = Looks(n)
  /\ \A c, d \in CPUs : P(c) = P(d) /\ P(c) # NULL => c = d
  /\ \A p \in Procs : state[p] \in Waiting => OffCpu(k[p])

DevInv == DevTypes /\ RunInv /\ ~panicked

\* pushcli(), popcli() and the modes.
LEMMA FitsAcquire ==
  ASSUME NEW u \in CpuRecords, NEW L, NEW a \in Modes, NEW b \in Modes, Fits(u, L, a), ~a.spins,
         b.intr = a.intr, b.exits = a.exits, NEW lk \in Locks \ a.held,
         \/ b.held = a.held /\ b.spins
         \/ b.held = a.held \cup {lk} /\ ~b.spins
  PROVE  Pushcli(u) \in CpuRecords /\ Pushcli(u).proc = u.proc /\ Fits(Pushcli(u), b.held, b)
<1>1. a \in ModeRecords /\ b \in ModeRecords
  BY ModeIn
<1>2. Weight(b) = Weight(a) + 1 /\ Weight(a) \in Nat
  BY <1>1 DEF Weight, One, Locks, ModeRecords
<1>3. Pushcli(u) \in CpuRecords /\ Pushcli(u).proc = u.proc /\ ~Pushcli(u).if
      /\ Pushcli(u).ncli = u.ncli + 1 /\ Pushcli(u).intena = (IF u.ncli = 0 THEN u.if ELSE u.intena)
  <2>1. /\ Pushcli(u).proc = u.proc /\ ~Pushcli(u).if
        /\ Pushcli(u).ncli = u.ncli + 1 /\ Pushcli(u).intena = (IF u.ncli = 0 THEN u.if ELSE u.intena)
    BY DEF Pushcli, CpuRecords
  <2>2. PICK x \in BOOLEAN : x = IF u.ncli = 0 THEN u.if ELSE u.intena
    BY DEF CpuRecords
  <2>3. Pushcli(u) = [u EXCEPT !.if = FALSE, !.ncli = @ + 1, !.intena = x]
    BY <2>2 DEF Pushcli
  <2>4. Pushcli(u) \in CpuRecords
    <3>1. u.proc \in Procs \cup {NULL} /\ u.ncli + 1 \in Nat
      BY DEF CpuRecords
    <3>2. Pushcli(u) = [proc |-> u.proc, ncli |-> u.ncli + 1, intena |-> x, if |-> FALSE]
      BY <2>3 DEF CpuRecords
    <3> QED
      BY <3>1, <3>2 DEF CpuRecords
  <2> QED
    BY <2>1, <2>4
<1>4. u.ncli \in Nat /\ u.if \in BOOLEAN /\ u.intena \in BOOLEAN
  BY DEF CpuRecords
<1> DEFINE v == Pushcli(u)
<1> HIDE DEF v
<1>5. /\ v.proc = u.proc /\ ~v.if /\ v.ncli = u.ncli + 1
      /\ v.intena = (IF u.ncli = 0 THEN u.if ELSE u.intena)
  BY <1>3 DEF v
<1>6. v.ncli = Weight(b) /\ v.ncli > 0
  BY <1>2, <1>4, <1>5 DEF Fits
<1>7. v.intena => ~b.intr
  BY <1>4, <1>5 DEF Fits
<1>8. v.proc # NULL /\ ~b.exits /\ ~b.intr => v.intena
  BY <1>4, <1>5 DEF Fits
<1>9. Fits(v, b.held, b)
  BY <1>5, <1>6, <1>7, <1>8 DEF Fits
<1> QED
  BY <1>3, <1>9 DEF v

LEMMA FitsSpin ==
  ASSUME NEW u \in CpuRecords, NEW L, NEW a \in Modes, NEW b \in Modes, Fits(u, L, a), a.spins,
         b.intr = a.intr, b.exits = a.exits, NEW lk \in Locks \ a.held,
         b.held = a.held \cup {lk}, ~b.spins
  PROVE  Fits(u, b.held, b)
<1>1. a \in ModeRecords /\ b \in ModeRecords
  BY ModeIn
<1>2. Weight(b) = Weight(a) /\ Weight(a) \in Nat
  BY <1>1 DEF Weight, One, Locks, ModeRecords
<1> QED
  BY <1>1, <1>2 DEF Fits, CpuRecords, ModeRecords

LEMMA FitsRelease ==
  ASSUME NEW u \in CpuRecords, NEW L, NEW a \in Modes, NEW b \in Modes, Fits(u, L, a), ~a.spins,
         b.intr = a.intr, b.exits = a.exits, NEW lk \in a.held,
         b.held = a.held \ {lk}, ~b.spins
  PROVE  /\ ~PopcliBad(u)
         /\ Popcli(u) \in CpuRecords /\ Popcli(u).proc = u.proc /\ Fits(Popcli(u), b.held, b)
<1>1. a \in ModeRecords /\ b \in ModeRecords
  BY ModeIn
<1>2. Weight(b) = Weight(a) - 1 /\ Weight(b) \in Nat
  BY <1>1 DEF Weight, One, Locks, ModeRecords
<1>3. ~PopcliBad(u)
  BY <1>2 DEF Fits, PopcliBad, CpuRecords
<1>4. Popcli(u) \in CpuRecords /\ Popcli(u).proc = u.proc /\ Popcli(u).intena = u.intena
      /\ Popcli(u).ncli = u.ncli - 1 /\ Popcli(u).if = (u.ncli = 1 /\ u.intena)
  BY <1>2 DEF Popcli, CpuRecords, Fits
<1> QED
  BY <1>1, <1>2, <1>3, <1>4 DEF Fits, CpuRecords, ModeRecords

LEMMA FitsOther ==
  ASSUME NEW u, NEW L, NEW a \in Modes, NEW b \in Modes, Fits(u, L, a),
         b.intr = a.intr, b.exits = a.exits, b.held = a.held, b.spins = a.spins
  PROVE  Fits(u, L, b)
BY DEF Fits, Weight

\* The contexts of CPUs are different ones.
LEMMA Contexts1 ==
  ASSUME DevTypes, RunInv, NEW c \in CPUs
  PROVE  /\ Ctx(c) \in Contexts /\ SchedulerOf(c) \in Contexts /\ SchedulerOf(c) \notin Procs
         /\ P(c) # NULL => P(c) \in Procs /\ Ctx(c) = P(c)
         /\ P(c) = NULL => Ctx(c) = SchedulerOf(c)
         /\ \A p \in Procs : p \in Contexts
         /\ \A d \in CPUs \ {c} : Ctx(d) # Ctx(c) /\ SchedulerOf(d) # SchedulerOf(c)
         /\ \A p \in Procs : state[p] \in Waiting => Ctx(c) # p
<1>1. cpu[c] \in CpuRecords /\ cpu[c].proc \in Procs \cup {NULL} /\ \A d \in CPUs : cpu[d].proc \in Procs \cup {NULL}
  BY DEF DevTypes, CpuRecords
<1>2. NULL \notin Procs
  BY SpinlockAssumption DEF Procs
<1>3. \A d \in CPUs : SchedulerOf(d) \in Contexts /\ SchedulerOf(d) \notin Procs
  BY SpinlockAssumption DEF SchedulerOf, Procs, Contexts, CPUs
<1>4. \A d \in CPUs \ {c} : SchedulerOf(d) # SchedulerOf(c)
  BY SpinlockAssumption DEF SchedulerOf, CPUs
<1>5. \A p \in Procs : p \in Contexts
  BY SpinlockAssumption DEF Procs, Contexts
<1>6. \A d \in CPUs \ {c} : Ctx(d) # Ctx(c)
  BY <1>1, <1>2, <1>3, <1>4 DEF Ctx, RunInv, P
<1>7. \A p \in Procs : state[p] \in Waiting => Ctx(c) # p
  BY <1>1, <1>3 DEF Ctx, RunInv, P, Waiting
<1> QED
  BY <1>1, <1>2, <1>3, <1>4, <1>5, <1>6, <1>7 DEF Ctx, P

\* A step of c that stays in its context.
Keeps ==
  /\ state' \in [Procs -> States]
  /\ \A p \in Procs : (state'[p] = "RUNNING" <=> state[p] = "RUNNING") /\ (state'[p] \in Waiting => state[p] \in Waiting)
LEMMA CpuStep ==
  ASSUME DevTypes, RunInv, NEW c \in CPUs, NEW u \in CpuRecords, NEW s \in Seq(Ops),
         u.proc = cpu[c].proc, cpu' = [cpu EXCEPT ![c] = u], k' = [k EXCEPT ![Ctx(c)] = s],
         \A d \in CPUs \ {c} : HeldBy(d)' = HeldBy(d),
         OnCpu(u, HeldBy(c)', s), Keeps
  PROVE  RunInv' /\ cpu' \in [CPUs -> CpuRecords] /\ k' \in [Contexts -> Seq(Ops)]
<1>1. \A d \in CPUs : P(d)' = P(d) /\ Ctx(d)' = Ctx(d)
  BY DEF P, Ctx, DevTypes
<1>2. cpu' \in [CPUs -> CpuRecords] /\ k' \in [Contexts -> Seq(Ops)]
  BY DEF DevTypes
<1>3. /\ Ctx(c) \in Contexts
      /\ \A d \in CPUs : SchedulerOf(d) \in Contexts /\ (P(d) # NULL => P(d) \in Procs)
      /\ \A p \in Procs : p \in Contexts
      /\ \A d \in CPUs \ {c} : Ctx(d) # Ctx(c)
      /\ \A p \in Procs : state[p] \in Waiting => Ctx(c) # p
  BY Contexts1
<1>4. k'[Ctx(c)] = s /\ \A x \in Contexts : x # Ctx(c) => k'[x] = k[x]
  BY <1>3 DEF DevTypes
<1>5. ASSUME NEW d \in CPUs PROVE OnCpu(cpu[d], HeldBy(d), k[Ctx(d)])'
  <2>1. CASE d = c
    <3>1. cpu'[d] = u /\ k'[Ctx(d)'] = s
      BY <1>1, <1>4, <2>1 DEF DevTypes
    <3>2. OnCpu(cpu'[d], HeldBy(d)', k'[Ctx(d)'])
      BY <2>1, <3>1
    <3> QED
      BY <3>2 DEF OnCpu
  <2>2. CASE d # c
    <3>1. Ctx(d) \in Contexts
      BY Contexts1
    <3>2. cpu'[d] = cpu[d] /\ k'[Ctx(d)'] = k[Ctx(d)] /\ HeldBy(d)' = HeldBy(d)
      BY <1>1, <1>3, <1>4, <2>2, <3>1 DEF DevTypes
    <3>3. OnCpu(cpu[d], HeldBy(d), k[Ctx(d)])
      BY DEF RunInv
    <3>4. OnCpu(cpu'[d], HeldBy(d)', k'[Ctx(d)'])
      BY <3>2, <3>3
    <3> QED
      BY <3>4 DEF OnCpu
  <2> QED
    BY <2>1, <2>2
<1>6. ASSUME NEW d \in CPUs, P(d)' # NULL
      PROVE  state'[P(d)'] = "RUNNING" /\ \E n \in Nat : k'[SchedulerOf(d)] = Looks(n)
  <2>1. P(d) # NULL /\ P(d) \in Procs /\ state[P(d)] = "RUNNING"
    BY <1>1, <1>3, <1>6 DEF RunInv
  <2>2. PICK n \in Nat : k[SchedulerOf(d)] = Looks(n)
    BY <2>1 DEF RunInv
  <2>3. Ctx(c) # SchedulerOf(d)
    <3>1. CASE P(c) = NULL
      <4>1. d # c
        BY <2>1, <3>1
      <4> QED
        BY <3>1, <4>1, Contexts1
    <3>2. CASE P(c) # NULL
      BY <3>2, Contexts1
    <3> QED
      BY <3>1, <3>2
  <2>4. k'[SchedulerOf(d)] = k[SchedulerOf(d)]
    BY <1>3, <1>4, <2>3
  <2> QED
    BY <1>1, <2>1, <2>2, <2>4 DEF Keeps
<1>7. \A d, e \in CPUs : P(d)' = P(e)' /\ P(d)' # NULL => d = e
  BY <1>1 DEF RunInv
<1>8. ASSUME NEW p \in Procs, state'[p] \in Waiting PROVE OffCpu(k'[p])
  <2>1. state[p] \in Waiting
    BY <1>8 DEF Keeps
  <2>2. k'[p] = k[p]
    BY <1>3, <1>4, <2>1
  <2> QED
    BY <2>1, <2>2 DEF RunInv
<1>9. ASSUME NEW d \in CPUs, P(d)' # NULL
      PROVE (state[P(d)] = "RUNNING" /\ \E n \in Nat : k[SchedulerOf(d)] = Looks(n))'
  BY <1>6, <1>9 DEF SchedulerOf, Looks, Under
<1>10. ASSUME NEW p \in Procs, state'[p] \in Waiting PROVE OffCpu(k[p])'
  BY <1>8, <1>10 DEF OffCpu
<1> QED
  BY <1>2, <1>5, <1>7, <1>9, <1>10 DEF RunInv

\* Where c is.
LEMMA AtHead ==
  ASSUME DevTypes, RunInv, NEW c \in CPUs, k[Ctx(c)] # <<>>
  PROVE  /\ cpu[c] \in CpuRecords /\ Ctx(c) \in Contexts /\ k[Ctx(c)] \in Seq(Ops) /\ O(c) \in Ops
         /\ Tail(k[Ctx(c)]) \in Seq(Ops)
         /\ \E a, b \in Modes :
              /\ Fits(cpu[c], HeldBy(c), a) /\ Goes(O(c), a, b)
              /\ Runs(k[Ctx(c)], a, Idle(P(c) # NULL))
              /\ Runs(Tail(k[Ctx(c)]), b, Idle(P(c) # NULL))
<1>1. PICK a \in Modes : Runs(k[Ctx(c)], a, Idle(P(c) # NULL)) /\ Fits(cpu[c], HeldBy(c), a)
  BY DEF RunInv, OnCpu, P
<1>2. PICK b \in Modes : Goes(O(c), a, b) /\ Runs(Tail(k[Ctx(c)]), b, Idle(P(c) # NULL))
  BY <1>1, RunsHead DEF O
<1>3. k[Ctx(c)] \in Seq(Ops) /\ O(c) \in Ops /\ Tail(k[Ctx(c)]) \in Seq(Ops)
  BY <1>1, RunsHead DEF O
<1>4. cpu[c] \in CpuRecords /\ Ctx(c) \in Contexts
  BY Contexts1 DEF DevTypes
<1> QED
  BY <1>1, <1>2, <1>3, <1>4

\* What the steps of a context have in common.
Types3 == cpu' \in [CPUs -> CpuRecords] /\ k' \in [Contexts -> Seq(Ops)] /\ lock' \in [Locks -> CPUs \cup {NULL}]

LEMMA ReleaseTo ==
  ASSUME DevTypes, RunInv, NEW c \in CPUs, NEW a \in Modes, NEW b \in Modes, NEW lk \in a.held,
         Fits(cpu[c], HeldBy(c), a), ~a.spins, ~b.spins, b.held = a.held \ {lk},
         b.intr = a.intr, b.exits = a.exits, NEW bad \in BOOLEAN, ~bad, ReleaseLock(c, lk, bad),
         NEW s, k' = [k EXCEPT ![Ctx(c)] = s], Runs(s, b, Idle(P(c) # NULL)), Keeps
  PROVE  RunInv' /\ Types3 /\ ~panicked'
<1> DEFINE u == Popcli(cpu[c])
<1>1. cpu[c] \in CpuRecords /\ s \in Seq(Ops) /\ NULL \notin CPUs
  BY SpinlockAssumption DEF DevTypes, Runs, CPUs
<1>2. a \in ModeRecords /\ lk \in Locks
  BY ModeIn DEF ModeRecords
<1>3. ~PopcliBad(cpu[c]) /\ u \in CpuRecords /\ u.proc = cpu[c].proc /\ Fits(u, b.held, b)
  BY <1>1, FitsRelease
<1>4. lock[lk] = c /\ HeldBy(c) = a.held
  BY DEF Fits, HeldBy
<1>5. lock' = [lock EXCEPT ![lk] = NULL] /\ cpu' = [cpu EXCEPT ![c] = u]
  BY DEF ReleaseLock
<1>6. HeldBy(c)' = b.held /\ \A d \in CPUs \ {c} : HeldBy(d)' = HeldBy(d)
  BY <1>1, <1>2, <1>4, <1>5 DEF HeldBy, DevTypes
<1>7. OnCpu(u, HeldBy(c)', s)
  BY <1>3, <1>6 DEF OnCpu, P
<1> HIDE DEF u
<1>8. RunInv' /\ cpu' \in [CPUs -> CpuRecords] /\ k' \in [Contexts -> Seq(Ops)]
  BY <1>1, <1>3, <1>5, <1>6, <1>7, CpuStep
<1>9. lock' \in [Locks -> CPUs \cup {NULL}]
  BY <1>2, <1>5 DEF DevTypes
<1>10. ~panicked'
  BY <1>3, <1>4 DEF ReleaseLock, Holding
<1> QED
  BY <1>8, <1>9, <1>10 DEF Types3

LEMMA GoTo ==
  ASSUME DevTypes, RunInv, NEW c \in CPUs, NEW b \in Modes, NEW u \in CpuRecords,
         Fits(u, HeldBy(c), b), u.proc = cpu[c].proc,
         NEW s, k' = [k EXCEPT ![Ctx(c)] = s], Runs(s, b, Idle(P(c) # NULL)), Keeps,
         cpu' = [cpu EXCEPT ![c] = u], UNCHANGED lock
  PROVE  RunInv' /\ Types3
<1>1. s \in Seq(Ops)
  BY DEF Runs
<1>2. \A d \in CPUs : HeldBy(d)' = HeldBy(d)
  BY DEF HeldBy
<1>3. OnCpu(u, HeldBy(c)', s)
  BY <1>2 DEF OnCpu, P
<1>4. RunInv' /\ cpu' \in [CPUs -> CpuRecords] /\ k' \in [Contexts -> Seq(Ops)]
  BY <1>1, <1>2, <1>3, CpuStep
<1>5. lock' \in [Locks -> CPUs \cup {NULL}]
  BY DEF DevTypes
<1> QED
  BY <1>4, <1>5 DEF Types3

LEMMA StayTo ==
  ASSUME DevTypes, RunInv, NEW c \in CPUs, NEW b \in Modes, Fits(cpu[c], HeldBy(c), b),
         NEW s, k' = [k EXCEPT ![Ctx(c)] = s], Runs(s, b, Idle(P(c) # NULL)), Keeps,
         UNCHANGED <<cpu, lock>>
  PROVE  RunInv' /\ Types3
<1>1. cpu[c] \in CpuRecords /\ cpu' = [cpu EXCEPT ![c] = cpu[c]]
  BY DEF DevTypes
<1> QED
  BY <1>1, GoTo

LEMMA KeepsSame ==
  ASSUME DevTypes, UNCHANGED state
  PROVE  Keeps
BY DEF Keeps, DevTypes

\* acquire() and release().
LEMMA AcquireLemma ==
  ASSUME DevInv, NEW c \in CPUs, AcquireStep(c), Keeps
  PROVE  RunInv' /\ Types3 /\ ~panicked'
<1> DEFINE o == O(c)
           lk == o.lk
           t == Tail(k[Ctx(c)])
           u == Pushcli(cpu[c])
<1>1. k[Ctx(c)] # <<>> /\ o.op = "acquire" /\ DevTypes /\ RunInv
  BY DEF AcquireStep, At, O, DevInv
<1>2. PICK a, b \in Modes : /\ Fits(cpu[c], HeldBy(c), a) /\ Goes(o, a, b)
                            /\ Runs(k[Ctx(c)], a, Idle(P(c) # NULL)) /\ Runs(t, b, Idle(P(c) # NULL))
  BY <1>1, AtHead
<1>3. cpu[c] \in CpuRecords /\ Ctx(c) \in Contexts /\ o \in Ops /\ t \in Seq(Ops)
  BY <1>1, AtHead
<1>4. /\ lk \in Locks \ a.held
      /\ a.held = {} \/ (lk = "ptable" /\ a.held \in {{"cons"}, {"tickslock"}})
      /\ ~a.spins /\ b = With(a, lk)
  BY <1>1, <1>2 DEF Goes, Releases, Schedules, With
<1>5. a \in ModeRecords /\ b \in ModeRecords
  BY ModeIn
<1>6. HeldBy(c) = a.held /\ ~Holding(c, lk)
  BY <1>2, <1>4 DEF Fits, HeldBy, Holding
<1>7. /\ cpu' = [cpu EXCEPT ![c] = u] /\ panicked' = Holding(c, lk)
      /\ IF Xchg(lk) THEN lock' = [lock EXCEPT ![lk] = c] /\ Continue(c, <<>>)
         ELSE Continue(c, <<[o EXCEPT !.op = "xchg"]>>) /\ UNCHANGED lock
  BY DEF AcquireStep, O
<1>8. CASE Xchg(lk)
  <2>1. /\ b.held = a.held \cup {lk} /\ ~b.spins /\ b.intr = a.intr /\ b.exits = a.exits
    BY <1>4, <1>5 DEF With, ModeRecords
  <2>2. u \in CpuRecords /\ u.proc = cpu[c].proc /\ Fits(u, b.held, b)
    <3> HIDE DEF lk, o, t
    <3> QED
      BY <1>2, <1>3, <1>4, <2>1, FitsAcquire
  <2>3. HeldBy(c)' = b.held /\ \A d \in CPUs \ {c} : HeldBy(d)' = HeldBy(d)
    <3>1. lock[lk] = NULL /\ NULL \notin CPUs /\ lock' = [lock EXCEPT ![lk] = c]
      BY <1>7, <1>8, SpinlockAssumption DEF Xchg, CPUs
    <3> HIDE DEF lk
    <3> QED
      BY <1>1, <1>4, <1>6, <2>1, <3>1 DEF HeldBy, DevTypes
  <2>4. k' = [k EXCEPT ![Ctx(c)] = t]
    <3>1. <<>> \o t = t
      BY <1>3
    <3>2. k' = [k EXCEPT ![Ctx(c)] = <<>> \o t]
      BY <1>7, <1>8 DEF Continue
    <3> QED
      BY <3>1, <3>2
  <2>5. OnCpu(u, HeldBy(c)', t)
    BY <1>2, <2>2, <2>3 DEF OnCpu, P
  <2>6. lock' \in [Locks -> CPUs \cup {NULL}]
    BY <1>1, <1>4, <1>7, <1>8 DEF DevTypes
  <2> HIDE DEF u, t
  <2>7. RunInv' /\ cpu' \in [CPUs -> CpuRecords] /\ k' \in [Contexts -> Seq(Ops)]
    BY <1>1, <1>3, <1>7, <2>2, <2>3, <2>4, <2>5, CpuStep
  <2> QED
    BY <1>6, <1>7, <2>6, <2>7 DEF Types3
<1>9. CASE ~Xchg(lk)
  <2> DEFINE m == [a EXCEPT !.spins = TRUE]
             x == [o EXCEPT !.op = "xchg"]
             s == <<x>> \o t
  <2>1. /\ m \in Modes /\ m.held = a.held /\ m.spins /\ m.intr = a.intr /\ m.exits = a.exits
        /\ b = With(m, lk)
    BY <1>4, <1>5 DEF Modes, ModeRecords, With
  <2>2. u \in CpuRecords /\ u.proc = cpu[c].proc /\ Fits(u, m.held, m)
    <3> HIDE DEF m
    <3> QED
      BY <1>2, <1>3, <1>4, <2>1, FitsAcquire
  <2>3. x \in Ops /\ x.op = "xchg" /\ x.lk = lk
    <3>1. o \in [op : OpNames, n : Values, lk : Locks \cup {NULL}]
      BY <1>1, <1>3 DEF Ops
    <3> QED
      BY <3>1 DEF Ops, OpNames
  <2>4. Goes(x, m, b)
    <3> HIDE DEF x, m
    <3> QED
      BY <1>4, <2>1, <2>3 DEF Goes, With
  <2>5. Runs(s, m, Idle(P(c) # NULL))
    <3> HIDE DEF x, m, t
    <3> QED
      BY <1>2, <2>1, <2>3, <2>4, RunsOne, RunsCat
  <2>6. k' = [k EXCEPT ![Ctx(c)] = s] /\ lock' = lock
    BY <1>7, <1>9 DEF Continue
  <2>7. Fits(u, HeldBy(c), m)
    BY <1>6, <2>1, <2>2
  <2> HIDE DEF u, m, s
  <2>8. RunInv' /\ Types3
    BY <1>1, <1>7, <2>1, <2>2, <2>5, <2>6, <2>7, GoTo
  <2> QED
    BY <1>6, <1>7, <2>8
<1> QED
  BY <1>8, <1>9

LEMMA SpinLemma ==
  ASSUME DevInv, NEW c \in CPUs, SpinStep(c), Keeps
  PROVE  RunInv' /\ Types3 /\ ~panicked'
<1> DEFINE o == O(c)
           lk == o.lk
           t == Tail(k[Ctx(c)])
<1>1. k[Ctx(c)] # <<>> /\ o.op = "xchg" /\ DevTypes /\ RunInv /\ ~panicked
  BY DEF SpinStep, At, O, DevInv
<1>2. PICK a, b \in Modes : /\ Fits(cpu[c], HeldBy(c), a) /\ Goes(o, a, b)
                            /\ Runs(k[Ctx(c)], a, Idle(P(c) # NULL)) /\ Runs(t, b, Idle(P(c) # NULL))
  BY <1>1, AtHead
<1>3. cpu[c] \in CpuRecords /\ Ctx(c) \in Contexts /\ o \in Ops /\ t \in Seq(Ops)
  BY <1>1, AtHead
<1>4. lk \in Locks \ a.held /\ a.spins /\ b = With(a, lk)
  BY <1>1, <1>2 DEF Goes, Releases, Schedules, With
<1>5. a \in ModeRecords /\ b \in ModeRecords
  BY ModeIn
<1>6. HeldBy(c) = a.held
  BY <1>2 DEF Fits
<1>7. Xchg(lk) /\ cpu' = cpu /\ panicked' = panicked /\ lock' = [lock EXCEPT ![lk] = c] /\ Continue(c, <<>>)
  BY DEF SpinStep, O
<1>8. b.held = a.held \cup {lk} /\ ~b.spins /\ b.intr = a.intr /\ b.exits = a.exits
  BY <1>4, <1>5 DEF With, ModeRecords
<1>9. Fits(cpu[c], b.held, b)
  <2> HIDE DEF lk, o, t
  <2> QED
    BY <1>2, <1>3, <1>4, <1>8, FitsSpin
<1>10. HeldBy(c)' = b.held /\ \A d \in CPUs \ {c} : HeldBy(d)' = HeldBy(d)
  <2>1. lock[lk] = NULL /\ NULL \notin CPUs
    BY <1>7, SpinlockAssumption DEF Xchg, CPUs
  <2> HIDE DEF lk
  <2> QED
    BY <1>1, <1>4, <1>6, <1>7, <1>8, <2>1 DEF HeldBy, DevTypes
<1>11. k' = [k EXCEPT ![Ctx(c)] = t]
  <2>1. <<>> \o t = t
    BY <1>3
  <2>2. k' = [k EXCEPT ![Ctx(c)] = <<>> \o t]
    BY <1>7 DEF Continue
  <2> QED
    BY <2>1, <2>2
<1>12. OnCpu(cpu[c], HeldBy(c)', t)
  BY <1>2, <1>9, <1>10 DEF OnCpu, P
<1>13. lock' \in [Locks -> CPUs \cup {NULL}] /\ cpu' = [cpu EXCEPT ![c] = cpu[c]]
  BY <1>1, <1>4, <1>7 DEF DevTypes
<1> HIDE DEF t, o, lk
<1>14. RunInv' /\ cpu' \in [CPUs -> CpuRecords] /\ k' \in [Contexts -> Seq(Ops)]
  BY <1>1, <1>3, <1>10, <1>11, <1>12, <1>13, CpuStep
<1> QED
  BY <1>1, <1>7, <1>13, <1>14 DEF Types3

\* Operations that end with a release().
DoneOps == {"release", "wakeup", "sys_sleep", "ticks0", "consoleread", "kill", "change_tickets",
            "consputs", "getc", "slot"}
LEMMA GoesDone ==
  ASSUME NEW o, NEW a \in Modes, NEW b \in Modes, Goes(o, a, b), o.op \in DoneOps
  PROVE  /\ o.lk \in a.held /\ ~a.spins /\ b.held = a.held \ {o.lk} /\ ~b.spins
         /\ b.intr = a.intr /\ b.exits = a.exits
<1>1. a \in ModeRecords /\ b \in ModeRecords
  BY ModeIn
<1>2. CASE o.lk \in a.held /\ ~a.spins /\ Releases(o, a) /\ b = [a EXCEPT !.held = @ \ {o.lk}]
  BY <1>1, <1>2 DEF ModeRecords
<1>3. CASE /\ o.op = "wakeup" /\ o.lk = "ptable" /\ "ptable" \in a.held /\ ~a.spins
           /\ b = [a EXCEPT !.held = @ \ {"ptable"}, !.wakes = "no"]
  BY <1>1, <1>3 DEF ModeRecords
<1>4. CASE /\ o.op = "sys_sleep" /\ o.lk = "tickslock"
           /\ a = [Mode({"tickslock"}, TRUE) EXCEPT !.naps = TRUE] /\ b = Idle(TRUE)
  BY <1>1, <1>4 DEF Mode, Idle
<1> QED
  BY <1>2, <1>3, <1>4 DEF Goes, DoneOps, Schedules

LEMMA DoneLemma ==
  ASSUME DevInv, NEW c \in CPUs, k[Ctx(c)] # <<>>, O(c).op \in DoneOps, Keeps,
         NEW bad \in BOOLEAN, ~bad, Done(c, bad)
  PROVE  RunInv' /\ Types3 /\ ~panicked'
<1> DEFINE o == O(c)
           t == Tail(k[Ctx(c)])
<1>1. DevTypes /\ RunInv
  BY DEF DevInv
<1>2. PICK a, b \in Modes : /\ Fits(cpu[c], HeldBy(c), a) /\ Goes(o, a, b)
                            /\ Runs(k[Ctx(c)], a, Idle(P(c) # NULL)) /\ Runs(t, b, Idle(P(c) # NULL))
  BY <1>1, AtHead
<1>3. t \in Seq(Ops)
  BY <1>1, AtHead
<1>4. /\ o.lk \in a.held /\ ~a.spins /\ b.held = a.held \ {o.lk} /\ ~b.spins
      /\ b.intr = a.intr /\ b.exits = a.exits
  BY <1>2, GoesDone
<1>5. ReleaseLock(c, o.lk, bad)
  BY DEF Done, O
<1>6. k' = [k EXCEPT ![Ctx(c)] = t]
  <2>1. <<>> \o t = t
    BY <1>3
  <2>2. k' = [k EXCEPT ![Ctx(c)] = <<>> \o t]
    BY DEF Continue, Done
  <2> QED
    BY <2>1, <2>2
<1>7. PICK lk \in a.held : lk = o.lk
  BY <1>4
<1>8. ReleaseLock(c, lk, bad) /\ b.held = a.held \ {lk}
  BY <1>4, <1>5, <1>7
<1> HIDE DEF o, t
<1> QED
  BY <1>1, <1>2, <1>4, <1>6, <1>8, ReleaseTo

\* An operation that leaves locks and interrupts alone, and goes on with ops.
LEMMA ContinueLemma ==
  ASSUME DevInv, NEW c \in CPUs, k[Ctx(c)] # <<>>, Keeps, NEW ops, Continue(c, ops), UNCHANGED <<cpu, lock>>,
         \A a, b \in Modes :
           Fits(cpu[c], HeldBy(c), a) /\ Goes(O(c), a, b) /\ Runs(Tail(k[Ctx(c)]), b, Idle(P(c) # NULL))
             => \E d \in Modes : Fits(cpu[c], HeldBy(c), d) /\ Runs(ops, d, b)
  PROVE  RunInv' /\ Types3
<1> DEFINE o == O(c)
           t == Tail(k[Ctx(c)])
<1>1. DevTypes /\ RunInv
  BY DEF DevInv
<1>2. PICK a, b \in Modes : /\ Fits(cpu[c], HeldBy(c), a) /\ Goes(o, a, b)
                            /\ Runs(k[Ctx(c)], a, Idle(P(c) # NULL)) /\ Runs(t, b, Idle(P(c) # NULL))
  BY <1>1, AtHead
<1>3. PICK d \in Modes : Fits(cpu[c], HeldBy(c), d) /\ Runs(ops, d, b)
  BY <1>2
<1>4. k' = [k EXCEPT ![Ctx(c)] = ops \o t]
  BY DEF Continue
<1>5. Runs(ops \o t, d, Idle(P(c) # NULL))
  BY <1>2, <1>3, RunsCat
<1> HIDE DEF o, t
<1> QED
  BY <1>1, <1>3, <1>4, <1>5, StayTo

-----------------------------------------------------------------------------
(* Folds and recursive functions over the first n numbers exist, and go    *)
(* from one number to the next.                                            *)
LEMMA MaxTop ==
  ASSUME NEW m \in Nat, NEW s \in SUBSET (1 .. m + 1), m + 1 \in s
  PROVE  Max(s) = m + 1
<1>1. \A x \in s : (\A y \in s : x >= y) => x = m + 1
  OBVIOUS
<1>2. \A y \in s : m + 1 >= y
  OBVIOUS
<1> QED
  BY <1>1, <1>2, Zenon DEF Max

LEMMA MaxIn ==
  ASSUME NEW n \in Nat, NEW u \in SUBSET (1 .. n), u # {}
  PROVE  Max(u) \in u
<1> DEFINE T == {m \in Nat : \A v \in SUBSET (1 .. m) : v # {} => Max(v) \in v}
<1>1. 0 \in T
  <2>1. \A i \in 1 .. 0 : FALSE
    OBVIOUS
  <2>2. \A v \in SUBSET (1 .. 0) : v = {}
    BY <2>1
  <2> QED
    BY <2>2
<1>2. ASSUME NEW m \in T PROVE m + 1 \in T
  <2>1. m \in Nat
    OBVIOUS
  <2>2. ASSUME NEW v \in SUBSET (1 .. m + 1), v # {} PROVE Max(v) \in v
    <3>1. CASE m + 1 \in v
      BY <2>1, <3>1, MaxTop
    <3>2. CASE m + 1 \notin v
      <4>1. v \in SUBSET (1 .. m)
        BY <2>1, <3>2
      <4> QED
        BY <2>2, <4>1
    <3> QED
      BY <3>1, <3>2
  <2> QED
    BY <2>1, <2>2
<1>3. T \in SUBSET Nat
  OBVIOUS
<1> HIDE DEF T
<1>4. n \in T
  BY <1>1, <1>2, <1>3, Induction
<1> QED
  BY <1>4 DEF T

FoldOf(f, n, base, G) ==
  f = [u \in SUBSET (1 .. n) |-> IF u = {} THEN base ELSE G[<<f[u \ {Max(u)}], Max(u)>>]]
HasFold(m, A, base, G) == \E f \in [SUBSET (1 .. m) -> A] : FoldOf(f, m, base, G)

LEMMA FoldsZero ==
  ASSUME NEW A, NEW base \in A, NEW G
  PROVE  HasFold(0, A, base, G)
<1> DEFINE f == [u \in SUBSET (1 .. 0) |-> base]
<1>1. f \in [SUBSET (1 .. 0) -> A]
  OBVIOUS
<1>2. ASSUME NEW u \in SUBSET (1 .. 0) PROVE u = {}
  <2>1. \A i \in 1 .. 0 : FALSE
    OBVIOUS
  <2> QED
    BY <2>1
<1>3. f = [u \in SUBSET (1 .. 0) |-> IF u = {} THEN base ELSE G[<<f[u \ {Max(u)}], Max(u)>>]]
  BY <1>2
<1> HIDE DEF f
<1>4. FoldOf(f, 0, base, G)
  BY <1>3 DEF FoldOf
<1> QED
  BY <1>1, <1>4 DEF HasFold

LEMMA FoldsNext ==
  ASSUME NEW m \in Nat, NEW n \in Nat, m + 1 <= n, NEW A, NEW base \in A,
         NEW G \in [A \X (1 .. n) -> A], HasFold(m, A, base, G)
  PROVE  HasFold(m + 1, A, base, G)
<1>1. m + 1 \in 1 .. n
  OBVIOUS
<1>2. PICK g \in [SUBSET (1 .. m) -> A] : FoldOf(g, m, base, G)
  BY DEF HasFold
<1> DEFINE f == [u \in SUBSET (1 .. m + 1) |-> IF m + 1 \in u THEN G[<<g[u \ {m + 1}], m + 1>>] ELSE g[u]]
<1>3. \A u \in SUBSET (1 .. m + 1) : /\ u \ {m + 1} \in SUBSET (1 .. m)
                                     /\ m + 1 \notin u => u \in SUBSET (1 .. m)
  OBVIOUS
<1>4. f \in [SUBSET (1 .. m + 1) -> A]
  <2>1. ASSUME NEW u \in SUBSET (1 .. m + 1) PROVE (IF m + 1 \in u THEN G[<<g[u \ {m + 1}], m + 1>>] ELSE g[u]) \in A
    <3>1. g[u \ {m + 1}] \in A /\ (m + 1 \notin u => g[u] \in A)
      BY <1>2, <1>3
    <3>2. <<g[u \ {m + 1}], m + 1>> \in A \X (1 .. n)
      BY <1>1, <3>1
    <3> QED
      BY <3>1, <3>2
  <2> QED
    BY <2>1
<1>5. ASSUME NEW u \in SUBSET (1 .. m + 1)
      PROVE  f[u] = IF u = {} THEN base ELSE G[<<f[u \ {Max(u)}], Max(u)>>]
  <2>1. CASE m + 1 \in u
    <3>1. Max(u) = m + 1
      BY <2>1, MaxTop
    <3>2. f[u] = G[<<g[u \ {m + 1}], m + 1>>]
      BY <2>1
    <3>3. u \ {m + 1} \in SUBSET (1 .. m + 1) /\ m + 1 \notin u \ {m + 1}
      OBVIOUS
    <3>4. f[u \ {m + 1}] = g[u \ {m + 1}]
      BY <3>3
    <3> HIDE DEF f
    <3> QED
      BY <2>1, <3>1, <3>2, <3>4
  <2>2. CASE m + 1 \notin u
    <3>1. f[u] = g[u] /\ u \in SUBSET (1 .. m)
      BY <1>3, <2>2
    <3>2. g[u] = IF u = {} THEN base ELSE G[<<g[u \ {Max(u)}], Max(u)>>]
      <4>1. g = [v \in SUBSET (1 .. m) |-> IF v = {} THEN base ELSE G[<<g[v \ {Max(v)}], Max(v)>>]]
        BY <1>2 DEF FoldOf
      <4> QED
        BY <3>1, <4>1
    <3>3. u \ {Max(u)} \in SUBSET (1 .. m + 1) /\ m + 1 \notin u \ {Max(u)}
      BY <2>2
    <3>4. f[u \ {Max(u)}] = g[u \ {Max(u)}]
      BY <3>3
    <3> HIDE DEF f
    <3> QED
      BY <3>1, <3>2, <3>4
  <2> QED
    BY <2>1, <2>2
<1>6. FoldOf(f, m + 1, base, G)
  <2>1. f = [u \in SUBSET (1 .. m + 1) |-> f[u]]
    BY <1>4
  <2> HIDE DEF f
  <2> QED
    BY <1>5, <2>1 DEF FoldOf
<1> HIDE DEF f
<1> QED
  BY <1>4, <1>6 DEF HasFold

LEMMA FoldExists ==
  ASSUME NEW n \in Nat, NEW A, NEW base \in A, NEW G \in [A \X (1 .. n) -> A]
  PROVE  HasFold(n, A, base, G)
<1> DEFINE T == {m \in Nat : m <= n => HasFold(m, A, base, G)}
<1>1. 0 \in T
  BY FoldsZero
<1>2. ASSUME NEW m \in T PROVE m + 1 \in T
  <2>1. m \in Nat /\ (m + 1 <= n => HasFold(m, A, base, G))
    OBVIOUS
  <2>2. m + 1 <= n => HasFold(m + 1, A, base, G)
    BY <2>1, FoldsNext
  <2> QED
    BY <2>1, <2>2
<1>3. T \in SUBSET Nat
  OBVIOUS
<1> HIDE DEF T
<1>4. n \in T
  BY <1>1, <1>2, <1>3, Induction
<1> QED
  BY <1>4 DEF T

LEMMA FoldSteps ==
  ASSUME NEW n \in Nat, NEW j \in 1 .. n
  PROVE  Max(1 .. j) = j /\ 1 .. j \in SUBSET (1 .. n) /\ 1 .. j # {} /\ (1 .. j) \ {j} = 1 .. j - 1
<1>1. PICK i \in Nat : j = i + 1
  <2>1. j - 1 \in Nat /\ j = (j - 1) + 1
    OBVIOUS
  <2> QED
    BY <2>1
<1>2. 1 .. i + 1 \in SUBSET (1 .. i + 1) /\ i + 1 \in 1 .. i + 1
  OBVIOUS
<1>3. Max(1 .. i + 1) = i + 1
  BY <1>2, MaxTop
<1>4. 1 .. j \in SUBSET (1 .. n) /\ 1 .. j # {} /\ (1 .. j) \ {j} = 1 .. j - 1
  OBVIOUS
<1> QED
  BY <1>1, <1>3, <1>4

RecOf(f, n, base, G) == f = [i \in 0 .. n |-> IF i = 0 THEN base ELSE G[f[i - 1]]]
HasRec(m, A, base, G) == \E f \in [0 .. m -> A] : RecOf(f, m, base, G)

LEMMA RecExists ==
  ASSUME NEW n \in Nat, NEW A, NEW base \in A, NEW G \in [A -> A]
  PROVE  HasRec(n, A, base, G)
<1> DEFINE T == {m \in Nat : HasRec(m, A, base, G)}
<1>1. 0 \in T
  <2> DEFINE f == [i \in 0 .. 0 |-> base]
  <2>1. f \in [0 .. 0 -> A] /\ f = [i \in 0 .. 0 |-> IF i = 0 THEN base ELSE G[f[i - 1]]]
    OBVIOUS
  <2> HIDE DEF f
  <2> QED
    BY <2>1 DEF HasRec, RecOf
<1>2. ASSUME NEW m \in T PROVE m + 1 \in T
  <2>1. PICK g \in [0 .. m -> A] : RecOf(g, m, base, G)
    BY DEF HasRec
  <2>2. g = [i \in 0 .. m |-> IF i = 0 THEN base ELSE G[g[i - 1]]]
    BY <2>1 DEF RecOf
  <2>a. m \in Nat
    OBVIOUS
  <2> DEFINE f == [i \in 0 .. m + 1 |-> IF i = m + 1 THEN G[g[m]] ELSE g[i]]
  <2>3. f \in [0 .. m + 1 -> A]
    BY <2>1, <2>a
  <2>4. ASSUME NEW i \in 0 .. m + 1 PROVE f[i] = IF i = 0 THEN base ELSE G[f[i - 1]]
    <3>1. CASE i = m + 1
      BY <2>a, <3>1
    <3>2. CASE i # m + 1
      <4>1. i \in 0 .. m /\ f[i] = g[i] /\ (i # 0 => f[i - 1] = g[i - 1])
        BY <2>a, <3>2
      <4> HIDE DEF f
      <4> QED
        BY <2>2, <4>1
    <3> QED
      BY <3>1, <3>2
  <2>5. f = [i \in 0 .. m + 1 |-> f[i]]
    OBVIOUS
  <2> HIDE DEF f
  <2>6. RecOf(f, m + 1, base, G)
    BY <2>4, <2>5 DEF RecOf
  <2> QED
    BY <2>3, <2>6, <2>a DEF HasRec
<1>3. T \in SUBSET Nat
  OBVIOUS
<1> HIDE DEF T
<1>4. n \in T
  BY <1>1, <1>2, <1>3, Induction
<1> QED
  BY <1>4 DEF T

-----------------------------------------------------------------------------
(* The cursor stays on the screen.                                         *)
LEMMA Division ==
  ASSUME NEW y \in Nat, NEW C \in Nat \ {0}
  PROVE  y \div C \in Nat /\ y % C \in 0 .. C - 1 /\ y = C * (y \div C) + (y % C)
<1>1. y \div C \in Nat /\ y % C \in 0 .. C - 1
  OBVIOUS
<1>2. y = C * (y \div C) + (y % C)
  OBVIOUS
<1> QED
  BY <1>1, <1>2, Zenon

LEMMA Multiples ==
  ASSUME NEW a \in Nat, NEW b \in Nat, NEW C \in Nat
  PROVE  /\ C * a \in Nat
         /\ a < b => C * a + C <= C * b
         /\ a <= b => C * a <= C * b
<1>1. C * a \in Nat
  OBVIOUS
<1>2. ASSUME a < b PROVE C * a + C <= C * b
  <2>1. PICK d \in Nat : b = a + 1 + d
    <3>1. b - a - 1 \in Nat /\ b = a + 1 + (b - a - 1)
      BY <1>2
    <3> QED
      BY <3>1
  <2>2. C * b = C * a + C + C * d /\ C * d \in Nat
    BY <2>1
  <2> QED
    BY <2>2, <1>1
<1> QED
  BY <1>1, <1>2

LEMMA NewlineStays ==
  ASSUME NEW C \in Nat \ {0}, NEW R \in Nat, NEW x \in Nat, x < C * R
  PROVE  x + (C - (x % C)) \in Nat /\ x + (C - (x % C)) <= C * R
<1> DEFINE d == x \div C
           e == x % C
<1>1. d \in Nat /\ e \in 0 .. C - 1 /\ x = C * d + e /\ C * d \in Nat
  BY Division, Multiples
<1> HIDE DEF d, e
<1>2. R <= d => C * R <= C * d
  BY <1>1, Multiples
<1>3. C * R \in Nat
  BY Multiples
<1>4. d < R
  BY <1>1, <1>2, <1>3
<1>5. C * d + C <= C * R
  BY <1>1, <1>4, Multiples
<1>6. x + (C - e) \in Nat /\ x + (C - e) <= C * R
  BY <1>1, <1>3, <1>5
<1> QED
  BY <1>6 DEF e

LEMMA ScrollStays ==
  ASSUME NEW C \in Nat \ {0}, NEW R \in Nat, R >= 2, NEW y \in Nat, y <= C * R
  PROVE  IF y \div C >= R - 1 THEN y - C \in 0 .. C * R - 1 ELSE y \in 0 .. C * R - 1
<1> DEFINE d == y \div C
           e == y % C
<1>1. d \in Nat /\ e \in 0 .. C - 1 /\ y = C * d + e /\ C * d \in Nat
  BY Division, Multiples
<1> HIDE DEF d, e
<1>2. PICK q \in Nat : R = q + 1 /\ q >= 1
  <2>1. R - 1 \in Nat /\ R = (R - 1) + 1 /\ R - 1 >= 1
    OBVIOUS
  <2> QED
    BY <2>1
<1>3. C * R = C * q + C /\ C * q \in Nat /\ C * R \in Nat /\ C * 1 = C /\ C * 1 <= C * q
  <2>1. C * q \in Nat /\ C * R \in Nat /\ C * 1 <= C * q
    BY <1>2, Multiples
  <2>2. C * R = C * q + C /\ C * 1 = C
    BY <1>2
  <2> QED
    BY <2>1, <2>2
<1>4. CASE d >= R - 1
  <2>1. C * q <= C * d
    BY <1>1, <1>2, <1>4, Multiples
  <2>2. y - C \in 0 .. C * R - 1
    BY <1>1, <1>3, <2>1
  <2> QED
    BY <1>4, <2>2 DEF d
<1>5. CASE ~(d >= R - 1)
  <2>1. C * d + C <= C * q
    BY <1>1, <1>2, <1>5, Multiples
  <2>2. y \in 0 .. C * R - 1
    BY <1>1, <1>3, <2>1
  <2> QED
    BY <1>5, <2>2 DEF d
<1> QED
  BY <1>4, <1>5

LEMMA CursorStays ==
  ASSUME NEW x \in Positions, NEW ch
  PROVE  ~CursorBad(x, ch) /\ Cursor(x, ch) \in Positions
<1> DEFINE S == COLS * ROWS
           y == Moved(x, ch)
<1>1. COLS \in Nat \ {0} /\ ROWS \in Nat /\ ROWS >= 2 /\ S \in Nat
  BY ConsoleAssumption, Multiples
<1>2. x \in Nat /\ x < S
  BY <1>1 DEF Positions
<1>3. x + (COLS - (x % COLS)) \in Nat /\ x + (COLS - (x % COLS)) <= S
  BY <1>1, <1>2, NewlineStays
<1>4. y \in Nat /\ y <= S
  <2> HIDE DEF S
  <2> QED
    BY <1>1, <1>2, <1>3 DEF Moved
<1> HIDE DEF y
<1>5. IF y \div COLS >= ROWS - 1 THEN y - COLS \in 0 .. S - 1 ELSE y \in 0 .. S - 1
  BY <1>1, <1>4, ScrollStays
<1>6. Cursor(x, ch) \in Positions
  BY <1>5 DEF Cursor, Positions, y
<1>7. ~CursorBad(x, ch)
  BY <1>1, <1>4 DEF CursorBad, y
<1> QED
  BY <1>6, <1>7

\* Strings that are printed, and characters that are taken back.
Printed(f, x, s) == f = [u \in SUBSET DOMAIN s |-> IF u = {} THEN x ELSE Cursor(f[u \ {Max(u)}], s[Max(u)])]

LEMMA FoldCursor ==
  ASSUME NEW A, NEW s \in Seq(A), NEW x \in Positions
  PROVE  FoldLeft(Cursor, x, s) \in Positions
<1> DEFINE n == Len(s)
           G == [t \in Positions \X (1 .. n) |-> Cursor(t[1], s[t[2]])]
           h == CHOOSE f : Printed(f, x, s)
<1>1. DOMAIN s = 1 .. n /\ n \in Nat
  OBVIOUS
<1>2. G \in [Positions \X (1 .. n) -> Positions]
  BY CursorStays
<1>3. \A y \in Positions, i \in 1 .. n : G[<<y, i>>] = Cursor(y, s[i])
  OBVIOUS
<1> HIDE DEF n, G
<1>4. PICK f \in [SUBSET (1 .. n) -> Positions] : FoldOf(f, n, x, G)
  BY <1>1, <1>2, FoldExists DEF HasFold
<1>5. Printed(f, x, s)
  <2>1. ASSUME NEW u \in SUBSET (1 .. n), u # {} PROVE G[<<f[u \ {Max(u)}], Max(u)>>] = Cursor(f[u \ {Max(u)}], s[Max(u)])
    <3>1. f[u \ {Max(u)}] \in Positions /\ Max(u) \in 1 .. n
      BY <1>1, <1>4, <2>1, MaxIn
    <3> QED
      BY <3>1, <1>3
  <2> QED
    BY <1>1, <1>4, <2>1 DEF FoldOf, Printed
<1>6. Printed(h, x, s)
  BY <1>5
<1>7. FoldLeft(Cursor, x, s) = h[DOMAIN s]
  BY Zenon DEF FoldLeft, MapThenFoldSet, Printed
<1> HIDE DEF h
<1> DEFINE T == {m \in Nat : m <= n => h[1 .. m] \in Positions}
<1>8. h = [u \in SUBSET (1 .. n) |-> IF u = {} THEN x ELSE Cursor(h[u \ {Max(u)}], s[Max(u)])]
  BY <1>1, <1>6 DEF Printed
<1>9. 0 \in T
  <2>1. 1 .. 0 = {} /\ 1 .. 0 \in SUBSET (1 .. n)
    OBVIOUS
  <2> QED
    BY <1>8, <2>1
<1>10. ASSUME NEW m \in T PROVE m + 1 \in T
  <2> SUFFICES ASSUME m + 1 <= n PROVE h[1 .. m + 1] \in Positions
    OBVIOUS
  <2> DEFINE j == m + 1
  <2>1. m \in Nat /\ h[1 .. m] \in Positions /\ j \in 1 .. n /\ 1 .. j - 1 = 1 .. m
    BY <1>1
  <2> HIDE DEF j
  <2>2. Max(1 .. j) = j /\ 1 .. j \in SUBSET (1 .. n) /\ 1 .. j # {} /\ (1 .. j) \ {j} = 1 .. j - 1
    BY <1>1, <2>1, FoldSteps
  <2>3. h[1 .. j] = Cursor(h[1 .. m], s[j])
    BY <1>8, <2>1, <2>2
  <2> QED
    BY <2>1, <2>3, CursorStays DEF j
<1>11. T \in SUBSET Nat
  OBVIOUS
<1> HIDE DEF T
<1>12. n \in T
  BY <1>1, <1>9, <1>10, <1>11, Induction
<1> QED
  BY <1>1, <1>7, <1>12 DEF T

TakenBack(f, x, n) == f = [i \in 0 .. n |-> IF i = 0 THEN x ELSE Cursor(f[i - 1], Backspace)]

LEMMA RecCursor ==
  ASSUME NEW n \in Nat, NEW x \in Positions, NEW i \in 0 .. n
  PROVE  (CHOOSE f : TakenBack(f, x, n))[i] \in Positions
<1> DEFINE G == [y \in Positions |-> Cursor(y, Backspace)]
           h == CHOOSE f : TakenBack(f, x, n)
<1>1. G \in [Positions -> Positions] /\ \A y \in Positions : G[y] = Cursor(y, Backspace)
  BY CursorStays
<1> HIDE DEF G
<1>2. PICK f \in [0 .. n -> Positions] : RecOf(f, n, x, G)
  BY <1>1, RecExists DEF HasRec
<1>3. TakenBack(f, x, n)
  <2>1. \A j \in 0 .. n : j # 0 => G[f[j - 1]] = Cursor(f[j - 1], Backspace)
    BY <1>1
  <2> QED
    BY <1>2, <2>1 DEF TakenBack, RecOf
<1>4. TakenBack(h, x, n)
  BY <1>3
<1> HIDE DEF h
<1> DEFINE T == {m \in Nat : m <= n => h[m] \in Positions}
<1>5. h = [j \in 0 .. n |-> IF j = 0 THEN x ELSE Cursor(h[j - 1], Backspace)]
  BY <1>4 DEF TakenBack
<1>6. 0 \in T
  BY <1>5
<1>7. ASSUME NEW m \in T PROVE m + 1 \in T
  <2>1. m \in Nat
    OBVIOUS
  <2>2. m + 1 <= n => h[m + 1] = Cursor(h[m], Backspace) /\ h[m] \in Positions
    BY <1>5, <2>1
  <2> QED
    BY <2>1, <2>2, CursorStays
<1>8. T \in SUBSET Nat
  OBVIOUS
<1> HIDE DEF T
<1>9. i \in T
  BY <1>6, <1>7, <1>8, Induction
<1>10. h[i] \in Positions
  BY <1>9 DEF T
<1> QED
  BY <1>10 DEF h

-----------------------------------------------------------------------------
(* The steps of the specification keep DevInv.                             *)
RestTypes ==
  /\ input \in Inputs /\ pos \in Positions
  /\ state \in [Procs -> States] /\ chan \in [Procs -> Channels \cup {NULL}]
  /\ killed \in [Procs -> BOOLEAN] /\ tickets \in [Procs -> Int]
  /\ ticks \in 0 .. TicksWrap - 1 /\ elapsed \in Nat

LEMMA RestSame ==
  ASSUME DevTypes, UNCHANGED <<consvars, procvars, ticks, elapsed>>
  PROVE  RestTypes'
BY DEF DevTypes, RestTypes, consvars, procvars

LEMMA DevNext ==
  ASSUME RunInv', Types3, ~panicked', RestTypes'
  PROVE  DevInv'
BY DEF DevInv, DevTypes, Types3, RestTypes

LEMMA DevParts ==
  ASSUME DevInv
  PROVE  DevTypes /\ RunInv /\ ~panicked /\ RestTypes
BY DEF DevInv, DevTypes, RestTypes

LEMMA LockKeeps ==
  ASSUME DevInv, NEW c \in CPUs, LockStep(c), UNCHANGED <<consvars, procvars, ticks, budget>>
  PROVE  DevInv'
<1>1. Keeps /\ RestTypes'
  BY DevParts, KeepsSame, RestSame DEF procvars, budget
<1>2. CASE AcquireStep(c)
  BY <1>1, <1>2, AcquireLemma, DevNext
<1>3. CASE SpinStep(c)
  BY <1>1, <1>3, SpinLemma, DevNext
<1>4. CASE ReleaseStep(c)
  <2>1. k[Ctx(c)] # <<>> /\ O(c).op \in DoneOps /\ Done(c, FALSE)
    BY <1>4 DEF ReleaseStep, At, O, DoneOps
  <2> QED
    BY <1>1, <2>1, DoneLemma, DevNext
<1> QED
  BY <1>2, <1>3, <1>4 DEF LockStep

\* A mode without locks.
LEMMA WeightZero ==
  ASSUME NEW a \in Modes
  PROVE  Weight(a) \in Nat /\ (Weight(a) = 0 <=> a.held = {} /\ ~a.spins)
<1>1. a \in ModeRecords
  BY ModeIn
<1>2. a.held \in SUBSET Locks /\ a.spins \in BOOLEAN
  BY <1>1 DEF ModeRecords
<1>3. One("cons", a.held) \in Nat /\ One("tickslock", a.held) \in Nat /\ One("ptable", a.held) \in Nat
  BY DEF One
<1> QED
  BY <1>2, <1>3 DEF Weight, One, Locks

\* An interrupt, whichever handler it starts.
LEMMA InterruptKeeps ==
  ASSUME DevInv, NEW c \in CPUs, NEW handler, Interrupt(c, handler),
         \A a \in Modes : a.held = {} /\ ~a.spins /\ ~a.intr
            => \E b \in Modes : /\ b.held = {} /\ ~b.spins /\ b.intr /\ b.exits = a.exits
                                /\ Runs(handler, b, a)
  PROVE  DevInv'
<1> DEFINE u == [cpu[c] EXCEPT !.if = FALSE]
           s == handler \o k[Ctx(c)]
<1>1. DevTypes /\ RunInv /\ ~panicked
  BY DevParts
<1>2. Keeps /\ RestTypes'
  BY <1>1, KeepsSame, RestSame DEF procvars, Interrupt
<1>3. PICK a \in Modes : Runs(k[Ctx(c)], a, Idle(P(c) # NULL)) /\ Fits(cpu[c], HeldBy(c), a)
  BY <1>1 DEF RunInv, OnCpu, P
<1>4. a.held = {} /\ ~a.spins /\ ~a.intr /\ cpu[c].ncli = 0 /\ HeldBy(c) = {}
  BY <1>3, WeightZero DEF Interrupt, Fits
<1>5. PICK b \in Modes : b.held = {} /\ ~b.spins /\ b.intr /\ b.exits = a.exits /\ Runs(handler, b, a)
  BY <1>4
<1>6. u \in CpuRecords /\ u.proc = cpu[c].proc /\ u.ncli = 0 /\ ~u.if
  <2>1. cpu[c] \in CpuRecords
    BY <1>1 DEF DevTypes
  <2>2. u \in CpuRecords
    BY <2>1 DEF CpuRecords
  <2>3. u.proc = cpu[c].proc /\ u.ncli = cpu[c].ncli /\ ~u.if
    BY <2>1 DEF CpuRecords
  <2> QED
    BY <1>4, <2>2, <2>3
<1>7. Weight(b) = 0
  BY <1>5, WeightZero
<1>8. Fits(u, HeldBy(c), b)
  <2> HIDE DEF u
  <2> QED
    BY <1>4, <1>5, <1>6, <1>7 DEF Fits
<1>9. cpu' = [cpu EXCEPT ![c] = u] /\ k' = [k EXCEPT ![Ctx(c)] = s] /\ UNCHANGED <<lock, panicked>>
  BY DEF Interrupt
<1>10. Runs(s, b, Idle(P(c) # NULL))
  BY <1>3, <1>5, RunsCat
<1> HIDE DEF u, s
<1>11. RunInv' /\ Types3
  BY <1>1, <1>2, <1>6, <1>8, <1>9, <1>10, GoTo
<1> QED
  BY <1>1, <1>2, <1>9, <1>11, DevNext

LEMMA InterruptsKeep ==
  ASSUME DevInv
  PROVE  /\ ConsoleInterrupt => DevInv'
         /\ \A c \in CPUs : TimerInterrupt(c) => DevInv'
<1>1. 0 \in CPUs
  BY SpinlockAssumption DEF CPUs
<1>2. ConsoleInterrupt => DevInv'
  BY <1>1, RunsTraps, InterruptKeeps DEF ConsoleInterrupt
<1>3. \A c \in CPUs : TimerInterrupt(c) => DevInv'
  BY RunsTraps, InterruptKeeps DEF TimerInterrupt
<1> QED
  BY <1>2, <1>3

\* No operation turns a process into a scheduler.
LEMMA RunsProc ==
  ASSUME NEW s, NEW a, NEW pr \in BOOLEAN, Runs(s, a, Idle(pr))
  PROVE  a.proc = pr
<1> DEFINE T == {n \in Nat : \A u, b : Runs(u, b, Idle(pr)) /\ Len(u) = n => b.proc = pr}
<1>1. 0 \in T
  <2> SUFFICES ASSUME NEW u, NEW b, Runs(u, b, Idle(pr)), Len(u) = 0 PROVE b.proc = pr
    OBVIOUS
  <2>1. u \in Seq(Ops)
    BY DEF Runs
  <2>2. u = <<>>
    BY <2>1
  <2> QED
    BY <2>2, RunsEnd DEF Idle, Mode
<1>2. ASSUME NEW n \in T PROVE n + 1 \in T
  <2> SUFFICES ASSUME NEW u, NEW b, Runs(u, b, Idle(pr)), Len(u) = n + 1 PROVE b.proc = pr
    OBVIOUS
  <2>1. u \in Seq(Ops) /\ n \in Nat
    BY DEF Runs
  <2>2. u # <<>> /\ Len(Tail(u)) = n
    BY <2>1
  <2>3. PICK d \in Modes : Goes(Head(u), b, d) /\ Runs(Tail(u), d, Idle(pr))
    BY <2>2, RunsHead
  <2>4. d.proc = pr /\ b \in Modes
    BY <2>2, <2>3, RunsHead
  <2>5. b.proc = d.proc
    <3>1. b \in ModeRecords /\ d \in ModeRecords
      BY <2>4, ModeIn
    <3>2. CASE Schedules(Head(u), b, d)
      BY <3>1, <3>2 DEF Schedules, Mode, Idle, ModeRecords
    <3>3. CASE ~Schedules(Head(u), b, d)
      <4> DEFINE o == Head(u)
      <4> HIDE DEF o
      <4>1. \/ d = [b EXCEPT !.held = @ \cup {o.lk}, !.spins = FALSE] \/ d = [b EXCEPT !.held = @ \ {o.lk}]
            \/ d = [b EXCEPT !.held = @ \ {"ptable"}, !.wakes = "no"]
            \/ b = [Mode({"tickslock"}, TRUE) EXCEPT !.naps = TRUE] /\ d = Idle(TRUE)
            \/ d = b \/ d = [b EXCEPT !.intr = FALSE]
        BY <2>3, <3>3 DEF Goes, o
      <4>2. ASSUME b = [Mode({"tickslock"}, TRUE) EXCEPT !.naps = TRUE], d = Idle(TRUE) PROVE b.proc = d.proc
        BY <4>2 DEF Mode, Idle
      <4>3. ASSUME \/ d = [b EXCEPT !.held = @ \cup {o.lk}, !.spins = FALSE] \/ d = [b EXCEPT !.held = @ \ {o.lk}]
                   \/ d = [b EXCEPT !.held = @ \ {"ptable"}, !.wakes = "no"]
                   \/ d = [b EXCEPT !.intr = FALSE]
            PROVE  b.proc = d.proc
        BY <3>1, <4>3 DEF ModeRecords
      <4> QED
        BY <4>1, <4>2, <4>3
    <3> QED
      BY <3>2, <3>3
  <2> QED
    BY <2>4, <2>5
<1>3. T \in SUBSET Nat
  OBVIOUS
<1>4. Len(s) \in Nat
  BY DEF Runs
<1> HIDE DEF T
<1>5. Len(s) \in T
  BY <1>1, <1>2, <1>3, <1>4, Induction
<1> QED
  BY <1>5 DEF T

\* exit(), from the end of a system call or of an interrupt.
Dying == [Idle(TRUE) EXCEPT !.exits = TRUE]
LEMMA DyingFits ==
  ASSUME NEW u, NEW L, NEW a \in Modes, Fits(u, L, a), a.held = {}, ~a.spins
  PROVE  Dying \in Modes /\ Fits(u, L, Dying) /\ Runs(Exit, Dying, Idle(TRUE))
<1>1. Dying \in Modes
  BY ModeConstants DEF Dying, Idle
<1>2. Dying.held = {} /\ ~Dying.spins /\ ~Dying.intr /\ Dying.exits
  BY DEF Dying, Idle, Mode
<1>3. Weight(Dying) = 0 /\ Weight(a) = 0
  BY <1>1, <1>2, WeightZero
<1> QED
  BY <1>1, <1>2, <1>3, RunsExit DEF Fits, Dying

LEMMA IdleFacts ==
  ASSUME NEW pr \in BOOLEAN
  PROVE  /\ Idle(pr) \in Modes /\ Idle(pr).held = {} /\ ~Idle(pr).spins /\ Idle(pr).wakes = "no"
         /\ Idle(pr).sleeps = "no"
         /\ \A lk \in Locks : With(Idle(pr), lk) = Mode({lk}, pr) /\ Without(Mode({lk}, pr), lk) = Idle(pr)
<1>1. Idle(pr) \in Modes /\ \A lk \in Locks : Mode({lk}, pr) \in Modes
  BY ModeConstants DEF Idle
<1>2. Idle(pr).held = {} /\ ~Idle(pr).spins /\ Idle(pr).wakes = "no" /\ Idle(pr).sleeps = "no"
  BY DEF Idle, Mode
<1>3. ASSUME NEW lk \in Locks PROVE With(Idle(pr), lk) = Mode({lk}, pr) /\ Without(Mode({lk}, pr), lk) = Idle(pr)
  <2>1. Idle(pr) \in ModeRecords /\ Mode({lk}, pr) \in ModeRecords
    BY <1>1, ModeIn
  <2>2. Same(Idle(pr), Mode({lk}, pr)) /\ Mode({lk}, pr).held = {lk}
    BY DEF Same, Idle, Mode
  <2>3. With(Idle(pr), lk) \in ModeRecords /\ With(Idle(pr), lk).held = {lk} /\ Same(With(Idle(pr), lk), Idle(pr))
    BY <1>2, <2>1, WithFields
  <2>4. /\ Without(Mode({lk}, pr), lk) \in ModeRecords /\ Without(Mode({lk}, pr), lk).held = {}
        /\ Same(Without(Mode({lk}, pr), lk), Mode({lk}, pr))
    <3> DEFINE m == Mode({lk}, pr)
    <3>1. m \in ModeRecords /\ m.held = {lk}
      BY <2>1, <2>2
    <3> HIDE DEF m
    <3>2. Without(m, lk) \in ModeRecords /\ Without(m, lk).held = m.held \ {lk} /\ Same(Without(m, lk), m)
      BY <3>1, WithFields
    <3>3. Without(m, lk).held = {}
      BY <3>1, <3>2
    <3> QED
      BY <3>2, <3>3 DEF m
  <2>5. Same(With(Idle(pr), lk), Mode({lk}, pr)) /\ Same(Without(Mode({lk}, pr), lk), Idle(pr))
    BY <2>2, <2>3, <2>4 DEF Same
  <2> QED
    BY <1>2, <2>1, <2>2, <2>3, <2>4, <2>5, ModeEqual
<1> QED
  BY <1>1, <1>2, <1>3

\* A system call that is one operation under a lock.
LEMMA RunsUnder ==
  ASSUME NEW lk \in Locks, NEW o \in Ops, o.lk = lk, Releases(o, Mode({lk}, TRUE))
  PROVE  Runs(<<Acquire(lk), o>>, Idle(TRUE), Idle(TRUE))
<1>1. Idle(TRUE) \in Modes /\ Mode({lk}, TRUE) \in Modes
  BY ModeConstants, IdleFacts
<1>2. Runs(<<Acquire(lk)>>, Idle(TRUE), Mode({lk}, TRUE))
  BY IdleFacts, RunsAcquire
<1>3. Mode({lk}, TRUE).held = {lk} /\ ~Mode({lk}, TRUE).spins
  BY DEF Mode
<1>4. Idle(TRUE) = [Mode({lk}, TRUE) EXCEPT !.held = @ \ {lk}]
  BY IdleFacts DEF Without
<1>5. Goes(o, Mode({lk}, TRUE), Idle(TRUE))
  BY <1>3, <1>4 DEF Goes
<1> QED
  BY <1>1, <1>2, <1>5, RunsOne, RunsTwo

LEMMA RunsRet == Op("ret", 0) \in Ops /\ Runs(<<Op("ret", 0)>>, Idle(TRUE), Idle(TRUE))
<1> DEFINE o == Op("ret", 0)
<1>1. o \in Ops /\ o.op = "ret" /\ o.lk = NULL
  BY DEF Op, Ops, OpNames, Values
<1> HIDE DEF o
<1>2. Goes(o, Idle(TRUE), Idle(TRUE))
  BY <1>1 DEF Goes
<1>3. Runs(<<o>>, Idle(TRUE), Idle(TRUE))
  BY <1>1, <1>2, IdleFacts, RunsOne
<1> QED
  BY <1>1, <1>3 DEF o

LEMMA CallKeeps ==
  ASSUME DevInv, NEW c \in CPUs, NEW name, NEW ops, Call(c, name, ops), Runs(ops, Idle(TRUE), Idle(TRUE))
  PROVE  DevInv'
<1> DEFINE s == IF killed[P(c)] THEN Exit ELSE ops \o <<Op("ret", 0)>>
<1>1. DevTypes /\ RunInv /\ ~panicked /\ P(c) # NULL /\ k[P(c)] = <<>> /\ Ctx(c) = P(c)
  BY DevParts, Contexts1 DEF Call
<1>2. Keeps /\ RestTypes'
  BY <1>1, KeepsSame, RestSame DEF procvars, Call
<1>3. PICK a \in Modes : Runs(k[Ctx(c)], a, Idle(P(c) # NULL)) /\ Fits(cpu[c], HeldBy(c), a)
  BY <1>1 DEF RunInv, OnCpu, P
<1>4. a = Idle(TRUE)
  BY <1>1, <1>3, RunsEnd
<1>5. k' = [k EXCEPT ![Ctx(c)] = s] /\ UNCHANGED <<cpu, lock, panicked>>
  BY <1>1 DEF Call
<1>6. PICK d \in Modes : Fits(cpu[c], HeldBy(c), d) /\ Runs(s, d, Idle(P(c) # NULL))
  <2>1. CASE killed[P(c)]
    BY <1>1, <1>3, <1>4, <2>1, IdleFacts, DyingFits
  <2>2. CASE ~killed[P(c)]
    <3>1. Runs(ops \o <<Op("ret", 0)>>, Idle(TRUE), Idle(TRUE))
      BY RunsRet, RunsCat
    <3> QED
      BY <1>1, <1>3, <1>4, <2>2, <3>1
  <2> QED
    BY <2>1, <2>2
<1> HIDE DEF s
<1>7. RunInv' /\ Types3
  BY <1>1, <1>2, <1>5, <1>6, StayTo
<1> QED
  BY <1>1, <1>2, <1>5, <1>7, DevNext

LEMMA CallsKeep ==
  ASSUME DevInv, NEW c \in CPUs
  PROVE  (ReadCall(c) \/ WriteCall(c) \/ SleepCall(c) \/ KillCall(c) \/ TicketsCall(c)) => DevInv'
<1>1. ASSUME ReadCall(c) PROVE DevInv'
  <2>1. PICK n \in ReadSizes :
          Call(c, "read", <<Acquire("cons"), [op |-> "consoleread", n |-> n, lk |-> "cons", target |-> n]>>)
    BY <1>1 DEF ReadCall
  <2> DEFINE o == [op |-> "consoleread", n |-> n, lk |-> "cons", target |-> n]
  <2>2. n \in Int /\ o \in Ops /\ o.lk = "cons" /\ o.op = "consoleread" /\ o.n = n /\ o.target = n /\ "cons" \in Locks
    BY DevicesAssumption DEF Ops, Values, Locks
  <2>3. Call(c, "read", <<Acquire("cons"), o>>)
    BY <2>1
  <2> HIDE DEF o
  <2>4. Releases(o, Mode({"cons"}, TRUE))
    BY <2>2 DEF Releases, OfCall
  <2>5. Runs(<<Acquire("cons"), o>>, Idle(TRUE), Idle(TRUE))
    BY <2>2, <2>4, RunsUnder
  <2> QED
    BY <2>3, <2>5, CallKeeps
<1>2. ASSUME WriteCall(c) PROVE DevInv'
  BY <1>2, IdleFacts, RunsCprintf, CallKeeps DEF WriteCall
<1>3. ASSUME SleepCall(c) PROVE DevInv'
  <2>1. PICK n \in SleepTimes : Call(c, "sleep", <<Acquire("tickslock"), Under("ticks0", n, "tickslock")>>)
    BY <1>3 DEF SleepCall
  <2> DEFINE o == Under("ticks0", n, "tickslock")
  <2>2. n \in Nat /\ o \in Ops /\ o.lk = "tickslock" /\ o.op = "ticks0" /\ o.n = n /\ "tickslock" \in Locks
    BY DevicesAssumption DEF Ops, OpNames, Values, Locks, Under
  <2>3. Call(c, "sleep", <<Acquire("tickslock"), o>>)
    BY <2>1
  <2> HIDE DEF o
  <2>4. Releases(o, Mode({"tickslock"}, TRUE))
    BY <2>2 DEF Releases, OfCall
  <2>5. Runs(<<Acquire("tickslock"), o>>, Idle(TRUE), Idle(TRUE))
    BY <2>2, <2>4, RunsUnder
  <2> QED
    BY <2>3, <2>5, CallKeeps
<1>4. ASSUME KillCall(c) PROVE DevInv'
  <2>1. PICK q \in Procs : Call(c, "kill", <<Acquire("ptable"), Under("kill", q, "ptable")>>)
    BY <1>4 DEF KillCall
  <2> DEFINE o == Under("kill", q, "ptable")
  <2>2. o \in Ops /\ o.lk = "ptable" /\ o.op = "kill" /\ o.n = q /\ "ptable" \in Locks
    BY DEF Ops, OpNames, Values, Locks, Under, Procs
  <2>3. Call(c, "kill", <<Acquire("ptable"), o>>)
    BY <2>1
  <2> HIDE DEF o
  <2>4. Releases(o, Mode({"ptable"}, TRUE))
    BY <2>2 DEF Releases, OfCall
  <2>5. Runs(<<Acquire("ptable"), o>>, Idle(TRUE), Idle(TRUE))
    BY <2>2, <2>4, RunsUnder
  <2> QED
    BY <2>3, <2>5, CallKeeps
<1>5. ASSUME TicketsCall(c) PROVE DevInv'
  <2>1. PICK n \in Tickets, q \in Procs :
          Call(c, "change_tickets",
               Cprintf \o <<Acquire("ptable"), [op |-> "change_tickets", n |-> n, lk |-> "ptable", q |-> q]>>)
    BY <1>5 DEF TicketsCall
  <2> DEFINE o == [op |-> "change_tickets", n |-> n, lk |-> "ptable", q |-> q]
  <2>2. Call(c, "change_tickets", Cprintf \o <<Acquire("ptable"), o>>)
    BY <2>1
  <2>3. /\ n \in Int /\ o \in Ops /\ o.lk = "ptable" /\ o.op = "change_tickets" /\ o.n = n
        /\ o.q \in Procs /\ "ptable" \in Locks
    BY DevicesAssumption DEF Ops, Values, Locks, Procs
  <2> HIDE DEF o
  <2>4. Releases(o, Mode({"ptable"}, TRUE))
    BY <2>3 DEF Releases, OfCall
  <2>5. Runs(<<Acquire("ptable"), o>>, Idle(TRUE), Idle(TRUE))
    BY <2>3, <2>4, RunsUnder
  <2>6. Runs(Cprintf \o <<Acquire("ptable"), o>>, Idle(TRUE), Idle(TRUE))
    BY <2>5, IdleFacts, RunsCprintf, RunsCat
  <2> QED
    BY <2>2, <2>6, CallKeeps
<1> QED
  BY <1>1, <1>2, <1>3, <1>4, <1>5

LEMMA ReturnKeeps ==
  ASSUME DevInv, NEW c \in CPUs, Return(c)
  PROVE  DevInv'
<1> DEFINE ops == IF killed[P(c)] THEN Exit ELSE <<>>
<1>1. DevTypes /\ RunInv /\ ~panicked /\ k[Ctx(c)] # <<>> /\ O(c).op = "ret"
  BY DevParts DEF Return, At, O
<1>2. Keeps /\ RestTypes' /\ UNCHANGED <<cpu, lock, panicked>>
  BY <1>1, KeepsSame, RestSame DEF procvars, budget, Return
<1>3. Continue(c, ops)
  BY DEF Return
<1>4. ASSUME NEW a \in Modes, NEW b \in Modes, Fits(cpu[c], HeldBy(c), a), Goes(O(c), a, b)
      PROVE  \E d \in Modes : Fits(cpu[c], HeldBy(c), d) /\ Runs(ops, d, b)
  <2>1. a = Idle(TRUE) /\ b = Idle(TRUE)
    BY <1>1, <1>4 DEF Goes, Releases, Schedules
  <2>2. CASE killed[P(c)]
    BY <1>4, <2>1, <2>2, IdleFacts, DyingFits
  <2>3. CASE ~killed[P(c)]
    BY <1>4, <2>1, <2>3, RunsEmpty
  <2> QED
    BY <2>2, <2>3
<1> HIDE DEF ops
<1>5. RunInv' /\ Types3
  BY <1>1, <1>2, <1>3, <1>4, ContinueLemma
<1> QED
  BY <1>1, <1>2, <1>5, DevNext

\* The end of a handler, which a killed process does not come back from.
LEMMA ExitsKeeps ==
  ASSUME DevInv, NEW c \in CPUs, k[Ctx(c)] # <<>>, O(c).op \in {"leave", "iret"}, P(c) # NULL,
         k' = [k EXCEPT ![P(c)] = Exit],
         UNCHANGED <<cpu, lock, panicked, consvars, procvars, ticks, budget>>
  PROVE  DevInv'
<1>1. DevTypes /\ RunInv /\ ~panicked /\ Ctx(c) = P(c)
  BY DevParts, Contexts1
<1>2. Keeps /\ RestTypes'
  BY <1>1, KeepsSame, RestSame DEF procvars, budget
<1>3. PICK a, b \in Modes : Fits(cpu[c], HeldBy(c), a) /\ Goes(O(c), a, b)
  BY <1>1, AtHead
<1>4. a.held = {} /\ ~a.spins
  BY <1>3 DEF Goes, Releases, Schedules
<1>5. Dying \in Modes /\ Fits(cpu[c], HeldBy(c), Dying) /\ Runs(Exit, Dying, Idle(P(c) # NULL))
  BY <1>3, <1>4, DyingFits
<1>6. RunInv' /\ Types3
  BY <1>1, <1>2, <1>5, StayTo
<1> QED
  BY <1>1, <1>2, <1>6, DevNext

LEMMA LeaveKeeps ==
  ASSUME DevInv, NEW c \in CPUs, Leave(c)
  PROVE  DevInv'
<1>1. DevTypes /\ RunInv /\ ~panicked /\ k[Ctx(c)] # <<>> /\ O(c).op = "leave"
  BY DevParts DEF Leave, At, O
<1>2. Keeps /\ RestTypes' /\ UNCHANGED <<cpu, lock, panicked>>
  BY <1>1, KeepsSame, RestSame DEF procvars, budget, Leave
<1>3. CASE Exits(c)
  BY <1>1, <1>3, ExitsKeeps DEF Leave, Exits
<1>4. CASE ~Exits(c)
  <2> DEFINE ops == IF P(c) # NULL /\ O(c).n THEN Yield ELSE <<>>
  <2>1. Continue(c, ops)
    BY <1>4 DEF Leave
  <2>2. ASSUME NEW a \in Modes, NEW b \in Modes, Fits(cpu[c], HeldBy(c), a), Goes(O(c), a, b),
               Runs(Tail(k[Ctx(c)]), b, Idle(P(c) # NULL))
        PROVE  \E d \in Modes : Fits(cpu[c], HeldBy(c), d) /\ Runs(ops, d, b)
    <3>1. a.held = {} /\ ~a.spins /\ a.wakes = "no" /\ b = a
      BY <1>1, <2>2 DEF Goes, Releases, Schedules
    <3>2. CASE P(c) # NULL /\ O(c).n
      <4>1. a.proc
        BY <2>2, <3>1, <3>2, RunsProc
      <4> QED
        BY <2>2, <3>1, <3>2, <4>1, RunsYield
    <3>3. CASE ~(P(c) # NULL /\ O(c).n)
      BY <2>2, <3>1, <3>3, RunsEmpty
    <3> QED
      BY <3>2, <3>3
  <2> HIDE DEF ops
  <2>3. RunInv' /\ Types3
    BY <1>1, <1>2, <2>1, <2>2, ContinueLemma
  <2> QED
    BY <1>1, <1>2, <2>3, DevNext
<1> QED
  BY <1>3, <1>4

LEMMA IretKeeps ==
  ASSUME DevInv, NEW c \in CPUs, Iret(c)
  PROVE  DevInv'
<1>1. DevTypes /\ RunInv /\ ~panicked /\ k[Ctx(c)] # <<>> /\ O(c).op = "iret"
  BY DevParts DEF Iret, At, O
<1>2. Keeps /\ RestTypes' /\ UNCHANGED <<lock, panicked>>
  BY <1>1, KeepsSame, RestSame DEF procvars, budget, Iret
<1>3. CASE Exits(c)
  BY <1>1, <1>3, ExitsKeeps DEF Iret, Exits
<1>4. CASE ~Exits(c)
  <2> DEFINE u == [cpu[c] EXCEPT !.if = TRUE]
             t == Tail(k[Ctx(c)])
  <2>1. Continue(c, <<>>) /\ cpu' = [cpu EXCEPT ![c] = u]
    BY <1>4 DEF Iret
  <2>2. PICK a, b \in Modes : /\ Fits(cpu[c], HeldBy(c), a) /\ Goes(O(c), a, b)
                              /\ Runs(t, b, Idle(P(c) # NULL))
    BY <1>1, AtHead
  <2>3. cpu[c] \in CpuRecords /\ t \in Seq(Ops)
    BY <1>1, AtHead
  <2>4. a.held = {} /\ ~a.spins /\ b = [a EXCEPT !.intr = FALSE]
    BY <1>1, <2>2 DEF Goes, Releases, Schedules
  <2>5. b.held = {} /\ ~b.spins /\ ~b.intr
    BY <2>4, ModeIn DEF ModeRecords
  <2>6. Weight(a) = 0 /\ Weight(b) = 0
    BY <2>4, <2>5, WeightZero
  <2>7. u \in CpuRecords /\ u.proc = cpu[c].proc /\ u.ncli = cpu[c].ncli /\ u.if
    BY <2>3 DEF CpuRecords
  <2> HIDE DEF u
  <2>8. Fits(u, HeldBy(c), b)
    BY <2>2, <2>4, <2>5, <2>6, <2>7 DEF Fits
  <2>9. k' = [k EXCEPT ![Ctx(c)] = t]
    <3>1. <<>> \o t = t
      BY <2>3
    <3>2. k' = [k EXCEPT ![Ctx(c)] = <<>> \o t]
      BY <2>1 DEF Continue
    <3> QED
      BY <3>1, <3>2
  <2> HIDE DEF t
  <2>10. RunInv' /\ Types3
    BY <1>1, <1>2, <2>1, <2>2, <2>7, <2>8, <2>9, GoTo
  <2> QED
    BY <1>1, <1>2, <2>10, DevNext
<1> QED
  BY <1>3, <1>4

LEMMA TickKeeps ==
  ASSUME DevInv, NEW c \in CPUs, TickStep(c)
  PROVE  DevInv'
<1>1. DevTypes /\ RunInv /\ ~panicked /\ k[Ctx(c)] # <<>> /\ O(c).op = "tick"
  BY DevParts DEF TickStep, At, O
<1>2. Keeps /\ UNCHANGED <<cpu, lock, panicked>>
  BY <1>1, KeepsSame DEF procvars, TickStep
<1>3. RestTypes'
  <2>1. (ticks + 1) % TicksWrap \in 0 .. TicksWrap - 1 /\ elapsed + 1 \in Nat
    BY <1>1, DevicesAssumption DEF DevTypes
  <2> QED
    BY <1>1, <2>1 DEF TickStep, DevTypes, RestTypes, consvars, procvars
<1>4. Continue(c, <<>>)
  BY DEF TickStep
<1>5. ASSUME NEW a \in Modes, NEW b \in Modes, Fits(cpu[c], HeldBy(c), a), Goes(O(c), a, b)
      PROVE  \E d \in Modes : Fits(cpu[c], HeldBy(c), d) /\ Runs(<<>>, d, b)
  <2>1. b = a
    BY <1>1, <1>5 DEF Goes, Releases, Schedules
  <2> QED
    BY <1>5, <2>1, RunsEmpty
<1>6. RunInv' /\ Types3
  BY <1>1, <1>2, <1>4, <1>5, ContinueLemma
<1> QED
  BY <1>1, <1>2, <1>3, <1>6, DevNext

-----------------------------------------------------------------------------
(* The ring of the console.                                                *)
LEMMA ModOf ==
  ASSUME NEW W \in Nat \ {0}, NEW x \in Int
  PROVE  /\ x % W \in 0 .. W - 1
         /\ x \in 0 .. W - 1 => x % W = x
         /\ x - W \in 0 .. W - 1 => x % W = x - W
         /\ x + W \in 0 .. W - 1 => x % W = x + W
<1>1. x % W \in 0 .. W - 1 /\ x = W * (x \div W) + (x % W) /\ x \div W \in Int
  <2>1. x % W \in 0 .. W - 1 /\ x \div W \in Int
    OBVIOUS
  <2>2. x = W * (x \div W) + (x % W)
    OBVIOUS
  <2> QED
    BY <2>1, <2>2, Zenon
<1> DEFINE q == x \div W
           r == x % W
<1>2. x = W * q + r /\ r \in 0 .. W - 1 /\ q \in Int
  BY <1>1
<1> HIDE DEF q, r
<1>3. ASSUME NEW j \in {-1, 0, 1}, x - W * j \in 0 .. W - 1 PROVE r = x - W * j
  <2>1. PICK d \in Int : q = j + d
    <3>1. j \in Int /\ q - j \in Int /\ q = j + (q - j)
      BY <1>2
    <3> QED
      BY <3>1
  <2>2. W * q = W * j + W * d /\ W * j \in Int /\ W * d \in Int /\ W * 1 = W
    BY <2>1
  <2>3. W * d < W /\ W * d > 0 - W
    BY <1>2, <1>3, <2>2
  <2>4. ~(d >= 1)
    <3>1. ASSUME d >= 1 PROVE W * 1 <= W * d
      BY <3>1, Multiples
    <3> QED
      BY <2>2, <2>3, <3>1
  <2>5. ~(d <= -1)
    <3>1. ASSUME d <= -1 PROVE FALSE
      <4>1. PICK f \in Nat : f = 0 - d /\ f >= 1
        <5>1. 0 - d \in Nat /\ 0 - d >= 1
          BY <3>1
        <5> QED
          BY <5>1
      <4>2. W * 1 <= W * f
        BY <4>1, Multiples
      <4>3. W * f = 0 - W * d
        BY <4>1
      <4> QED
        BY <2>2, <2>3, <4>2, <4>3
    <3> QED
      BY <3>1
  <2>6. d = 0
    BY <2>4, <2>5
  <2>7. W * d = 0
    BY <2>6
  <2> QED
    BY <1>2, <1>3, <2>2, <2>7
<1>4. W * 0 = 0 /\ W * 1 = W /\ W * (-1) = 0 - W
  OBVIOUS
<1>5. /\ x \in 0 .. W - 1 => r = x
      /\ x - W \in 0 .. W - 1 => r = x - W
      /\ x + W \in 0 .. W - 1 => r = x + W
  BY <1>3, <1>4
<1> QED
  BY <1>1, <1>5 DEF r

LEMMA RingArithmetic ==
  ASSUME NEW x \in 0 .. Wrap - 1, NEW y \in 0 .. Wrap - 1
  PROVE  /\ Minus(x, y) \in 0 .. Wrap - 1
         /\ Minus(x, y) = IF x >= y THEN x - y ELSE (x - y) + Wrap
         /\ Plus(x, y) \in 0 .. Wrap - 1
         /\ Plus(x, y) = IF x + y < Wrap THEN x + y ELSE (x + y) - Wrap
<1>1. Wrap \in Nat \ {0}
  BY ConsoleAssumption
<1>2. x - y \in Int /\ x + y \in Int
  BY <1>1
<1>3. Minus(x, y) \in 0 .. Wrap - 1 /\ Plus(x, y) \in 0 .. Wrap - 1
  BY <1>1, <1>2, ModOf DEF Minus, Plus
<1>4. Minus(x, y) = IF x >= y THEN x - y ELSE (x - y) + Wrap
  <2>1. CASE x >= y
    <3>1. x - y \in 0 .. Wrap - 1
      BY <1>1, <2>1
    <3>2. (x - y) % Wrap = x - y
      BY <1>1, <1>2, <3>1, ModOf
    <3> QED
      BY <2>1, <3>2 DEF Minus
  <2>2. CASE ~(x >= y)
    <3>1. (x - y) + Wrap \in 0 .. Wrap - 1
      BY <1>1, <2>2
    <3>2. (x - y) % Wrap = (x - y) + Wrap
      BY <1>1, <1>2, <3>1, ModOf
    <3> QED
      BY <2>2, <3>2 DEF Minus
  <2> QED
    BY <2>1, <2>2
<1>5. Plus(x, y) = IF x + y < Wrap THEN x + y ELSE (x + y) - Wrap
  <2>1. CASE x + y < Wrap
    <3>1. x + y \in 0 .. Wrap - 1
      BY <1>1, <2>1
    <3>2. (x + y) % Wrap = x + y
      BY <1>1, <1>2, <3>1, ModOf
    <3> QED
      BY <2>1, <3>2 DEF Plus
  <2>2. CASE ~(x + y < Wrap)
    <3>1. (x + y) - Wrap \in 0 .. Wrap - 1
      BY <1>1, <2>2
    <3>2. (x + y) % Wrap = (x + y) - Wrap
      BY <1>1, <1>2, <3>1, ModOf
    <3> QED
      BY <2>2, <3>2 DEF Plus
  <2> QED
    BY <2>1, <2>2
<1> QED
  BY <1>3, <1>4, <1>5

\* What the steps of the console do to the ring: the room that they take.
LEMMA RingMoves ==
  ASSUME NEW r \in 0 .. Wrap - 1, NEW w \in 0 .. Wrap - 1, NEW e \in 0 .. Wrap - 1, Filled(r, w, e)
  PROVE  /\ Minus(e, r) = Minus(w, r) + Minus(e, w)
         /\ \A n \in 0 .. Minus(e, w) : Minus(e, n) \in 0 .. Wrap - 1 /\ Filled(r, w, Minus(e, n))
                                        /\ Minus(Minus(e, n), w) = Minus(e, w) - n
         /\ Minus(e, r) < INPUT_BUF => /\ Plus(e, 1) \in 0 .. Wrap - 1 /\ Filled(r, w, Plus(e, 1))
                                       /\ Filled(r, Plus(e, 1), Plus(e, 1))
         /\ \A n \in 0 .. Minus(w, r) : Plus(r, n) \in 0 .. Wrap - 1 /\ Filled(Plus(r, n), w, e)
                                        /\ Minus(w, Plus(r, n)) = Minus(w, r) - n
<1>1. Wrap \in Nat /\ INPUT_BUF \in Nat \ {0} /\ Wrap > INPUT_BUF /\ 1 \in 0 .. Wrap - 1
  BY ConsoleAssumption
<1>2. /\ Minus(w, r) \in 0 .. Wrap - 1 /\ Minus(w, r) = IF w >= r THEN w - r ELSE (w - r) + Wrap
      /\ Minus(e, w) \in 0 .. Wrap - 1 /\ Minus(e, w) = IF e >= w THEN e - w ELSE (e - w) + Wrap
      /\ Minus(e, r) \in 0 .. Wrap - 1 /\ Minus(e, r) = IF e >= r THEN e - r ELSE (e - r) + Wrap
  BY RingArithmetic
<1>3. Minus(e, r) = Minus(w, r) + Minus(e, w)
  BY <1>1, <1>2 DEF Filled
<1>4. ASSUME NEW n \in 0 .. Minus(e, w)
      PROVE  Minus(e, n) \in 0 .. Wrap - 1 /\ Filled(r, w, Minus(e, n)) /\ Minus(Minus(e, n), w) = Minus(e, w) - n
  <2> DEFINE f == Minus(e, n)
  <2>1. n \in 0 .. Wrap - 1
    BY <1>1, <1>2
  <2>2. f \in 0 .. Wrap - 1 /\ f = IF e >= n THEN e - n ELSE (e - n) + Wrap
    BY <2>1, RingArithmetic
  <2> HIDE DEF f
  <2>3. Minus(f, w) \in 0 .. Wrap - 1 /\ Minus(f, w) = IF f >= w THEN f - w ELSE (f - w) + Wrap
    BY <2>2, RingArithmetic
  <2>4. Minus(f, w) = Minus(e, w) - n
    BY <1>1, <1>2, <2>1, <2>2, <2>3
  <2>5. Filled(r, w, f)
    BY <1>1, <1>2, <2>1, <2>4 DEF Filled
  <2> QED
    BY <2>2, <2>4, <2>5 DEF f
<1>5. ASSUME Minus(e, r) < INPUT_BUF
      PROVE  Plus(e, 1) \in 0 .. Wrap - 1 /\ Filled(r, w, Plus(e, 1)) /\ Filled(r, Plus(e, 1), Plus(e, 1))
  <2> DEFINE f == Plus(e, 1)
  <2>1. f \in 0 .. Wrap - 1 /\ f = IF e + 1 < Wrap THEN e + 1 ELSE (e + 1) - Wrap
    BY <1>1, RingArithmetic
  <2> HIDE DEF f
  <2>2. /\ Minus(f, w) = IF f >= w THEN f - w ELSE (f - w) + Wrap
        /\ Minus(f, r) = IF f >= r THEN f - r ELSE (f - r) + Wrap
        /\ Minus(f, f) = 0
    <3>1. f >= f /\ f - f = 0
      BY <2>1
    <3>2. /\ Minus(f, w) = IF f >= w THEN f - w ELSE (f - w) + Wrap
          /\ Minus(f, r) = IF f >= r THEN f - r ELSE (f - r) + Wrap
      BY <2>1, RingArithmetic
    <3>3. Minus(f, f) = IF f >= f THEN f - f ELSE (f - f) + Wrap
      BY <2>1, RingArithmetic
    <3> QED
      BY <3>1, <3>2, <3>3
  <2>3. Minus(f, w) = Minus(e, w) + 1 /\ Minus(f, r) = Minus(e, r) + 1
    BY <1>1, <1>2, <1>3, <1>5, <2>1, <2>2
  <2>4. Filled(r, w, f) /\ Filled(r, f, f)
    BY <1>1, <1>2, <1>3, <1>5, <2>1, <2>2, <2>3 DEF Filled
  <2> QED
    BY <2>1, <2>4 DEF f
<1>6. ASSUME NEW n \in 0 .. Minus(w, r)
      PROVE  Plus(r, n) \in 0 .. Wrap - 1 /\ Filled(Plus(r, n), w, e) /\ Minus(w, Plus(r, n)) = Minus(w, r) - n
  <2> DEFINE f == Plus(r, n)
  <2>1. n \in 0 .. Wrap - 1
    BY <1>1, <1>2
  <2>2. f \in 0 .. Wrap - 1 /\ f = IF r + n < Wrap THEN r + n ELSE (r + n) - Wrap
    BY <2>1, RingArithmetic
  <2> HIDE DEF f
  <2>3. Minus(w, f) \in 0 .. Wrap - 1 /\ Minus(w, f) = IF w >= f THEN w - f ELSE (w - f) + Wrap
    BY <2>2, RingArithmetic
  <2>4. Minus(w, f) = Minus(w, r) - n
    BY <1>1, <1>2, <2>1, <2>2, <2>3
  <2>5. Filled(f, w, e)
    BY <1>1, <1>2, <2>1, <2>4 DEF Filled
  <2> QED
    BY <2>2, <2>4, <2>5 DEF f
<1> QED
  BY <1>3, <1>4, <1>5, <1>6

LEMMA MinExists ==
  ASSUME NEW u \in SUBSET Nat, u # {}
  PROVE  \E x \in u : \A y \in u : x <= y
<1> DEFINE R == {ss \in Nat \X Nat : ss[1] < ss[2]}
<1>1. IsWellFoundedOn(R, Nat)
  BY NatLessThanWellFounded, Zenon DEF OpToRel
<1>2. \A m, n \in Nat : m < n => <<m, n>> \in R
  OBVIOUS
<1> HIDE DEF R
<1>3. PICK x \in u : \A y \in u : ~(<<y, x>> \in R)
  BY <1>1, WFMin, Zenon
<1>4. ASSUME NEW y \in u PROVE x <= y
  <2>1. x \in Nat /\ y \in Nat /\ ~(y < x)
    BY <1>2, <1>3
  <2> QED
    BY <2>1
<1> QED
  BY <1>4

LEMMA MaxExists ==
  ASSUME NEW n \in Nat, NEW u \in SUBSET (1 .. n), u # {}
  PROVE  \E x \in u : \A y \in u : y <= x
<1> DEFINE v == {m \in Nat : \A y \in u : y <= m}
<1>1. n \in v
  OBVIOUS
<1>2. PICK x \in v : \A m \in v : x <= m
  BY <1>1, MinExists
<1>3. x \in u
  <2> SUFFICES ASSUME x \notin u PROVE FALSE
    OBVIOUS
  <2>1. \A y \in u : y <= x - 1 /\ y >= 1
    BY <1>2
  <2>2. x - 1 \in Nat
    <3>1. PICK y \in u : TRUE
      OBVIOUS
    <3>2. y \in Nat /\ x \in Nat /\ y <= x - 1 /\ y >= 1
      BY <2>1
    <3> QED
      BY <3>2
  <2>3. x - 1 \in v
    BY <2>1, <2>2
  <2> QED
    BY <1>2, <2>3
<1> QED
  BY <1>2, <1>3

LEMMA FromSeq ==
  ASSUME NEW in \in Rings, NEW x \in 0 .. Wrap - 1, NEW y \in 0 .. Wrap - 1
  PROVE  /\ From(in, x, y) \in Seq(Keys) /\ Len(From(in, x, y)) = Minus(y, x)
         /\ DOMAIN From(in, x, y) = 1 .. Minus(y, x) /\ Minus(y, x) \in Nat
<1>1. Minus(y, x) \in 0 .. Wrap - 1 /\ Wrap \in Nat /\ INPUT_BUF \in Nat \ {0}
  BY RingArithmetic, ConsoleAssumption
<1>2. ASSUME NEW i \in 1 .. Minus(y, x) PROVE in.buf[Plus(x, i - 1) % INPUT_BUF] \in Keys
  <2>1. i - 1 \in 0 .. Wrap - 1
    BY <1>1
  <2>2. Plus(x, i - 1) \in 0 .. Wrap - 1
    BY <2>1, RingArithmetic
  <2>3. Plus(x, i - 1) % INPUT_BUF \in 0 .. INPUT_BUF - 1
    <3>1. Plus(x, i - 1) \in Int
      BY <1>1, <2>2
    <3> QED
      BY <1>1, <3>1, ModOf
  <2> QED
    BY <2>3 DEF Rings
<1> DEFINE n == Minus(y, x)
           e(i) == in.buf[Plus(x, i - 1) % INPUT_BUF]
<1>3. n \in Nat /\ \A i \in 1 .. n : e(i) \in Keys
  BY <1>1, <1>2
<1>4. From(in, x, y) = [i \in 1 .. n |-> e(i)]
  BY DEF From
<1> HIDE DEF n, e
<1>5. [i \in 1 .. n |-> e(i)] \in Seq(Keys) /\ Len([i \in 1 .. n |-> e(i)]) = n
  BY <1>3
<1> QED
  BY <1>3, <1>4, <1>5 DEF n

LEMMA ErasedIn ==
  ASSUME NEW in \in Inputs, NEW ch
  PROVE  Erased(in, ch) \in 0 .. Minus(in.e, in.w) /\ Minus(in.e, in.w) \in 0 .. INPUT_BUF
<1> DEFINE line == From(in, in.w, in.e)
           n == Minus(in.e, in.w)
           last == {i \in DOMAIN line : line[i] = Newline}
           m == CHOOSE i \in last : \A j \in last : j <= i
<1>1. in \in Rings /\ in.r \in 0 .. Wrap - 1 /\ in.w \in 0 .. Wrap - 1 /\ in.e \in 0 .. Wrap - 1 /\ Filled(in.r, in.w, in.e)
  BY DEF Inputs, Rings
<1>2. line \in Seq(Keys) /\ Len(line) = n /\ DOMAIN line = 1 .. n /\ n \in Nat
  BY <1>1, FromSeq
<1>3. n \in 0 .. INPUT_BUF
  <2>1. Minus(in.w, in.r) \in Nat /\ INPUT_BUF \in Nat /\ Minus(in.w, in.r) + n <= INPUT_BUF
    BY <1>1, FromSeq, ConsoleAssumption DEF Filled
  <2> QED
    BY <1>2, <2>1
<1>4. last # {} => m \in 1 .. n
  <2> SUFFICES ASSUME last # {} PROVE m \in last /\ last \in SUBSET (1 .. n)
    OBVIOUS
  <2>1. last \in SUBSET (1 .. n)
    BY <1>2
  <2> HIDE DEF last, n
  <2>2. \E i \in last : \A j \in last : j <= i
    BY <1>2, <2>1, MaxExists
  <2> QED
    BY <2>1, <2>2
<1>5. Erased(in, ch) = IF ch = Backspace THEN (IF line = <<>> THEN 0 ELSE 1)
                       ELSE IF last = {} THEN Len(line) ELSE Len(line) - m
  BY DEF Erased
<1>6. line # <<>> => n >= 1
  <2> HIDE DEF line, n
  <2> QED
    BY <1>2
<1> HIDE DEF line, last, n, m
<1>7. Erased(in, ch) \in 0 .. n
  BY <1>2, <1>4, <1>5, <1>6
<1> QED
  BY <1>3, <1>7 DEF n

LEMMA PutIn ==
  ASSUME NEW in \in Inputs, NEW ch \in Keys, Room(in)
  PROVE  Put(in, ch) \in Inputs
<1> DEFINE e == Plus(in.e, 1)
           w == IF Ends(in, ch) THEN e ELSE in.w
           b == [in.buf EXCEPT ![in.e % INPUT_BUF] = ch]
<1>1. in \in Rings /\ in.r \in 0 .. Wrap - 1 /\ in.w \in 0 .. Wrap - 1 /\ in.e \in 0 .. Wrap - 1 /\ Filled(in.r, in.w, in.e)
  BY DEF Inputs, Rings
<1>2. e \in 0 .. Wrap - 1 /\ Filled(in.r, in.w, e) /\ Filled(in.r, e, e)
  BY <1>1, RingMoves DEF Room
<1>3. b \in [0 .. INPUT_BUF - 1 -> Keys]
  BY <1>1 DEF Rings
<1>4. w \in 0 .. Wrap - 1 /\ Filled(in.r, w, e)
  <2> HIDE DEF e
  <2> QED
    BY <1>1, <1>2
<1>5. Put(in, ch) = [in EXCEPT !.buf = b, !.e = e, !.w = w]
  BY DEF Put
<1> HIDE DEF b, e, w
<1> DEFINE x == [in EXCEPT !.buf = b, !.e = e, !.w = w]
<1>6. x \in Rings
  BY <1>1, <1>2, <1>3, <1>4 DEF Rings
<1>7. x.r = in.r /\ x.w = w /\ x.e = e
  BY <1>1 DEF Rings
<1> HIDE DEF x
<1>8. x \in Inputs
  BY <1>4, <1>6, <1>7 DEF Inputs
<1> QED
  BY <1>5, <1>8 DEF x

LEMMA PassedIn ==
  ASSUME NEW in \in Inputs, NEW n \in Int, NEW target \in Int
  PROVE  /\ Passed(in, n, target).i \in 0 .. Minus(in.w, in.r)
         /\ Passed(in, n, target).done \in BOOLEAN
         /\ ~Passed(in, n, target).done => Passed(in, n, target).i = Minus(in.w, in.r)
<1> DEFINE all == From(in, in.r, in.w)
           m == Minus(in.w, in.r)
           stops == {i \in DOMAIN all : i = n \/ all[i] \in {Newline, Eof}}
           i == CHOOSE j \in stops : \A l \in stops : j <= l
           q == Passed(in, n, target)
<1>1. in \in Rings /\ in.r \in 0 .. Wrap - 1 /\ in.w \in 0 .. Wrap - 1
  BY DEF Inputs, Rings
<1>2. all \in Seq(Keys) /\ Len(all) = m /\ DOMAIN all = 1 .. m /\ m \in Nat
  BY <1>1, FromSeq
<1>3. stops # {} => i \in 1 .. m
  <2> SUFFICES ASSUME stops # {} PROVE i \in stops /\ stops \in SUBSET (1 .. m)
    OBVIOUS
  <2>1. stops \in SUBSET (1 .. m) /\ stops \in SUBSET Nat
    BY <1>2
  <2> HIDE DEF stops, m
  <2>2. \E j \in stops : \A l \in stops : j <= l
    BY <2>1, MinExists
  <2> QED
    BY <2>1, <2>2
<1>4. q = IF n <= 0 THEN [i |-> 0, done |-> TRUE]
          ELSE IF stops = {} THEN [i |-> Len(all), done |-> FALSE]
          ELSE [i |-> IF all[i] = Eof /\ n - i + 1 < target THEN i - 1 ELSE i, done |-> TRUE]
  BY DEF Passed
<1> HIDE DEF all, m, stops, i, q
<1>5. q.i \in 0 .. m /\ q.done \in BOOLEAN /\ (~q.done => q.i = m)
  BY <1>2, <1>3, <1>4
<1> QED
  BY <1>5 DEF q, m

-----------------------------------------------------------------------------
(* The steps of sys_sleep() and of the console keep DevInv.                *)
LEMMA SleepModes ==
  ASSUME NEW ch \in Channels
  PROVE  /\ Awake(ch) \in Modes
         /\ Awake("input") = Mode({"cons"}, TRUE)
         /\ Awake("ticks") = [Mode({"tickslock"}, TRUE) EXCEPT !.naps = TRUE]
         /\ Asleep(ch).intr = Awake(ch).intr /\ Asleep(ch).exits = Awake(ch).exits
         /\ Asleep(ch).held = Awake(ch).held /\ Asleep(ch).spins = Awake(ch).spins
         /\ Awake(ch).held = {LockOf(ch)} /\ ~Awake(ch).spins /\ ~Awake(ch).intr /\ ~Awake(ch).exits
<1>1. Awake(ch) \in Modes
  BY DEF Awake, Mode, Modes, ModeRecords, Channels, LockOf, Locks
<1>2. Awake("ticks") = [Mode({"tickslock"}, TRUE) EXCEPT !.naps = TRUE]
  BY DEF Awake, LockOf
<1>3. Awake("input") = Mode({"cons"}, TRUE)
  <2> DEFINE m == [Mode({"cons"}, TRUE) EXCEPT !.naps = FALSE]
             n == Mode({"cons"}, TRUE)
  <2>1. m \in ModeRecords /\ n \in ModeRecords /\ Same(m, n) /\ m.held = n.held
    BY DEF Mode, ModeRecords, Same, Locks, Channels
  <2>2. Awake("input") = m
    BY DEF Awake, LockOf
  <2> HIDE DEF m, n
  <2>3. m = n
    BY <2>1, ModeEqual
  <2> QED
    BY <2>2, <2>3 DEF n
<1>4. /\ Asleep(ch).intr = Awake(ch).intr /\ Asleep(ch).exits = Awake(ch).exits
      /\ Asleep(ch).held = Awake(ch).held /\ Asleep(ch).spins = Awake(ch).spins
      /\ Awake(ch).held = {LockOf(ch)} /\ ~Awake(ch).spins /\ ~Awake(ch).intr /\ ~Awake(ch).exits
  BY DEF Asleep, Awake, Mode
<1> QED
  BY <1>1, <1>2, <1>3, <1>4

LEMMA SysSleepKeeps ==
  ASSUME DevInv, NEW c \in CPUs, SysSleep(c)
  PROVE  DevInv'
<1>1. DevTypes /\ RunInv /\ ~panicked
  BY DevParts
<1>2. Keeps /\ RestTypes'
  BY <1>1, KeepsSame, RestSame DEF procvars, budget, SysSleep
<1>3. CASE At(c, "ticks0")
  <2> DEFINE o == [op |-> "sys_sleep", n |-> O(c).n, lk |-> "tickslock", t0 |-> ticks, at |-> elapsed]
  <2>1. k[Ctx(c)] # <<>> /\ O(c).op = "ticks0"
    BY <1>3 DEF At, O
  <2>2. Continue(c, <<o>>) /\ UNCHANGED <<cpu, lock, panicked>>
    BY <1>3 DEF SysSleep, At, spinning
  <2>3. ASSUME NEW a \in Modes, NEW b \in Modes, Fits(cpu[c], HeldBy(c), a), Goes(O(c), a, b)
        PROVE  \E d \in Modes : Fits(cpu[c], HeldBy(c), d) /\ Runs(<<o>>, d, b)
    <3>1. /\ O(c).n \in Nat /\ O(c).lk = "tickslock" /\ a = Mode({"tickslock"}, TRUE)
          /\ b = [a EXCEPT !.held = @ \ {O(c).lk}]
      BY <2>1, <2>3 DEF Goes, Releases, Schedules, OfCall
    <3>2. b = Idle(TRUE)
      BY <3>1, IdleFacts DEF Without, Locks
    <3>3. o \in Ops /\ o.op = "sys_sleep" /\ o.lk = "tickslock" /\ o.n \in Nat /\ o.t0 \in 0 .. TicksWrap - 1 /\ o.at \in Nat
      BY <1>1, <3>1, DevicesAssumption DEF DevTypes, Ops, Values, Locks
    <3> HIDE DEF o
    <3>4. Goes(o, Awake("ticks"), b)
      BY <3>2, <3>3, SleepModes DEF Goes, Channels
    <3>5. Awake("ticks") \in Modes /\ Fits(cpu[c], HeldBy(c), Awake("ticks"))
      <4>1. /\ Awake("ticks") \in Modes /\ Awake("ticks").held = {"tickslock"} /\ ~Awake("ticks").spins
            /\ ~Awake("ticks").intr /\ ~Awake("ticks").exits
        BY SleepModes DEF Channels, LockOf
      <4>2. a.held = {"tickslock"} /\ ~a.spins /\ ~a.intr /\ ~a.exits
            /\ a.spins \in BOOLEAN /\ a.intr \in BOOLEAN /\ a.exits \in BOOLEAN
        BY <3>1 DEF Mode
      <4>3. Awake("ticks").spins = a.spins /\ Awake("ticks").intr = a.intr /\ Awake("ticks").exits = a.exits
        BY <4>1, <4>2, ModeIn DEF ModeRecords
      <4> QED
        BY <2>3, <4>1, <4>2, <4>3, FitsOther
    <3> QED
      BY <3>2, <3>3, <3>4, <3>5, RunsOne
  <2> HIDE DEF o
  <2>4. RunInv' /\ Types3
    BY <1>1, <1>2, <2>1, <2>2, <2>3, ContinueLemma
  <2> QED
    BY <1>1, <1>2, <2>2, <2>4, DevNext
<1>4. CASE At(c, "sys_sleep") /\ ~(StillSleeps(O(c)) /\ ~killed[P(c)])
  <2>1. k[Ctx(c)] # <<>> /\ O(c).op \in DoneOps /\ Done(c, FALSE)
    BY <1>4 DEF At, O, DoneOps, SysSleep
  <2> QED
    BY <1>2, <2>1, DoneLemma, DevNext
<1>5. CASE At(c, "sys_sleep") /\ StillSleeps(O(c)) /\ ~killed[P(c)]
  <2> DEFINE ops == Sleep("ticks", "tickslock") \o <<O(c)>>
  <2>1. k[Ctx(c)] # <<>> /\ O(c).op = "sys_sleep"
    BY <1>5 DEF At, O
  <2>2. Continue(c, ops) /\ UNCHANGED <<cpu, lock, panicked>>
    BY <1>5 DEF SysSleep, At, spinning
  <2>3. O(c) \in Ops
    BY <1>1, <2>1, AtHead
  <2>4. ASSUME NEW a \in Modes, NEW b \in Modes, Fits(cpu[c], HeldBy(c), a), Goes(O(c), a, b)
        PROVE  \E d \in Modes : Fits(cpu[c], HeldBy(c), d) /\ Runs(ops, d, b)
    <3>1. a = Awake("ticks")
      BY <2>1, <2>4, SleepModes DEF Goes, Releases, Schedules, Channels
    <3>2. Asleep("ticks") \in Modes /\ Runs(Sleep("ticks", "tickslock"), Asleep("ticks"), Awake("ticks"))
      BY RunsSleep DEF Channels, LockOf
    <3>3. Fits(cpu[c], HeldBy(c), Asleep("ticks"))
      BY <2>4, <3>1, <3>2, SleepModes, FitsOther DEF Channels
    <3>4. Runs(<<O(c)>>, Awake("ticks"), b)
      BY <2>3, <2>4, <3>1, RunsOne
    <3> QED
      BY <3>2, <3>3, <3>4, RunsCat
  <2> HIDE DEF ops
  <2>5. RunInv' /\ Types3
    BY <1>1, <1>2, <2>1, <2>2, <2>4, ContinueLemma
  <2> QED
    BY <1>1, <1>2, <2>2, <2>5, DevNext
<1> QED
  BY <1>3, <1>4, <1>5 DEF SysSleep

LEMMA ConsputsKeeps ==
  ASSUME DevInv, NEW c \in CPUs, Consputs(c)
  PROVE  DevInv'
<1> DEFINE s == O(c).n
           at == [i \in 1 .. Len(s) + 1 |-> FoldLeft(Cursor, pos, SubSeq(s, 1, i - 1))]
           bad == \E i \in 1 .. Len(s) : CursorBad(at[i], s[i])
<1>1. DevTypes /\ RunInv /\ ~panicked /\ k[Ctx(c)] # <<>> /\ O(c).op = "consputs"
  BY DevParts DEF Consputs, At, O
<1>2. Keeps
  BY <1>1, KeepsSame DEF procvars, Consputs
<1>3. s = <<"a", Newline>>
  <2>1. PICK a, b \in Modes : Goes(O(c), a, b)
    BY <1>1, AtHead
  <2> QED
    BY <1>1, <2>1 DEF Goes, Releases, Schedules
<1>4. s \in Seq(Keys) /\ Len(s) \in Nat
  BY <1>3 DEF Keys, Plain, Newline
<1>5. \A i \in 1 .. Len(s) + 1 : at[i] \in Positions
  <2> TAKE i \in 1 .. Len(s) + 1
  <2> HIDE DEF s
  <2>1. SubSeq(s, 1, i - 1) \in Seq(Keys)
    BY <1>4
  <2>2. pos \in Positions
    BY <1>1 DEF DevTypes
  <2>3. FoldLeft(Cursor, pos, SubSeq(s, 1, i - 1)) \in Positions
    BY <2>1, <2>2, FoldCursor
  <2> QED
    BY <2>3
<1>6. pos' = at[Len(s) + 1] /\ Done(c, bad) /\ UNCHANGED <<input, procvars, ticks, budget>>
  BY DEF Consputs
<1> HIDE DEF s, at
<1>7. ~bad /\ bad \in BOOLEAN
  <2>1. \A i \in 1 .. Len(s) : at[i] \in Positions
    BY <1>4, <1>5
  <2> QED
    BY <2>1, CursorStays
<1>8. RestTypes'
  <2>1. pos' \in Positions
    BY <1>4, <1>5, <1>6
  <2> QED
    BY <1>1, <1>6, <2>1 DEF DevTypes, RestTypes, procvars, budget
<1> HIDE DEF bad
<1>9. RunInv' /\ Types3 /\ ~panicked'
  BY <1>1, <1>2, <1>6, <1>7, DoneLemma DEF DoneOps
<1> QED
  BY <1>8, <1>9, DevNext

LEMMA GetcModes ==
  ASSUME NEW c \in CPUs, NEW a \in Modes, NEW b \in Modes, O(c) \in Ops, O(c).op = "getc", Goes(O(c), a, b)
  PROVE  /\ Runs(<<O(c)>>, a, b)
         /\ O(c).n \in BOOLEAN /\ O(c).lk = "cons" /\ a.held = {"cons"} /\ ~a.spins /\ a.intr
         /\ a.sleeps = "no" /\ a.wakes = "no"
         /\ b.held = {} /\ ~b.spins /\ b.intr = a.intr /\ b.exits = a.exits
         /\ Runs(<<[O(c) EXCEPT !.n = TRUE]>>, a, b)
<1> DEFINE o == O(c)
           q == [o EXCEPT !.n = TRUE]
<1>1. /\ o.n \in BOOLEAN /\ o.lk = "cons" /\ a.held = {"cons"} /\ ~a.spins /\ a.intr
      /\ a.sleeps = "no" /\ a.wakes = "no" /\ b = [a EXCEPT !.held = @ \ {o.lk}]
  BY DEF Goes, Releases, Schedules, Quiet
<1>2. b.held = {} /\ ~b.spins /\ b.intr = a.intr /\ b.exits = a.exits
  BY <1>1, ModeIn DEF ModeRecords
<1>3. q \in Ops /\ q.op = "getc" /\ q.lk = "cons" /\ q.n = TRUE
  <2>1. o \in [op : OpNames, n : Values, lk : Locks \cup {NULL}]
    BY DEF Ops
  <2>2. q \in [op : OpNames, n : Values, lk : Locks \cup {NULL}] /\ q.op = o.op /\ q.lk = o.lk /\ q.n = TRUE
    BY <2>1 DEF Values
  <2> QED
    BY <1>1, <2>2 DEF Ops
<1> HIDE DEF q
<1>4. Goes(q, a, b)
  BY <1>1, <1>3 DEF Goes, Releases, Quiet
<1> QED
  BY <1>1, <1>2, <1>3, <1>4, RunsOne DEF q

LEMMA GetcKeeps ==
  ASSUME DevInv, NEW c \in CPUs, NEW key \in Keys, Getc(c, key)
  PROVE  DevInv'
<1> DEFINE o == O(c)
           gone == Erased(input, key)
           nth == CHOOSE f : TakenBack(f, pos, INPUT_BUF)
<1>1. DevTypes /\ RunInv /\ ~panicked /\ k[Ctx(c)] # <<>> /\ O(c).op = "getc"
  BY DevParts DEF Getc, At, O
<1>2. Keeps /\ UNCHANGED <<cpu, lock, procvars, ticks, elapsed>>
  BY <1>1, KeepsSame DEF procvars, Getc
<1>3. o \in Ops /\ input \in Inputs /\ pos \in Positions
  BY <1>1, AtHead DEF DevTypes
<1>4. ASSUME NEW ops, Continue(c, ops),
             \/ ops = <<o>> \/ ops = <<[o EXCEPT !.n = TRUE]>> \/ ops = Wakeup("input") \o <<o>>
      PROVE  RunInv' /\ Types3
  <2>1. ASSUME NEW a \in Modes, NEW b \in Modes, Fits(cpu[c], HeldBy(c), a), Goes(O(c), a, b)
        PROVE  \E d \in Modes : Fits(cpu[c], HeldBy(c), d) /\ Runs(ops, d, b)
    <3>1. /\ Runs(<<o>>, a, b) /\ Runs(<<[o EXCEPT !.n = TRUE]>>, a, b)
          /\ a.held = {"cons"} /\ ~a.spins /\ a.intr /\ a.sleeps = "no" /\ a.wakes = "no"
      BY <1>1, <1>3, <2>1, GetcModes
    <3>2. CASE ops = Wakeup("input") \o <<o>>
      <4> DEFINE d == [a EXCEPT !.wakes = "input"]
      <4>1. d \in Modes /\ Runs(Wakeup("input"), d, a)
        BY <3>1, RunsWakeup DEF Channels
      <4>2. d.intr = a.intr /\ d.exits = a.exits /\ d.held = a.held /\ d.spins = a.spins
        BY ModeIn DEF ModeRecords
      <4> HIDE DEF d
      <4>3. Fits(cpu[c], HeldBy(c), d)
        BY <2>1, <4>1, <4>2, FitsOther
      <4> QED
        BY <3>1, <3>2, <4>1, <4>3, RunsCat
    <3> QED
      BY <1>4, <2>1, <3>1, <3>2
  <2> QED
    BY <1>1, <1>2, <1>4, <2>1, ContinueLemma
<1>5. ASSUME input' \in Inputs, pos' \in Positions PROVE RestTypes'
  BY <1>1, <1>2, <1>5 DEF DevTypes, RestTypes, procvars
<1>6. CASE /\ key \in {"^U", Backspace} /\ input' = [input EXCEPT !.e = Minus(@, gone)]
           /\ pos' = nth[gone] /\ Continue(c, <<o>>) /\ UNCHANGED panicked
  <2>1. gone \in 0 .. Minus(input.e, input.w) /\ Minus(input.e, input.w) \in 0 .. INPUT_BUF
    BY <1>3, ErasedIn
  <2>2. gone \in 0 .. INPUT_BUF /\ INPUT_BUF \in Nat
    BY <2>1, ConsoleAssumption
  <2> HIDE DEF gone
  <2>3. nth[gone] \in Positions
    BY <1>3, <2>2, RecCursor
  <2> DEFINE x == [input EXCEPT !.e = Minus(@, gone)]
  <2>4. input \in Rings /\ input.r \in 0 .. Wrap - 1 /\ input.w \in 0 .. Wrap - 1 /\ input.e \in 0 .. Wrap - 1
        /\ Filled(input.r, input.w, input.e)
    BY <1>3 DEF Inputs, Rings
  <2>5. Minus(input.e, gone) \in 0 .. Wrap - 1 /\ Filled(input.r, input.w, Minus(input.e, gone))
    BY <2>1, <2>4, RingMoves
  <2>6. x \in Rings /\ x.r = input.r /\ x.w = input.w /\ x.e = Minus(input.e, gone)
    BY <2>4, <2>5 DEF Rings
  <2> HIDE DEF x
  <2>7. x \in Inputs
    BY <2>5, <2>6 DEF Inputs
  <2>8. input' = x /\ pos' = nth[gone]
    BY <1>6 DEF x, gone
  <2> QED
    BY <1>1, <1>4, <1>5, <1>6, <2>3, <2>7, <2>8, DevNext
<1>7. CASE key = "^P" /\ Continue(c, <<[o EXCEPT !.n = TRUE]>>) /\ UNCHANGED <<consvars, panicked>>
  <2>1. input' = input /\ pos' = pos
    BY <1>7 DEF consvars
  <2> QED
    BY <1>1, <1>3, <1>4, <1>5, <1>7, <2>1, DevNext
<1>8. CASE Continue(c, <<o>>) /\ UNCHANGED <<consvars, panicked>>
  <2>1. input' = input /\ pos' = pos
    BY <1>8 DEF consvars
  <2> QED
    BY <1>1, <1>3, <1>4, <1>5, <1>8, <2>1, DevNext
<1>9. CASE /\ Room(input) /\ input' = Put(input, key)
           /\ pos' = Cursor(pos, key) /\ panicked' = CursorBad(pos, key)
           /\ Continue(c, (IF Ends(input, key) THEN Wakeup("input") ELSE <<>>) \o <<o>>)
  <2>1. input' \in Inputs
    BY <1>3, <1>9, PutIn
  <2>2. pos' \in Positions /\ ~panicked'
    BY <1>3, <1>9, CursorStays
  <2>3. <<>> \o <<o>> = <<o>>
    OBVIOUS
  <2>4. Continue(c, Wakeup("input") \o <<o>>) \/ Continue(c, <<o>>)
    BY <1>9, <2>3
  <2>5. RunInv' /\ Types3
    BY <1>4, <2>4
  <2> QED
    BY <1>5, <2>1, <2>2, <2>5, DevNext
<1>10. nth = CHOOSE f : f = [i \in 0 .. INPUT_BUF |-> IF i = 0 THEN pos ELSE Cursor(f[i - 1], Backspace)]
  BY DEF TakenBack
<1> QED
  BY <1>6, <1>7, <1>8, <1>9, <1>10 DEF Getc

LEMMA GetcEndKeeps ==
  ASSUME DevInv, NEW c \in CPUs, GetcEnd(c)
  PROVE  DevInv'
<1> DEFINE ops == IF O(c).n THEN Cprintf ELSE <<>>
           t == Tail(k[Ctx(c)])
<1>1. DevTypes /\ RunInv /\ ~panicked /\ k[Ctx(c)] # <<>> /\ O(c).op = "getc"
  BY DevParts DEF GetcEnd, At, O
<1>2. Keeps /\ RestTypes' /\ Continue(c, ops) /\ ReleaseLock(c, "cons", FALSE)
  BY <1>1, KeepsSame, RestSame DEF procvars, budget, GetcEnd
<1>3. PICK a, b \in Modes : Fits(cpu[c], HeldBy(c), a) /\ Goes(O(c), a, b) /\ Runs(t, b, Idle(P(c) # NULL))
  BY <1>1, AtHead
<1>4. O(c) \in Ops
  BY <1>1, AtHead
<1>5. /\ a.held = {"cons"} /\ ~a.spins /\ b.held = {} /\ ~b.spins /\ b.intr = a.intr /\ b.exits = a.exits
      /\ b.wakes = "no"
  <2>1. O(c).op = "getc" /\ Goes(O(c), a, b)
    BY <1>1, <1>3
  <2>2. a.held = {"cons"} /\ ~a.spins
    BY <1>4, <2>1, GetcModes
  <2>3. b.held = {} /\ ~b.spins
    BY <1>4, <2>1, GetcModes
  <2>4. b.intr = a.intr /\ b.exits = a.exits
    BY <1>4, <2>1, GetcModes
  <2>5. b.wakes = "no"
    <3>1. a.wakes = "no" /\ b = [a EXCEPT !.held = @ \ {O(c).lk}]
      BY <2>1 DEF Goes, Releases, Schedules, Quiet
    <3> QED
      BY <3>1, ModeIn DEF ModeRecords
  <2> QED
    BY <2>2, <2>3, <2>4, <2>5
<1>6. Runs(ops, b, b)
  BY <1>5, RunsCprintf, RunsEmpty
<1>7. Runs(ops \o t, b, Idle(P(c) # NULL)) /\ k' = [k EXCEPT ![Ctx(c)] = ops \o t]
  BY <1>2, <1>3, <1>6, RunsCat DEF Continue
<1>8. b.held = a.held \ {"cons"} /\ "cons" \in a.held
  BY <1>5
<1> HIDE DEF ops, t
<1>9. RunInv' /\ Types3 /\ ~panicked'
  BY <1>1, <1>2, <1>3, <1>5, <1>7, <1>8, ReleaseTo
<1> QED
  BY <1>2, <1>9, DevNext

LEMMA ConsolereadKeeps ==
  ASSUME DevInv, NEW c \in CPUs, Consoleread(c)
  PROVE  DevInv'
<1> DEFINE o == O(c)
           q == Passed(input, o.n, o.target)
<1>1. DevTypes /\ RunInv /\ ~panicked /\ k[Ctx(c)] # <<>> /\ O(c).op = "consoleread"
  BY DevParts DEF Consoleread, At, O
<1>2. Keeps
  BY <1>1, KeepsSame DEF procvars, Consoleread
<1>3. o \in Ops /\ input \in Inputs
  BY <1>1, AtHead DEF DevTypes
<1>4. ASSUME NEW a \in Modes, NEW b \in Modes, Goes(O(c), a, b)
      PROVE  /\ o.n \in Int /\ o.target \in Int /\ o.n <= o.target /\ a = Mode({"cons"}, TRUE)
             /\ o.lk = "cons" /\ b = [a EXCEPT !.held = @ \ {o.lk}]
  BY <1>1, <1>4 DEF Goes, Releases, Schedules, OfCall
<1>5. o.n \in Int /\ o.target \in Int /\ o.n <= o.target
  <2>1. PICK a, b \in Modes : Goes(O(c), a, b)
    BY <1>1, AtHead
  <2> QED
    BY <1>4, <2>1
<1>6. q.i \in 0 .. Minus(input.w, input.r) /\ q.done \in BOOLEAN
  <2> HIDE DEF o
  <2> QED
    BY <1>3, <1>5, PassedIn
<1>7. /\ input' = [input EXCEPT !.r = Plus(@, q.i)]
      /\ IF q.done \/ killed[P(c)] THEN Done(c, FALSE)
         ELSE Continue(c, Sleep("input", "cons") \o <<[o EXCEPT !.n = @ - q.i]>>) /\ UNCHANGED spinning
      /\ UNCHANGED <<pos, procvars, ticks, budget>>
  BY DEF Consoleread
<1> HIDE DEF q
<1>8. RestTypes'
  <2> DEFINE x == [input EXCEPT !.r = Plus(@, q.i)]
  <2>1. input \in Rings /\ input.r \in 0 .. Wrap - 1 /\ input.w \in 0 .. Wrap - 1 /\ input.e \in 0 .. Wrap - 1
        /\ Filled(input.r, input.w, input.e)
    BY <1>3 DEF Inputs, Rings
  <2>2. Plus(input.r, q.i) \in 0 .. Wrap - 1 /\ Filled(Plus(input.r, q.i), input.w, input.e)
    BY <1>6, <2>1, RingMoves
  <2>3. x \in Rings /\ x.e = input.e /\ x.w = input.w /\ x.r = Plus(input.r, q.i)
    BY <2>1, <2>2 DEF Rings
  <2> HIDE DEF x
  <2>4. x \in Inputs
    BY <2>2, <2>3 DEF Inputs
  <2>5. input' \in Inputs
    BY <1>7, <2>4 DEF x
  <2> QED
    BY <1>1, <1>7, <2>5 DEF DevTypes, RestTypes, procvars, budget
<1>9. CASE q.done \/ killed[P(c)]
  BY <1>1, <1>2, <1>7, <1>8, <1>9, DoneLemma, DevNext DEF DoneOps
<1>10. CASE ~(q.done \/ killed[P(c)])
  <2> DEFINE x == [o EXCEPT !.n = @ - q.i]
             ops == Sleep("input", "cons") \o <<x>>
  <2>1. Continue(c, ops) /\ UNCHANGED <<cpu, lock, panicked>>
    BY <1>7, <1>10 DEF spinning
  <2>2. ASSUME NEW a \in Modes, NEW b \in Modes, Fits(cpu[c], HeldBy(c), a), Goes(O(c), a, b)
        PROVE  \E d \in Modes : Fits(cpu[c], HeldBy(c), d) /\ Runs(ops, d, b)
    <3>1. a = Awake("input") /\ o.lk = "cons" /\ b = [a EXCEPT !.held = @ \ {o.lk}] /\ a = Mode({"cons"}, TRUE)
      BY <1>4, <2>2, SleepModes DEF Channels
    <3>2. Asleep("input") \in Modes /\ Runs(Sleep("input", "cons"), Asleep("input"), Awake("input"))
      BY RunsSleep DEF Channels, LockOf
    <3>3. Fits(cpu[c], HeldBy(c), Asleep("input"))
      BY <2>2, <3>1, <3>2, SleepModes, FitsOther DEF Channels
    <3>4. /\ x \in Ops /\ x.op = "consoleread" /\ x.lk = "cons" /\ x.n \in Int /\ x.target \in Int
          /\ x.n <= x.target
      <4>1. q.i \in Nat
        BY <1>3, <1>6, FromSeq DEF Inputs, Rings
      <4>2. o.n - q.i \in Int /\ o.n - q.i <= o.target
        BY <1>5, <4>1
      <4>3. o \in [op : {"consoleread"}, n : Values, lk : Locks, target : Values]
        BY <1>1, <1>3 DEF Ops, OpNames
      <4>4. /\ x \in [op : {"consoleread"}, n : Values, lk : Locks, target : Values]
            /\ x.op = "consoleread" /\ x.lk = o.lk /\ x.n = o.n - q.i /\ x.target = o.target
        BY <4>2, <4>3 DEF Values
      <4> QED
        BY <1>5, <3>1, <4>2, <4>4 DEF Ops
    <3> HIDE DEF x
    <3>5. Goes(x, Awake("input"), b)
      <4>1. "cons" \in a.held /\ ~a.spins
        BY <3>1 DEF Mode
      <4> QED
        BY <3>1, <3>4, <4>1 DEF Goes, Releases, OfCall
    <3>6. Runs(<<x>>, Awake("input"), b)
      BY <2>2, <3>1, <3>4, <3>5, RunsOne
    <3> QED
      BY <3>2, <3>3, <3>6, RunsCat
  <2> HIDE DEF ops
  <2>3. RunInv' /\ Types3
    BY <1>1, <1>2, <2>1, <2>2, ContinueLemma
  <2> QED
    BY <1>1, <1>8, <2>1, <2>3, DevNext
<1> QED
  BY <1>9, <1>10

-----------------------------------------------------------------------------
(* The steps under ptable.lock, and the scheduler, keep DevInv.            *)
LEMMA TableKeeps ==
  ASSUME DevInv, NEW c \in CPUs, WakeupStep(c) \/ Kill(c) \/ ChangeTickets(c)
  PROVE  DevInv'
<1>1. DevTypes /\ RunInv /\ ~panicked /\ k[Ctx(c)] # <<>> /\ O(c).op \in DoneOps /\ Done(c, FALSE)
  BY DevParts DEF WakeupStep, Kill, ChangeTickets, At, O, DoneOps
<1>2. PICK a, b \in Modes : Goes(O(c), a, b)
  BY <1>1, AtHead
<1>3. Keeps /\ RestTypes'
  <2>1. CASE WakeupStep(c)
    <3>1. state' = [p \in Procs |-> IF state[p] = "SLEEPING" /\ chan[p] = O(c).n THEN "RUNNABLE" ELSE state[p]]
      BY <2>1 DEF WakeupStep
    <3>2. state' \in [Procs -> States] /\ Keeps
      BY <1>1, <3>1 DEF Keeps, DevTypes, States, Waiting
    <3> QED
      BY <1>1, <2>1, <3>2 DEF WakeupStep, RestTypes, DevTypes, consvars, budget
  <2>2. CASE Kill(c)
    <3>1. O(c).n \in Procs
      <4>1. O(c).op = "kill"
        BY <2>2 DEF Kill, At, O
      <4> QED
        BY <1>2, <4>1 DEF Goes, Releases, Schedules
    <3>2. /\ state' = [state EXCEPT ![O(c).n] = IF @ = "SLEEPING" THEN "RUNNABLE" ELSE @]
          /\ killed' = [killed EXCEPT ![O(c).n] = TRUE]
      BY <2>2 DEF Kill
    <3>3. state' \in [Procs -> States] /\ Keeps
      BY <1>1, <3>1, <3>2 DEF Keeps, DevTypes, States, Waiting
    <3>4. killed' \in [Procs -> BOOLEAN]
      BY <1>1, <3>1, <3>2 DEF DevTypes
    <3> QED
      BY <1>1, <2>2, <3>3, <3>4 DEF Kill, RestTypes, DevTypes, consvars, budget
  <2>3. CASE ChangeTickets(c)
    <3>1. O(c).n \in Int /\ O(c).q \in Procs
      <4>1. O(c).op = "change_tickets"
        BY <2>3 DEF ChangeTickets, At, O
      <4> QED
        BY <1>2, <4>1 DEF Goes, Releases, Schedules
    <3>2. tickets' = [tickets EXCEPT ![O(c).q] = O(c).n] /\ UNCHANGED <<consvars, state, chan, killed, ticks, budget>>
      BY <2>3 DEF ChangeTickets
    <3>3. tickets' \in [Procs -> Int] /\ Keeps
      BY <1>1, <3>1, <3>2, KeepsSame DEF DevTypes
    <3> QED
      BY <1>1, <3>2, <3>3 DEF RestTypes, DevTypes, consvars, budget
  <2> QED
    BY <2>1, <2>2, <2>3
<1> QED
  BY <1>1, <1>3, DoneLemma, DevNext

LEMMA RunsLooks ==
  ASSUME NEW n \in Nat
  PROVE  Mode({"ptable"}, FALSE) \in Modes /\ Runs(Looks(n), Mode({"ptable"}, FALSE), Idle(FALSE))
<1> DEFINE o == Under("slot", n, "ptable")
           m == Mode({"ptable"}, FALSE)
<1>1. m \in Modes /\ Idle(FALSE) \in Modes
  BY ModeConstants, IdleFacts DEF Locks
<1>2. o \in Ops /\ o.op = "slot" /\ o.lk = "ptable" /\ o.n = n
  BY DEF Under, Ops, OpNames, Values, Locks
<1>3. m.held = {"ptable"} /\ ~m.spins /\ Idle(FALSE) = [m EXCEPT !.held = @ \ {"ptable"}]
  BY IdleFacts DEF Mode, Locks, Without
<1> HIDE DEF o
<1>4. Goes(o, m, Idle(FALSE))
  BY <1>2, <1>3 DEF Goes, Releases
<1> HIDE DEF m
<1>5. Runs(<<o>>, m, Idle(FALSE))
  BY <1>1, <1>2, <1>4, RunsOne
<1> QED
  BY <1>1, <1>5 DEF Looks, o, m

LEMMA SchedulerLoopKeeps ==
  ASSUME DevInv, NEW c \in CPUs, SchedulerLoop(c)
  PROVE  DevInv'
<1> DEFINE u == [cpu[c] EXCEPT !.if = TRUE]
           s == <<Acquire("ptable"), Under("slot", 1, "ptable")>>
<1>1. DevTypes /\ RunInv /\ ~panicked /\ P(c) = NULL /\ k[Ctx(c)] = <<>> /\ Ctx(c) = SchedulerOf(c)
  BY DevParts, Contexts1 DEF SchedulerLoop
<1>2. Keeps /\ RestTypes'
  BY <1>1, KeepsSame, RestSame DEF procvars, budget, SchedulerLoop
<1>3. PICK a \in Modes : Runs(k[Ctx(c)], a, Idle(P(c) # NULL)) /\ Fits(cpu[c], HeldBy(c), a)
  BY <1>1 DEF RunInv, OnCpu, P
<1>4. a = Idle(FALSE) /\ Idle(FALSE) \in Modes /\ Idle(FALSE).held = {} /\ ~Idle(FALSE).spins /\ ~Idle(FALSE).intr
  BY <1>1, <1>3, RunsEnd, IdleFacts DEF Idle, Mode
<1>5. Weight(a) = 0
  BY <1>4, WeightZero
<1>6. u \in CpuRecords /\ u.proc = cpu[c].proc /\ u.ncli = cpu[c].ncli /\ cpu[c].proc = NULL
  BY <1>1 DEF DevTypes, CpuRecords, P
<1>7. cpu' = [cpu EXCEPT ![c] = u] /\ k' = [k EXCEPT ![Ctx(c)] = s] /\ UNCHANGED <<lock, panicked>>
  BY <1>1 DEF SchedulerLoop
<1> HIDE DEF u
<1>8. Fits(u, HeldBy(c), a)
  BY <1>3, <1>4, <1>5, <1>6 DEF Fits
<1>9. Runs(s, a, Idle(P(c) # NULL))
  <2>1. Runs(<<Acquire("ptable")>>, Idle(FALSE), Mode({"ptable"}, FALSE))
    BY IdleFacts, RunsAcquire DEF Locks
  <2>2. Runs(<<Under("slot", 1, "ptable")>>, Mode({"ptable"}, FALSE), Idle(FALSE))
    BY RunsLooks DEF Looks
  <2> QED
    BY <1>1, <1>4, <2>1, <2>2, RunsTwo
<1> HIDE DEF s
<1>10. RunInv' /\ Types3
  BY <1>1, <1>2, <1>6, <1>7, <1>8, <1>9, GoTo
<1> QED
  BY <1>1, <1>2, <1>7, <1>10, DevNext

\* sched(): the scheduler of c goes on, with ptable.lock.
LEMMA SchedKeeps ==
  ASSUME DevInv, NEW c \in CPUs, SchedStep(c)
  PROVE  DevInv'
<1> DEFINE o == O(c)
           p == P(c)
           t == Tail(k[Ctx(c)])
           r == Op("resume", cpu[c].intena)
           u == [cpu[c] EXCEPT !.proc = NULL]
<1>1. DevTypes /\ RunInv /\ ~panicked /\ k[Ctx(c)] # <<>> /\ o.op = "sched"
  BY DevParts DEF SchedStep, At, O
<1>2. PICK a, b \in Modes : /\ Fits(cpu[c], HeldBy(c), a) /\ Goes(o, a, b)
                            /\ Runs(k[Ctx(c)], a, Idle(P(c) # NULL)) /\ Runs(t, b, Idle(P(c) # NULL))
  BY <1>1, AtHead
<1>3. cpu[c] \in CpuRecords /\ Ctx(c) \in Contexts /\ o \in Ops /\ t \in Seq(Ops)
  BY <1>1, AtHead
<1>4. Schedules(o, a, b)
  BY <1>1, <1>2 DEF Goes, Releases
<1>5. /\ a.held = {"ptable"} /\ ~a.spins /\ a.proc
      /\ o.state \in {"SLEEPING", "RUNNABLE", "ZOMBIE"} /\ o.n \in Channels \cup {NULL}
      /\ o.state # "ZOMBIE" => b.held = {"ptable"} /\ ~b.spins /\ b.intr = a.intr /\ b.exits = a.exits
  <2>1. CASE o.state = "ZOMBIE"
    <3>1. a = [Mode({"ptable"}, TRUE) EXCEPT !.exits = TRUE] /\ o.n = NULL
      BY <1>4, <2>1 DEF Schedules
    <3> QED
      BY <2>1, <3>1 DEF Mode
  <2>2. CASE o.state = "RUNNABLE"
    BY <1>4, <2>2 DEF Schedules, Quiet
  <2>3. CASE o.state = "SLEEPING"
    <3>1. /\ a = [Mode({"ptable"}, TRUE) EXCEPT !.sleeps = o.n, !.naps = (o.n = "ticks")] /\ b = [a EXCEPT !.sleeps = "no"]
          /\ o.n \in Channels
      BY <1>4, <2>3 DEF Schedules
    <3> QED
      BY <2>3, <3>1 DEF Mode
  <2> QED
    BY <1>4, <2>1, <2>2, <2>3 DEF Schedules
<1>6. p # NULL
  BY <1>2, <1>5, RunsProc
<1>7. p \in Procs /\ Ctx(c) = p /\ p \in Contexts /\ SchedulerOf(c) \in Contexts /\ SchedulerOf(c) \notin Procs
  BY <1>1, <1>6, Contexts1
<1>8. Weight(a) = 1
  BY <1>5, ModeIn DEF Weight, One, ModeRecords
<1>9. cpu[c].ncli = 1 /\ ~cpu[c].if /\ HeldBy(c) = {"ptable"} /\ lock["ptable"] = c
  BY <1>2, <1>5, <1>8 DEF Fits, HeldBy
<1>10. ~panicked'
  BY <1>9 DEF SchedStep, Holding
<1>11. /\ state' = [state EXCEPT ![p] = o.state] /\ chan' = [chan EXCEPT ![p] = o.n]
       /\ cpu' = [cpu EXCEPT ![c] = u] /\ k' = [k EXCEPT ![p] = <<r>> \o t]
       /\ UNCHANGED <<lock, consvars, killed, tickets, ticks, budget>>
  BY <1>7 DEF SchedStep, Continue, Saved
<1>12. r \in Ops /\ r.op = "resume" /\ r.n = cpu[c].intena /\ cpu[c].intena \in BOOLEAN
  BY <1>3 DEF Op, Ops, OpNames, Values, CpuRecords
<1>13. u \in CpuRecords /\ u.proc = NULL /\ u.ncli = 1 /\ ~u.if
  <2>1. u \in CpuRecords /\ u.proc = NULL /\ u.ncli = cpu[c].ncli /\ u.if = cpu[c].if
    BY <1>3 DEF CpuRecords
  <2> QED
    BY <1>9, <2>1
<1> DEFINE s == <<r>> \o t
<1>14. s \in Seq(Ops) /\ s # <<>> /\ Head(s) = r /\ Tail(s) = t
  <2> HIDE DEF t, r
  <2> QED
    BY <1>3, <1>12
<1>15. OffCpu(s) \/ o.state = "ZOMBIE"
  <2> HIDE DEF t, r, s
  <2>1. o.state # "ZOMBIE" => Resumes(r.n, b)
    BY <1>2, <1>5, <1>6, <1>9, <1>12 DEF Resumes, Fits, P
  <2> QED
    BY <1>2, <1>6, <1>12, <1>14, <2>1 DEF OffCpu
<1> HIDE DEF o, p, t, r, u, s
<1>16. /\ cpu' \in [CPUs -> CpuRecords] /\ k' \in [Contexts -> Seq(Ops)] /\ lock' \in [Locks -> CPUs \cup {NULL}]
       /\ k'[p] = s /\ \A x \in Contexts : x # p => k'[x] = k[x]
  BY <1>1, <1>7, <1>11, <1>13, <1>14 DEF DevTypes, s
<1>17. \A d \in CPUs : d # c => cpu'[d] = cpu[d] /\ P(d)' = P(d) /\ Ctx(d)' = Ctx(d) /\ Ctx(d) # p /\ P(d) # p
  <2> TAKE d \in CPUs
  <2> SUFFICES ASSUME d # c PROVE cpu'[d] = cpu[d] /\ P(d)' = P(d) /\ Ctx(d)' = Ctx(d) /\ Ctx(d) # p /\ P(d) # p
    OBVIOUS
  <2>1. cpu'[d] = cpu[d]
    BY <1>1, <1>11 DEF DevTypes
  <2>2. Ctx(d) # p /\ P(d) # p
    BY <1>1, <1>6, <1>7, Contexts1 DEF RunInv, p
  <2> QED
    BY <2>1, <2>2 DEF P, Ctx
<1>18. cpu'[c] = u /\ P(c)' = NULL /\ Ctx(c)' = SchedulerOf(c)
  BY <1>1, <1>11, <1>13 DEF DevTypes, P, Ctx
<1>19. \A d \in CPUs : HeldBy(d)' = HeldBy(d)
  BY <1>11 DEF HeldBy
<1>20. ASSUME NEW d \in CPUs PROVE OnCpu(cpu'[d], HeldBy(d)', k'[Ctx(d)'])
  <2>1. CASE d = c
    <3>1. PICK n \in Nat : k[SchedulerOf(c)] = Looks(n)
      BY <1>1, <1>6 DEF RunInv, p
    <3>2. k'[SchedulerOf(c)] = Looks(n)
      BY <1>7, <1>16, <3>1
    <3> DEFINE m == Mode({"ptable"}, FALSE)
    <3>3. m \in Modes /\ Runs(Looks(n), m, Idle(FALSE))
      BY RunsLooks
    <3>4. m.held = {"ptable"} /\ ~m.spins /\ ~m.intr
      BY DEF Mode
    <3> HIDE DEF m
    <3>5. Weight(m) = 1
      BY <3>3, <3>4, ModeIn DEF Weight, One, ModeRecords
    <3>6. Fits(u, {"ptable"}, m)
      BY <1>13, <3>4, <3>5 DEF Fits
    <3> QED
      BY <1>9, <1>13, <1>18, <1>19, <2>1, <3>2, <3>3, <3>6 DEF OnCpu
  <2>2. CASE d # c
    <3>1. Ctx(d) \in Contexts
      BY <1>1, Contexts1
    <3>2. cpu'[d] = cpu[d] /\ HeldBy(d)' = HeldBy(d) /\ k'[Ctx(d)'] = k[Ctx(d)]
      BY <1>16, <1>17, <1>19, <2>2, <3>1
    <3>3. OnCpu(cpu[d], HeldBy(d), k[Ctx(d)])
      BY <1>1 DEF RunInv
    <3> QED
      BY <3>2, <3>3
  <2> QED
    BY <2>1, <2>2
<1>21. ASSUME NEW d \in CPUs, P(d)' # NULL
       PROVE  state'[P(d)'] = "RUNNING" /\ \E n \in Nat : k'[SchedulerOf(d)] = Looks(n)
  <2>1. d # c
    BY <1>18, <1>21
  <2>2. P(d)' = P(d) /\ P(d) # p /\ P(d) # NULL
    BY <1>17, <1>21, <2>1
  <2>3. P(d) \in Procs /\ SchedulerOf(d) \in Contexts /\ SchedulerOf(d) # p
    BY <1>1, <1>7, <2>2, Contexts1
  <2>4. state'[P(d)] = "RUNNING"
    BY <1>1, <1>11, <2>2, <2>3 DEF RunInv, DevTypes
  <2>5. k'[SchedulerOf(d)] = k[SchedulerOf(d)]
    BY <1>16, <2>3
  <2> QED
    BY <1>1, <2>2, <2>4, <2>5 DEF RunInv
<1>22. \A d, e \in CPUs : P(d)' = P(e)' /\ P(d)' # NULL => d = e
  BY <1>1, <1>17, <1>18 DEF RunInv
<1>23. ASSUME NEW q \in Procs, state'[q] \in Waiting PROVE OffCpu(k'[q])
  <2>1. CASE q = p
    BY <1>1, <1>7, <1>11, <1>15, <1>16, <1>23, <2>1 DEF DevTypes, Waiting
  <2>2. CASE q # p
    <3>1. state'[q] = state[q] /\ q \in Contexts
      BY <1>1, <1>11, <2>2, Contexts1 DEF DevTypes
    <3> QED
      BY <1>1, <1>16, <1>23, <2>2, <3>1 DEF RunInv
  <2> QED
    BY <2>1, <2>2
<1>24. ASSUME NEW d \in CPUs, P(d)' # NULL
       PROVE (state[P(d)] = "RUNNING" /\ \E n \in Nat : k[SchedulerOf(d)] = Looks(n))'
  BY <1>21, <1>24 DEF SchedulerOf, Looks, Under
<1>25. RunInv'
  <2>1. \A d \in CPUs : OnCpu(cpu[d], HeldBy(d), k[Ctx(d)])'
    BY <1>20 DEF OnCpu
  <2>2. \A q \in Procs : (state[q] \in Waiting => OffCpu(k[q]))'
    BY <1>23 DEF OffCpu, Waiting
  <2> QED
    BY <1>22, <1>24, <2>1, <2>2 DEF RunInv
<1>26. RestTypes'
  <2>1. state' \in [Procs -> States]
    BY <1>1, <1>5, <1>7, <1>11 DEF DevTypes, States
  <2>2. chan' \in [Procs -> Channels \cup {NULL}]
    BY <1>1, <1>5, <1>7, <1>11 DEF DevTypes
  <2> QED
    BY <1>1, <1>11, <2>1, <2>2 DEF DevTypes, RestTypes, consvars, budget
<1> QED
  BY <1>10, <1>16, <1>25, <1>26, DevNext DEF Types3

\* swtch(): p goes on, with ptable.lock and the intena that it had.
LEMMA SwitchKeeps ==
  ASSUME DevInv, NEW c \in CPUs, At(c, "slot"), NEW p \in Procs, state[p] = "RUNNABLE", Switch(c, p),
         UNCHANGED <<lock, panicked, consvars, killed, tickets, ticks, budget>>
  PROVE  DevInv'
<1> DEFINE s == Tail(k[p])
           n == Head(k[p]).n
           u == [cpu[c] EXCEPT !.proc = p, !.intena = n]
           z == SchedulerOf(c)
<1>1. DevTypes /\ RunInv /\ ~panicked /\ k[Ctx(c)] # <<>> /\ O(c).op = "slot"
  BY DevParts DEF At, O
<1>2. PICK a, b \in Modes : /\ Fits(cpu[c], HeldBy(c), a) /\ Goes(O(c), a, b)
                            /\ Runs(k[Ctx(c)], a, Idle(P(c) # NULL))
  BY <1>1, AtHead
<1>3. a = Mode({"ptable"}, FALSE)
  BY <1>1, <1>2 DEF Goes, Releases, Schedules
<1>4. a.held = {"ptable"} /\ ~a.spins /\ ~a.proc
  BY <1>3 DEF Mode
<1>5. P(c) = NULL
  BY <1>2, <1>4, RunsProc
<1>6. Weight(a) = 1
  BY <1>4, ModeIn DEF Weight, One, ModeRecords
<1>7. cpu[c].ncli = 1 /\ ~cpu[c].if /\ HeldBy(c) = {"ptable"} /\ cpu[c] \in CpuRecords
  BY <1>1, <1>2, <1>4, <1>6 DEF Fits, DevTypes
<1>8. OffCpu(k[p])
  BY <1>1 DEF RunInv, Waiting
<1>9. PICK d \in Modes : Runs(s, d, Idle(TRUE)) /\ Resumes(n, d)
  BY <1>8 DEF OffCpu
<1>10. n \in BOOLEAN /\ s \in Seq(Ops) /\ p \in Nat /\ p # NULL
  BY <1>8, <1>9, SpinlockAssumption DEF OffCpu, Runs, Procs
<1>11. /\ p \in Contexts /\ z \in Contexts /\ z \notin Procs /\ Ctx(c) = z
       /\ \A e \in CPUs : Ctx(e) # p /\ P(e) # p
  <2>1. \A e \in CPUs : Ctx(e) # p /\ P(e) # p
    BY <1>1, <1>10, Contexts1 DEF Waiting
  <2> QED
    BY <1>1, <1>5, <2>1, Contexts1
<1>12. Looks(p + 1) \in Seq(Ops)
  <2>1. p + 1 \in Nat
    BY <1>10
  <2> QED
    BY <2>1, RunsLooks DEF Runs
<1>13. u \in CpuRecords /\ u.proc = p /\ u.intena = n /\ u.ncli = 1 /\ ~u.if
  <2>1. u \in CpuRecords /\ u.proc = p /\ u.intena = n /\ u.ncli = cpu[c].ncli /\ u.if = cpu[c].if
    BY <1>7, <1>10 DEF CpuRecords
  <2> QED
    BY <1>7, <2>1
<1>14. /\ cpu' = [cpu EXCEPT ![c] = u] /\ state' = [state EXCEPT ![p] = "RUNNING"] /\ chan' = [chan EXCEPT ![p] = NULL]
       /\ k' = [k EXCEPT ![p] = s, ![z] = Looks(p + 1)]
  BY DEF Switch, Looks
<1> HIDE DEF s, n, u, z
<1>15. /\ cpu' \in [CPUs -> CpuRecords] /\ k' \in [Contexts -> Seq(Ops)] /\ lock' \in [Locks -> CPUs \cup {NULL}]
       /\ k'[p] = s /\ k'[z] = Looks(p + 1) /\ \A x \in Contexts : x # p /\ x # z => k'[x] = k[x]
  BY <1>1, <1>10, <1>11, <1>12, <1>13, <1>14 DEF DevTypes
<1>16. \A e \in CPUs : e # c => cpu'[e] = cpu[e] /\ P(e)' = P(e) /\ Ctx(e)' = Ctx(e) /\ Ctx(e) # z
  <2> TAKE e \in CPUs
  <2> SUFFICES ASSUME e # c PROVE cpu'[e] = cpu[e] /\ P(e)' = P(e) /\ Ctx(e)' = Ctx(e) /\ Ctx(e) # z
    OBVIOUS
  <2>1. cpu'[e] = cpu[e]
    BY <1>1, <1>14 DEF DevTypes
  <2>2. Ctx(e) # z
    BY <1>1, <1>11, Contexts1
  <2> QED
    BY <2>1, <2>2 DEF P, Ctx
<1>17. cpu'[c] = u /\ P(c)' = p /\ Ctx(c)' = p
  BY <1>1, <1>10, <1>13, <1>14 DEF DevTypes, P, Ctx
<1>18. \A e \in CPUs : HeldBy(e)' = HeldBy(e)
  BY DEF HeldBy
<1>19. ASSUME NEW e \in CPUs PROVE OnCpu(cpu'[e], HeldBy(e)', k'[Ctx(e)'])
  <2>1. CASE e = c
    <3>1. d.held = {"ptable"} /\ ~d.spins /\ Weight(d) = 1
      BY <1>9, ModeIn DEF Resumes, Weight, One, ModeRecords
    <3>2. Fits(u, {"ptable"}, d)
      BY <1>9, <1>13, <3>1 DEF Fits, Resumes
    <3> QED
      BY <1>7, <1>9, <1>10, <1>13, <1>15, <1>17, <1>18, <2>1, <3>2 DEF OnCpu
  <2>2. CASE e # c
    <3>1. Ctx(e) \in Contexts
      BY <1>1, Contexts1
    <3>2. cpu'[e] = cpu[e] /\ HeldBy(e)' = HeldBy(e) /\ k'[Ctx(e)'] = k[Ctx(e)]
      BY <1>11, <1>15, <1>16, <1>18, <2>2, <3>1
    <3>3. OnCpu(cpu[e], HeldBy(e), k[Ctx(e)])
      BY <1>1 DEF RunInv
    <3> QED
      BY <3>2, <3>3
  <2> QED
    BY <2>1, <2>2
<1>20. ASSUME NEW e \in CPUs, P(e)' # NULL
       PROVE  state'[P(e)'] = "RUNNING" /\ \E m \in Nat : k'[SchedulerOf(e)] = Looks(m)
  <2>1. CASE e = c
    <3>1. p + 1 \in Nat /\ state'[p] = "RUNNING"
      BY <1>1, <1>10, <1>14 DEF DevTypes
    <3> QED
      BY <1>15, <1>17, <2>1, <3>1 DEF z
  <2>2. CASE e # c
    <3>1. P(e)' = P(e) /\ P(e) # NULL /\ P(e) # p
      BY <1>11, <1>16, <1>20, <2>2
    <3>2. P(e) \in Procs /\ SchedulerOf(e) \in Contexts /\ SchedulerOf(e) # p /\ SchedulerOf(e) # z
      BY <1>1, <2>2, <3>1, Contexts1 DEF z
    <3>3. state'[P(e)] = "RUNNING"
      BY <1>1, <1>14, <3>1, <3>2 DEF RunInv, DevTypes
    <3>4. k'[SchedulerOf(e)] = k[SchedulerOf(e)]
      BY <1>15, <3>2
    <3> QED
      BY <1>1, <3>1, <3>3, <3>4 DEF RunInv
  <2> QED
    BY <2>1, <2>2
<1>21. \A e, f \in CPUs : P(e)' = P(f)' /\ P(e)' # NULL => e = f
  BY <1>1, <1>11, <1>16, <1>17 DEF RunInv
<1>22. ASSUME NEW q \in Procs, state'[q] \in Waiting PROVE OffCpu(k'[q])
  <2>1. q # p
    BY <1>1, <1>14, <1>22 DEF DevTypes, Waiting
  <2>2. state'[q] = state[q] /\ q \in Contexts /\ q # z
    BY <1>1, <1>11, <1>14, <2>1, Contexts1 DEF DevTypes
  <2> QED
    BY <1>1, <1>15, <1>22, <2>1, <2>2 DEF RunInv
<1>23. ASSUME NEW e \in CPUs, P(e)' # NULL
       PROVE (state[P(e)] = "RUNNING" /\ \E m \in Nat : k[SchedulerOf(e)] = Looks(m))'
  BY <1>20, <1>23 DEF SchedulerOf, Looks, Under
<1>24. RunInv'
  <2>1. \A e \in CPUs : OnCpu(cpu[e], HeldBy(e), k[Ctx(e)])'
    BY <1>19 DEF OnCpu
  <2>2. \A q \in Procs : (state[q] \in Waiting => OffCpu(k[q]))'
    BY <1>22 DEF OffCpu, Waiting
  <2> QED
    BY <1>21, <1>23, <2>1, <2>2 DEF RunInv
<1>25. RestTypes'
  BY <1>1, <1>14 DEF DevTypes, RestTypes, consvars, budget, States
<1> QED
  BY <1>1, <1>15, <1>24, <1>25, DevNext DEF Types3

LEMMA SlotKeeps ==
  ASSUME DevInv, NEW c \in CPUs, Slot(c)
  PROVE  DevInv'
<1> DEFINE left == {p \in Runnable : p >= O(c).n}
           p == Min(left)
<1>1. DevTypes /\ RunInv /\ ~panicked /\ k[Ctx(c)] # <<>> /\ O(c).op = "slot" /\ At(c, "slot")
  BY DevParts DEF Slot, At, O
<1>2. left # {} => p \in left /\ p \in Procs /\ state[p] = "RUNNABLE" /\ p \in Nat
  <2> SUFFICES ASSUME left # {} PROVE p \in left
    BY DEF Runnable, Procs
  <2>1. left \in SUBSET Nat
    BY DEF Runnable, Procs
  <2> HIDE DEF left
  <2>2. \E x \in left : \A y \in left : x <= y
    BY <2>1, MinExists
  <2> QED
    BY <2>2 DEF Min
<1>3. UNCHANGED <<consvars, killed, tickets, ticks, budget>>
  BY DEF Slot
<1>4. \/ left = {} /\ Done(c, FALSE) /\ UNCHANGED <<state, chan>>
      \/ left # {} /\ Continue(c, <<[O(c) EXCEPT !.n = p + 1]>>) /\ UNCHANGED <<spinning, state, chan>>
      \/ left # {} /\ Switch(c, p) /\ UNCHANGED <<lock, panicked>>
  BY DEF Slot
<1> HIDE DEF left, p
<1>5. UNCHANGED <<state, chan>> => Keeps /\ RestTypes'
  BY <1>1, <1>3, KeepsSame, RestSame DEF procvars, budget
<1>6. CASE left = {} /\ Done(c, FALSE) /\ UNCHANGED <<state, chan>>
  BY <1>1, <1>5, <1>6, DoneLemma, DevNext DEF DoneOps
<1>7. CASE left # {} /\ Continue(c, <<[O(c) EXCEPT !.n = p + 1]>>) /\ UNCHANGED <<spinning, state, chan>>
  <2> DEFINE o == O(c)
             x == [o EXCEPT !.n = p + 1]
  <2>1. Continue(c, <<x>>) /\ UNCHANGED <<cpu, lock, panicked>>
    BY <1>7 DEF spinning
  <2>2. o \in Ops
    BY <1>1, AtHead
  <2>3. ASSUME NEW a \in Modes, NEW b \in Modes, Fits(cpu[c], HeldBy(c), a), Goes(O(c), a, b)
        PROVE  \E d \in Modes : Fits(cpu[c], HeldBy(c), d) /\ Runs(<<x>>, d, b)
    <3>1. o.lk = "ptable" /\ a = Mode({"ptable"}, FALSE) /\ "ptable" \in a.held /\ ~a.spins /\ b = [a EXCEPT !.held = @ \ {o.lk}]
      BY <1>1, <2>3 DEF Goes, Releases, Schedules
    <3>2. x \in Ops /\ x.op = "slot" /\ x.lk = "ptable" /\ x.n \in Nat
      <4>1. o \in [op : OpNames, n : Values, lk : Locks \cup {NULL}]
        BY <1>1, <2>2 DEF Ops
      <4>2. p + 1 \in Nat
        BY <1>2, <1>7
      <4>3. x \in [op : OpNames, n : Values, lk : Locks \cup {NULL}] /\ x.op = o.op /\ x.lk = o.lk /\ x.n = p + 1
        BY <4>1, <4>2 DEF Values
      <4> QED
        BY <1>1, <3>1, <4>2, <4>3 DEF Ops
    <3> HIDE DEF x
    <3>3. Goes(x, a, b)
      BY <3>1, <3>2 DEF Goes, Releases
    <3> QED
      BY <2>3, <3>2, <3>3, RunsOne
  <2> HIDE DEF x
  <2>4. RunInv' /\ Types3
    BY <1>1, <1>5, <1>7, <2>1, <2>3, ContinueLemma
  <2> QED
    BY <1>1, <1>5, <1>7, <2>1, <2>4, DevNext
<1>8. CASE left # {} /\ Switch(c, p) /\ UNCHANGED <<lock, panicked>>
  BY <1>1, <1>2, <1>3, <1>8, SwitchKeeps
<1> QED
  BY <1>4, <1>6, <1>7, <1>8

\* At the start a process that is not on a CPU comes from yield() in a handler.
LEMMA InitWaits ==
  OffCpu(<<Op("resume", FALSE), Release("ptable"), Op("iret", 0)>>)
<1> DEFINE a == [Mode({"ptable"}, TRUE) EXCEPT !.intr = TRUE]
           b == Without(a, "ptable")
           d == [b EXCEPT !.intr = FALSE]
           o == Op("iret", 0)
           s == <<Op("resume", FALSE), Release("ptable"), o>>
<1>1. a \in Modes /\ a.held = {"ptable"} /\ ~a.spins /\ a.intr /\ a.sleeps = "no" /\ a.wakes = "no"
  BY DEF Mode, Modes, ModeRecords, Locks
<1>2. ~a.exits /\ ~a.naps /\ a.proc
  BY DEF Mode
<1> HIDE DEF a
<1>3. b \in Modes /\ Runs(<<Release("ptable")>>, a, b)
  BY <1>1, RunsRelease
<1>4. /\ b.held = {} /\ ~b.spins /\ b.intr /\ b.wakes = "no" /\ d = Idle(TRUE)
  <2>1. a \in ModeRecords /\ b \in ModeRecords /\ Same(b, a) /\ b.held = {}
    BY <1>1, <1>3, ModeIn, WithFields DEF Locks
  <2> HIDE DEF b
  <2>2. ~b.spins /\ b.intr /\ ~b.exits /\ b.sleeps = "no" /\ b.wakes = "no" /\ ~b.naps /\ b.proc
    BY <1>1, <1>2, <2>1 DEF Same, ModeRecords
  <2>3. Idle(TRUE) \in ModeRecords
    BY IdleFacts, ModeIn
  <2>4. d \in ModeRecords /\ d.held = Idle(TRUE).held /\ Same(d, Idle(TRUE))
    <3>1. /\ d \in ModeRecords /\ d.held = {} /\ ~d.spins /\ ~d.intr /\ ~d.exits
          /\ d.sleeps = "no" /\ d.wakes = "no" /\ ~d.naps /\ d.proc
      BY <2>1, <2>2 DEF ModeRecords
    <3> HIDE DEF d
    <3> QED
      BY <3>1 DEF Same, Idle, Mode, ModeRecords
  <2> HIDE DEF d
  <2> QED
    BY <2>1, <2>2, <2>3, <2>4, ModeEqual
<1>5. o \in Ops /\ o.op = "iret" /\ o.lk = NULL
  BY DEF Op, Ops, OpNames, Values
<1>6. Idle(TRUE) \in Modes
  BY IdleFacts
<1> HIDE DEF b, o
<1>7. Goes(o, b, Idle(TRUE))
  BY <1>4, <1>5 DEF Goes
<1>8. Runs(<<o>>, b, Idle(TRUE))
  BY <1>3, <1>5, <1>6, <1>7, RunsOne
<1>9. Runs(<<Release("ptable"), o>>, a, Idle(TRUE))
  BY <1>3, <1>8, RunsTwo
<1>10. s # <<>> /\ Head(s) = Op("resume", FALSE) /\ Tail(s) = <<Release("ptable"), o>>
  OBVIOUS
<1>11. Head(s).op = "resume" /\ Head(s).n = FALSE
  BY <1>10 DEF Op
<1> HIDE DEF s
<1>12. Resumes(FALSE, a)
  BY <1>1 DEF Resumes
<1>13. OffCpu(s)
  BY <1>1, <1>9, <1>10, <1>11, <1>12 DEF OffCpu
<1> QED
  BY <1>13 DEF s, o

LEMMA InitKeeps ==
  ASSUME Init
  PROVE  DevInv
<1> DEFINE w == <<Op("resume", FALSE), Release("ptable"), Op("iret", 0)>>
<1>1. Op("resume", FALSE) \in Ops /\ Release("ptable") \in Ops /\ Op("iret", 0) \in Ops
  BY DEF Op, Under, Release, Ops, OpNames, Values, Locks
<1>2. w \in Seq(Ops) /\ OffCpu(w) /\ <<>> \in Seq(Ops)
  <2>1. \A o1, o2, o3 \in Ops : <<o1, o2, o3>> \in Seq(Ops)
    OBVIOUS
  <2>2. w \in Seq(Ops)
    BY <1>1, <2>1, Zenon
  <2>3. OffCpu(w)
    BY InitWaits, Zenon
  <2> HIDE DEF w
  <2> QED
    BY <2>2, <2>3
<1>3. /\ NCPU \in Nat /\ NPROC \in Nat /\ NCPU >= 1 /\ NPROC >= NCPU /\ NULL \notin Int
      /\ \A c \in CPUs : c \in Nat /\ c + 1 \in Procs /\ c + 1 <= NCPU /\ c + 1 \in Contexts
      /\ \A c \in CPUs : /\ SchedulerOf(c) \in Contexts /\ ~(SchedulerOf(c) <= NCPU)
                         /\ SchedulerOf(c) \notin Procs /\ SchedulerOf(c) - NPROC + 1 = c + 2
      /\ \A x \in Contexts : x <= NCPU \/ x \in Procs \/ x - NPROC + 1 \in Nat
      /\ Procs \subseteq Contexts
  BY SpinlockAssumption DEF CPUs, Procs, SchedulerOf, Contexts
<1>4. \A n \in Nat : Looks(n) \in Seq(Ops)
  BY RunsLooks DEF Runs
<1>5. /\ k = [x \in Contexts |-> IF x <= NCPU THEN <<>> ELSE IF x \in Procs THEN w ELSE Looks(x - NPROC + 1)]
      /\ lock = [lk \in Locks |-> NULL] /\ ~panicked
      /\ cpu = [c \in CPUs |-> [proc |-> c + 1, ncli |-> 0, intena |-> TRUE, if |-> TRUE]]
      /\ state = [p \in Procs |-> IF p <= NCPU THEN "RUNNING" ELSE "RUNNABLE"]
  BY DEF Init, Looks
<1> HIDE DEF w
<1>6. k \in [Contexts -> Seq(Ops)]
  BY <1>2, <1>3, <1>4, <1>5
<1>7. /\ \A c \in CPUs : /\ cpu[c] \in CpuRecords /\ cpu[c].proc = c + 1 /\ cpu[c].ncli = 0
                         /\ cpu[c].intena /\ cpu[c].if /\ P(c) = c + 1 /\ Ctx(c) = c + 1
      /\ cpu \in [CPUs -> CpuRecords] /\ lock \in [Locks -> CPUs \cup {NULL}]
  <2>1. \A c \in CPUs : cpu[c] = [proc |-> c + 1, ncli |-> 0, intena |-> TRUE, if |-> TRUE]
    BY <1>5
  <2>2. \A c \in CPUs : /\ cpu[c].proc = c + 1 /\ cpu[c].ncli = 0 /\ cpu[c].intena /\ cpu[c].if
                       /\ cpu[c] \in CpuRecords /\ c + 1 # NULL
    <3> TAKE c \in CPUs
    <3>1. cpu[c] = [proc |-> c + 1, ncli |-> 0, intena |-> TRUE, if |-> TRUE]
      BY <2>1
    <3>2. c + 1 \in Procs /\ c + 1 # NULL
      BY <1>3 DEF Procs
    <3> QED
      BY <3>1, <3>2 DEF CpuRecords
  <2>3. \A c \in CPUs : P(c) = c + 1 /\ Ctx(c) = c + 1
    BY <2>2 DEF P, Ctx
  <2> QED
    BY <1>5, <2>2, <2>3
<1>8. RestTypes
  <2>1. COLS * ROWS - 1 \in Positions
    <3>1. COLS \in Nat \ {0} /\ ROWS \in Nat /\ ROWS >= 1
      BY ConsoleAssumption
    <3>2. COLS * 0 + COLS <= COLS * ROWS /\ COLS * ROWS \in Nat /\ COLS * 0 \in Nat
      BY <3>1, Multiples
    <3> QED
      BY <3>1, <3>2 DEF Positions
  <2>2. input \in Inputs
    <3>1. Wrap \in Nat /\ Wrap > 0 /\ INPUT_BUF \in Nat /\ Wrap - 1 \in 0 .. Wrap - 1
      BY ConsoleAssumption
    <3>2. Minus(Wrap - 1, Wrap - 1) = 0
      BY <3>1, RingArithmetic
    <3>3. Filled(Wrap - 1, Wrap - 1, Wrap - 1)
      BY <3>1, <3>2 DEF Filled
    <3>4. input \in Rings /\ input.r = Wrap - 1 /\ input.w = Wrap - 1 /\ input.e = Wrap - 1
      BY <3>1 DEF Init, ConsoleInit, Rings, Keys
    <3> QED
      BY <3>3, <3>4 DEF Inputs
  <2>3. ticks \in 0 .. TicksWrap - 1 /\ elapsed \in Nat /\ tickets \in [Procs -> Int]
    BY DevicesAssumption DEF Init
  <2> QED
    BY <2>1, <2>2, <2>3 DEF Init, ConsoleInit, RestTypes, States
<1>9. ASSUME NEW c \in CPUs PROVE OnCpu(cpu[c], HeldBy(c), k[Ctx(c)])
  <2>1. HeldBy(c) = {} /\ k[Ctx(c)] = <<>>
    <3>1. c # NULL /\ c + 1 \in Contexts /\ c + 1 <= NCPU
      BY <1>3
    <3>2. HeldBy(c) = {}
      BY <1>5, <3>1 DEF HeldBy
    <3> QED
      BY <1>5, <1>7, <3>1, <3>2
  <2>2. Idle(TRUE) \in Modes /\ Runs(<<>>, Idle(TRUE), Idle(TRUE)) /\ Idle(TRUE).held = {} /\ ~Idle(TRUE).intr
        /\ ~Idle(TRUE).spins
    BY IdleFacts, RunsEmpty DEF Idle, Mode
  <2>3. cpu[c].proc # NULL
    BY <1>3, <1>7
  <2>4. Fits(cpu[c], {}, Idle(TRUE))
    BY <1>7, <2>2, WeightZero DEF Fits
  <2> QED
    BY <2>1, <2>2, <2>3, <2>4 DEF OnCpu
<1>10. ASSUME NEW c \in CPUs PROVE state[P(c)] = "RUNNING" /\ \E n \in Nat : k[SchedulerOf(c)] = Looks(n)
  <2>1. k[SchedulerOf(c)] = Looks(c + 2) /\ c + 2 \in Nat
    BY <1>3, <1>5
  <2> QED
    BY <1>3, <1>5, <1>7, <2>1
<1>11. \A c, d \in CPUs : P(c) = P(d) => c = d
  BY <1>3, <1>7
<1>12. \A p \in Procs : state[p] \in Waiting => OffCpu(k[p])
  BY <1>2, <1>3, <1>5 DEF Waiting
<1>13. RunInv
  BY <1>9, <1>10, <1>11, <1>12 DEF RunInv
<1> QED
  BY <1>5, <1>6, <1>7, <1>8, <1>13 DEF DevInv, DevTypes, RestTypes

LEMMA StepKeeps ==
  ASSUME DevInv, NEW c \in CPUs, Step(c)
  PROVE  DevInv'
<1>1. ASSUME StartStep(c) PROVE DevInv'
  BY <1>1, CallsKeep, SchedulerLoopKeeps DEF StartStep
<1>2. ASSUME KernelStep(c) PROVE DevInv'
  <2>1. ASSUME NEW key \in Keys, Getc(c, key) PROVE DevInv'
    BY <2>1, GetcKeeps
  <2> QED
    BY <1>2, <2>1, LockKeeps, ReturnKeeps, LeaveKeeps, IretKeeps, TickKeeps, SysSleepKeeps, ConsputsKeeps,
       GetcEndKeeps, ConsolereadKeeps, TableKeeps, SchedKeeps, SlotKeeps DEF KernelStep
<1> QED
  BY <1>1, <1>2 DEF Step

LEMMA DevKeeps ==
  ASSUME DevInv, [Next]_vars
  PROVE  DevInv'
<1>1. CASE Next
  BY <1>1, InterruptsKeep, StepKeeps DEF Next
<1>2. CASE UNCHANGED vars
  BY <1>2 DEF vars, spinvars, consvars, DevInv, DevTypes, RunInv, P, Ctx, HeldBy, Inputs
<1> QED
  BY <1>1, <1>2

LEMMA DevInvariant == Spec => []DevInv
<1>1. Init => DevInv
  BY InitKeeps
<1>2. DevInv /\ [Next]_vars => DevInv'
  BY DevKeeps
<1> QED
  BY <1>1, <1>2, PTL DEF Spec

-----------------------------------------------------------------------------
\* Nothing panics, for any number of CPUs, processes, interrupts and keys:
\* acquire() of a lock that the CPU has, release() of one that it has not,
\* popcli() with interrupts on, sched() with another lock or none, and a
\* cursor past the end of the screen are all out of reach.
THEOREM NothingPanics == Spec => []NoPanic
<1>1. DevInv => NoPanic
  BY DEF DevInv, NoPanic
<1> QED
  BY <1>1, DevInvariant, PTL

\* In every state of a CPU that is about to wait for a lock.
LEMMA SpinsFor ==
  ASSUME DevInv, NEW c \in CPUs, NEW d \in CPUs, WaitsFor(c, d)
  PROVE  /\ O(c).lk \in HeldBy(d)
         /\ HeldBy(c) = {} \/ (O(c).lk = "ptable" /\ HeldBy(c) \in {{"cons"}, {"tickslock"}})
<1>1. DevTypes /\ RunInv /\ k[Ctx(c)] # <<>> /\ O(c).op = "xchg" /\ lock[O(c).lk] = d
  BY DevParts DEF WaitsFor, O
<1>2. PICK a, b \in Modes : Fits(cpu[c], HeldBy(c), a) /\ Goes(O(c), a, b)
  BY <1>1, AtHead
<1>3. /\ O(c).lk \in Locks \ a.held
      /\ a.held = {} \/ (O(c).lk = "ptable" /\ a.held \in {{"cons"}, {"tickslock"}})
  BY <1>1, <1>2 DEF Goes, Releases, Schedules
<1> QED
  BY <1>1, <1>2, <1>3 DEF Fits, HeldBy

\* acquire() and release(): whoever is in a critical section has the lock, on
\* one CPU, across sched() and swtch() too; and CPUs that spin with their
\* interrupts off never wait for each other, since cons.lock and tickslock
\* come before ptable.lock, the only lock that is taken inside another.
THEOREM LocksAreRight == Spec => []LocksRight
<1>1. DevInv => LocksMatch
  <2> SUFFICES ASSUME DevInv, NEW c \in CPUs, NEW lk \in Locks
               PROVE  Holding(c, lk) <=> Inside(Ctx(c), lk)
    BY DEF LocksMatch
  <2>1. PICK a \in Modes : Runs(k[Ctx(c)], a, Idle(cpu[c].proc # NULL)) /\ Fits(cpu[c], HeldBy(c), a)
    BY DEF DevInv, RunInv, OnCpu
  <2>2. Foretells(a, k[Ctx(c)])
    BY <2>1, RunsForetell
  <2>3. lk \in a.held <=> InsideOf(k[Ctx(c)], lk)
    BY <2>2 DEF Foretells
  <2>4. lk \in a.held <=> Holding(c, lk)
    BY <2>1 DEF Fits, HeldBy, Holding
  <2> QED
    BY <2>3, <2>4 DEF InsideOf, Inside
<1>2. DevInv => NoSpinCycle
  <2> SUFFICES ASSUME DevInv, NEW c \in CPUs, NEW d \in CPUs, WaitsFor(c, d), WaitsFor(d, c)
               PROVE  FALSE
    BY DEF NoSpinCycle
  <2>1. /\ O(c).lk \in HeldBy(d)
        /\ HeldBy(c) = {} \/ (O(c).lk = "ptable" /\ HeldBy(c) \in {{"cons"}, {"tickslock"}})
    BY SpinsFor
  <2>2. /\ O(d).lk \in HeldBy(c)
        /\ HeldBy(d) = {} \/ (O(d).lk = "ptable" /\ HeldBy(d) \in {{"cons"}, {"tickslock"}})
    BY SpinsFor
  <2> QED
    BY <2>1, <2>2
<1>3. DevInv => LocksRight
  BY <1>1, <1>2 DEF LocksRight
<1> QED
  BY <1>3, DevInvariant, PTL

\* pushcli(), popcli(), and the intena that sched() saves: outside of locks a
\* process has its interrupts on exactly when no handler has to return.
THEOREM InterruptsAreRight == Spec => []InterruptsRight
<1>1. DevInv => InterruptsRight
  <2> SUFFICES ASSUME DevInv, NEW c \in CPUs, P(c) # NULL, cpu[c].ncli = 0, ~Exiting(P(c))
               PROVE  cpu[c].if <=> Ahead(P(c), {"iret"}) = {}
    BY DEF InterruptsRight
  <2>1. DevTypes /\ RunInv
    BY DEF DevInv
  <2>2. Ctx(c) = P(c) /\ cpu[c].proc # NULL
    BY <2>1, Contexts1 DEF P
  <2>3. PICK a \in Modes : Runs(k[Ctx(c)], a, Idle(cpu[c].proc # NULL)) /\ Fits(cpu[c], HeldBy(c), a)
    BY <2>1 DEF RunInv, OnCpu
  <2>4. Foretells(a, k[P(c)])
    BY <2>2, <2>3, RunsForetell
  <2>5. a.intr <=> Ahead(P(c), {"iret"}) # {}
    BY <2>4 DEF Foretells, HasOp, Ahead
  <2>6. ~a.exits
    BY <2>4 DEF Foretells, HasExit, Exiting, Ahead
  <2>7. cpu[c].if => ~a.intr
    BY <2>3 DEF Fits
  <2>8. ~a.intr => cpu[c].if
    BY <2>2, <2>3, <2>6 DEF Fits
  <2> QED
    BY <2>5, <2>7, <2>8
<1> QED
  BY <1>1, DevInvariant, PTL

-----------------------------------------------------------------------------
(* The lottery.                                                            *)
Added(s, p) == IF p \in Runnable THEN s + tickets[p] ELSE s
Summed(f) ==
  f = [u \in SUBSET Procs |-> IF u = {} THEN 0 ELSE Added(f[u \ {Max(u)}], Max(u))]

\* The sum of get_tickets() is in every set that its partial sums stay in.
LEMMA TicketsIn ==
  ASSUME NEW A, 0 \in A, \A s \in A, p \in Procs : Added(s, p) \in A
  PROVE  GetTickets \in A
<1> DEFINE G == [t \in A \X Procs |-> Added(t[1], t[2])]
           h == CHOOSE f : Summed(f)
<1>1. NPROC \in Nat /\ Procs = 1 .. NPROC
  BY SpinlockAssumption DEF Procs
<1>2. G \in [A \X Procs -> A] /\ \A s \in A, p \in Procs : G[<<s, p>>] = Added(s, p)
  OBVIOUS
<1> HIDE DEF G
<1>3. PICK f \in [SUBSET (1 .. NPROC) -> A] : FoldOf(f, NPROC, 0, G)
  BY <1>1, <1>2, FoldExists DEF HasFold
<1>4. Summed(f)
  <2>1. ASSUME NEW u \in SUBSET Procs, u # {} PROVE G[<<f[u \ {Max(u)}], Max(u)>>] = Added(f[u \ {Max(u)}], Max(u))
    <3>1. f[u \ {Max(u)}] \in A /\ Max(u) \in Procs
      BY <1>1, <1>3, <2>1, MaxIn
    <3> QED
      BY <3>1, <1>2
  <2> QED
    BY <1>1, <1>3, <2>1 DEF FoldOf, Summed
<1>5. Summed(h)
  BY <1>4
<1>6. GetTickets = h[Procs]
  <2> DEFINE q == [i \in Procs |-> i]
             F(v) == v = [u \in SUBSET DOMAIN q |-> IF u = {} THEN 0 ELSE Added(v[u \ {Max(u)}], q[Max(u)])]
  <2>1. GetTickets = (CHOOSE v : F(v))[DOMAIN q]
    BY Zenon DEF GetTickets, FoldLeft, MapThenFoldSet, Added
  <2>2. DOMAIN q = Procs
    OBVIOUS
  <2>3. ASSUME NEW v PROVE F(v) <=> Summed(v)
    <3>1. ASSUME NEW u \in SUBSET Procs, u # {} PROVE q[Max(u)] = Max(u)
      BY <1>1, <3>1, MaxIn
    <3> QED
      BY <2>2, <3>1 DEF Summed
  <2>4. (CHOOSE v : F(v)) = h
    BY <2>3
  <2> QED
    BY <2>1, <2>2, <2>4
<1> HIDE DEF h
<1> DEFINE T == {m \in Nat : m <= NPROC => h[1 .. m] \in A}
<1>7. h = [u \in SUBSET (1 .. NPROC) |-> IF u = {} THEN 0 ELSE Added(h[u \ {Max(u)}], Max(u))]
  BY <1>1, <1>5 DEF Summed
<1>8. 0 \in T
  <2>1. 1 .. 0 = {} /\ 1 .. 0 \in SUBSET (1 .. NPROC)
    OBVIOUS
  <2> QED
    BY <1>7, <2>1
<1>9. ASSUME NEW m \in T PROVE m + 1 \in T
  <2> SUFFICES ASSUME m + 1 <= NPROC PROVE h[1 .. m + 1] \in A
    OBVIOUS
  <2> DEFINE j == m + 1
  <2>1. m \in Nat /\ h[1 .. m] \in A /\ j \in 1 .. NPROC /\ 1 .. j - 1 = 1 .. m
    BY <1>1
  <2> HIDE DEF j
  <2>2. Max(1 .. j) = j /\ 1 .. j \in SUBSET (1 .. NPROC) /\ 1 .. j # {} /\ (1 .. j) \ {j} = 1 .. j - 1
    BY <1>1, <2>1, FoldSteps
  <2>3. h[1 .. j] = Added(h[1 .. m], j)
    BY <1>7, <2>1, <2>2
  <2> QED
    BY <1>1, <2>1, <2>3 DEF j
<1>10. T \in SUBSET Nat
  OBVIOUS
<1> HIDE DEF T
<1>11. NPROC \in T
  BY <1>1, <1>8, <1>9, <1>10, Induction
<1> QED
  BY <1>1, <1>6, <1>11 DEF T

\* get_tickets(), random() and the loop of scheduler(): while nobody has a
\* negative number of tickets the draw can fall on some runnable process,
\* also when all of them have none and random() is not asked.
THEOREM LotteryHasAWinner == Spec => []SomeoneWins
<1>1. DevInv => SomeoneWins
  <2> SUFFICES ASSUME DevInv, Runnable # {}, \A p \in Procs : tickets[p] >= 0
               PROVE  \E p \in Runnable : Draws(p)
    BY DEF SomeoneWins
  <2>1. Runnable \subseteq Procs /\ \A p \in Procs : tickets[p] \in Int
    BY DEF DevInv, DevTypes, Runnable
  <2>2. GetTickets \in Int
    <3>1. \A s \in Int, p \in Procs : Added(s, p) \in Int
      BY <2>1 DEF Added
    <3> QED
      BY <3>1, TicketsIn
  <2>3. CASE GetTickets > 0
    <3>1. 0 \in Lots
      BY <2>2, <2>3 DEF Lots, Random
    <3>2. \E p \in Runnable : tickets[p] # 0
      <4> SUFFICES ASSUME \A p \in Runnable : tickets[p] = 0 PROVE FALSE
        OBVIOUS
      <4>1. \A s \in {0}, p \in Procs : Added(s, p) \in {0}
        BY DEF Added
      <4>2. GetTickets \in {0}
        BY <4>1, TicketsIn
      <4> QED
        BY <2>3, <4>2
    <3> QED
      BY <2>1, <3>1, <3>2 DEF Draws
  <2>4. CASE ~(GetTickets > 0)
    <3>1. -1 \in Lots
      BY <2>4 DEF Lots
    <3> QED
      BY <2>1, <3>1 DEF Draws
  <2> QED
    BY <2>3, <2>4
<1> QED
  BY <1>1, DevInvariant, PTL

-----------------------------------------------------------------------------
(* The sleepers.  Who is going to sleep has tested its condition under its *)
(* lock, and keeps that lock until it has ptable.lock.                     *)
Naps(s) == {s[i] : i \in {j \in DOMAIN s : s[j].op = "sys_sleep"}}
Satisfied(s, ch) == IF ch = "input" THEN input.r = input.w ELSE \A o \in Naps(s) : StillSleeps(o)

\* The ticks that a sleeper has seen, modulo TicksWrap, there really were.
NapOk(o) ==
  /\ o.n \in Nat /\ o.t0 \in 0 .. TicksWrap - 1 /\ o.at \in Nat
  /\ elapsed - o.at >= (ticks - o.t0) % TicksWrap

WakeInv ==
  /\ \A c \in CPUs, ch \in Channels :
       HasSleep(k[Ctx(c)], ch) => Satisfied(k[Ctx(c)], ch) \/ (Coming(ch) /\ lock[LockOf(ch)] # c)
  /\ \A p \in Procs : state[p] = "SLEEPING" =>
       /\ chan[p] \in Channels
       /\ Satisfied(k[p], chan[p]) \/ Coming(chan[p])
       /\ chan[p] = "ticks" => Naps(k[p]) # {}
  /\ \A p \in Procs, ch \in Channels : state[p] \in Waiting => ~HasSleep(k[p], ch)
  /\ \A x \in Contexts : \A o \in Naps(k[x]) : NapOk(o)

LEMMA NapsCat ==
  ASSUME NEW s \in Seq(Ops), NEW t \in Seq(Ops)
  PROVE  Naps(s \o t) = Naps(s) \cup Naps(t)
<1> DEFINE u == s \o t
<1>1. /\ \A i \in DOMAIN s : i \in DOMAIN u /\ u[i] = s[i]
      /\ \A i \in DOMAIN t : i + Len(s) \in DOMAIN u /\ u[i + Len(s)] = t[i]
  OBVIOUS
<1>2. ASSUME NEW i \in DOMAIN u
      PROVE  (i \in DOMAIN s /\ u[i] = s[i]) \/ (i - Len(s) \in DOMAIN t /\ u[i] = t[i - Len(s)])
  OBVIOUS
<1> HIDE DEF u
<1>3. \A i \in DOMAIN t : \E j \in DOMAIN u : u[j] = t[i]
  BY <1>1
<1>4. \A i \in DOMAIN u : (i \in DOMAIN s /\ u[i] = s[i]) \/ \E j \in DOMAIN t : u[i] = t[j]
  BY <1>2
<1>5. Naps(u) = Naps(s) \cup Naps(t)
  <2>1. ASSUME NEW o PROVE o \in Naps(u) <=> o \in Naps(s) \/ o \in Naps(t)
    <3>1. o \in Naps(u) <=> \E i \in DOMAIN u : u[i].op = "sys_sleep" /\ o = u[i]
      BY DEF Naps
    <3>2. o \in Naps(s) <=> \E i \in DOMAIN s : s[i].op = "sys_sleep" /\ o = s[i]
      BY DEF Naps
    <3>3. o \in Naps(t) <=> \E i \in DOMAIN t : t[i].op = "sys_sleep" /\ o = t[i]
      BY DEF Naps
    <3> QED
      BY <1>1, <1>3, <1>4, <3>1, <3>2, <3>3
  <2> QED
    BY <2>1
<1> QED
  BY <1>5 DEF u

LEMMA NapsOne ==
  ASSUME NEW o
  PROVE  Naps(<<o>>) = IF o.op = "sys_sleep" THEN {o} ELSE {}
<1>1. DOMAIN <<o>> = {1} /\ <<o>>[1] = o
  OBVIOUS
<1> QED
  BY <1>1 DEF Naps

LEMMA NapsHas ==
  ASSUME NEW s
  PROVE  HasOp(s, "sys_sleep") <=> Naps(s) # {}
BY DEF HasOp, Naps

\* Operations that have nothing to do with sleeping.
Milds == {o \in Ops : o.op # "sys_sleep" /\ ~(o.op = "sched" /\ o.state = "SLEEPING")}
LEMMA MildSeq ==
  ASSUME NEW s \in Seq(Milds)
  PROVE  s \in Seq(Ops) /\ Naps(s) = {} /\ \A ch : ~HasSleep(s, ch)
<1>1. \A i \in DOMAIN s : s[i] \in Milds
  OBVIOUS
<1>2. s \in Seq(Ops)
  <2>1. Milds \subseteq Ops
    BY DEF Milds
  <2> QED
    BY <2>1
<1>3. Naps(s) = {}
  BY <1>1 DEF Naps, Milds
<1>4. \A ch : ~HasSleep(s, ch)
  BY <1>1 DEF HasSleep, Milds
<1> QED
  BY <1>2, <1>3, <1>4

LEMMA ComingHas ==
  ASSUME NEW ch
  PROVE  Coming(ch) <=> \E x \in Contexts : HasWakeup(k[x], ch)
BY DEF Coming, Ahead, HasWakeup

\* A step of c in its own context that takes no wakeup() back; when it begins
\* a sleep(), the condition holds.
Settled(s, ch) == IF ch = "input" THEN input'.r = input'.w ELSE \A o \in Naps(s) : StillSleeps(o)
Smooth(c, s) ==
  /\ s \in Seq(Ops) /\ k' = [k EXCEPT ![Ctx(c)] = s]
  /\ \A d \in CPUs : cpu'[d].proc = cpu[d].proc
  /\ \A ch \in Channels : HasWakeup(k[Ctx(c)], ch) => HasWakeup(s, ch)
  /\ \A ch \in Channels : HasSleep(s, ch) => HasSleep(k[Ctx(c)], ch) \/ Settled(s, ch)
  /\ Naps(s) \subseteq Naps(k[Ctx(c)])
  /\ UNCHANGED <<ticks, elapsed, chan>>
SmoothLocks ==
  \A d \in CPUs, ch \in Channels :
    HasSleep(k[Ctx(d)], ch) /\ lock'[LockOf(ch)] = d => lock[LockOf(ch)] = d
SmoothStates ==
  /\ \A p \in Procs : /\ state'[p] = "SLEEPING" => state[p] = "SLEEPING"
                      /\ state'[p] \in Waiting => state[p] \in Waiting
  /\ input.r = input.w => input'.r = input'.w

LEMMA SmoothKeeps ==
  ASSUME DevInv, WakeInv, NEW c \in CPUs, NEW s, Smooth(c, s), SmoothLocks, SmoothStates
  PROVE  WakeInv'
<1>1. DevTypes /\ RunInv
  BY DEF DevInv
<1>2. Ctx(c) \in Contexts /\ \A d \in CPUs : Ctx(d)' = Ctx(d) /\ Ctx(d) \in Contexts
  BY <1>1, Contexts1 DEF Smooth, Ctx, SchedulerOf
<1>3. k'[Ctx(c)] = s /\ \A x \in Contexts : x # Ctx(c) => k'[x] = k[x]
  BY <1>1, <1>2 DEF Smooth, DevTypes
<1>4. \A p \in Procs : state[p] \in Waiting => p \in Contexts /\ k'[p] = k[p]
  BY <1>1, <1>3, Contexts1
<1>5. /\ \A x \in Contexts, ch \in Channels : HasWakeup(k[x], ch) => HasWakeup(k'[x], ch)
      /\ \A x \in Contexts, ch \in Channels : HasSleep(k'[x], ch) => HasSleep(k[x], ch) \/ Settled(k'[x], ch)
      /\ \A x \in Contexts : Naps(k'[x]) \subseteq Naps(k[x])
  BY <1>3 DEF Smooth
<1>6. \A ch \in Channels : Coming(ch) => Coming(ch)'
  BY <1>5 DEF Coming, Ahead, HasWakeup
<1>7. \A o : StillSleeps(o) => StillSleeps(o)'
  BY DEF Smooth, StillSleeps
<1>8. \A x \in Contexts, ch \in Channels : Satisfied(k[x], ch) => Satisfied(k[x], ch)'
  BY <1>5, <1>7 DEF Satisfied, SmoothStates, Naps
<1>9. ASSUME NEW d \in CPUs, NEW ch \in Channels, HasSleep(k'[Ctx(d)'], ch)
      PROVE  (Satisfied(k[Ctx(d)], ch) \/ (Coming(ch) /\ lock[LockOf(ch)] # d))'
  <2>1. Ctx(d) \in Contexts /\ Ctx(d)' = Ctx(d) /\ (HasSleep(k[Ctx(d)], ch) \/ Settled(k'[Ctx(d)], ch))
    BY <1>2, <1>5, <1>9
  <2>a. CASE Settled(k'[Ctx(d)], ch)
    BY <1>7, <2>1, <2>a DEF Settled, Satisfied, Naps
  <2>b. CASE HasSleep(k[Ctx(d)], ch)
    <3>2. Satisfied(k[Ctx(d)], ch) \/ (Coming(ch) /\ lock[LockOf(ch)] # d)
      BY <2>b DEF WakeInv
    <3>3. lock[LockOf(ch)] # d => lock'[LockOf(ch)] # d
      BY <2>b DEF SmoothLocks
    <3>4. Satisfied(k[Ctx(d)], ch) => Satisfied(k[Ctx(d)], ch)'
      BY <1>8, <2>1 DEF Satisfied, Naps
    <3> QED
      BY <1>6, <3>2, <3>3, <3>4 DEF LockOf
  <2> QED
    BY <2>1, <2>a, <2>b
<1>10. ASSUME NEW p \in Procs, state'[p] = "SLEEPING"
       PROVE  /\ chan'[p] \in Channels
              /\ (Satisfied(k[p], chan[p]) \/ Coming(chan[p]))'
              /\ chan'[p] = "ticks" => Naps(k'[p]) # {}
  <2>1. state[p] = "SLEEPING" /\ chan'[p] = chan[p] /\ k'[p] = k[p] /\ p \in Contexts
    BY <1>4, <1>10 DEF SmoothStates, Smooth, Waiting
  <2>2. chan[p] \in Channels /\ (Satisfied(k[p], chan[p]) \/ Coming(chan[p])) /\ (chan[p] = "ticks" => Naps(k[p]) # {})
    BY <2>1 DEF WakeInv
  <2>3. Satisfied(k[p], chan[p]) => Satisfied(k[p], chan[p])'
    BY <1>8, <2>1, <2>2 DEF Satisfied, Naps
  <2>4. Coming(chan[p]) => Coming(chan[p])'
    BY <1>6, <2>1, <2>2 DEF Coming, Ahead
  <2> QED
    BY <2>1, <2>2, <2>3, <2>4
<1>11. \A p \in Procs, ch \in Channels : state'[p] \in Waiting => ~HasSleep(k'[p], ch)
  BY <1>4 DEF SmoothStates, WakeInv
<1>12. \A x \in Contexts : \A o \in Naps(k'[x]) : NapOk(o)'
  BY <1>5 DEF WakeInv, NapOk, Smooth
<1> QED
  BY <1>9, <1>10, <1>11, <1>12 DEF WakeInv, HasSleep, Naps, Waiting

LEMMA MildOps ==
  /\ \A lk \in Locks : Acquire(lk) \in Milds /\ Release(lk) \in Milds
  /\ \A ch \in Channels : Under("wakeup", ch, "ptable") \in Milds
  /\ \A st \in {"RUNNABLE", "ZOMBIE"} : Sched(st, NULL) \in Milds
  /\ Under("consputs", <<"a", Newline>>, "cons") \in Milds
  /\ \A y \in BOOLEAN : Under("getc", y, "cons") \in Milds /\ Op("leave", y) \in Milds /\ Op("resume", y) \in Milds
  /\ Op("iret", 0) \in Milds /\ Op("tick", 0) \in Milds /\ Op("ret", 0) \in Milds
  /\ \A n \in Nat : /\ Under("slot", n, "ptable") \in Milds /\ Under("ticks0", n, "tickslock") \in Milds
                    /\ Under("kill", n, "ptable") \in Milds
                    /\ [op |-> "consoleread", n |-> n, lk |-> "cons", target |-> n] \in Milds
  /\ \A n \in Int, q \in Nat : [op |-> "change_tickets", n |-> n, lk |-> "ptable", q |-> q] \in Milds
<1>1. \A lk \in Locks : Acquire(lk) \in Milds /\ Release(lk) \in Milds
  BY DEF Acquire, Release, Under, Milds, Ops, OpNames, Values
<1>2. \A ch \in Channels : Under("wakeup", ch, "ptable") \in Milds
  BY DEF Under, Milds, Ops, OpNames, Values, Locks
<1>3. \A st \in {"RUNNABLE", "ZOMBIE"} : Sched(st, NULL) \in Milds
  BY DEF Sched, Milds, Ops, OpNames, Values, Locks
<1>4. Under("consputs", <<"a", Newline>>, "cons") \in Milds
  BY DEF Under, Milds, Ops, OpNames, Values, Locks
<1>5. \A y \in BOOLEAN : Under("getc", y, "cons") \in Milds /\ Op("leave", y) \in Milds /\ Op("resume", y) \in Milds
  BY DEF Under, Op, Milds, Ops, OpNames, Values, Locks
<1>6. Op("iret", 0) \in Milds /\ Op("tick", 0) \in Milds /\ Op("ret", 0) \in Milds
  BY DEF Op, Milds, Ops, OpNames, Values, Locks
<1>7. \A n \in Nat : /\ Under("slot", n, "ptable") \in Milds /\ Under("ticks0", n, "tickslock") \in Milds
                     /\ Under("kill", n, "ptable") \in Milds
  BY DEF Under, Milds, Ops, OpNames, Values, Locks
<1>8. \A n \in Nat : [op |-> "consoleread", n |-> n, lk |-> "cons", target |-> n] \in Milds
  BY DEF Milds, Ops, OpNames, Values, Locks
<1>9. \A n \in Int, q \in Nat : [op |-> "change_tickets", n |-> n, lk |-> "ptable", q |-> q] \in Milds
  BY DEF Milds, Ops, OpNames, Values, Locks
<1> QED
  BY <1>1, <1>2, <1>3, <1>4, <1>5, <1>6, <1>7, <1>8, <1>9

LEMMA MildTuples ==
  ASSUME NEW o1 \in Milds, NEW o2 \in Milds, NEW o3 \in Milds, NEW o4 \in Milds
  PROVE  /\ <<>> \in Seq(Milds) /\ <<o1>> \in Seq(Milds) /\ <<o1, o2>> \in Seq(Milds)
         /\ <<o1, o2, o3>> \in Seq(Milds) /\ <<o1, o2, o3, o4>> \in Seq(Milds)
OBVIOUS

LEMMA MildCat ==
  ASSUME NEW s \in Seq(Milds), NEW t \in Seq(Milds)
  PROVE  s \o t \in Seq(Milds)
OBVIOUS

LEMMA MildSeqs ==
  /\ Exit \in Seq(Milds) /\ Yield \in Seq(Milds) /\ Cprintf \in Seq(Milds)
  /\ \A ch \in Channels : Wakeup(ch) \in Seq(Milds)
  /\ \A c \in CPUs : TimerTrap(c) \in Seq(Milds)
  /\ ConsoleTrap \in Seq(Milds)
<1>1. "ptable" \in Locks /\ "cons" \in Locks /\ "tickslock" \in Locks /\ "ticks" \in Channels
  BY DEF Locks, Channels
<1>2. Acquire("ptable") \in Milds /\ Acquire("cons") \in Milds /\ Acquire("tickslock") \in Milds
      /\ Release("ptable") \in Milds /\ Release("tickslock") \in Milds
  BY <1>1, MildOps
<1>3. Exit \in Seq(Milds)
  BY <1>2, MildOps, MildTuples DEF Exit
<1>4. Yield \in Seq(Milds)
  BY <1>2, MildOps, MildTuples DEF Yield
<1>5. Cprintf \in Seq(Milds)
  BY <1>2, MildOps, MildTuples DEF Cprintf
<1>6. \A ch \in Channels : Wakeup(ch) \in Seq(Milds)
  BY <1>2, MildOps, MildTuples DEF Wakeup
<1>7. <<Op("leave", TRUE), Op("iret", 0)>> \in Seq(Milds)
  BY MildOps, MildTuples
<1>8. Tick \in Seq(Milds)
  <2>1. <<Acquire("tickslock"), Op("tick", 0)>> \in Seq(Milds) /\ <<Release("tickslock")>> \in Seq(Milds)
    BY <1>2, MildOps, MildTuples
  <2> QED
    BY <1>1, <1>6, <2>1, MildCat DEF Tick
<1>9. \A c \in CPUs : TimerTrap(c) \in Seq(Milds)
  <2> TAKE c \in CPUs
  <2>1. <<>> \in Seq(Milds)
    OBVIOUS
  <2>2. (IF c = 0 THEN Tick ELSE <<>>) \in Seq(Milds)
    BY <1>8, <2>1
  <2> QED
    BY <1>7, <2>2, MildCat DEF TimerTrap
<1>10. ConsoleTrap \in Seq(Milds)
  BY <1>2, MildOps, MildTuples DEF ConsoleTrap
<1> QED
  BY <1>3, <1>4, <1>5, <1>6, <1>9, <1>10

\* The next operation is not a wakeup().
LEMMA ContinueSmooth ==
  ASSUME DevInv, NEW c \in CPUs, k[Ctx(c)] # <<>>, O(c).op # "wakeup", NEW ops \in Seq(Milds), Continue(c, ops),
         \A d \in CPUs : cpu'[d].proc = cpu[d].proc, UNCHANGED <<ticks, elapsed, chan>>
  PROVE  \E s : Smooth(c, s)
<1> DEFINE t == Tail(k[Ctx(c)])
           s == ops \o t
<1>1. DevTypes /\ RunInv
  BY DEF DevInv
<1>2. k[Ctx(c)] \in Seq(Ops) /\ O(c) \in Ops /\ t \in Seq(Ops)
  BY <1>1, AtHead
<1>3. k[Ctx(c)] = <<O(c)>> \o t /\ <<O(c)>> \in Seq(Ops)
  BY <1>2 DEF O
<1>4. ops \in Seq(Ops) /\ Naps(ops) = {} /\ \A ch : ~HasSleep(ops, ch)
  BY MildSeq
<1>5. k' = [k EXCEPT ![Ctx(c)] = s]
  BY DEF Continue
<1>6. \A ch : HasWakeup(s, ch) <=> HasWakeup(ops, ch) \/ HasWakeup(t, ch)
  BY <1>2, <1>4, HasCat
<1>7. \A ch : HasSleep(s, ch) <=> HasSleep(t, ch)
  BY <1>2, <1>4, HasCat
<1>8. Naps(s) = Naps(t)
  <2>1. Naps(s) = Naps(ops) \cup Naps(t)
    BY <1>2, <1>4, NapsCat
  <2> HIDE DEF s, t
  <2> QED
    BY <1>4, <2>1
<1>9. s \in Seq(Ops)
  BY <1>2, <1>4
<1> HIDE DEF s, t
<1>a. /\ \A ch : HasWakeup(<<O(c)>> \o t, ch) <=> HasWakeup(<<O(c)>>, ch) \/ HasWakeup(t, ch)
      /\ \A ch : HasSleep(<<O(c)>> \o t, ch) <=> HasSleep(<<O(c)>>, ch) \/ HasSleep(t, ch)
  BY <1>2, <1>3, HasCat
<1>10. \A ch : HasWakeup(k[Ctx(c)], ch) => HasWakeup(t, ch)
  BY <1>3, <1>a, HasOne
<1>11. \A ch : HasSleep(t, ch) => HasSleep(k[Ctx(c)], ch)
  BY <1>3, <1>a
<1>12. Naps(t) \subseteq Naps(k[Ctx(c)])
  BY <1>2, <1>3, NapsCat
<1> QED
  BY <1>5, <1>6, <1>7, <1>8, <1>9, <1>10, <1>11, <1>12 DEF Smooth

\* The context begins something new.
LEMMA FreshSmooth ==
  ASSUME NEW c \in CPUs, ~HasOp(k[Ctx(c)], "wakeup"), NEW s \in Seq(Milds), k' = [k EXCEPT ![Ctx(c)] = s],
         \A d \in CPUs : cpu'[d].proc = cpu[d].proc, UNCHANGED <<ticks, elapsed, chan>>
  PROVE  Smooth(c, s)
<1>1. s \in Seq(Ops) /\ Naps(s) = {} /\ \A ch : ~HasSleep(s, ch)
  BY MildSeq
<1>2. \A ch : ~HasWakeup(k[Ctx(c)], ch)
  BY DEF HasWakeup, HasOp
<1> QED
  BY <1>1, <1>2 DEF Smooth

LEMMA InterruptSmooth ==
  ASSUME DevInv, NEW c \in CPUs, NEW ops \in Seq(Milds), k' = [k EXCEPT ![Ctx(c)] = ops \o @],
         \A d \in CPUs : cpu'[d].proc = cpu[d].proc, UNCHANGED <<ticks, elapsed, chan>>
  PROVE  \E s : Smooth(c, s)
<1> DEFINE t == k[Ctx(c)]
           s == ops \o t
<1>1. t \in Seq(Ops)
  BY Contexts1 DEF DevInv, DevTypes
<1>2. ops \in Seq(Ops) /\ Naps(ops) = {} /\ \A ch : ~HasSleep(ops, ch)
  BY MildSeq
<1>3. \A ch : HasWakeup(s, ch) <=> HasWakeup(ops, ch) \/ HasWakeup(t, ch)
  BY <1>1, <1>2, HasCat
<1>4. \A ch : HasSleep(s, ch) <=> HasSleep(t, ch)
  BY <1>1, <1>2, HasCat
<1>5. Naps(s) = Naps(ops) \cup Naps(t)
  BY <1>1, <1>2, NapsCat
<1>6. s \in Seq(Ops) /\ k' = [k EXCEPT ![Ctx(c)] = s]
  BY <1>1, <1>2
<1> HIDE DEF s
<1> QED
  BY <1>2, <1>3, <1>4, <1>5, <1>6 DEF Smooth

\* Who is going to sleep has its lock, or ptable.lock.
LEMMA SleepHolds ==
  ASSUME DevInv, NEW d \in CPUs, NEW ch \in Channels, HasSleep(k[Ctx(d)], ch)
  PROVE  HeldBy(d) \in {{LockOf(ch)}, {"ptable"}, {LockOf(ch), "ptable"}}
<1>1. PICK a \in Modes : Runs(k[Ctx(d)], a, Idle(cpu[d].proc # NULL)) /\ Fits(cpu[d], HeldBy(d), a)
  BY DEF DevInv, RunInv, OnCpu
<1>2. Foretells(a, k[Ctx(d)])
  BY <1>1, RunsForetell
<1>3. a.sleeps = ch
  BY <1>2 DEF Foretells
<1>4. ch # "no"
  BY DEF Channels
<1>5. a.held \in {{LockOf(a.sleeps)}, {"ptable"}, {LockOf(a.sleeps), "ptable"}}
  BY <1>3, <1>4 DEF Modes
<1> QED
  BY <1>1, <1>3, <1>5 DEF Fits

LEMMA LocksSmooth ==
  ASSUME DevInv, NEW c \in CPUs
  PROVE  /\ UNCHANGED lock => SmoothLocks
         /\ \A lk : lock' = [lock EXCEPT ![lk] = NULL] => SmoothLocks
         /\ (k[Ctx(c)] # <<>> /\ O(c).op \in {"acquire", "xchg"} /\ lock' = [lock EXCEPT ![O(c).lk] = c])
              => SmoothLocks
<1>1. UNCHANGED lock => SmoothLocks
  BY DEF SmoothLocks
<1>2. DevTypes /\ RunInv /\ NULL \notin CPUs
  BY SpinlockAssumption DEF DevInv, CPUs
<1>3. \A ch \in Channels : LockOf(ch) \in Locks /\ LockOf(ch) # "ptable"
  BY DEF Channels, LockOf, Locks
<1>4. ASSUME NEW lk, lock' = [lock EXCEPT ![lk] = NULL] PROVE SmoothLocks
  BY <1>2, <1>3, <1>4 DEF SmoothLocks, DevTypes
<1>5. ASSUME k[Ctx(c)] # <<>>, O(c).op \in {"acquire", "xchg"}, lock' = [lock EXCEPT ![O(c).lk] = c]
      PROVE  SmoothLocks
  <2> SUFFICES ASSUME NEW d \in CPUs, NEW ch \in Channels, HasSleep(k[Ctx(d)], ch), lock'[LockOf(ch)] = d
               PROVE  lock[LockOf(ch)] = d
    BY DEF SmoothLocks
  <2>1. CASE LockOf(ch) # O(c).lk \/ d # c
    BY <1>2, <1>3, <1>5, <2>1 DEF DevTypes
  <2>2. CASE LockOf(ch) = O(c).lk /\ d = c
    <3>1. PICK a, b \in Modes : Fits(cpu[c], HeldBy(c), a) /\ Goes(O(c), a, b)
      BY <1>2, <1>5, AtHead
    <3>2. a.held = {} \/ O(c).lk = "ptable"
      BY <1>5, <3>1 DEF Goes, Releases, Schedules
    <3>3. a.held # {}
      BY <2>2, <3>1, SleepHolds DEF Fits
    <3> QED
      BY <1>3, <2>2, <3>2, <3>3
  <2> QED
    BY <2>1, <2>2
<1> QED
  BY <1>1, <1>4, <1>5

LEMMA StatesSmooth ==
  ASSUME UNCHANGED <<state, input>>
  PROVE  SmoothStates
BY DEF SmoothStates

LEMMA ProcSame ==
  ASSUME DevTypes, NEW c \in CPUs
  PROVE  /\ UNCHANGED cpu => \A d \in CPUs : cpu'[d].proc = cpu[d].proc
         /\ cpu' = [cpu EXCEPT ![c] = Pushcli(@)] => \A d \in CPUs : cpu'[d].proc = cpu[d].proc
         /\ cpu' = [cpu EXCEPT ![c] = Popcli(@)] => \A d \in CPUs : cpu'[d].proc = cpu[d].proc
         /\ \A b \in BOOLEAN : cpu' = [cpu EXCEPT ![c].if = b] => \A d \in CPUs : cpu'[d].proc = cpu[d].proc
<1>1. cpu[c] \in CpuRecords
  BY DEF DevTypes
<1>2. Pushcli(cpu[c]).proc = cpu[c].proc /\ Popcli(cpu[c]).proc = cpu[c].proc
  BY <1>1 DEF Pushcli, Popcli, CpuRecords
<1>3. \A b \in BOOLEAN : [cpu[c] EXCEPT !.if = b].proc = cpu[c].proc
  BY <1>1 DEF CpuRecords
<1>4. \A u : cpu' = [cpu EXCEPT ![c] = u] /\ u.proc = cpu[c].proc => \A d \in CPUs : cpu'[d].proc = cpu[d].proc
  BY DEF DevTypes
<1> QED
  BY <1>2, <1>3, <1>4

LEMMA DoneSmooth ==
  ASSUME DevInv, NEW c \in CPUs, k[Ctx(c)] # <<>>, O(c).op # "wakeup", NEW bad, Done(c, bad),
         UNCHANGED <<ticks, elapsed, chan>>
  PROVE  SmoothLocks /\ \E s : Smooth(c, s)
<1>1. Continue(c, <<>>) /\ lock' = [lock EXCEPT ![O(c).lk] = NULL] /\ cpu' = [cpu EXCEPT ![c] = Popcli(@)]
  BY DEF Done, ReleaseLock, O
<1>2. SmoothLocks
  BY <1>1, LocksSmooth
<1>3. \A d \in CPUs : cpu'[d].proc = cpu[d].proc
  BY <1>1, ProcSame DEF DevInv
<1>4. <<>> \in Seq(Milds)
  OBVIOUS
<1> QED
  BY <1>1, <1>2, <1>3, <1>4, ContinueSmooth

LEMMA LockWakes ==
  ASSUME DevInv, WakeInv, NEW c \in CPUs, LockStep(c), UNCHANGED <<consvars, procvars, ticks, budget>>
  PROVE  WakeInv'
<1>1. UNCHANGED <<ticks, elapsed, chan>> /\ SmoothStates
  BY StatesSmooth DEF procvars, budget, consvars
<1>2. DevTypes /\ RunInv
  BY DEF DevInv
<1>3. CASE AcquireStep(c)
  <2>1. k[Ctx(c)] # <<>> /\ O(c).op = "acquire"
    BY <1>3 DEF AcquireStep, At, O
  <2>2. SmoothLocks /\ \A d \in CPUs : cpu'[d].proc = cpu[d].proc
    BY <1>2, <1>3, <2>1, LocksSmooth, ProcSame DEF AcquireStep, O
  <2>3. PICK ops \in Seq(Milds) : Continue(c, ops)
    <3> DEFINE x == [O(c) EXCEPT !.op = "xchg"]
    <3>1. x \in Milds
      <4>1. O(c) \in Ops
        BY <1>2, <2>1, AtHead
      <4>2. O(c) \in [op : OpNames, n : Values, lk : Locks \cup {NULL}]
        BY <2>1, <4>1 DEF Ops
      <4>3. x \in [op : OpNames, n : Values, lk : Locks \cup {NULL}] /\ x.op = "xchg"
        BY <4>2 DEF OpNames
      <4> QED
        BY <4>3 DEF Milds, Ops
    <3>2. Continue(c, <<>>) \/ Continue(c, <<x>>)
      BY <1>3 DEF AcquireStep, O
    <3> HIDE DEF x
    <3>3. <<>> \in Seq(Milds) /\ <<x>> \in Seq(Milds)
      BY <3>1
    <3> QED
      BY <3>2, <3>3
  <2> QED
    BY <1>1, <2>1, <2>2, <2>3, ContinueSmooth, SmoothKeeps
<1>4. CASE SpinStep(c)
  <2>1. k[Ctx(c)] # <<>> /\ O(c).op = "xchg" /\ Continue(c, <<>>) /\ <<>> \in Seq(Milds)
    BY <1>4 DEF SpinStep, At, O
  <2>2. SmoothLocks /\ \A d \in CPUs : cpu'[d].proc = cpu[d].proc
    BY <1>2, <1>4, <2>1, LocksSmooth, ProcSame DEF SpinStep, O
  <2> QED
    BY <1>1, <2>1, <2>2, ContinueSmooth, SmoothKeeps
<1>5. CASE ReleaseStep(c)
  <2>1. k[Ctx(c)] # <<>> /\ O(c).op = "release" /\ Done(c, FALSE)
    BY <1>5 DEF ReleaseStep, At, O
  <2> QED
    BY <1>1, <2>1, DoneSmooth, SmoothKeeps
<1> QED
  BY <1>3, <1>4, <1>5 DEF LockStep

LEMMA InterruptWakes ==
  ASSUME DevInv, WakeInv, NEW c \in CPUs, NEW ops \in Seq(Milds), Interrupt(c, ops)
  PROVE  WakeInv'
<1>1. UNCHANGED <<ticks, elapsed, chan>> /\ SmoothStates /\ SmoothLocks
  BY StatesSmooth, LocksSmooth DEF Interrupt, procvars, consvars
<1>2. \A d \in CPUs : cpu'[d].proc = cpu[d].proc
  BY ProcSame DEF Interrupt, DevInv
<1>3. k' = [k EXCEPT ![Ctx(c)] = ops \o @]
  BY DEF Interrupt
<1> QED
  BY <1>1, <1>2, <1>3, InterruptSmooth, SmoothKeeps

LEMMA InterruptsWake ==
  ASSUME DevInv, WakeInv
  PROVE  (ConsoleInterrupt => WakeInv') /\ \A c \in CPUs : TimerInterrupt(c) => WakeInv'
<1>1. 0 \in CPUs
  BY SpinlockAssumption DEF CPUs
<1>2. ConsoleInterrupt => WakeInv'
  BY <1>1, InterruptWakes, MildSeqs DEF ConsoleInterrupt
<1>3. \A c \in CPUs : TimerInterrupt(c) => WakeInv'
  BY InterruptWakes, MildSeqs DEF TimerInterrupt
<1> QED
  BY <1>2, <1>3

LEMMA CallWakes ==
  ASSUME DevInv, WakeInv, NEW c \in CPUs, NEW name, NEW ops \in Seq(Milds), Call(c, name, ops)
  PROVE  WakeInv'
<1> DEFINE s == IF killed[P(c)] THEN Exit ELSE ops \o <<Op("ret", 0)>>
<1>1. UNCHANGED <<ticks, elapsed, chan>> /\ SmoothStates /\ SmoothLocks
  BY StatesSmooth, LocksSmooth DEF Call, procvars, consvars
<1>2. \A d \in CPUs : cpu'[d].proc = cpu[d].proc
  BY DEF Call
<1>3. Ctx(c) = P(c) /\ k[Ctx(c)] = <<>> /\ k' = [k EXCEPT ![Ctx(c)] = s]
  BY Contexts1 DEF Call, DevInv
<1>4. <<Op("ret", 0)>> \in Seq(Milds)
  BY MildOps, MildTuples
<1>5. s \in Seq(Milds)
  BY <1>4, MildSeqs, MildCat
<1>6. ~HasOp(k[Ctx(c)], "wakeup")
  BY <1>3 DEF HasOp
<1> HIDE DEF s
<1>7. Smooth(c, s)
  BY <1>1, <1>2, <1>3, <1>5, <1>6, FreshSmooth
<1> QED
  BY <1>1, <1>7, SmoothKeeps

LEMMA CallsWake ==
  ASSUME DevInv, WakeInv, NEW c \in CPUs
  PROVE  (ReadCall(c) \/ WriteCall(c) \/ SleepCall(c) \/ KillCall(c) \/ TicketsCall(c)) => WakeInv'
<1>1. Acquire("ptable") \in Milds /\ Acquire("cons") \in Milds /\ Acquire("tickslock") \in Milds
  BY MildOps DEF Locks
<1>2. ASSUME NEW o1 \in Milds, NEW o2 \in Milds PROVE <<o1, o2>> \in Seq(Milds)
  OBVIOUS
<1>3. CASE ReadCall(c)
  <2>1. PICK n \in ReadSizes :
          Call(c, "read", <<Acquire("cons"), [op |-> "consoleread", n |-> n, lk |-> "cons", target |-> n]>>)
    BY <1>3 DEF ReadCall
  <2>2. [op |-> "consoleread", n |-> n, lk |-> "cons", target |-> n] \in Milds
    BY DevicesAssumption, MildOps
  <2> QED
    BY <1>1, <1>2, <2>1, <2>2, CallWakes
<1>4. CASE WriteCall(c)
  BY <1>4, CallWakes, MildSeqs DEF WriteCall
<1>5. CASE SleepCall(c)
  <2>1. PICK n \in SleepTimes : Call(c, "sleep", <<Acquire("tickslock"), Under("ticks0", n, "tickslock")>>)
    BY <1>5 DEF SleepCall
  <2>2. Under("ticks0", n, "tickslock") \in Milds
    BY DevicesAssumption, MildOps
  <2> QED
    BY <1>1, <1>2, <2>1, <2>2, CallWakes
<1>6. CASE KillCall(c)
  <2>1. PICK q \in Procs : Call(c, "kill", <<Acquire("ptable"), Under("kill", q, "ptable")>>)
    BY <1>6 DEF KillCall
  <2>2. Under("kill", q, "ptable") \in Milds
    <3>1. q \in Nat
      BY DEF Procs
    <3> QED
      BY <3>1, MildOps
  <2> QED
    BY <1>1, <1>2, <2>1, <2>2, CallWakes
<1>7. CASE TicketsCall(c)
  <2>1. PICK n \in Tickets, q \in Procs :
          Call(c, "change_tickets",
               Cprintf \o <<Acquire("ptable"), [op |-> "change_tickets", n |-> n, lk |-> "ptable", q |-> q]>>)
    BY <1>7 DEF TicketsCall
  <2>2. q \in Nat /\ n \in Int
    BY DevicesAssumption DEF Procs
  <2>3. [op |-> "change_tickets", n |-> n, lk |-> "ptable", q |-> q] \in Milds
    BY <2>2, MildOps
  <2> QED
    BY <1>1, <1>2, <2>1, <2>3, MildSeqs, MildCat, CallWakes
<1> QED
  BY <1>3, <1>4, <1>5, <1>6, <1>7

\* At the end of a handler or of a system call no wakeup() is still to come.
LEMMA EndsQuietly ==
  ASSUME DevInv, NEW c \in CPUs, k[Ctx(c)] # <<>>, O(c).op \in {"leave", "iret", "ret"}
  PROVE  ~HasOp(k[Ctx(c)], "wakeup")
<1>1. DevTypes /\ RunInv
  BY DEF DevInv
<1>2. PICK a, b \in Modes : Goes(O(c), a, b) /\ Runs(k[Ctx(c)], a, Idle(P(c) # NULL))
  BY <1>1, AtHead
<1>3. a.wakes = "no"
  BY <1>2 DEF Goes, Releases, Schedules, Idle, Mode
<1>4. Foretells(a, k[Ctx(c)])
  BY <1>2, RunsForetell
<1> QED
  BY <1>3, <1>4 DEF Foretells

LEMMA ReturnsWake ==
  ASSUME DevInv, WakeInv, NEW c \in CPUs, Return(c) \/ Leave(c) \/ Iret(c)
  PROVE  WakeInv'
<1>1. /\ UNCHANGED <<ticks, elapsed, chan>> /\ SmoothStates /\ SmoothLocks /\ k[Ctx(c)] # <<>>
      /\ O(c).op \in {"leave", "iret", "ret"}
  BY StatesSmooth, LocksSmooth DEF Return, Leave, Iret, procvars, consvars, budget, At, O
<1>2. \A d \in CPUs : cpu'[d].proc = cpu[d].proc
  BY ProcSame DEF Return, Leave, Iret, DevInv
<1>3. <<>> \in Seq(Milds) /\ Exit \in Seq(Milds) /\ Yield \in Seq(Milds) /\ O(c).op # "wakeup"
  BY <1>1, MildSeqs
<1>4. Continue(c, <<>>) \/ Continue(c, Exit) \/ Continue(c, Yield) \/ (P(c) # NULL /\ k' = [k EXCEPT ![P(c)] = Exit])
  BY DEF Return, Leave, Iret, Exits
<1>5. CASE Continue(c, <<>>) \/ Continue(c, Exit) \/ Continue(c, Yield)
  BY <1>1, <1>2, <1>3, <1>5, ContinueSmooth, SmoothKeeps
<1>6. CASE P(c) # NULL /\ k' = [k EXCEPT ![P(c)] = Exit]
  <2>1. Ctx(c) = P(c)
    BY <1>6, Contexts1 DEF DevInv
  <2>2. Smooth(c, Exit)
    BY <1>1, <1>2, <1>3, <1>6, <2>1, EndsQuietly, FreshSmooth
  <2> QED
    BY <1>1, <2>2, SmoothKeeps
<1> QED
  BY <1>4, <1>5, <1>6

LEMMA LoopWakes ==
  ASSUME DevInv, WakeInv, NEW c \in CPUs, SchedulerLoop(c)
  PROVE  WakeInv'
<1> DEFINE s == <<Acquire("ptable"), Under("slot", 1, "ptable")>>
<1>1. UNCHANGED <<ticks, elapsed, chan>> /\ SmoothStates /\ SmoothLocks
  BY StatesSmooth, LocksSmooth DEF SchedulerLoop, procvars, consvars, budget
<1>2. \A d \in CPUs : cpu'[d].proc = cpu[d].proc
  BY ProcSame DEF SchedulerLoop, DevInv
<1>3. Ctx(c) = SchedulerOf(c) /\ k[Ctx(c)] = <<>> /\ k' = [k EXCEPT ![Ctx(c)] = s]
  BY Contexts1 DEF SchedulerLoop, DevInv
<1>4. s \in Seq(Milds)
  <2>1. Acquire("ptable") \in Milds /\ Under("slot", 1, "ptable") \in Milds
    BY MildOps DEF Locks
  <2> QED
    BY <2>1, MildTuples
<1>5. ~HasOp(k[Ctx(c)], "wakeup")
  BY <1>3 DEF HasOp
<1> HIDE DEF s
<1>6. Smooth(c, s)
  BY <1>1, <1>2, <1>3, <1>4, <1>5, FreshSmooth
<1> QED
  BY <1>1, <1>6, SmoothKeeps

LEMMA TablesWake ==
  ASSUME DevInv, WakeInv, NEW c \in CPUs, Consputs(c) \/ Kill(c) \/ ChangeTickets(c)
  PROVE  WakeInv'
<1>1. DevTypes
  BY DEF DevInv
<1>2. UNCHANGED <<ticks, elapsed, chan, input>> /\ k[Ctx(c)] # <<>> /\ O(c).op \in {"consputs", "kill", "change_tickets"}
  BY DEF Consputs, Kill, ChangeTickets, procvars, consvars, budget, At, O
<1>3. PICK bad : Done(c, bad)
  BY DEF Consputs, Kill, ChangeTickets
<1>4. SmoothStates
  <2>1. CASE UNCHANGED state
    BY <1>2, <2>1, StatesSmooth
  <2>2. CASE Kill(c)
    <3>1. state' = [state EXCEPT ![O(c).n] = IF @ = "SLEEPING" THEN "RUNNABLE" ELSE @]
      BY <2>2 DEF Kill
    <3> QED
      BY <1>1, <1>2, <3>1 DEF SmoothStates, DevTypes, Waiting
  <2> QED
    BY <2>1, <2>2 DEF Consputs, ChangeTickets, procvars
<1>5. O(c).op # "wakeup"
  BY <1>2
<1> QED
  BY <1>2, <1>3, <1>4, <1>5, DoneSmooth, SmoothKeeps

LEMMA GetcEndWakes ==
  ASSUME DevInv, WakeInv, NEW c \in CPUs, GetcEnd(c)
  PROVE  WakeInv'
<1>1. UNCHANGED <<ticks, elapsed, chan>> /\ SmoothStates /\ k[Ctx(c)] # <<>> /\ O(c).op = "getc"
  BY StatesSmooth DEF GetcEnd, procvars, consvars, budget, At, O
<1>2. SmoothLocks /\ \A d \in CPUs : cpu'[d].proc = cpu[d].proc
  BY LocksSmooth, ProcSame DEF GetcEnd, ReleaseLock, DevInv
<1>3. PICK ops \in Seq(Milds) : Continue(c, ops)
  <2>1. <<>> \in Seq(Milds) /\ Cprintf \in Seq(Milds)
    BY MildSeqs
  <2> QED
    BY <2>1 DEF GetcEnd
<1> QED
  BY <1>1, <1>2, <1>3, ContinueSmooth, SmoothKeeps

\* A step of c in its own context, when no sleep() is ahead in it.
Awoken(c, s) ==
  /\ s \in Seq(Ops) /\ k' = [k EXCEPT ![Ctx(c)] = s]
  /\ \A d \in CPUs : cpu'[d].proc = cpu[d].proc
  /\ \A ch \in Channels : HasWakeup(k[Ctx(c)], ch) => HasWakeup(s, ch)
  /\ \A ch \in Channels : ~HasSleep(s, ch)
  /\ UNCHANGED <<lock, state, chan>>

\* What it does to the condition of a channel it announces with a wakeup(),
\* and it has the lock of that channel.
LEMMA AwokenKeeps ==
  ASSUME DevInv, WakeInv, NEW c \in CPUs, NEW s, Awoken(c, s),
         \A ch \in Channels, x \in Contexts \ {Ctx(c)} :
           \/ Satisfied(k[x], ch) => Satisfied(k[x], ch)'
           \/ HasWakeup(s, ch) /\ lock[LockOf(ch)] = c,
         \A x \in Contexts : \A o \in Naps(k'[x]) : NapOk(o)'
  PROVE  WakeInv'
<1>1. DevTypes /\ RunInv
  BY DEF DevInv
<1>2. Ctx(c) \in Contexts /\ \A d \in CPUs : Ctx(d)' = Ctx(d) /\ Ctx(d) \in Contexts /\ (d # c => Ctx(d) # Ctx(c))
  BY <1>1, Contexts1 DEF Awoken, Ctx, SchedulerOf
<1>3. k'[Ctx(c)] = s /\ \A x \in Contexts : x # Ctx(c) => k'[x] = k[x]
  BY <1>1, <1>2 DEF Awoken, DevTypes
<1>4. \A p \in Procs : state[p] \in Waiting => p \in Contexts \ {Ctx(c)} /\ k'[p] = k[p]
  BY <1>1, <1>3, Contexts1
<1>5. \A ch \in Channels : Coming(ch) => Coming(ch)'
  <2>1. \A x \in Contexts, ch \in Channels : HasWakeup(k[x], ch) => HasWakeup(k'[x], ch)
    BY <1>3 DEF Awoken
  <2> QED
    BY <2>1 DEF Coming, Ahead, HasWakeup
<1>6. \A ch \in Channels : HasWakeup(s, ch) => Coming(ch)'
  BY <1>2, <1>3 DEF Coming, Ahead, HasWakeup
<1>7. ASSUME NEW d \in CPUs, NEW ch \in Channels, HasSleep(k'[Ctx(d)'], ch)
      PROVE  (Satisfied(k[Ctx(d)], ch) \/ (Coming(ch) /\ lock[LockOf(ch)] # d))'
  <2>1. d # c /\ Ctx(d)' = Ctx(d) /\ Ctx(d) \in Contexts \ {Ctx(c)} /\ k'[Ctx(d)] = k[Ctx(d)]
    BY <1>2, <1>3, <1>7 DEF Awoken
  <2>2. Satisfied(k[Ctx(d)], ch) \/ (Coming(ch) /\ lock[LockOf(ch)] # d)
    BY <1>7, <2>1 DEF WakeInv
  <2>3. CASE Satisfied(k[Ctx(d)], ch) => Satisfied(k[Ctx(d)], ch)'
    BY <1>5, <2>2, <2>3 DEF Awoken, LockOf
  <2>4. CASE HasWakeup(s, ch) /\ lock[LockOf(ch)] = c
    BY <1>6, <2>1, <2>4 DEF Awoken, LockOf
  <2>5. \/ Satisfied(k[Ctx(d)], ch) => Satisfied(k[Ctx(d)], ch)'
        \/ HasWakeup(s, ch) /\ lock[LockOf(ch)] = c
    BY <2>1 DEF Satisfied, Naps
  <2> QED
    BY <2>3, <2>4, <2>5
<1>8. ASSUME NEW p \in Procs, state'[p] = "SLEEPING"
      PROVE  /\ chan'[p] \in Channels
             /\ (Satisfied(k[p], chan[p]) \/ Coming(chan[p]))'
             /\ chan'[p] = "ticks" => Naps(k'[p]) # {}
  <2>1. state[p] = "SLEEPING" /\ chan'[p] = chan[p] /\ k'[p] = k[p] /\ p \in Contexts \ {Ctx(c)}
    BY <1>4, <1>8 DEF Awoken, Waiting
  <2>2. chan[p] \in Channels /\ (Satisfied(k[p], chan[p]) \/ Coming(chan[p])) /\ (chan[p] = "ticks" => Naps(k[p]) # {})
    BY <2>1 DEF WakeInv
  <2>3. \/ Satisfied(k[p], chan[p]) => Satisfied(k[p], chan[p])'
        \/ HasWakeup(s, chan[p])
    BY <2>1, <2>2 DEF Satisfied, Naps
  <2>4. Coming(chan[p]) \/ HasWakeup(s, chan[p]) => Coming(chan[p])'
    BY <1>5, <1>6, <2>1, <2>2 DEF Coming, Ahead
  <2> QED
    BY <2>1, <2>2, <2>3, <2>4
<1>9. \A p \in Procs, ch \in Channels : state'[p] \in Waiting => ~HasSleep(k'[p], ch)
  BY <1>4 DEF Awoken, WakeInv
<1> QED
  BY <1>7, <1>8, <1>9 DEF WakeInv, HasSleep, Naps, Waiting

LEMMA HeadForetells ==
  ASSUME DevInv, NEW c \in CPUs, k[Ctx(c)] # <<>>
  PROVE  /\ O(c) \in Ops /\ Tail(k[Ctx(c)]) \in Seq(Ops) /\ k[Ctx(c)] \in Seq(Ops) /\ Ctx(c) \in Contexts
         /\ \A ch : HasWakeup(k[Ctx(c)], ch) <=> (O(c).op = "wakeup" /\ O(c).n = ch) \/ HasWakeup(Tail(k[Ctx(c)]), ch)
         /\ \A ch : HasSleep(Tail(k[Ctx(c)]), ch) => HasSleep(k[Ctx(c)], ch)
         /\ O(c).op = "sched" /\ O(c).state = "SLEEPING" => HasSleep(k[Ctx(c)], O(c).n)
         /\ Naps(k[Ctx(c)]) = (IF O(c).op = "sys_sleep" THEN {O(c)} ELSE {}) \cup Naps(Tail(k[Ctx(c)]))
         /\ \E a, b \in Modes : /\ Fits(cpu[c], HeldBy(c), a) /\ Goes(O(c), a, b)
                                /\ Foretells(a, k[Ctx(c)]) /\ Foretells(b, Tail(k[Ctx(c)]))
<1> DEFINE t == Tail(k[Ctx(c)])
<1>1. DevTypes /\ RunInv
  BY DEF DevInv
<1>2. k[Ctx(c)] \in Seq(Ops) /\ O(c) \in Ops /\ t \in Seq(Ops) /\ Ctx(c) \in Contexts
  BY <1>1, AtHead
<1>3. k[Ctx(c)] = <<O(c)>> \o t /\ <<O(c)>> \in Seq(Ops)
  BY <1>2 DEF O
<1>4. PICK a, b \in Modes :
        /\ Fits(cpu[c], HeldBy(c), a) /\ Goes(O(c), a, b)
        /\ Runs(k[Ctx(c)], a, Idle(P(c) # NULL)) /\ Runs(t, b, Idle(P(c) # NULL))
  BY <1>1, AtHead
<1>5. Foretells(a, k[Ctx(c)]) /\ Foretells(b, t)
  BY <1>4, RunsForetell
<1> HIDE DEF t
<1>6. /\ \A ch : HasWakeup(<<O(c)>> \o t, ch) <=> HasWakeup(<<O(c)>>, ch) \/ HasWakeup(t, ch)
      /\ \A ch : HasSleep(<<O(c)>> \o t, ch) <=> HasSleep(<<O(c)>>, ch) \/ HasSleep(t, ch)
  BY <1>2, <1>3, HasCat
<1>7. Naps(<<O(c)>> \o t) = Naps(<<O(c)>>) \cup Naps(t)
  BY <1>2, <1>3, NapsCat
<1>8. \A ch : HasWakeup(k[Ctx(c)], ch) <=> (O(c).op = "wakeup" /\ O(c).n = ch) \/ HasWakeup(t, ch)
  BY <1>3, <1>6, HasOne
<1>9. /\ \A ch : HasSleep(t, ch) => HasSleep(k[Ctx(c)], ch)
      /\ O(c).op = "sched" /\ O(c).state = "SLEEPING" => HasSleep(k[Ctx(c)], O(c).n)
  BY <1>3, <1>6, HasOne
<1>10. Naps(k[Ctx(c)]) = (IF O(c).op = "sys_sleep" THEN {O(c)} ELSE {}) \cup Naps(t)
  BY <1>3, <1>7, NapsOne
<1> QED
  BY <1>2, <1>4, <1>5, <1>8, <1>9, <1>10 DEF t

\* One more tick, also when ticks wraps around.
LEMMA TickArithmetic ==
  ASSUME DevTypes, NEW o, NapOk(o), ticks' = (ticks + 1) % TicksWrap, elapsed' = elapsed + 1
  PROVE  NapOk(o)'
<1> DEFINE W == TicksWrap
           d == (ticks - o.t0) % W
           e == (ticks' - o.t0) % W
<1>1. W \in Nat \ {0} /\ ticks \in 0 .. W - 1 /\ elapsed \in Nat /\ o.t0 \in 0 .. W - 1 /\ o.at \in Nat /\ o.n \in Nat
  BY DevicesAssumption DEF DevTypes, NapOk
<1>2. elapsed - o.at >= d
  BY DEF NapOk
<1>3. ticks' = IF ticks + 1 < W THEN ticks + 1 ELSE 0
  <2>1. ticks + 1 \in Int /\ (ticks + 1 < W => ticks + 1 \in 0 .. W - 1)
        /\ (~(ticks + 1 < W) => (ticks + 1) - W \in 0 .. W - 1 /\ (ticks + 1) - W = 0)
    BY <1>1
  <2>2. /\ ticks + 1 \in 0 .. W - 1 => (ticks + 1) % W = ticks + 1
        /\ (ticks + 1) - W \in 0 .. W - 1 => (ticks + 1) % W = (ticks + 1) - W
    BY <1>1, <2>1, ModOf
  <2> QED
    BY <2>1, <2>2
<1>4. d = IF ticks >= o.t0 THEN ticks - o.t0 ELSE (ticks - o.t0) + W
  <2>1. ticks - o.t0 \in Int /\ (ticks >= o.t0 => ticks - o.t0 \in 0 .. W - 1)
        /\ (~(ticks >= o.t0) => (ticks - o.t0) + W \in 0 .. W - 1)
    BY <1>1
  <2>2. /\ ticks - o.t0 \in 0 .. W - 1 => (ticks - o.t0) % W = ticks - o.t0
        /\ (ticks - o.t0) + W \in 0 .. W - 1 => (ticks - o.t0) % W = (ticks - o.t0) + W
    BY <1>1, <2>1, ModOf
  <2> QED
    BY <2>1, <2>2
<1>5. ticks' \in 0 .. W - 1
  BY <1>1, <1>3
<1>6. e = IF ticks' >= o.t0 THEN ticks' - o.t0 ELSE (ticks' - o.t0) + W
  <2>1. ticks' - o.t0 \in Int /\ (ticks' >= o.t0 => ticks' - o.t0 \in 0 .. W - 1)
        /\ (~(ticks' >= o.t0) => (ticks' - o.t0) + W \in 0 .. W - 1)
    BY <1>1, <1>5
  <2>2. /\ ticks' - o.t0 \in 0 .. W - 1 => (ticks' - o.t0) % W = ticks' - o.t0
        /\ (ticks' - o.t0) + W \in 0 .. W - 1 => (ticks' - o.t0) % W = (ticks' - o.t0) + W
    BY <1>1, <2>1, ModOf
  <2> QED
    BY <2>1, <2>2
<1> HIDE DEF d, e
<1>7. e <= d + 1
  BY <1>1, <1>3, <1>4, <1>5, <1>6
<1>8. d \in Int /\ e \in Int
  BY <1>1, <1>4, <1>5, <1>6
<1>9. elapsed' - o.at >= e
  BY <1>1, <1>2, <1>7, <1>8
<1> QED
  BY <1>1, <1>9 DEF NapOk, e

LEMMA TickWakes ==
  ASSUME DevInv, WakeInv, NEW c \in CPUs, TickStep(c)
  PROVE  WakeInv'
<1> DEFINE t == Tail(k[Ctx(c)])
<1>1. DevTypes /\ k[Ctx(c)] # <<>> /\ O(c).op = "tick"
  BY DEF DevInv, TickStep, At, O
<1>2. /\ t \in Seq(Ops) /\ Ctx(c) \in Contexts /\ Naps(k[Ctx(c)]) = Naps(t)
      /\ \A ch : HasWakeup(k[Ctx(c)], ch) <=> HasWakeup(t, ch)
  BY <1>1, HeadForetells
<1>3. PICK a, b \in Modes : Fits(cpu[c], HeldBy(c), a) /\ Goes(O(c), a, b) /\ Foretells(b, t)
  BY <1>1, HeadForetells
<1>4. a.held = {"tickslock"} /\ b.sleeps = "no" /\ b.wakes = "ticks"
  BY <1>1, <1>3 DEF Goes, Releases, Schedules
<1>5. lock["tickslock"] = c
  BY <1>3, <1>4 DEF Fits, HeldBy
<1>6. HasWakeup(t, "ticks") /\ \A ch \in Channels : ~HasSleep(t, ch)
  <2>1. "ticks" \in Channels /\ "no" \notin Channels
    BY DEF Channels
  <2> QED
    BY <1>3, <1>4, <2>1 DEF Foretells
<1>7. /\ k' = [k EXCEPT ![Ctx(c)] = t] /\ ticks' = (ticks + 1) % TicksWrap /\ elapsed' = elapsed + 1
      /\ UNCHANGED <<cpu, lock, input, state, chan>>
  <2>1. <<>> \o t = t
    BY <1>2
  <2> QED
    BY <2>1 DEF TickStep, Continue, consvars, procvars
<1> HIDE DEF t
<1>8. Awoken(c, t)
  BY <1>2, <1>6, <1>7 DEF Awoken
<1>9. \A ch \in Channels, x \in Contexts \ {Ctx(c)} :
           \/ Satisfied(k[x], ch) => Satisfied(k[x], ch)'
           \/ HasWakeup(t, ch) /\ lock[LockOf(ch)] = c
  <2> TAKE ch \in Channels, x \in Contexts \ {Ctx(c)}
  <2>1. CASE ch = "input"
    BY <1>7, <2>1 DEF Satisfied
  <2>2. CASE ch = "ticks"
    BY <1>5, <1>6, <2>2 DEF LockOf
  <2> QED
    BY <2>1, <2>2 DEF Channels
<1>10. ASSUME NEW x \in Contexts, NEW o \in Naps(k'[x]) PROVE NapOk(o)'
  <2>1. o \in Naps(k[x])
    BY <1>1, <1>2, <1>7 DEF DevTypes
  <2>2. NapOk(o)
    BY <2>1 DEF WakeInv
  <2> QED
    BY <1>1, <1>7, <2>2, TickArithmetic
<1> QED
  BY <1>8, <1>9, <1>10, AwokenKeeps

\* The operations of a sleep() hold one sched(), on its channel.
LEMMA SleepOps ==
  ASSUME NEW ch \in Channels
  PROVE  /\ Sleep(ch, LockOf(ch)) \in Seq(Ops) /\ Naps(Sleep(ch, LockOf(ch))) = {}
         /\ \A d : HasSleep(Sleep(ch, LockOf(ch)), d) => d = ch
<1> DEFINE lk == LockOf(ch)
           s == <<Acquire("ptable"), Release(lk)>>
           q == Sched("SLEEPING", ch)
           t == <<Release("ptable"), Acquire(lk)>>
<1>1. lk \in Locks /\ "ptable" \in Locks
  BY DEF LockOf, Locks
<1>2. s \in Seq(Milds) /\ t \in Seq(Milds)
  <2>1. Acquire("ptable") \in Milds /\ Release(lk) \in Milds /\ Release("ptable") \in Milds /\ Acquire(lk) \in Milds
    BY <1>1, MildOps
  <2> QED
    BY <2>1, MildTuples
<1>3. q \in Ops /\ q.op = "sched" /\ q.n = ch
  BY DEF Sched, Ops, Values, Locks
<1>4. Sleep(ch, lk) = s \o (<<q>> \o t)
  BY DEF Sleep
<1> HIDE DEF s, q, t
<1>5. s \in Seq(Ops) /\ t \in Seq(Ops) /\ Naps(s) = {} /\ Naps(t) = {} /\ \A d : ~HasSleep(s, d) /\ ~HasSleep(t, d)
  BY <1>2, MildSeq
<1>6. <<q>> \in Seq(Ops) /\ <<q>> \o t \in Seq(Ops)
  BY <1>3, <1>5
<1>7. Naps(<<q>> \o t) = Naps(<<q>>) \cup Naps(t) /\ \A d : HasSleep(<<q>> \o t, d) <=> HasSleep(<<q>>, d) \/ HasSleep(t, d)
  BY <1>5, <1>6, NapsCat, HasCat
<1>8. Naps(<<q>>) = {} /\ \A d : HasSleep(<<q>>, d) => d = ch
  BY <1>3, NapsOne, HasOne
<1> DEFINE v == <<q>> \o t
<1>9. v \in Seq(Ops) /\ Naps(v) = {} /\ \A d : HasSleep(v, d) => d = ch
  BY <1>5, <1>6, <1>7, <1>8
<1>10. Sleep(ch, lk) = s \o v
  BY <1>4
<1> HIDE DEF v
<1>11. Naps(s \o v) = Naps(s) \cup Naps(v) /\ \A d : HasSleep(s \o v, d) <=> HasSleep(s, d) \/ HasSleep(v, d)
  BY <1>5, <1>9, NapsCat, HasCat
<1>12. s \o v \in Seq(Ops)
  BY <1>5, <1>9
<1> QED
  BY <1>5, <1>9, <1>10, <1>11, <1>12

\* A sleep() that is begun when its condition holds.
LEMMA SleepSmooth ==
  ASSUME DevInv, NEW c \in CPUs, k[Ctx(c)] # <<>>, O(c).op # "wakeup", NEW ch \in Channels, NEW q \in Ops,
         ~(q.op = "sched" /\ q.state = "SLEEPING"), q.op = "sys_sleep" => q = O(c),
         Continue(c, Sleep(ch, LockOf(ch)) \o <<q>>),
         \A d \in CPUs : cpu'[d].proc = cpu[d].proc, UNCHANGED <<ticks, elapsed, chan>>,
         Settled(<<q>> \o Tail(k[Ctx(c)]), ch)
  PROVE  \E s : Smooth(c, s)
<1> DEFINE t == Tail(k[Ctx(c)])
           ops == Sleep(ch, LockOf(ch))
           s == (ops \o <<q>>) \o t
           v == <<q>> \o t
<1>1. /\ t \in Seq(Ops) /\ \A d : HasWakeup(k[Ctx(c)], d) => HasWakeup(t, d)
      /\ Naps(k[Ctx(c)]) = (IF O(c).op = "sys_sleep" THEN {O(c)} ELSE {}) \cup Naps(t)
      /\ \A d : HasSleep(t, d) => HasSleep(k[Ctx(c)], d)
  BY HeadForetells
<1>2. ops \in Seq(Ops) /\ Naps(ops) = {} /\ \A d : HasSleep(ops, d) => d = ch
  BY SleepOps
<1>3. k' = [k EXCEPT ![Ctx(c)] = s]
  BY DEF Continue
<1>4. Settled(v, ch)
  OBVIOUS
<1> HIDE DEF t, ops
<1>5. <<q>> \in Seq(Ops) /\ v \in Seq(Ops) /\ s = ops \o v /\ s \in Seq(Ops)
  BY <1>1, <1>2
<1>6. /\ Naps(v) = Naps(<<q>>) \cup Naps(t)
      /\ \A d : HasSleep(v, d) <=> HasSleep(<<q>>, d) \/ HasSleep(t, d)
      /\ \A d : HasWakeup(v, d) <=> HasWakeup(<<q>>, d) \/ HasWakeup(t, d)
  BY <1>1, <1>5, NapsCat, HasCat
<1> HIDE DEF v, s
<1>7. /\ Naps(ops \o v) = Naps(ops) \cup Naps(v)
      /\ \A d : HasSleep(ops \o v, d) <=> HasSleep(ops, d) \/ HasSleep(v, d)
      /\ \A d : HasWakeup(ops \o v, d) <=> HasWakeup(ops, d) \/ HasWakeup(v, d)
  BY <1>2, <1>5, NapsCat, HasCat
<1>8. \A d : ~HasSleep(<<q>>, d)
  BY HasOne
<1>9. Naps(<<q>>) \subseteq (IF O(c).op = "sys_sleep" THEN {O(c)} ELSE {})
  BY NapsOne
<1>10. Naps(s) = Naps(v) /\ Naps(v) \subseteq Naps(k[Ctx(c)])
  BY <1>1, <1>2, <1>5, <1>6, <1>7, <1>9
<1>11. \A d \in Channels : HasSleep(s, d) => HasSleep(k[Ctx(c)], d) \/ Settled(s, d)
  <2> TAKE d \in Channels
  <2> SUFFICES ASSUME HasSleep(s, d), ~HasSleep(k[Ctx(c)], d) PROVE Settled(s, d)
    OBVIOUS
  <2>1. d = ch
    BY <1>1, <1>2, <1>5, <1>6, <1>7, <1>8
  <2> QED
    BY <1>4, <1>10, <2>1 DEF Settled
<1>12. \A d : HasWakeup(k[Ctx(c)], d) => HasWakeup(s, d)
  BY <1>1, <1>5, <1>6, <1>7
<1> QED
  BY <1>3, <1>5, <1>10, <1>11, <1>12 DEF Smooth

LEMMA SysSleepWakes ==
  ASSUME DevInv, WakeInv, NEW c \in CPUs, SysSleep(c)
  PROVE  WakeInv'
<1>1. DevTypes /\ UNCHANGED <<ticks, elapsed, chan, state, input>> /\ SmoothStates
  BY StatesSmooth DEF DevInv, SysSleep, procvars, consvars, budget
<1>2. CASE At(c, "ticks0")
  <2>q. PICK q : q = [op |-> "sys_sleep", n |-> O(c).n, lk |-> "tickslock", t0 |-> ticks, at |-> elapsed]
    OBVIOUS
  <2> DEFINE t == Tail(k[Ctx(c)])
             s == <<q>> \o t
  <2>1. k[Ctx(c)] # <<>> /\ O(c).op = "ticks0"
    BY <1>2 DEF At, O
  <2>2. k' = [k EXCEPT ![Ctx(c)] = s] /\ UNCHANGED <<cpu, lock>>
    BY <1>2, <2>q DEF SysSleep, At, spinning, Continue
  <2>3. /\ t \in Seq(Ops) /\ Ctx(c) \in Contexts /\ Naps(t) \subseteq Naps(k[Ctx(c)])
        /\ \A ch : HasWakeup(k[Ctx(c)], ch) <=> HasWakeup(t, ch)
    BY <2>1, HeadForetells
  <2>4. PICK a, b \in Modes : Goes(O(c), a, b) /\ Foretells(b, t)
    BY <2>1, HeadForetells
  <2>5. O(c).n \in Nat /\ b.sleeps = "no"
    <3>1. O(c).n \in Nat /\ a = Mode({"tickslock"}, TRUE) /\ b = [a EXCEPT !.held = @ \ {O(c).lk}]
      BY <2>1, <2>4 DEF Goes, Releases, Schedules, OfCall
    <3> QED
      BY <3>1 DEF Mode
  <2>6. \A ch \in Channels : ~HasSleep(t, ch)
    <3>1. "no" \notin Channels
      BY DEF Channels
    <3> QED
      BY <2>4, <2>5, <3>1 DEF Foretells
  <2>7. ticks \in 0 .. TicksWrap - 1 /\ elapsed \in Nat /\ TicksWrap \in Nat \ {0}
    BY <1>1, DevicesAssumption DEF DevTypes
  <2>8. q \in Ops /\ q.op = "sys_sleep" /\ q.n \in Nat /\ q.t0 = ticks /\ q.at = elapsed
    BY <2>5, <2>7, <2>q DEF Ops, Values, Locks
  <2> HIDE DEF t
  <2>9. <<q>> \in Seq(Ops) /\ s \in Seq(Ops)
    BY <2>3, <2>8
  <2>10. /\ Naps(s) = Naps(<<q>>) \cup Naps(t)
         /\ \A ch : HasSleep(s, ch) <=> HasSleep(<<q>>, ch) \/ HasSleep(t, ch)
         /\ \A ch : HasWakeup(s, ch) <=> HasWakeup(<<q>>, ch) \/ HasWakeup(t, ch)
    BY <2>3, <2>9, NapsCat, HasCat
  <2>11. Naps(<<q>>) = {q} /\ \A ch : ~HasSleep(<<q>>, ch)
    BY <2>8, NapsOne, HasOne
  <2> HIDE DEF s
  <2>12. Awoken(c, s)
    BY <1>1, <2>2, <2>3, <2>6, <2>9, <2>10, <2>11 DEF Awoken
  <2>13. NapOk(q)'
    <3>1. (ticks - ticks) % TicksWrap = 0
      <4>1. ticks - ticks = 0 /\ 0 \in 0 .. TicksWrap - 1
        BY <2>7
      <4>2. 0 % TicksWrap = 0
        BY <2>7, <4>1, ModOf
      <4> QED
        BY <4>1, <4>2
    <3>2. elapsed - elapsed >= 0
      BY <2>7
    <3> QED
      BY <1>1, <2>7, <2>8, <3>1, <3>2 DEF NapOk
  <2>14. ASSUME NEW x \in Contexts, NEW o \in Naps(k'[x]) PROVE NapOk(o)'
    <3>1. o = q \/ o \in Naps(k[x])
      <4>1. k'[Ctx(c)] = s /\ (x # Ctx(c) => k'[x] = k[x])
        BY <1>1, <2>2, <2>3 DEF DevTypes
      <4> QED
        BY <2>3, <2>10, <2>11, <4>1
    <3>2. o \in Naps(k[x]) => NapOk(o)
      BY DEF WakeInv
    <3>3. NapOk(o) => NapOk(o)'
      BY <1>1 DEF NapOk
    <3> QED
      BY <2>13, <3>1, <3>2, <3>3
  <2>15. \A ch \in Channels, x \in Contexts \ {Ctx(c)} : Satisfied(k[x], ch) => Satisfied(k[x], ch)'
    <3>1. \A x \in Contexts \ {Ctx(c)} : k'[x] = k[x]
      BY <1>1, <2>2 DEF DevTypes
    <3> QED
      BY <1>1, <3>1, Zenon DEF Satisfied, StillSleeps
  <2> QED
    BY <2>12, <2>14, <2>15, AwokenKeeps
<1>3. CASE At(c, "sys_sleep") /\ ~(StillSleeps(O(c)) /\ ~killed[P(c)])
  <2>1. k[Ctx(c)] # <<>> /\ O(c).op = "sys_sleep" /\ Done(c, FALSE)
    BY <1>3 DEF At, O, SysSleep
  <2> QED
    BY <1>1, <2>1, DoneSmooth, SmoothKeeps
<1>4. CASE At(c, "sys_sleep") /\ StillSleeps(O(c)) /\ ~killed[P(c)]
  <2>1. k[Ctx(c)] # <<>> /\ O(c).op = "sys_sleep"
    BY <1>4 DEF At, O
  <2>2. Continue(c, Sleep("ticks", "tickslock") \o <<O(c)>>) /\ UNCHANGED <<cpu, lock>>
    BY <1>4 DEF SysSleep, At, spinning
  <2>3. SmoothLocks /\ \A d \in CPUs : cpu'[d].proc = cpu[d].proc
    BY <2>2, LocksSmooth
  <2>4. "ticks" \in Channels /\ LockOf("ticks") = "tickslock" /\ O(c) \in Ops
    BY <2>1, HeadForetells DEF Channels, LockOf
  <2> DEFINE v == <<O(c)>> \o Tail(k[Ctx(c)])
  <2>5. Settled(v, "ticks")
    <3>1. PICK a, b \in Modes : Goes(O(c), a, b) /\ Foretells(b, Tail(k[Ctx(c)]))
      BY <2>1, HeadForetells
    <3>2. ~b.naps
      BY <2>1, <3>1 DEF Goes, Releases, Schedules, Idle, Mode
    <3>3. Naps(Tail(k[Ctx(c)])) = {}
      BY <3>1, <3>2, NapsHas DEF Foretells
    <3>4. v = k[Ctx(c)]
      BY <2>1, HeadForetells DEF O
    <3>5. Naps(k[Ctx(c)]) = {O(c)}
      BY <2>1, <3>3, HeadForetells
    <3> HIDE DEF v
    <3> QED
      BY <1>4, <3>4, <3>5 DEF Settled
  <2> QED
    BY <1>1, <2>1, <2>2, <2>3, <2>4, <2>5, SleepSmooth, SmoothKeeps
<1> QED
  BY <1>2, <1>3, <1>4 DEF SysSleep

LEMMA ConsolereadWakes ==
  ASSUME DevInv, WakeInv, NEW c \in CPUs, Consoleread(c)
  PROVE  WakeInv'
<1> DEFINE o == O(c)
           q == Passed(input, o.n, o.target)
<1>1. DevTypes /\ RunInv /\ k[Ctx(c)] # <<>> /\ O(c).op = "consoleread"
  BY DevParts DEF Consoleread, At, O
<1>2. o \in Ops /\ input \in Inputs
  BY <1>1, AtHead DEF DevTypes
<1>3. o.n \in Int /\ o.target \in Int
  <2>1. PICK a, b \in Modes : Goes(O(c), a, b)
    BY <1>1, AtHead
  <2> QED
    BY <1>1, <2>1 DEF Goes, Releases, Schedules, OfCall
<1>4. q.i \in 0 .. Minus(input.w, input.r) /\ (~q.done => q.i = Minus(input.w, input.r))
  <2> HIDE DEF o
  <2> QED
    BY <1>2, <1>3, PassedIn
<1>5. /\ input' = [input EXCEPT !.r = Plus(@, q.i)]
      /\ IF q.done \/ killed[P(c)] THEN Done(c, FALSE)
         ELSE Continue(c, Sleep("input", "cons") \o <<[o EXCEPT !.n = @ - q.i]>>) /\ UNCHANGED spinning
      /\ UNCHANGED <<pos, procvars, ticks, budget>>
  BY DEF Consoleread
<1> HIDE DEF q
<1>6. UNCHANGED <<ticks, elapsed, chan, state>>
  BY <1>5 DEF procvars, budget
<1>7. /\ input.r \in 0 .. Wrap - 1 /\ input.w \in 0 .. Wrap - 1 /\ input.e \in 0 .. Wrap - 1
      /\ Filled(input.r, input.w, input.e) /\ input \in Rings
  BY <1>2 DEF Inputs, Rings
<1>8. input'.r = Plus(input.r, q.i) /\ input'.w = input.w
  BY <1>5, <1>7 DEF Rings
<1>9. Plus(input.r, q.i) \in 0 .. Wrap - 1 /\ Minus(input.w, Plus(input.r, q.i)) = Minus(input.w, input.r) - q.i
  BY <1>4, <1>7, RingMoves
<1>10. \A x, y \in 0 .. Wrap - 1 : Minus(x, y) = 0 <=> x = y
  <2> TAKE x, y \in 0 .. Wrap - 1
  <2>1. Minus(x, y) = IF x >= y THEN x - y ELSE (x - y) + Wrap
    BY RingArithmetic
  <2>2. Wrap \in Nat
    BY ConsoleAssumption
  <2> QED
    BY <2>1, <2>2
<1>11. Minus(input.w, input.r) \in Nat
  BY <1>2, <1>7, FromSeq
<1>12. input.r = input.w => input'.r = input'.w
  <2> SUFFICES ASSUME input.r = input.w PROVE input'.r = input'.w
    OBVIOUS
  <2>1. Minus(input.w, input.r) = 0
    BY <1>7, <1>10
  <2>2. q.i = 0
    BY <1>4, <2>1
  <2>3. Minus(input.w, Plus(input.r, q.i)) = 0
    BY <1>9, <2>1, <2>2
  <2> QED
    BY <1>7, <1>8, <1>9, <1>10, <2>3
<1>13. ~q.done => input'.r = input'.w
  <2> SUFFICES ASSUME ~q.done PROVE input'.r = input'.w
    OBVIOUS
  <2>1. Minus(input.w, Plus(input.r, q.i)) = 0
    BY <1>4, <1>9, <1>11
  <2> QED
    BY <1>7, <1>8, <1>9, <1>10, <2>1
<1>14. SmoothStates
  BY <1>6, <1>12 DEF SmoothStates
<1>15. CASE q.done \/ killed[P(c)]
  BY <1>1, <1>5, <1>6, <1>14, <1>15, DoneSmooth, SmoothKeeps
<1>16. CASE ~(q.done \/ killed[P(c)])
  <2> DEFINE x == [o EXCEPT !.n = @ - q.i]
  <2>1. "input" \in Channels /\ LockOf("input") = "cons"
    BY DEF Channels, LockOf
  <2>2. Continue(c, Sleep("input", LockOf("input")) \o <<x>>) /\ UNCHANGED <<cpu, lock>>
    BY <1>5, <1>16, <2>1 DEF spinning
  <2>3. x \in Ops /\ x.op = "consoleread"
    <3>1. o.n - q.i \in Int
      BY <1>3, <1>4, <1>11
    <3>2. o \in [op : {"consoleread"}, n : Values, lk : Locks, target : Values]
      BY <1>1, <1>2 DEF Ops, OpNames
    <3>3. x \in [op : {"consoleread"}, n : Values, lk : Locks, target : Values] /\ x.op = "consoleread"
      BY <3>1, <3>2 DEF Values
    <3> QED
      BY <3>3 DEF Ops
  <2>4. SmoothLocks /\ \A d \in CPUs : cpu'[d].proc = cpu[d].proc
    BY <2>2, LocksSmooth
  <2> HIDE DEF x
  <2>5. Settled(<<x>> \o Tail(k[Ctx(c)]), "input")
    BY <1>13, <1>16 DEF Settled
  <2>6. \E s : Smooth(c, s)
    BY <1>1, <1>6, <2>1, <2>2, <2>3, <2>4, <2>5, SleepSmooth
  <2> QED
    BY <1>14, <2>4, <2>6, SmoothKeeps
<1> QED
  BY <1>15, <1>16

LEMMA GetcWakes ==
  ASSUME DevInv, WakeInv, NEW c \in CPUs, NEW key \in Keys, Getc(c, key)
  PROVE  WakeInv'
<1> DEFINE o == O(c)
           z == [o EXCEPT !.n = TRUE]
           t == Tail(k[Ctx(c)])
<1>1. DevTypes /\ RunInv /\ k[Ctx(c)] # <<>> /\ O(c).op = "getc"
  BY DevParts DEF Getc, At, O
<1>2. UNCHANGED <<cpu, lock, ticks, elapsed, chan, state>> /\ \A d \in CPUs : cpu'[d].proc = cpu[d].proc
  BY DEF Getc, procvars
<1>3. SmoothLocks
  BY <1>2, LocksSmooth
<1>4. o \in Ops /\ input \in Inputs /\ input \in Rings
  BY <1>1, AtHead DEF DevTypes, Inputs
<1>5. o \in Milds /\ z \in Milds
  <2>1. o \in [op : OpNames, n : Values, lk : Locks \cup {NULL}]
    BY <1>1, <1>4 DEF Ops
  <2>2. z \in [op : OpNames, n : Values, lk : Locks \cup {NULL}] /\ z.op = "getc"
    BY <1>1, <2>1 DEF Values
  <2> HIDE DEF z
  <2> QED
    BY <1>1, <2>1, <2>2 DEF Milds, Ops
<1>6. <<o>> \in Seq(Milds) /\ <<z>> \in Seq(Milds) /\ Wakeup("input") \o <<o>> \in Seq(Milds)
  <2>1. "input" \in Channels
    BY DEF Channels
  <2> HIDE DEF o, z
  <2>2. <<o>> \in Seq(Milds) /\ <<z>> \in Seq(Milds)
    BY <1>5
  <2> QED
    BY <2>1, <2>2, MildSeqs, MildCat
<1>7. ASSUME NEW ops \in Seq(Milds), Continue(c, ops), input'.r = input.r, input'.w = input.w PROVE WakeInv'
  <2>1. SmoothStates
    BY <1>2, <1>7 DEF SmoothStates
  <2>2. O(c).op # "wakeup"
    BY <1>1
  <2> QED
    BY <1>1, <1>2, <1>3, <1>7, <2>1, <2>2, ContinueSmooth, SmoothKeeps
<1>8. CASE \E y : input' = [input EXCEPT !.e = y] /\ Continue(c, <<o>>)
  BY <1>4, <1>6, <1>7, <1>8 DEF Rings
<1>9. CASE UNCHANGED input /\ (Continue(c, <<o>>) \/ Continue(c, <<z>>))
  BY <1>6, <1>7, <1>9
<1>10. CASE input' = Put(input, key) /\ ~Ends(input, key) /\ Continue(c, <<o>>)
  <2>1. Put(input, key).r = input.r /\ Put(input, key).w = input.w
    BY <1>4, <1>10 DEF Put, Rings
  <2> QED
    BY <1>6, <1>7, <1>10, <2>1
<1>11. CASE Continue(c, Wakeup("input") \o <<o>>)
  <2> DEFINE ops == Wakeup("input") \o <<o>>
             s == ops \o t
  <2>1. k' = [k EXCEPT ![Ctx(c)] = s]
    BY <1>11 DEF Continue
  <2>2. /\ t \in Seq(Ops) /\ Ctx(c) \in Contexts /\ Naps(k[Ctx(c)]) = Naps(t)
        /\ \A ch : HasWakeup(k[Ctx(c)], ch) <=> HasWakeup(t, ch)
    BY <1>1, HeadForetells
  <2>3. PICK a, b \in Modes : Fits(cpu[c], HeldBy(c), a) /\ Goes(O(c), a, b) /\ Foretells(b, t)
    BY <1>1, HeadForetells
  <2>4. a.held = {"cons"} /\ b.sleeps = "no"
    <3>1. a.held = {"cons"} /\ a.sleeps = "no" /\ b = [a EXCEPT !.held = @ \ {O(c).lk}]
      BY <1>1, <2>3 DEF Goes, Releases, Schedules, Quiet
    <3> QED
      BY <3>1, ModeIn DEF ModeRecords
  <2>5. lock["cons"] = c
    BY <2>3, <2>4 DEF Fits, HeldBy
  <2>6. \A ch \in Channels : ~HasSleep(t, ch)
    <3>1. "no" \notin Channels
      BY DEF Channels
    <3> QED
      BY <2>3, <2>4, <3>1 DEF Foretells
  <2>7. HasWakeup(ops, "input")
    <3> DEFINE u == Under("wakeup", "input", "ptable")
    <3>1. u.op = "wakeup" /\ u.n = "input"
      BY DEF Under
    <3> HIDE DEF u, o
    <3>2. ops = <<Acquire("ptable"), u>> \o <<o>>
      BY DEF Wakeup, u
    <3>3. 2 \in DOMAIN ops /\ ops[2] = u
      BY <3>2
    <3> HIDE DEF ops
    <3> QED
      BY <3>1, <3>3 DEF HasWakeup
  <2>8. ops \in Seq(Ops) /\ Naps(ops) = {} /\ \A ch : ~HasSleep(ops, ch)
    BY <1>6, MildSeq
  <2> HIDE DEF ops, t
  <2>9. /\ s \in Seq(Ops) /\ Naps(s) = Naps(ops) \cup Naps(t)
        /\ \A ch : HasSleep(s, ch) <=> HasSleep(ops, ch) \/ HasSleep(t, ch)
        /\ \A ch : HasWakeup(s, ch) <=> HasWakeup(ops, ch) \/ HasWakeup(t, ch)
    <3>1. s \in Seq(Ops)
      BY <2>2, <2>8
    <3>2. Naps(s) = Naps(ops) \cup Naps(t)
      BY <2>2, <2>8, NapsCat
    <3> QED
      BY <2>2, <2>8, <3>1, <3>2, HasCat
  <2> HIDE DEF s
  <2>10. Awoken(c, s)
    BY <1>2, <2>1, <2>2, <2>6, <2>8, <2>9 DEF Awoken
  <2>11. k'[Ctx(c)] = s /\ \A x \in Contexts : x # Ctx(c) => k'[x] = k[x]
    BY <1>1, <2>1, <2>2 DEF DevTypes
  <2>12. \A ch \in Channels, x \in Contexts \ {Ctx(c)} :
           \/ Satisfied(k[x], ch) => Satisfied(k[x], ch)'
           \/ HasWakeup(s, ch) /\ lock[LockOf(ch)] = c
    <3> TAKE ch \in Channels, x \in Contexts \ {Ctx(c)}
    <3>1. CASE ch = "input"
      BY <2>5, <2>7, <2>9, <3>1 DEF LockOf
    <3>2. CASE ch = "ticks"
      <4>1. k'[x] = k[x] /\ ch # "input"
        BY <2>11, <3>2
      <4> QED
        BY <1>2, <4>1, Zenon DEF Satisfied, StillSleeps
    <3> QED
      BY <3>1, <3>2 DEF Channels
  <2>13. ASSUME NEW x \in Contexts, NEW n \in Naps(k'[x]) PROVE NapOk(n)'
    <3>1. n \in Naps(k[x])
      BY <2>2, <2>8, <2>9, <2>11
    <3>2. NapOk(n)
      BY <3>1 DEF WakeInv
    <3> QED
      BY <1>2, <3>2 DEF NapOk
  <2> QED
    BY <2>10, <2>12, <2>13, AwokenKeeps
<1>12. <<>> \o <<o>> = <<o>>
  OBVIOUS
<1> QED
  BY <1>8, <1>9, <1>10, <1>11, <1>12 DEF Getc, consvars

LEMMA HeadTail ==
  ASSUME NEW s \in Seq(Ops), s # <<>>
  PROVE  /\ \A ch : HasWakeup(s, ch) => (Head(s).op = "wakeup" /\ Head(s).n = ch) \/ HasWakeup(Tail(s), ch)
         /\ \A ch : HasSleep(Tail(s), ch) => HasSleep(s, ch)
         /\ Naps(Tail(s)) \subseteq Naps(s)
<1> DEFINE o == Head(s)
           t == Tail(s)
<1>1. s = <<o>> \o t /\ <<o>> \in Seq(Ops) /\ t \in Seq(Ops)
  OBVIOUS
<1> HIDE DEF o, t
<1>2. /\ \A ch : HasWakeup(<<o>> \o t, ch) <=> HasWakeup(<<o>>, ch) \/ HasWakeup(t, ch)
      /\ \A ch : HasSleep(<<o>> \o t, ch) <=> HasSleep(<<o>>, ch) \/ HasSleep(t, ch)
  BY <1>1, HasCat
<1>3. Naps(<<o>> \o t) = Naps(<<o>>) \cup Naps(t)
  BY <1>1, NapsCat
<1>4. \A ch : HasWakeup(s, ch) => (o.op = "wakeup" /\ o.n = ch) \/ HasWakeup(t, ch)
  BY <1>1, <1>2, HasOne
<1> QED
  BY <1>1, <1>2, <1>3, <1>4 DEF o, t

\* wakeup(): the sleepers of its channel are RUNNABLE; a process that is going
\* to sleep on it has its lock still, since it has not ptable.lock.
LEMMA WakeupWakes ==
  ASSUME DevInv, WakeInv, NEW c \in CPUs, WakeupStep(c)
  PROVE  WakeInv'
<1>w. PICK w : w = O(c).n
  OBVIOUS
<1> DEFINE t == Tail(k[Ctx(c)])
<1>1. DevTypes /\ RunInv /\ k[Ctx(c)] # <<>> /\ O(c).op = "wakeup"
  BY DEF DevInv, WakeupStep, At, O
<1>2. /\ t \in Seq(Ops) /\ Ctx(c) \in Contexts /\ Naps(k[Ctx(c)]) = Naps(t)
      /\ \A ch : HasWakeup(k[Ctx(c)], ch) <=> w = ch \/ HasWakeup(t, ch)
      /\ \A ch : HasSleep(t, ch) => HasSleep(k[Ctx(c)], ch)
  BY <1>1, <1>w, HeadForetells
<1>3. PICK a, b \in Modes : Fits(cpu[c], HeldBy(c), a) /\ Goes(O(c), a, b) /\ Foretells(a, k[Ctx(c)])
  BY <1>1, HeadForetells
<1>4. "ptable" \in a.held /\ a.sleeps = "no"
  BY <1>1, <1>3 DEF Goes, Releases, Schedules
<1>5. lock["ptable"] = c
  BY <1>3, <1>4 DEF Fits, HeldBy
<1>6. \A ch \in Channels : ~HasSleep(t, ch)
  <2>1. "no" \notin Channels
    BY DEF Channels
  <2> QED
    BY <1>2, <1>3, <1>4, <2>1 DEF Foretells
<1>7. /\ k' = [k EXCEPT ![Ctx(c)] = t] /\ lock' = [lock EXCEPT ![O(c).lk] = NULL]
      /\ cpu' = [cpu EXCEPT ![c] = Popcli(@)]
      /\ state' = [p \in Procs |-> IF state[p] = "SLEEPING" /\ chan[p] = w THEN "RUNNABLE" ELSE state[p]]
      /\ UNCHANGED <<input, chan, ticks, elapsed>>
  <2>1. <<>> \o t = t
    BY <1>2
  <2> QED
    BY <1>w, <2>1 DEF WakeupStep, Done, ReleaseLock, Continue, O, consvars, budget
<1> HIDE DEF t
<1>8. \A d \in CPUs : Ctx(d)' = Ctx(d) /\ Ctx(d) \in Contexts
  <2>1. \A d \in CPUs : cpu'[d].proc = cpu[d].proc
    BY <1>1, <1>7, ProcSame
  <2> QED
    BY <1>1, <2>1, Contexts1 DEF Ctx, SchedulerOf
<1>9. k'[Ctx(c)] = t /\ \A x \in Contexts : x # Ctx(c) => k'[x] = k[x]
  BY <1>1, <1>2, <1>7 DEF DevTypes
<1>10. \A ch \in Channels : ch # w /\ Coming(ch) => Coming(ch)'
  <2>1. \A x \in Contexts, ch \in Channels : ch # w /\ HasWakeup(k[x], ch) => HasWakeup(k'[x], ch)
    BY <1>2, <1>9
  <2> QED
    BY <2>1 DEF Coming, Ahead, HasWakeup
<1>11. \A p \in Procs : state'[p] \in Waiting => state[p] \in Waiting /\ p \in Contexts /\ k'[p] = k[p]
  BY <1>1, <1>7, <1>9, Contexts1 DEF Waiting, DevTypes
<1>12. \A x \in Contexts, ch \in Channels : k'[x] = k[x] /\ Satisfied(k[x], ch) => Satisfied(k[x], ch)'
  BY <1>7, Zenon DEF Satisfied, StillSleeps
<1>13. ASSUME NEW d \in CPUs, NEW ch \in Channels, HasSleep(k'[Ctx(d)'], ch)
       PROVE  (Satisfied(k[Ctx(d)], ch) \/ (Coming(ch) /\ lock[LockOf(ch)] # d))'
  <2>1. d # c /\ Ctx(d) # Ctx(c) /\ Ctx(d)' = Ctx(d) /\ k'[Ctx(d)] = k[Ctx(d)] /\ Ctx(d) \in Contexts
    <3>1. d # c
      BY <1>6, <1>8, <1>9, <1>13
    <3> QED
      BY <1>1, <1>8, <1>9, <3>1, Contexts1
  <2>2. HasSleep(k[Ctx(d)], ch)
    BY <1>13, <2>1
  <2>3. Satisfied(k[Ctx(d)], ch) \/ (Coming(ch) /\ lock[LockOf(ch)] # d)
    BY <2>2 DEF WakeInv
  <2>4. CASE Satisfied(k[Ctx(d)], ch)
    BY <1>12, <2>1, <2>4 DEF Satisfied, Naps
  <2>5. CASE Coming(ch) /\ lock[LockOf(ch)] # d
    <3>1. HeldBy(d) \in {{LockOf(ch)}, {"ptable"}, {LockOf(ch), "ptable"}}
      BY <2>2, SleepHolds
    <3>2. "ptable" \notin HeldBy(d) /\ LockOf(ch) \notin HeldBy(d)
      BY <1>5, <2>1, <2>5 DEF HeldBy
    <3> QED
      BY <3>1, <3>2
  <2> QED
    BY <2>3, <2>4, <2>5
<1>14. ASSUME NEW p \in Procs, state'[p] = "SLEEPING"
       PROVE  /\ chan'[p] \in Channels
              /\ (Satisfied(k[p], chan[p]) \/ Coming(chan[p]))'
              /\ chan'[p] = "ticks" => Naps(k'[p]) # {}
  <2>1. state[p] = "SLEEPING" /\ chan[p] # w /\ chan'[p] = chan[p] /\ k'[p] = k[p] /\ p \in Contexts
    BY <1>7, <1>11, <1>14 DEF Waiting
  <2>2. chan[p] \in Channels /\ (Satisfied(k[p], chan[p]) \/ Coming(chan[p])) /\ (chan[p] = "ticks" => Naps(k[p]) # {})
    BY <2>1 DEF WakeInv
  <2>3. Satisfied(k[p], chan[p]) => Satisfied(k[p], chan[p])'
    BY <1>12, <2>1, <2>2 DEF Satisfied, Naps
  <2>4. Coming(chan[p]) => Coming(chan[p])'
    BY <1>10, <2>1, <2>2 DEF Coming, Ahead
  <2> QED
    BY <2>1, <2>2, <2>3, <2>4
<1>15. \A p \in Procs, ch \in Channels : state'[p] \in Waiting => ~HasSleep(k'[p], ch)
  BY <1>11 DEF WakeInv
<1>16. ASSUME NEW x \in Contexts, NEW o \in Naps(k'[x]) PROVE NapOk(o)'
  <2>1. o \in Naps(k[x])
    BY <1>2, <1>9
  <2>2. NapOk(o)
    BY <2>1 DEF WakeInv
  <2> QED
    BY <1>7, <2>2 DEF NapOk
<1> QED
  BY <1>13, <1>14, <1>15, <1>16 DEF WakeInv, HasSleep, Naps, Waiting

\* A change of contexts on c: p leaves it or comes back, and no sleep() is
\* ahead in what c goes on with.
LEMMA SwapKeeps ==
  ASSUME DevInv, WakeInv, NEW c \in CPUs, NEW p \in Procs,
         UNCHANGED <<input, ticks, elapsed, lock>>,
         \A x \in Contexts, ch \in Channels : HasWakeup(k[x], ch) => HasWakeup(k'[x], ch),
         \A x \in Contexts : Naps(k'[x]) \subseteq Naps(k[x]),
         \A d \in CPUs : d # c => Ctx(d)' = Ctx(d) /\ k'[Ctx(d)] = k[Ctx(d)],
         \A ch \in Channels : ~HasSleep(k'[Ctx(c)'], ch),
         \A q \in Procs : q # p => /\ state'[q] = state[q] /\ chan'[q] = chan[q]
                                   /\ state[q] \in Waiting => k'[q] = k[q],
         state'[p] \in Waiting => \A ch \in Channels : ~HasSleep(k'[p], ch),
         state'[p] = "SLEEPING" => /\ chan'[p] \in Channels
                                   /\ Satisfied(k'[p], chan'[p]) \/ Coming(chan'[p])
                                   /\ chan'[p] = "ticks" => Naps(k'[p]) # {}
  PROVE  WakeInv'
<1>1. \A ch \in Channels : Coming(ch) => Coming(ch)'
  BY DEF Coming, Ahead, HasWakeup
<1>2. ASSUME NEW d \in CPUs, NEW ch \in Channels, HasSleep(k'[Ctx(d)'], ch)
      PROVE  (Satisfied(k[Ctx(d)], ch) \/ (Coming(ch) /\ lock[LockOf(ch)] # d))'
  <2>1. Ctx(d)' = Ctx(d) /\ k'[Ctx(d)] = k[Ctx(d)] /\ HasSleep(k[Ctx(d)], ch)
    BY <1>2
  <2>2. Satisfied(k[Ctx(d)], ch) \/ (Coming(ch) /\ lock[LockOf(ch)] # d)
    BY <2>1 DEF WakeInv
  <2>3. Satisfied(k[Ctx(d)], ch) => Satisfied(k[Ctx(d)], ch)'
    BY <2>1, Zenon DEF Satisfied, StillSleeps
  <2> QED
    BY <1>1, <2>2, <2>3 DEF LockOf
<1>3. ASSUME NEW q \in Procs, state'[q] = "SLEEPING"
      PROVE  /\ chan'[q] \in Channels
             /\ (Satisfied(k[q], chan[q]) \/ Coming(chan[q]))'
             /\ chan'[q] = "ticks" => Naps(k'[q]) # {}
  <2>1. /\ chan'[q] \in Channels
        /\ Satisfied(k'[q], chan'[q]) \/ Coming(chan'[q])
        /\ chan'[q] = "ticks" => Naps(k'[q]) # {}
    <3>1. CASE q = p
      BY <1>3, <3>1
    <3>2. CASE q # p
      <4>1. state[q] = "SLEEPING" /\ chan'[q] = chan[q] /\ k'[q] = k[q]
        BY <1>3, <3>2 DEF Waiting
      <4> QED
        BY <4>1 DEF WakeInv
    <3> QED
      BY <3>1, <3>2
  <2>2. PICK ch \in Channels : ch = chan'[q]
    BY <2>1
  <2>3. Satisfied(k'[q], ch) => (Satisfied(k[q], chan[q]))'
    BY <2>2, Zenon DEF Satisfied, StillSleeps
  <2>4. Coming(ch) => (Coming(chan[q]))'
    BY <1>1, <2>2 DEF Coming, Ahead
  <2> QED
    BY <2>1, <2>2, <2>3, <2>4
<1>4. \A q \in Procs, ch \in Channels : state'[q] \in Waiting => ~HasSleep(k'[q], ch)
  BY DEF WakeInv
<1>5. ASSUME NEW x \in Contexts, NEW o \in Naps(k'[x]) PROVE NapOk(o)'
  <2>1. NapOk(o)
    BY <1>5 DEF WakeInv
  <2> QED
    BY <2>1 DEF NapOk
<1> QED
  BY <1>2, <1>3, <1>4, <1>5 DEF WakeInv, HasSleep, Naps, Waiting

LEMMA ResumeHas ==
  ASSUME NEW r \in Ops, r.op = "resume", NEW t \in Seq(Ops)
  PROVE  /\ \A ch : HasWakeup(<<r>> \o t, ch) <=> HasWakeup(t, ch)
         /\ \A ch : HasSleep(<<r>> \o t, ch) <=> HasSleep(t, ch)
         /\ Naps(<<r>> \o t) = Naps(t)
<1>1. <<r>> \in Seq(Ops)
  OBVIOUS
<1>2. /\ \A ch : HasWakeup(<<r>> \o t, ch) <=> HasWakeup(<<r>>, ch) \/ HasWakeup(t, ch)
      /\ \A ch : HasSleep(<<r>> \o t, ch) <=> HasSleep(<<r>>, ch) \/ HasSleep(t, ch)
  BY <1>1, HasCat
<1>3. Naps(<<r>> \o t) = Naps(<<r>>) \cup Naps(t)
  BY <1>1, NapsCat
<1>4. Naps(<<r>>) = {}
  BY NapsOne
<1> QED
  BY <1>2, <1>3, <1>4, HasOne

LEMMA LooksHas ==
  ASSUME NEW n \in Nat
  PROVE  Looks(n) \in Seq(Ops) /\ Naps(Looks(n)) = {} /\ \A ch : ~HasSleep(Looks(n), ch)
<1>1. Looks(n) \in Seq(Milds)
  BY MildOps, MildTuples DEF Looks
<1> QED
  BY <1>1, MildSeq

\* sched(): who goes to sleep tested its condition, which holds still or has
\* its wakeup() coming.
LEMMA SchedWakes ==
  ASSUME DevInv, WakeInv, NEW c \in CPUs, SchedStep(c)
  PROVE  WakeInv'
<1>p. PICK p : p = P(c)
  OBVIOUS
<1>o. PICK o : o = O(c)
  OBVIOUS
<1>r. PICK r : r = Op("resume", cpu[c].intena)
  OBVIOUS
<1>t. PICK t : t = Tail(k[Ctx(c)])
  OBVIOUS
<1>1. DevTypes /\ RunInv /\ ~panicked /\ k[Ctx(c)] # <<>> /\ o.op = "sched"
  BY <1>o, DevParts DEF SchedStep, At, O
<1>2. /\ o \in Ops /\ t \in Seq(Ops) /\ Ctx(c) \in Contexts
      /\ \A ch : HasWakeup(k[Ctx(c)], ch) <=> HasWakeup(t, ch)
      /\ o.state = "SLEEPING" => HasSleep(k[Ctx(c)], o.n)
      /\ Naps(k[Ctx(c)]) = Naps(t)
  BY <1>o, <1>t, <1>1, HeadForetells
<1>3. PICK a, b \in Modes : /\ Fits(cpu[c], HeldBy(c), a) /\ Goes(o, a, b)
                            /\ Foretells(a, k[Ctx(c)]) /\ Foretells(b, t)
  BY <1>o, <1>t, <1>1, HeadForetells
<1>4. Schedules(o, a, b)
  BY <1>1, <1>3 DEF Goes, Releases
<1>5. a.proc /\ o.state \in {"SLEEPING", "RUNNABLE", "ZOMBIE"}
  BY <1>4 DEF Schedules, Mode
<1>6. o.state = "SLEEPING" => o.n \in Channels /\ (o.n = "ticks" => b.naps) /\ b.sleeps = "no"
  <2> SUFFICES ASSUME o.state = "SLEEPING" PROVE o.n \in Channels /\ (o.n = "ticks" => b.naps) /\ b.sleeps = "no"
    OBVIOUS
  <2>1. /\ a = [Mode({"ptable"}, TRUE) EXCEPT !.sleeps = o.n, !.naps = (o.n = "ticks")] /\ b = [a EXCEPT !.sleeps = "no"]
        /\ o.n \in Channels
    BY <1>4 DEF Schedules
  <2> QED
    BY <2>1 DEF Mode
<1>7. o.state = "RUNNABLE" => b.sleeps = "no"
  BY <1>4 DEF Schedules, Quiet
<1>8. o.state # "ZOMBIE" => \A ch \in Channels : ~HasSleep(t, ch)
  <2>1. "no" \notin Channels
    BY DEF Channels
  <2> QED
    BY <1>3, <1>5, <1>6, <1>7, <2>1 DEF Foretells
<1>9. p # NULL
  <2>1. PICK e, f \in Modes : /\ Fits(cpu[c], HeldBy(c), e) /\ Goes(o, e, f)
                              /\ Runs(k[Ctx(c)], e, Idle(P(c) # NULL))
    BY <1>o, <1>1, AtHead
  <2>2. Schedules(o, e, f)
    BY <1>1, <2>1 DEF Goes, Releases
  <2>3. e.proc
    BY <2>2 DEF Schedules, Mode
  <2> QED
    BY <1>p, <2>1, <2>3, RunsProc
<1>10. p \in Procs /\ Ctx(c) = p /\ p \in Contexts /\ SchedulerOf(c) \in Contexts /\ SchedulerOf(c) \notin Procs
  BY <1>p, <1>1, <1>9, Contexts1
<1>11. /\ state' = [state EXCEPT ![p] = o.state] /\ chan' = [chan EXCEPT ![p] = o.n]
       /\ cpu' = [cpu EXCEPT ![c].proc = NULL] /\ k' = [k EXCEPT ![p] = <<r>> \o t]
       /\ UNCHANGED <<lock, input, ticks, elapsed>>
  BY <1>p, <1>o, <1>r, <1>t, <1>10 DEF SchedStep, Continue, Saved, consvars, budget
<1>12. r \in Ops /\ r.op = "resume"
  BY <1>r, <1>1 DEF Op, Ops, OpNames, Values, DevTypes, CpuRecords
<1>13. /\ \A ch : HasWakeup(<<r>> \o t, ch) <=> HasWakeup(t, ch)
       /\ \A ch : HasSleep(<<r>> \o t, ch) <=> HasSleep(t, ch)
       /\ Naps(<<r>> \o t) = Naps(t)
  BY <1>2, <1>12, ResumeHas
<1>14. k'[p] = <<r>> \o t /\ \A x \in Contexts : x # p => k'[x] = k[x]
  BY <1>1, <1>10, <1>11 DEF DevTypes
<1>15. /\ \A x \in Contexts, ch \in Channels : HasWakeup(k[x], ch) => HasWakeup(k'[x], ch)
       /\ \A x \in Contexts : Naps(k'[x]) = Naps(k[x])
  BY <1>2, <1>10, <1>13, <1>14
<1>16. \A d \in CPUs : d # c => Ctx(d)' = Ctx(d) /\ k'[Ctx(d)] = k[Ctx(d)]
  <2> TAKE d \in CPUs
  <2> SUFFICES ASSUME d # c PROVE Ctx(d)' = Ctx(d) /\ k'[Ctx(d)] = k[Ctx(d)]
    OBVIOUS
  <2>1. Ctx(d) # p /\ Ctx(d) \in Contexts
    BY <1>1, <1>10, Contexts1
  <2>2. cpu'[d] = cpu[d]
    BY <1>1, <1>11 DEF DevTypes
  <2> QED
    BY <1>14, <2>1, <2>2 DEF Ctx, SchedulerOf
<1>17. \A ch \in Channels : ~HasSleep(k'[Ctx(c)'], ch)
  <2>1. cpu'[c].proc = NULL
    BY <1>1, <1>11 DEF DevTypes, CpuRecords
  <2>2. Ctx(c)' = SchedulerOf(c)
    BY <2>1 DEF Ctx, SchedulerOf
  <2>3. PICK n \in Nat : k[SchedulerOf(c)] = Looks(n)
    BY <1>p, <1>1, <1>9 DEF RunInv
  <2>4. k'[SchedulerOf(c)] = Looks(n)
    BY <1>10, <1>14, <2>3
  <2> QED
    BY <2>2, <2>4, LooksHas
<1>18. \A q \in Procs : q # p => /\ state'[q] = state[q] /\ chan'[q] = chan[q]
                                 /\ state[q] \in Waiting => k'[q] = k[q]
  <2>1. \A q \in Procs : q \in Contexts
    BY <1>1, Contexts1
  <2> QED
    BY <1>1, <1>11, <1>14, <2>1 DEF DevTypes
<1>19. state'[p] = o.state /\ chan'[p] = o.n
  BY <1>1, <1>10, <1>11 DEF DevTypes
<1>20. state'[p] \in Waiting => \A ch \in Channels : ~HasSleep(k'[p], ch)
  BY <1>8, <1>13, <1>14, <1>19 DEF Waiting
<1>21. ASSUME state'[p] = "SLEEPING"
       PROVE  /\ chan'[p] \in Channels
              /\ Satisfied(k'[p], chan'[p]) \/ Coming(chan'[p])
              /\ chan'[p] = "ticks" => Naps(k'[p]) # {}
  <2>1. o.state = "SLEEPING" /\ o.n \in Channels
    BY <1>6, <1>19, <1>21
  <2>2. Satisfied(k[Ctx(c)], o.n) \/ Coming(o.n)
    BY <1>2, <2>1 DEF WakeInv
  <2>3. Satisfied(k[Ctx(c)], o.n) <=> Satisfied(k'[p], o.n)
    BY <1>10, <1>15 DEF Satisfied
  <2>4. o.n = "ticks" => Naps(k'[p]) # {}
    <3>1. o.n = "ticks" => HasOp(t, "sys_sleep")
      BY <1>3, <1>6, <2>1 DEF Foretells
    <3> QED
      BY <1>13, <1>14, <3>1, NapsHas
  <2> QED
    BY <1>19, <2>1, <2>2, <2>3, <2>4
<1> QED
  BY <1>10, <1>11, <1>15, <1>16, <1>17, <1>18, <1>20, <1>21, SwapKeeps

\* swtch() to p, which has no sleep() ahead.
LEMMA SwitchWakes ==
  ASSUME DevInv, WakeInv, NEW c \in CPUs, At(c, "slot"), NEW p \in Procs, state[p] = "RUNNABLE", Switch(c, p),
         UNCHANGED <<lock, panicked, consvars, killed, tickets, ticks, budget>>
  PROVE  WakeInv'
<1>s. PICK s : s = Tail(k[p])
  OBVIOUS
<1>z. PICK z : z = SchedulerOf(c)
  OBVIOUS
<1>1. DevTypes /\ RunInv /\ ~panicked /\ k[Ctx(c)] # <<>> /\ O(c).op = "slot"
  BY DevParts DEF At, O
<1>2. PICK a, b \in Modes : /\ Fits(cpu[c], HeldBy(c), a) /\ Goes(O(c), a, b)
                            /\ Runs(k[Ctx(c)], a, Idle(P(c) # NULL))
  BY <1>1, AtHead
<1>3. ~a.proc /\ a.wakes = "no"
  <2>1. a = Mode({"ptable"}, FALSE)
    BY <1>1, <1>2 DEF Goes, Releases, Schedules
  <2> QED
    BY <2>1 DEF Mode
<1>4. P(c) = NULL
  BY <1>2, <1>3, RunsProc
<1>5. ~HasOp(k[Ctx(c)], "wakeup")
  <2>1. Foretells(a, k[Ctx(c)])
    BY <1>2, RunsForetell
  <2> QED
    BY <1>3, <2>1 DEF Foretells
<1>6. p \in Nat /\ p # NULL /\ p + 1 \in Nat
  BY SpinlockAssumption DEF Procs
<1>7. /\ p \in Contexts /\ z \in Contexts /\ z \notin Procs /\ Ctx(c) = z
      /\ \A e \in CPUs : Ctx(e) # p
  BY <1>z, <1>1, <1>4, Contexts1 DEF Waiting
<1>8. k[p] \in Seq(Ops) /\ k[p] # <<>> /\ Head(k[p]).op = "resume"
  BY <1>1, <1>7 DEF RunInv, Waiting, OffCpu, DevTypes
<1>9. s \in Seq(Ops)
  BY <1>s, <1>8
<1>10. /\ \A ch : HasWakeup(k[p], ch) => HasWakeup(s, ch)
       /\ \A ch : HasSleep(s, ch) => HasSleep(k[p], ch)
       /\ Naps(s) \subseteq Naps(k[p])
  BY <1>s, <1>8, HeadTail
<1>11. Looks(p + 1) \in Seq(Ops) /\ Naps(Looks(p + 1)) = {}
  BY <1>6, LooksHas
<1>12. /\ cpu' = [cpu EXCEPT ![c].proc = p, ![c].intena = Head(k[p]).n]
       /\ state' = [state EXCEPT ![p] = "RUNNING"] /\ chan' = [chan EXCEPT ![p] = NULL]
       /\ k' = [k EXCEPT ![p] = s, ![z] = Looks(p + 1)]
       /\ UNCHANGED <<lock, input, ticks, elapsed>>
  BY <1>s, <1>z DEF Switch, Looks, consvars, budget
<1>13. k'[p] = s /\ k'[z] = Looks(p + 1) /\ \A x \in Contexts : x # p /\ x # z => k'[x] = k[x]
  BY <1>1, <1>7, <1>12 DEF DevTypes
<1>14. /\ \A x \in Contexts, ch \in Channels : HasWakeup(k[x], ch) => HasWakeup(k'[x], ch)
       /\ \A x \in Contexts : Naps(k'[x]) \subseteq Naps(k[x])
  <2>1. \A ch : ~HasWakeup(k[z], ch)
    BY <1>5, <1>7 DEF HasOp, HasWakeup
  <2> QED
    BY <1>7, <1>10, <1>11, <1>13, <2>1
<1>15. \A d \in CPUs : d # c => Ctx(d)' = Ctx(d) /\ k'[Ctx(d)] = k[Ctx(d)]
  <2> TAKE d \in CPUs
  <2> SUFFICES ASSUME d # c PROVE Ctx(d)' = Ctx(d) /\ k'[Ctx(d)] = k[Ctx(d)]
    OBVIOUS
  <2>1. Ctx(d) # p /\ Ctx(d) # z /\ Ctx(d) \in Contexts
    BY <1>1, <1>7, Contexts1
  <2>2. cpu'[d] = cpu[d]
    BY <1>1, <1>12 DEF DevTypes
  <2> QED
    BY <1>13, <2>1, <2>2 DEF Ctx, SchedulerOf
<1>16. Ctx(c)' = p
  <2>1. cpu'[c].proc = p
    BY <1>1, <1>12 DEF DevTypes, CpuRecords
  <2> QED
    BY <1>6, <2>1 DEF Ctx
<1>17. \A ch \in Channels : ~HasSleep(k'[Ctx(c)'], ch)
  BY <1>10, <1>13, <1>16 DEF WakeInv, Waiting
<1>18. \A q \in Procs : q # p => /\ state'[q] = state[q] /\ chan'[q] = chan[q]
                                 /\ state[q] \in Waiting => k'[q] = k[q]
  <2>1. \A q \in Procs : q \in Contexts
    BY <1>1, Contexts1
  <2> QED
    BY <1>1, <1>7, <1>12, <1>13, <2>1 DEF DevTypes
<1>19. state'[p] \notin Waiting /\ state'[p] # "SLEEPING"
  BY <1>1, <1>12 DEF DevTypes, Waiting
<1> QED
  BY <1>12, <1>14, <1>15, <1>17, <1>18, <1>19, SwapKeeps

LEMMA SlotWakes ==
  ASSUME DevInv, WakeInv, NEW c \in CPUs, Slot(c)
  PROVE  WakeInv'
<1> DEFINE left == {q \in Runnable : q >= O(c).n}
           p == Min(left)
<1>1. DevTypes /\ RunInv /\ ~panicked /\ k[Ctx(c)] # <<>> /\ O(c).op = "slot" /\ At(c, "slot")
  BY DevParts DEF Slot, At, O
<1>2. left # {} => p \in Procs /\ state[p] = "RUNNABLE" /\ p \in Nat
  <2> SUFFICES ASSUME left # {} PROVE p \in left
    BY DEF Runnable, Procs
  <2>1. left \in SUBSET Nat
    BY DEF Runnable, Procs
  <2> HIDE DEF left
  <2>2. \E x \in left : \A y \in left : x <= y
    BY <2>1, MinExists
  <2> QED
    BY <2>2 DEF Min
<1>3. UNCHANGED <<consvars, killed, tickets, ticks, budget>>
  BY DEF Slot
<1>4. \/ left = {} /\ Done(c, FALSE) /\ UNCHANGED <<state, chan>>
      \/ left # {} /\ Continue(c, <<[O(c) EXCEPT !.n = p + 1]>>) /\ UNCHANGED <<spinning, state, chan>>
      \/ left # {} /\ Switch(c, p) /\ UNCHANGED <<lock, panicked>>
  BY DEF Slot
<1> HIDE DEF left, p
<1>5. UNCHANGED <<ticks, elapsed, input>>
  BY <1>3 DEF consvars, budget
<1>6. CASE left = {} /\ Done(c, FALSE) /\ UNCHANGED <<state, chan>>
  <2>1. SmoothLocks /\ \E s : Smooth(c, s)
    BY <1>1, <1>5, <1>6, DoneSmooth
  <2>2. SmoothStates
    BY <1>5, <1>6, StatesSmooth
  <2> QED
    BY <2>1, <2>2, SmoothKeeps
<1>7. CASE left # {} /\ Continue(c, <<[O(c) EXCEPT !.n = p + 1]>>) /\ UNCHANGED <<spinning, state, chan>>
  <2>1. PICK x : x = [O(c) EXCEPT !.n = p + 1]
    OBVIOUS
  <2>2. x \in Milds
    <3>1. O(c) \in Ops
      BY <1>1, AtHead
    <3>2. O(c) \in [op : OpNames, n : Values, lk : Locks \cup {NULL}]
      BY <1>1, <3>1 DEF Ops
    <3>3. p + 1 \in Values
      BY <1>2, <1>7 DEF Values
    <3>4. x \in [op : OpNames, n : Values, lk : Locks \cup {NULL}] /\ x.op = "slot"
      BY <1>1, <2>1, <3>2, <3>3
    <3> QED
      BY <3>4 DEF Ops, Milds
  <2>3. <<x>> \in Seq(Milds)
    BY <2>2
  <2>4. Continue(c, <<x>>) /\ UNCHANGED <<cpu, lock, state, chan>>
    BY <1>7, <2>1 DEF spinning
  <2>5. \A d \in CPUs : cpu'[d].proc = cpu[d].proc
    BY <2>4
  <2>6. \E s : Smooth(c, s)
    BY <1>1, <1>5, <2>3, <2>4, <2>5, ContinueSmooth
  <2>7. SmoothStates
    BY <1>5, <2>4, StatesSmooth
  <2>8. SmoothLocks
    BY <2>4 DEF SmoothLocks
  <2> QED
    BY <2>6, <2>7, <2>8, SmoothKeeps
<1>8. CASE left # {} /\ Switch(c, p) /\ UNCHANGED <<lock, panicked>>
  BY <1>1, <1>2, <1>3, <1>8, SwitchWakes
<1> QED
  BY <1>4, <1>6, <1>7, <1>8

LEMMA InitWakes ==
  ASSUME Init
  PROVE  WakeInv
<1>w. PICK w : w = <<Op("resume", FALSE), Release("ptable"), Op("iret", 0)>>
  OBVIOUS
<1>1. w \in Seq(Milds) /\ <<>> \in Seq(Milds)
  <2>1. Op("resume", FALSE) \in Milds /\ Release("ptable") \in Milds /\ Op("iret", 0) \in Milds
    BY MildOps DEF Locks
  <2> QED
    BY <1>w, <2>1, MildTuples
<1>2. \A n \in Nat : Looks(n) \in Seq(Milds)
  BY MildOps, MildTuples DEF Looks
<1>3. \A x \in Contexts : x <= NCPU \/ x \in Procs \/ x - NPROC + 1 \in Nat
  BY SpinlockAssumption DEF Contexts, Procs
<1>4. /\ k = [x \in Contexts |-> IF x <= NCPU THEN <<>> ELSE IF x \in Procs THEN w ELSE Looks(x - NPROC + 1)]
      /\ \A p \in Procs : state[p] # "SLEEPING"
  BY <1>w DEF Init, Looks
<1>5. \A x \in Contexts : k[x] \in Seq(Milds)
  BY <1>1, <1>2, <1>3, <1>4
<1>6. \A x \in Contexts : Naps(k[x]) = {} /\ \A ch : ~HasSleep(k[x], ch)
  BY <1>5, MildSeq
<1>7. DevTypes /\ RunInv
  BY InitKeeps DEF DevInv
<1>8. (\A c \in CPUs : Ctx(c) \in Contexts) /\ Procs \subseteq Contexts
  <2>1. Procs \subseteq Contexts
    BY SpinlockAssumption DEF Procs, Contexts
  <2> QED
    BY <1>7, <2>1, Contexts1
<1> QED
  BY <1>4, <1>6, <1>8 DEF WakeInv

LEMMA StepWakes ==
  ASSUME DevInv, WakeInv, NEW c \in CPUs, Step(c)
  PROVE  WakeInv'
<1>1. ASSUME StartStep(c) PROVE WakeInv'
  BY <1>1, CallsWake, LoopWakes DEF StartStep
<1>2. ASSUME KernelStep(c) PROVE WakeInv'
  <2>1. ASSUME NEW key \in Keys, Getc(c, key) PROVE WakeInv'
    BY <2>1, GetcWakes
  <2>2. ASSUME Return(c) \/ Leave(c) \/ Iret(c) PROVE WakeInv'
    BY <2>2, ReturnsWake
  <2>3. ASSUME Consputs(c) \/ Kill(c) \/ ChangeTickets(c) PROVE WakeInv'
    BY <2>3, TablesWake
  <2> QED
    BY <1>2, <2>1, <2>2, <2>3, LockWakes, TickWakes, SysSleepWakes, GetcEndWakes, ConsolereadWakes,
       WakeupWakes, SchedWakes, SlotWakes DEF KernelStep
<1> QED
  BY <1>1, <1>2 DEF Step

LEMMA WakeKeeps ==
  ASSUME DevInv, WakeInv, [Next]_vars
  PROVE  WakeInv'
<1>1. CASE Next
  BY <1>1, InterruptsWake, StepWakes DEF Next
<1>2. CASE UNCHANGED vars
  BY <1>2 DEF vars, spinvars, consvars, WakeInv, Ctx, Satisfied, Coming, Ahead, StillSleeps, NapOk
<1> QED
  BY <1>1, <1>2

LEMMA WakeInvariant == Spec => [](DevInv /\ WakeInv)
<1>1. Init => DevInv /\ WakeInv
  BY InitKeeps, InitWakes
<1>2. DevInv /\ WakeInv /\ [Next]_vars => (DevInv /\ WakeInv)'
  BY DevKeeps, WakeKeeps
<1> QED
  BY <1>1, <1>2, PTL DEF Spec

\* No wakeup() is missed: who sleeps in consoleread() has no input to read, and
\* who sleeps in sys_sleep() has time left, or the wakeup() is on its way on
\* some CPU; for any number of CPUs, of processes and of interrupts.
THEOREM NoWakeupIsMissed == Spec => []NoMissedWakeup
<1>1. DevInv /\ WakeInv => NoMissedWakeup
  <2> SUFFICES ASSUME DevInv, WakeInv, NEW p \in Procs, state[p] = "SLEEPING"
               PROVE  \/ Coming(chan[p])
                      \/ chan[p] = "input" /\ input.r = input.w
                      \/ chan[p] = "ticks" /\ \E i \in Ahead(p, {"sys_sleep"}) : StillSleeps(k[p][i])
    BY DEF NoMissedWakeup
  <2>1. /\ chan[p] \in Channels
        /\ Satisfied(k[p], chan[p]) \/ Coming(chan[p])
        /\ chan[p] = "ticks" => Naps(k[p]) # {}
    BY DEF WakeInv
  <2>2. CASE chan[p] = "input"
    BY <2>1, <2>2 DEF Satisfied
  <2>3. CASE chan[p] = "ticks"
    <3>1. Naps(k[p]) # {} /\ (Coming(chan[p]) \/ \A o \in Naps(k[p]) : StillSleeps(o))
      BY <2>1, <2>3 DEF Satisfied
    <3>2. PICK i \in DOMAIN k[p] : k[p][i].op = "sys_sleep"
      BY <3>1 DEF Naps
    <3>3. i \in Ahead(p, {"sys_sleep"}) /\ k[p][i] \in Naps(k[p])
      BY <3>2 DEF Ahead, Naps
    <3> QED
      BY <2>3, <3>1, <3>3
  <2> QED
    BY <2>1, <2>2, <2>3 DEF Channels
<1> QED
  BY <1>1, WakeInvariant, PTL

\* Whose context a step changes: a process at the test of sys_sleep() goes on
\* by SysSleep alone, on its own CPU.
Local(c) == \E s : k' = [k EXCEPT ![Ctx(c)] = s]
LEMMA OthersStay ==
  ASSUME DevInv, NEW p \in Procs, k[p] # <<>>, Head(k[p]).op = "sys_sleep", NEW c \in CPUs, KernelStep(c),
         k'[p] # k[p]
  PROVE  p = Ctx(c) /\ SysSleep(c)
<1>1. DevTypes /\ RunInv
  BY DEF DevInv
<1>2. p \in Contexts /\ SchedulerOf(c) \notin Procs /\ (P(c) # NULL => Ctx(c) = P(c))
  BY <1>1, Contexts1
<1>3. Local(c) => p = Ctx(c)
  BY <1>1, <1>2 DEF Local, DevTypes
<1>4. \A name : p = Ctx(c) /\ At(c, name) => name = "sys_sleep"
  BY DEF At
<1>5. \A ops : Continue(c, ops) => Local(c)
  BY DEF Continue, Local
<1>6. ~Slot(c)
  <2> SUFFICES ASSUME Slot(c) PROVE FALSE
    OBVIOUS
  <2> DEFINE left == {q \in Runnable : q >= O(c).n}
             q == Min(left)
  <2>1. At(c, "slot")
    BY DEF Slot
  <2>2. p # Ctx(c) /\ ~Local(c)
    BY <1>3, <1>4, <2>1
  <2>3. left # {} /\ Switch(c, q)
    BY <1>5, <2>2 DEF Slot, Done
  <2>4. q \in left
    <3>1. left \in SUBSET Nat
      BY DEF Runnable, Procs
    <3> HIDE DEF left
    <3>2. \E x \in left : \A y \in left : x <= y
      BY <2>3, <3>1, MinExists
    <3> QED
      BY <3>2 DEF Min
  <2>5. q \in Procs /\ state[q] = "RUNNABLE"
    BY <2>4 DEF Runnable
  <2> HIDE DEF left, q
  <2>6. Head(k[q]).op = "resume"
    BY <1>1, <2>5 DEF RunInv, Waiting, OffCpu
  <2>7. p # q /\ p # SchedulerOf(c)
    BY <1>2, <2>6
  <2>8. k' = [k EXCEPT ![q] = Tail(@), ![SchedulerOf(c)] = <<Under("slot", q + 1, "ptable")>>]
    BY <2>3 DEF Switch
  <2>9. k'[p] = k[p]
    BY <1>1, <1>2, <2>7, <2>8 DEF DevTypes
  <2> QED
    BY <2>9
<1>7. ~LockStep(c)
  BY <1>3, <1>4, <1>5 DEF LockStep, AcquireStep, SpinStep, ReleaseStep, Done
<1>8. ~Return(c) /\ ~TickStep(c) /\ ~Consputs(c) /\ ~GetcEnd(c)
  BY <1>3, <1>4, <1>5 DEF Return, TickStep, Consputs, GetcEnd, Done
<1>9. ~Leave(c) /\ ~Iret(c)
  <2>1. Exits(c) => P(c) # NULL
    BY DEF Exits
  <2>2. P(c) # NULL /\ k' = [k EXCEPT ![P(c)] = Exit] => Local(c)
    BY <1>2 DEF Local
  <2> QED
    BY <1>3, <1>4, <1>5, <2>1, <2>2 DEF Leave, Iret
<1>10. ~Consoleread(c) /\ \A key \in Keys : ~Getc(c, key)
  BY <1>3, <1>4, <1>5 DEF Consoleread, Getc, Done
<1>11. ~WakeupStep(c) /\ ~Kill(c) /\ ~ChangeTickets(c) /\ ~SchedStep(c)
  BY <1>3, <1>4, <1>5 DEF WakeupStep, Kill, ChangeTickets, SchedStep, Done
<1>12. SysSleep(c)
  BY <1>6, <1>7, <1>8, <1>9, <1>10, <1>11 DEF KernelStep
<1>13. Local(c)
  BY <1>5, <1>12 DEF SysSleep, Done
<1> QED
  BY <1>3, <1>12, <1>13

\* The end of sys_sleep() without kill() is that of the loop's condition.
LEMMA SleepEnds ==
  ASSUME DevInv, WakeInv, NEW p \in Procs, k[p] # <<>>, Head(k[p]).op = "sys_sleep", NEW c \in CPUs,
         p = Ctx(c), SysSleep(c), Len(k'[p]) < Len(k[p]), ~killed[p]
  PROVE  elapsed - Head(k[p]).at >= Head(k[p]).n
<1>o. PICK o : o = O(c)
  OBVIOUS
<1>t. PICK t : t = Tail(k[p])
  OBVIOUS
<1>1. DevTypes /\ RunInv
  BY DEF DevInv
<1>2. P(c) = p /\ p \in Contexts /\ k[p] \in Seq(Ops) /\ o = Head(k[p]) /\ o \in Ops /\ t \in Seq(Ops)
  BY <1>o, <1>t, <1>1, Contexts1 DEF DevTypes, O
<1>3. At(c, "sys_sleep") /\ ~At(c, "ticks0")
  BY DEF SysSleep, At
<1>4. ~Continue(c, Sleep("ticks", "tickslock") \o <<o>>)
  <2> SUFFICES ASSUME Continue(c, Sleep("ticks", "tickslock") \o <<o>>) PROVE FALSE
    OBVIOUS
  <2>1. PICK e : e = Sleep("ticks", "tickslock")
    OBVIOUS
  <2>2. e \in Seq(Ops) /\ Len(e) = 5
    <3>1. "ticks" \in Channels /\ LockOf("ticks") = "tickslock"
      BY DEF Channels, LockOf
    <3>2. e \in Seq(Ops)
      BY <2>1, <3>1, SleepOps
    <3>3. Len(e) = 5
      BY <2>1 DEF Sleep
    <3> QED
      BY <3>2, <3>3
  <2>3. k'[p] = (e \o <<o>>) \o t
    BY <1>t, <1>1, <1>2, <2>1 DEF Continue, DevTypes
  <2>4. Len(k'[p]) = 6 + Len(t) /\ Len(k[p]) = 1 + Len(t)
    <3>1. Len(t) \in Nat /\ Len(e \o <<o>>) = 6 /\ e \o <<o>> \in Seq(Ops)
      <4>1. <<o>> \in Seq(Ops) /\ Len(<<o>>) = 1
        BY <1>2
      <4>2. PICK f \in Seq(Ops) : f = <<o>> /\ Len(f) = 1
        BY <4>1
      <4>3. e \o f \in Seq(Ops)
        BY <2>2
      <4>4. Len(e \o f) = Len(e) + Len(f)
        <5>1. e \in Seq(Ops)
          BY <2>2
        <5> QED
          BY <5>1
      <4>5. Len(e \o f) = 6
        BY <2>2, <4>2, <4>4
      <4>6. Len(t) \in Nat
        BY <1>2
      <4> QED
        BY <4>2, <4>3, <4>5, <4>6
    <3>2. Len((e \o <<o>>) \o t) = 6 + Len(t)
      BY <1>2, <3>1
    <3>3. Len(k[p]) = 1 + Len(t)
      BY <1>t, <1>2
    <3> QED
      BY <2>3, <3>2, <3>3
  <2> QED
    BY <1>2, <2>4
<1>5. ~StillSleeps(o)
  BY <1>o, <1>2, <1>3, <1>4 DEF SysSleep
<1>6. NapOk(o)
  <2>1. o \in Naps(k[p])
    BY <1>2 DEF Naps
  <2> QED
    BY <1>2, <2>1 DEF WakeInv
<1>7. PICK m : m = (ticks - o.t0) % TicksWrap
  OBVIOUS
<1>8. m \in Nat
  BY <1>1, <1>6, <1>7, DevicesAssumption DEF NapOk, DevTypes
<1>9. o.n \in Nat /\ o.at \in Nat /\ elapsed - o.at >= m /\ ~(m < o.n)
  BY <1>5, <1>6, <1>7 DEF StillSleeps, NapOk
<1>10. elapsed \in Nat
  BY <1>1 DEF DevTypes
<1>11. elapsed - o.at >= o.n
  BY <1>8, <1>9, <1>10
<1> QED
  BY <1>2, <1>11

LEMMA InterruptsLengthen ==
  ASSUME DevInv, NEW p \in Procs, NEW c \in CPUs, NEW h \in Seq(Milds), Interrupt(c, h)
  PROVE  ~(Len(k'[p]) < Len(k[p]))
<1>1. DevTypes /\ RunInv
  BY DEF DevInv
<1>2. p \in Contexts /\ k[p] \in Seq(Ops) /\ h \in Seq(Ops)
  BY <1>1, Contexts1, MildSeq DEF DevTypes
<1>3. k'[p] = k[p] \/ k'[p] = h \o k[p]
  BY <1>1, <1>2 DEF Interrupt, DevTypes
<1>4. Len(h \o k[p]) = Len(h) + Len(k[p]) /\ Len(h) \in Nat /\ Len(k[p]) \in Nat
  BY <1>2
<1> QED
  BY <1>3, <1>4

LEMMA StartsStay ==
  ASSUME DevInv, NEW p \in Procs, k[p] # <<>>, NEW c \in CPUs, StartStep(c)
  PROVE  k'[p] = k[p]
<1>1. DevTypes /\ RunInv
  BY DEF DevInv
<1>2. p \in Contexts /\ SchedulerOf(c) \notin Procs
  BY <1>1, Contexts1
<1>3. ASSUME NEW name, NEW ops, Call(c, name, ops) PROVE k'[p] = k[p]
  BY <1>1, <1>2, <1>3 DEF Call, DevTypes
<1>4. ASSUME SchedulerLoop(c) PROVE k'[p] = k[p]
  BY <1>1, <1>2, <1>4 DEF SchedulerLoop, DevTypes
<1> QED
  BY <1>3, <1>4, Zenon DEF StartStep, ReadCall, WriteCall, SleepCall, KillCall, TicketsCall

\* sleep(n) takes n ticks or more, whatever the ticks were when it began and
\* however often they wrap around, unless the process is killed: what sys_sleep()
\* sees, the difference modulo TicksWrap, is never more than there really was.
THEOREM SleepsLongEnough == Spec => SleptEnough
<1> DEFINE Enough(p) == elapsed - Head(k[p]).at >= Head(k[p]).n
           Leaves(p) == k[p] # <<>> /\ Head(k[p]).op = "sys_sleep" /\ Len(k'[p]) < Len(k[p]) /\ ~killed[p]
<1>1. DevInv /\ WakeInv /\ [Next]_vars => \A p \in Procs : Leaves(p) => Enough(p)
  <2> SUFFICES ASSUME DevInv, WakeInv, [Next]_vars, NEW p \in Procs, Leaves(p) PROVE Enough(p)
    OBVIOUS
  <2>1. k[p] \in Seq(Ops)
    BY SpinlockAssumption DEF DevInv, DevTypes, Contexts, Procs
  <2>2. k'[p] # k[p] /\ ~UNCHANGED vars
    <3>1. k'[p] # k[p]
      BY <2>1
    <3> QED
      BY <3>1 DEF vars, spinvars
  <2>3. ~ConsoleInterrupt /\ \A c \in CPUs : ~TimerInterrupt(c)
    <3>1. 0 \in CPUs
      BY SpinlockAssumption DEF CPUs
    <3> QED
      BY <3>1, InterruptsLengthen, MildSeqs DEF ConsoleInterrupt, TimerInterrupt
  <2>4. PICK c \in CPUs : Step(c)
    BY <2>2, <2>3 DEF Next
  <2>5. KernelStep(c)
    BY <2>2, <2>4, StartsStay DEF Step
  <2>6. p = Ctx(c) /\ SysSleep(c)
    BY <2>2, <2>5, OthersStay
  <2> QED
    BY <2>6, SleepEnds
<1>2. DevInv /\ WakeInv /\ [Next]_vars => [\A p \in Procs : Leaves(p) => Enough(p)]_vars
  BY <1>1
<1> QED
  BY <1>2, WakeInvariant, PTL DEF Spec, SleptEnough

-----------------------------------------------------------------------------
(* The ring is a line editor.  Indices wrap at Wrap, a multiple of         *)
(* INPUT_BUF, so that a place in the buffer is the same before and after.  *)
LEMMA ModUnique ==
  ASSUME NEW W \in Nat \ {0}, NEW j \in Int, NEW r \in 0 .. W - 1, NEW x \in Int, x = W * j + r
  PROVE  x % W = r
<1>1. PICK q \in Int, s \in 0 .. W - 1 : q = x \div W /\ s = x % W
  BY ModOf
<1>2. x = W * q + s
  <2>1. x = W * (x \div W) + (x % W)
    OBVIOUS
  <2> QED
    BY <1>1, <2>1
<1>3. PICK d \in Int : q = j + d
  <2>1. q - j \in Int /\ q = j + (q - j)
    OBVIOUS
  <2> QED
    BY <2>1
<1>4. W * q = W * j + W * d /\ W * j \in Int /\ W * d \in Int /\ W * 1 = W
  BY <1>3
<1>5. W * d < W /\ W * d > 0 - W
  BY <1>2, <1>4
<1>6. ~(d >= 1)
  <2>1. ASSUME d >= 1 PROVE W * 1 <= W * d
    BY <2>1, Multiples
  <2> QED
    BY <1>4, <1>5, <2>1
<1>7. ~(d <= -1)
  <2> SUFFICES ASSUME d <= -1 PROVE FALSE
    OBVIOUS
  <2>1. PICK f \in Nat : f = 0 - d /\ f >= 1
    <3>1. 0 - d \in Nat /\ 0 - d >= 1
      OBVIOUS
    <3> QED
      BY <3>1
  <2>2. W * 1 <= W * f
    BY <2>1, Multiples
  <2>3. W * f = 0 - W * d
    BY <2>1
  <2> QED
    BY <1>4, <1>5, <2>2, <2>3
<1>8. d = 0
  BY <1>6, <1>7
<1>9. W * d = 0
  BY <1>8
<1> QED
  BY <1>1, <1>2, <1>4, <1>9

\* The place of the nth character after x.
LEMMA PlaceOf ==
  ASSUME NEW x \in 0 .. Wrap - 1, NEW n \in 0 .. INPUT_BUF
  PROVE  /\ x % INPUT_BUF \in 0 .. INPUT_BUF - 1
         /\ Plus(x, n) % INPUT_BUF = IF (x % INPUT_BUF) + n < INPUT_BUF THEN (x % INPUT_BUF) + n
                                     ELSE ((x % INPUT_BUF) + n) - INPUT_BUF
<1> DEFINE B == INPUT_BUF
<1>1. B \in Nat \ {0} /\ Wrap \in Nat /\ Wrap > B /\ Wrap % B = 0
  BY ConsoleAssumption
<1>b. PICK w \in Int : Wrap = B * w
  <2>1. Wrap = B * (Wrap \div B) + (Wrap % B) /\ Wrap \div B \in Int
    BY <1>1
  <2>2. Wrap = B * (Wrap \div B) + 0
    BY <1>1, <2>1
  <2> QED
    BY <1>1, <2>1, <2>2
<1>2. PICK q \in Int, s \in 0 .. B - 1 : q = x \div B /\ s = x % B
  <2>1. x \in Int /\ x \div B \in Int
    BY <1>1
  <2>2. x % B \in 0 .. B - 1
    BY <1>1, <2>1, ModOf
  <2> QED
    BY <2>1, <2>2
<1>3. x = B * q + s
  <2>1. x = B * (x \div B) + (x % B)
    BY <1>1
  <2> QED
    BY <1>2, <2>1
<1>4. PICK v \in 0 .. B - 1, h \in {0, 1} : s + n = B * h + v /\ v = IF s + n < B THEN s + n ELSE (s + n) - B
  <2>1. CASE s + n < B
    <3>1. s + n \in 0 .. B - 1 /\ s + n = B * 0 + (s + n)
      BY <1>1, <2>1
    <3> QED
      BY <2>1, <3>1
  <2>2. CASE ~(s + n < B)
    <3>1. (s + n) - B \in 0 .. B - 1 /\ s + n = B * 1 + ((s + n) - B)
      BY <1>1, <2>2
    <3> QED
      BY <2>2, <3>1
  <2> QED
    BY <2>1, <2>2
<1>5. n \in 0 .. Wrap - 1 /\ x + n = B * (q + h) + v
  <2>1. B * (q + h) = B * q + B * h /\ B * q \in Int /\ B * h \in Int
    BY <1>1
  <2> QED
    BY <1>1, <1>3, <1>4, <2>1
<1>6. Plus(x, n) = IF x + n < Wrap THEN x + n ELSE (x + n) - Wrap
  BY <1>5, RingArithmetic
<1>7. Plus(x, n) % B = v
  <2>1. CASE x + n < Wrap
    <3>1. q + h \in Int /\ x + n \in Int
      BY <1>1
    <3>2. PICK y \in Int, j \in Int : y = x + n /\ j = q + h
      BY <3>1
    <3>3. y = B * j + v
      BY <1>5, <3>2
    <3>4. y % B = v
      BY <1>1, <3>3, ModUnique
    <3> QED
      BY <1>6, <2>1, <3>2, <3>4
  <2>2. CASE ~(x + n < Wrap)
    <3>1. PICK j \in Int : j = (q + h) - w
      OBVIOUS
    <3>2. B * j = B * (q + h) - B * w /\ B * j \in Int /\ B * (q + h) \in Int /\ B * w \in Int
      BY <1>1, <3>1
    <3>3. (x + n) - Wrap = B * j + v /\ (x + n) - Wrap \in Int
      BY <1>1, <1>b, <1>5, <3>2
    <3> QED
      BY <1>1, <1>6, <2>2, <3>3, ModUnique
  <2> QED
    BY <2>1, <2>2
<1> QED
  BY <1>2, <1>4, <1>7

\* Less than INPUT_BUF characters apart, places differ.
LEMMA PlacesDiffer ==
  ASSUME NEW x \in 0 .. Wrap - 1, NEW a \in 0 .. INPUT_BUF - 1, NEW b \in 0 .. INPUT_BUF - 1, a # b
  PROVE  Plus(x, a) % INPUT_BUF # Plus(x, b) % INPUT_BUF
<1>1. INPUT_BUF \in Nat \ {0} /\ a \in 0 .. INPUT_BUF /\ b \in 0 .. INPUT_BUF
  BY ConsoleAssumption
<1>2. PICK s \in 0 .. INPUT_BUF - 1 : s = x % INPUT_BUF
  BY <1>1, PlaceOf
<1>3. /\ Plus(x, a) % INPUT_BUF = IF s + a < INPUT_BUF THEN s + a ELSE (s + a) - INPUT_BUF
      /\ Plus(x, b) % INPUT_BUF = IF s + b < INPUT_BUF THEN s + b ELSE (s + b) - INPUT_BUF
  BY <1>1, <1>2, PlaceOf
<1> QED
  BY <1>1, <1>3

Lines(in) == From(in, in.r, in.w)
Edit(in) == From(in, in.w, in.e)

LEMMA SameSeq ==
  ASSUME NEW S, NEW s \in Seq(S), NEW t \in Seq(S), Len(s) = Len(t), \A i \in 1 .. Len(s) : s[i] = t[i]
  PROVE  s = t
OBVIOUS

LEMMA SubAt ==
  ASSUME NEW S, NEW s \in Seq(S), NEW m \in Nat, m = Len(s), NEW n \in 0 .. m, NEW i \in 1 .. m - n
  PROVE  SubSeq(s, n + 1, m)[i] = s[n + i]
OBVIOUS

LEMMA FromAt ==
  ASSUME NEW in, NEW x, NEW y, NEW i \in 1 .. Minus(y, x)
  PROVE  From(in, x, y)[i] = in.buf[Plus(x, i - 1) % INPUT_BUF]
BY DEF From

LEMMA InputParts ==
  ASSUME NEW in \in Inputs
  PROVE  /\ in \in Rings /\ in.r \in 0 .. Wrap - 1 /\ in.w \in 0 .. Wrap - 1 /\ in.e \in 0 .. Wrap - 1
         /\ Filled(in.r, in.w, in.e)
         /\ Lines(in) \in Seq(Keys) /\ Len(Lines(in)) = Minus(in.w, in.r) /\ Minus(in.w, in.r) \in Nat
         /\ Edit(in) \in Seq(Keys) /\ Len(Edit(in)) = Minus(in.e, in.w) /\ Minus(in.e, in.w) \in Nat
         /\ Minus(in.e, in.r) = Minus(in.w, in.r) + Minus(in.e, in.w) /\ Minus(in.e, in.r) <= INPUT_BUF
         /\ Minus(in.e, in.r) \in 0 .. Wrap - 1
<1>1. /\ in \in Rings /\ in.r \in 0 .. Wrap - 1 /\ in.w \in 0 .. Wrap - 1 /\ in.e \in 0 .. Wrap - 1
      /\ Filled(in.r, in.w, in.e)
  BY DEF Inputs, Rings
<1>2. /\ Lines(in) \in Seq(Keys) /\ Len(Lines(in)) = Minus(in.w, in.r) /\ Minus(in.w, in.r) \in Nat
      /\ Edit(in) \in Seq(Keys) /\ Len(Edit(in)) = Minus(in.e, in.w) /\ Minus(in.e, in.w) \in Nat
  BY <1>1, FromSeq DEF Lines, Edit
<1>3. Minus(in.e, in.r) = Minus(in.w, in.r) + Minus(in.e, in.w)
  BY <1>1, RingMoves
<1>4. Minus(in.e, in.r) \in 0 .. Wrap - 1
  BY <1>1, RingArithmetic
<1> QED
  BY <1>1, <1>2, <1>3, <1>4 DEF Filled

\* What is between x and an earlier z, and between a later z and y.
LEMMA FromFront ==
  ASSUME NEW in \in Rings, NEW x \in 0 .. Wrap - 1, NEW y \in 0 .. Wrap - 1, NEW z \in 0 .. Wrap - 1,
         NEW m \in Nat, NEW l \in 0 .. m, Minus(y, x) = m, Minus(z, x) = l
  PROVE  From(in, x, z) = SubSeq(From(in, x, y), 1, l)
<1>s. PICK s : s = From(in, x, y)
  OBVIOUS
<1>t. PICK t : t = From(in, x, z)
  OBVIOUS
<1>1. s \in Seq(Keys) /\ Len(s) = m /\ t \in Seq(Keys) /\ Len(t) = l
  BY <1>s, <1>t, FromSeq
<1>2. SubSeq(s, 1, l) \in Seq(Keys) /\ Len(SubSeq(s, 1, l)) = l
  BY <1>1
<1>3. ASSUME NEW i \in 1 .. l PROVE t[i] = SubSeq(s, 1, l)[i]
  <2>1. t[i] = s[i]
    BY <1>s, <1>t, FromAt
  <2>2. SubSeq(s, 1, l)[i] = s[i]
    BY <1>1
  <2> QED
    BY <2>1, <2>2
<1>4. t = SubSeq(s, 1, l)
  BY <1>1, <1>2, <1>3, SameSeq
<1> QED
  BY <1>s, <1>t, <1>4

LEMMA FromBack ==
  ASSUME NEW in \in Rings, NEW x \in 0 .. Wrap - 1, NEW y \in 0 .. Wrap - 1, NEW z \in 0 .. Wrap - 1,
         NEW m \in 0 .. Wrap - 1, NEW n \in 0 .. m, Minus(y, x) = m, z = Plus(x, n), Minus(y, z) = m - n
  PROVE  From(in, z, y) = SubSeq(From(in, x, y), n + 1, m)
<1>s. PICK s : s = From(in, x, y)
  OBVIOUS
<1>t. PICK t : t = From(in, z, y)
  OBVIOUS
<1>0. Wrap \in Nat /\ m \in Nat /\ n \in Nat /\ n \in 0 .. Wrap - 1 /\ m - n \in Nat
  BY ConsoleAssumption
<1>1. s \in Seq(Keys) /\ Len(s) = m /\ t \in Seq(Keys) /\ Len(t) = m - n
  BY <1>s, <1>t, FromSeq
<1>2. SubSeq(s, n + 1, m) \in Seq(Keys) /\ Len(SubSeq(s, n + 1, m)) = m - n
  BY <1>0, <1>1
<1>3. ASSUME NEW i \in 1 .. m - n PROVE t[i] = SubSeq(s, n + 1, m)[i]
  <2>1. PICK h \in 0 .. Wrap - 1, j \in 0 .. Wrap - 1 : h = i - 1 /\ j = n + h
    <3>1. i - 1 \in 0 .. Wrap - 1 /\ n + (i - 1) \in 0 .. Wrap - 1
      BY <1>0
    <3> QED
      BY <3>1
  <2>2. Plus(z, h) = Plus(x, j)
    <3>1. z = IF x + n < Wrap THEN x + n ELSE (x + n) - Wrap
      BY <1>0, RingArithmetic
    <3>2. Plus(z, h) = IF z + h < Wrap THEN z + h ELSE (z + h) - Wrap
      BY RingArithmetic
    <3>3. Plus(x, j) = IF x + j < Wrap THEN x + j ELSE (x + j) - Wrap
      BY RingArithmetic
    <3> QED
      BY <1>0, <2>1, <3>1, <3>2, <3>3
  <2>3. t[i] = in.buf[Plus(z, h) % INPUT_BUF]
    BY <1>t, <2>1, FromAt
  <2>4. PICK g \in 1 .. m : g = i + n /\ g - 1 = j
    <3>1. i + n \in 1 .. m /\ (i + n) - 1 = j
      BY <1>0, <2>1
    <3> QED
      BY <3>1
  <2>5. s[g] = in.buf[Plus(x, j) % INPUT_BUF]
    BY <1>s, <2>4, FromAt
  <2>6. SubSeq(s, n + 1, m)[i] = s[g]
    <3>1. SubSeq(s, n + 1, m)[i] = s[n + i]
      BY <1>0, <1>1, SubAt
    <3>2. n + i = g
      BY <1>0, <2>4
    <3> QED
      BY <3>1, <3>2
  <2> QED
    BY <2>2, <2>3, <2>5, <2>6
<1>4. t = SubSeq(s, n + 1, m)
  BY <1>0, <1>1, <1>2, <1>3, SameSeq
<1> QED
  BY <1>s, <1>t, <1>4

\* Backspace and ^U: the end of the line is taken back.
LEMMA EraseLine ==
  ASSUME NEW in \in Inputs, NEW n \in 0 .. Minus(in.e, in.w), NEW in2, in2 = [in EXCEPT !.e = Minus(@, n)]
  PROVE  /\ Lines(in2) = Lines(in)
         /\ Edit(in2) = SubSeq(Edit(in), 1, Len(Edit(in)) - n)
<1>1. in2.r = in.r /\ in2.w = in.w /\ in2.buf = in.buf /\ in2.e = Minus(in.e, n)
  BY InputParts DEF Rings
<1>2. Lines(in2) = Lines(in) /\ Edit(in2) = From(in, in.w, in2.e)
  BY <1>1 DEF Lines, Edit, From
<1>3. in2.e \in 0 .. Wrap - 1 /\ Minus(in2.e, in.w) = Minus(in.e, in.w) - n
  BY <1>1, InputParts, RingMoves
<1>m. PICK m \in Nat : m = Minus(in.e, in.w)
  BY InputParts
<1>4. PICK l \in 0 .. m : l = m - n
  BY <1>m
<1>5. From(in, in.w, in2.e) = SubSeq(From(in, in.w, in.e), 1, l)
  BY <1>m, <1>3, <1>4, InputParts, FromFront
<1> QED
  BY <1>m, <1>2, <1>4, <1>5, InputParts DEF Edit

\* consoleread(): the beginning of the lines is taken.
LEMMA TakeLine ==
  ASSUME NEW in \in Inputs, NEW n \in 0 .. Minus(in.w, in.r), NEW in2, in2 = [in EXCEPT !.r = Plus(@, n)]
  PROVE  /\ Edit(in2) = Edit(in)
         /\ Lines(in2) = SubSeq(Lines(in), n + 1, Len(Lines(in)))
<1>1. in2.e = in.e /\ in2.w = in.w /\ in2.buf = in.buf /\ in2.r = Plus(in.r, n)
  BY InputParts DEF Rings
<1>2. Edit(in2) = Edit(in) /\ Lines(in2) = From(in, in2.r, in.w)
  BY <1>1 DEF Edit, Lines, From
<1>3. in2.r \in 0 .. Wrap - 1 /\ Minus(in.w, in2.r) = Minus(in.w, in.r) - n
  BY <1>1, InputParts, RingMoves
<1>4. PICK m \in 0 .. Wrap - 1 : m = Minus(in.w, in.r) /\ n \in 0 .. m
  BY InputParts, RingArithmetic
<1>5. From(in, in2.r, in.w) = SubSeq(From(in, in.r, in.w), n + 1, m)
  <2>1. PICK r \in 0 .. Wrap - 1, w \in 0 .. Wrap - 1, z \in 0 .. Wrap - 1 :
          r = in.r /\ w = in.w /\ z = in2.r
    BY <1>3, InputParts
  <2>2. in \in Rings
    BY InputParts
  <2>3. Minus(w, r) = m /\ z = Plus(r, n) /\ Minus(w, z) = m - n
    BY <1>1, <1>3, <1>4, <2>1
  <2>4. n \in 0 .. m
    BY <1>4
  <2>5. From(in, z, w) = SubSeq(From(in, r, w), n + 1, m)
    BY <2>2, <2>3, <2>4, FromBack
  <2> QED
    BY <2>1, <2>5
<1> QED
  BY <1>2, <1>4, <1>5, InputParts DEF Lines

LEMMA CutSeq ==
  ASSUME NEW S, NEW s \in Seq(S), NEW ch \in S, NEW n \in 0 .. Len(s)
  PROVE  /\ s = SubSeq(s, 1, n) \o SubSeq(s, n + 1, Len(s))
         /\ SubSeq(Append(s, ch), 1, n) = SubSeq(s, 1, n)
         /\ SubSeq(Append(s, ch), n + 1, Len(s) + 1) = Append(SubSeq(s, n + 1, Len(s)), ch)
<1>1. PICK m \in Nat : m = Len(s)
  OBVIOUS
<1>2. PICK f : f = SubSeq(s, 1, n)
  OBVIOUS
<1>3. PICK g : g = SubSeq(s, n + 1, m)
  OBVIOUS
<1>4. PICK t : t = Append(s, ch)
  OBVIOUS
<1>5. f \in Seq(S) /\ Len(f) = n /\ \A i \in 1 .. n : f[i] = s[i]
  BY <1>2
<1>6. g \in Seq(S) /\ Len(g) = m - n /\ \A i \in 1 .. m - n : g[i] = s[n + i]
  BY <1>1, <1>3
<1>7. t \in Seq(S) /\ Len(t) = m + 1 /\ t[m + 1] = ch /\ \A i \in 1 .. m : t[i] = s[i]
  BY <1>1, <1>4
<1>8. s = f \o g
  <2>a. f \in Seq(S) /\ g \in Seq(S)
    BY <1>5, <1>6
  <2>b. f \o g \in Seq(S) /\ Len(f \o g) = Len(f) + Len(g)
    BY <2>a
  <2>1. f \o g \in Seq(S) /\ Len(f \o g) = m
    <3>1. Len(f) = n /\ Len(g) = m - n
      BY <1>5, <1>6
    <3>2. n + (m - n) = m
      BY <1>1
    <3> QED
      BY <2>b, <3>1, <3>2
  <2>2. \A i \in 1 .. m : s[i] = (f \o g)[i]
    <3> TAKE i \in 1 .. m
    <3>1. CASE i <= n
      BY <1>1, <1>5, <1>6, <3>1
    <3>2. CASE ~(i <= n)
      <4>1. i - n \in 1 .. m - n /\ n + (i - n) = i
        BY <1>1, <3>2
      <4>2. (f \o g)[i] = g[i - n]
        BY <1>1, <1>5, <1>6, <3>2
      <4> QED
        BY <1>6, <4>1, <4>2
    <3> QED
      BY <3>1, <3>2
  <2> QED
    BY <1>1, <2>1, <2>2, SameSeq
<1>9. SubSeq(t, 1, n) = f
  <2>1. SubSeq(t, 1, n) \in Seq(S) /\ Len(SubSeq(t, 1, n)) = n /\ \A i \in 1 .. n : SubSeq(t, 1, n)[i] = t[i]
    BY <1>1, <1>7
  <2>2. \A i \in 1 .. n : f[i] = SubSeq(t, 1, n)[i]
    BY <1>1, <1>5, <1>7, <2>1
  <2> QED
    BY <1>1, <1>5, <2>1, <2>2, SameSeq
<1>10. SubSeq(t, n + 1, m + 1) = Append(g, ch)
  <2>1. PICK u : u = SubSeq(t, n + 1, m + 1)
    OBVIOUS
  <2>2. u \in Seq(S) /\ Len(u) = (m + 1) - n /\ \A i \in 1 .. (m + 1) - n : u[i] = t[n + i]
    BY <1>1, <1>7, <2>1
  <2>3. PICK v : v = Append(g, ch)
    OBVIOUS
  <2>4. v \in Seq(S) /\ Len(v) = (m + 1) - n /\ v[(m + 1) - n] = ch /\ \A i \in 1 .. m - n : v[i] = g[i]
    BY <1>1, <1>6, <2>3
  <2>5. \A i \in 1 .. (m + 1) - n : u[i] = v[i]
    <3> TAKE i \in 1 .. (m + 1) - n
    <3>1. u[i] = t[n + i]
      BY <2>2
    <3>2. CASE i = (m + 1) - n
      <4>1. n + i = m + 1
        BY <1>1, <3>2
      <4> QED
        BY <1>7, <2>4, <3>1, <3>2, <4>1
    <3>3. CASE i # (m + 1) - n
      <4>1. i \in 1 .. m - n /\ n + i \in 1 .. m
        BY <1>1, <3>3
      <4> QED
        BY <1>6, <1>7, <2>4, <3>1, <4>1
    <3> QED
      BY <3>2, <3>3
  <2>6. u = v
    BY <1>1, <2>2, <2>4, <2>5, SameSeq
  <2> QED
    BY <2>1, <2>3, <2>6
<1> QED
  BY <1>1, <1>2, <1>3, <1>4, <1>8, <1>9, <1>10

\* The lines and the line that is edited are one piece of the ring.
LEMMA LinesEdit ==
  ASSUME NEW in \in Inputs
  PROVE  /\ From(in, in.r, in.e) \in Seq(Keys) /\ Len(From(in, in.r, in.e)) = Minus(in.e, in.r)
         /\ Lines(in) = SubSeq(From(in, in.r, in.e), 1, Minus(in.w, in.r))
         /\ Edit(in) = SubSeq(From(in, in.r, in.e), Minus(in.w, in.r) + 1, Minus(in.e, in.r))
<1>1. PICK r \in 0 .. Wrap - 1, w \in 0 .. Wrap - 1, e \in 0 .. Wrap - 1 : r = in.r /\ w = in.w /\ e = in.e
  BY InputParts
<1>2. in \in Rings /\ Filled(r, w, e)
  BY <1>1, InputParts
<1>3. PICK m \in 0 .. Wrap - 1, n \in 0 .. Wrap - 1 : m = Minus(e, r) /\ n = Minus(w, r)
  BY RingArithmetic
<1>4. m \in Nat /\ n \in 0 .. m /\ Minus(e, w) = m - n
  <2>1. Minus(e, w) \in Nat /\ m = n + Minus(e, w)
    BY <1>1, <1>3, InputParts
  <2>2. Wrap \in Nat
    BY ConsoleAssumption
  <2> QED
    BY <2>1, <2>2
<1>5. w = Plus(r, n)
  <2>1. n = IF w >= r THEN w - r ELSE (w - r) + Wrap
    BY <1>3, RingArithmetic
  <2>2. Plus(r, n) = IF r + n < Wrap THEN r + n ELSE (r + n) - Wrap
    BY RingArithmetic
  <2>3. Wrap \in Nat
    BY ConsoleAssumption
  <2> QED
    BY <2>1, <2>2, <2>3
<1>6. From(in, r, e) \in Seq(Keys) /\ Len(From(in, r, e)) = m
  BY <1>2, <1>3, FromSeq
<1>7. From(in, r, w) = SubSeq(From(in, r, e), 1, n)
  BY <1>2, <1>3, <1>4, FromFront
<1>8. From(in, w, e) = SubSeq(From(in, r, e), n + 1, m)
  BY <1>2, <1>3, <1>4, <1>5, FromBack
<1> QED
  BY <1>1, <1>3, <1>6, <1>7, <1>8 DEF Lines, Edit

\* A key that is kept: the characters before it stay, since its place is not
\* one of theirs.
LEMMA PutLine ==
  ASSUME NEW in \in Inputs, NEW ch \in Keys, Room(in), NEW in2, in2 = Put(in, ch)
  PROVE  /\ Ends(in, ch) <=> ch \in {Newline, Eof} \/ Len(Lines(in)) + Len(Edit(in)) + 1 = INPUT_BUF
         /\ Len(Lines(in)) + Len(Edit(in)) + 1 <= INPUT_BUF
         /\ Ends(in, ch) => Lines(in2) = Append(Lines(in) \o Edit(in), ch) /\ Edit(in2) = <<>>
         /\ ~Ends(in, ch) => Lines(in2) = Lines(in) /\ Edit(in2) = Append(Edit(in), ch)
<1>1. PICK r \in 0 .. Wrap - 1, w \in 0 .. Wrap - 1, e \in 0 .. Wrap - 1 : r = in.r /\ w = in.w /\ e = in.e
  BY InputParts
<1>2. PICK B \in Nat \ {0} : B = INPUT_BUF /\ Wrap > B /\ Wrap \in Nat /\ 1 \in 0 .. Wrap - 1 /\ B \in 0 .. Wrap - 1
  BY ConsoleAssumption
<1>3. PICK m \in 0 .. Wrap - 1 : m = Minus(e, r)
  BY RingArithmetic
<1>4. m < B /\ m = Len(Lines(in)) + Len(Edit(in)) /\ m \in Nat
  BY <1>1, <1>2, <1>3, InputParts DEF Room
<1>5. PICK f \in 0 .. Wrap - 1 : f = Plus(e, 1) /\ f = IF e + 1 < Wrap THEN e + 1 ELSE (e + 1) - Wrap
  <2>1. PICK o \in 0 .. Wrap - 1 : o = 1
    BY <1>2
  <2>2. Plus(e, o) \in 0 .. Wrap - 1 /\ Plus(e, o) = IF e + o < Wrap THEN e + o ELSE (e + o) - Wrap
    BY RingArithmetic
  <2> QED
    BY <2>1, <2>2
<1>6. m = IF e >= r THEN e - r ELSE (e - r) + Wrap
  BY <1>3, RingArithmetic
<1>7. Plus(e, 1) = Plus(r, B) <=> m + 1 = B
  <2>1. PICK d \in Int : d = Plus(r, B) /\ d = IF r + B < Wrap THEN r + B ELSE (r + B) - Wrap
    <3>1. Plus(r, B) = IF r + B < Wrap THEN r + B ELSE (r + B) - Wrap
      BY <1>2, RingArithmetic
    <3>2. r + B \in Int /\ (r + B) - Wrap \in Int
      BY <1>2
    <3> QED
      BY <3>1, <3>2
  <2>2. m < B /\ m \in Nat /\ Wrap \in Nat /\ Wrap > B
    BY <1>2, <1>4
  <2>3. f = d <=> m + 1 = B
    <3>1. CASE e >= r
      <4>1. m = e - r
        BY <1>6, <3>1
      <4>2. CASE e + 1 < Wrap
        BY <1>5, <2>1, <2>2, <4>1, <4>2
      <4>3. CASE ~(e + 1 < Wrap)
        <5>1. e = Wrap - 1 /\ f = 0
          BY <1>5, <2>2, <4>3
        <5> QED
          BY <2>1, <2>2, <4>1, <5>1
      <4> QED
        BY <4>2, <4>3
    <3>2. CASE ~(e >= r)
      <4>1. m = (e - r) + Wrap /\ e + 1 < Wrap
        BY <1>6, <2>2, <3>2
      <4> QED
        BY <1>5, <2>1, <2>2, <4>1
    <3> QED
      BY <3>1, <3>2
  <2> QED
    BY <1>5, <2>1, <2>3
<1>8. Ends(in, ch) <=> ch \in {Newline, Eof} \/ m + 1 = B
  BY <1>1, <1>2, <1>7 DEF Ends
<1>9. in2 \in Inputs
  BY PutIn
<1>10. /\ in2.r = r /\ in2.e = f /\ in2.w = (IF Ends(in, ch) THEN f ELSE w)
       /\ in2.buf = [in.buf EXCEPT ![e % INPUT_BUF] = ch]
  BY <1>1, <1>5, InputParts DEF Put, Rings
<1>11. Plus(r, m) = e /\ Minus(f, r) = m + 1
  <2>1. Plus(r, m) = IF r + m < Wrap THEN r + m ELSE (r + m) - Wrap
    BY RingArithmetic
  <2>2. Minus(f, r) = IF f >= r THEN f - r ELSE (f - r) + Wrap
    BY RingArithmetic
  <2>3. m + 1 <= B /\ m \in Nat /\ Wrap \in Nat /\ Wrap > B
    BY <1>2, <1>4
  <2>4. CASE e >= r
    <3>1. m = e - r
      BY <1>6, <2>4
    <3>2. Plus(r, m) = e
      BY <2>1, <2>3, <3>1
    <3>3. CASE e + 1 < Wrap
      <4>1. f = e + 1
        BY <1>5, <3>3
      <4> QED
        BY <2>2, <2>3, <2>4, <3>1, <3>2, <4>1
    <3>4. CASE ~(e + 1 < Wrap)
      <4>1. e = Wrap - 1 /\ f = 0
        BY <1>5, <2>3, <3>4
      <4>2. r > 0
        BY <2>3, <3>1, <4>1
      <4> QED
        BY <2>2, <2>3, <3>1, <3>2, <4>1, <4>2
    <3> QED
      BY <3>3, <3>4
  <2>5. CASE ~(e >= r)
    <3>1. m = (e - r) + Wrap /\ e + 1 < Wrap
      BY <1>6, <2>3, <2>5
    <3>2. f = e + 1
      BY <1>5, <3>1
    <3>3. f # r
      BY <2>3, <3>1, <3>2
    <3>4. Plus(r, m) = e
      BY <2>1, <2>3, <3>1
    <3> QED
      BY <2>2, <2>3, <2>5, <3>1, <3>2, <3>3, <3>4
  <2> QED
    BY <2>4, <2>5
<1>12. PICK s : s = From(in, r, e)
  OBVIOUS
<1>13. PICK t : t = From(in2, r, f)
  OBVIOUS
<1>14. s \in Seq(Keys) /\ Len(s) = m /\ t \in Seq(Keys) /\ Len(t) = m + 1
  <2>1. in \in Rings /\ in2 \in Rings
    BY <1>9, InputParts
  <2> QED
    BY <1>3, <1>11, <1>12, <1>13, <2>1, FromSeq
<1>15. in.buf \in [0 .. B - 1 -> Keys] /\ e % INPUT_BUF \in 0 .. B - 1
  <2>1. 0 \in 0 .. INPUT_BUF
    BY <1>2
  <2>2. e % INPUT_BUF \in 0 .. INPUT_BUF - 1
    BY <2>1, PlaceOf
  <2>3. in \in Rings
    BY InputParts
  <2>4. in.buf \in [0 .. INPUT_BUF - 1 -> Keys]
    BY <2>3 DEF Rings
  <2> QED
    BY <1>2, <2>2, <2>4
<1>16. ASSUME NEW i \in 1 .. m PROVE t[i] = s[i]
  <2>1. PICK h \in 0 .. B - 1 : h = i - 1 /\ h # m
    <3>1. i - 1 \in 0 .. B - 1 /\ i - 1 # m
      BY <1>2, <1>4
    <3> QED
      BY <3>1
  <2>2. Plus(r, h) % INPUT_BUF # e % INPUT_BUF
    <3>1. m \in 0 .. B - 1
      BY <1>2, <1>4
    <3> QED
      BY <1>2, <1>11, <2>1, <3>1, PlacesDiffer
  <2>3. Plus(r, h) % INPUT_BUF \in 0 .. B - 1
    <3>1. Plus(r, h) \in 0 .. Wrap - 1
      <4>1. h \in 0 .. Wrap - 1
        BY <1>2
      <4> QED
        BY <4>1, RingArithmetic
    <3>2. 0 \in 0 .. INPUT_BUF
      BY <1>2
    <3> QED
      BY <1>2, <3>1, <3>2, PlaceOf
  <2>4. in2.buf[Plus(r, h) % INPUT_BUF] = in.buf[Plus(r, h) % INPUT_BUF]
    BY <1>10, <1>15, <2>2, <2>3
  <2>5. i \in 1 .. Minus(f, r) /\ i \in 1 .. Minus(e, r)
    BY <1>3, <1>4, <1>11
  <2>6. t[i] = in2.buf[Plus(r, h) % INPUT_BUF]
    BY <1>13, <2>1, <2>5, FromAt
  <2>7. s[i] = in.buf[Plus(r, h) % INPUT_BUF]
    BY <1>12, <2>1, <2>5, FromAt
  <2> QED
    BY <2>4, <2>6, <2>7
<1>17. t[m + 1] = ch
  <2>1. PICK i \in 1 .. Minus(f, r) : i = m + 1 /\ i - 1 = m
    BY <1>4, <1>11
  <2>2. t[i] = in2.buf[Plus(r, m) % INPUT_BUF]
    BY <1>13, <2>1, FromAt
  <2>3. in2.buf[e % INPUT_BUF] = ch
    BY <1>10, <1>15
  <2> QED
    BY <1>11, <2>1, <2>2, <2>3
<1>18. t = Append(s, ch)
  <2>1. PICK u : u = Append(s, ch)
    OBVIOUS
  <2>2. u \in Seq(Keys) /\ Len(u) = m + 1 /\ u[m + 1] = ch /\ \A i \in 1 .. m : u[i] = s[i]
    BY <1>14, <2>1
  <2>3. \A i \in 1 .. m + 1 : i \in 1 .. m \/ i = m + 1
    BY <1>4
  <2>4. \A i \in 1 .. m + 1 : t[i] = u[i]
    BY <1>16, <1>17, <2>2, <2>3
  <2>5. t = u
    BY <1>14, <2>2, <2>4, SameSeq
  <2> QED
    BY <2>1, <2>5
<1>19. PICK n \in 0 .. m : n = Minus(w, r)
  BY <1>1, <1>3, <1>4, InputParts
<1>20. Lines(in) = SubSeq(s, 1, n) /\ Edit(in) = SubSeq(s, n + 1, m)
  BY <1>1, <1>3, <1>12, <1>19, LinesEdit
<1>21. /\ s = SubSeq(s, 1, n) \o SubSeq(s, n + 1, m)
       /\ SubSeq(t, 1, n) = SubSeq(s, 1, n)
       /\ SubSeq(t, n + 1, m + 1) = Append(SubSeq(s, n + 1, m), ch)
  <2>1. n \in 0 .. Len(s) /\ s \in Seq(Keys) /\ Len(s) = m
    BY <1>14
  <2>2. /\ s = SubSeq(s, 1, n) \o SubSeq(s, n + 1, Len(s))
        /\ SubSeq(Append(s, ch), 1, n) = SubSeq(s, 1, n)
        /\ SubSeq(Append(s, ch), n + 1, Len(s) + 1) = Append(SubSeq(s, n + 1, Len(s)), ch)
    BY <2>1, CutSeq
  <2> QED
    BY <1>18, <2>1, <2>2
<1>22. ASSUME Ends(in, ch) PROVE Lines(in2) = Append(Lines(in) \o Edit(in), ch) /\ Edit(in2) = <<>>
  <2>1. Lines(in2) = t
    BY <1>10, <1>13, <1>22 DEF Lines
  <2>2. Minus(f, f) = 0
    <3>1. Minus(f, f) = IF f >= f THEN f - f ELSE (f - f) + Wrap
      BY RingArithmetic
    <3> QED
      BY <3>1
  <2>3. Edit(in2) = <<>>
    BY <1>9, <1>10, <1>22, <2>2, InputParts
  <2> QED
    BY <1>18, <1>20, <1>21, <2>1, <2>3
<1>23. ASSUME ~Ends(in, ch) PROVE Lines(in2) = Lines(in) /\ Edit(in2) = Append(Edit(in), ch)
  <2>1. Lines(in2) = SubSeq(t, 1, n) /\ Edit(in2) = SubSeq(t, n + 1, m + 1)
    BY <1>9, <1>10, <1>11, <1>13, <1>19, <1>23, LinesEdit
  <2> QED
    BY <1>20, <1>21, <2>1
<1> QED
  BY <1>2, <1>4, <1>8, <1>22, <1>23

\* consoleread() goes no further than the end of a line, and takes an end of
\* file as the first character or not at all.
LEMMA PassedLine ==
  ASSUME NEW in \in Inputs, NEW n \in Int, NEW target \in Int, n <= target, NEW g, g = Passed(in, n, target).i
  PROVE  /\ \A l \in 1 .. g : Lines(in)[l] \in {Newline, Eof} => l = g
         /\ g > 1 => Lines(in)[g] # Eof
<1> DEFINE all == From(in, in.r, in.w)
           stops == {l \in DOMAIN all : l = n \/ all[l] \in {Newline, Eof}}
           i == CHOOSE j \in stops : \A l \in stops : j <= l
           q == Passed(in, n, target)
<1>1. PICK m \in Nat : all \in Seq(Keys) /\ Len(all) = m /\ DOMAIN all = 1 .. m /\ all = Lines(in)
  <2>1. in \in Rings /\ in.r \in 0 .. Wrap - 1 /\ in.w \in 0 .. Wrap - 1
    BY InputParts
  <2> QED
    BY <2>1, FromSeq DEF Lines
<1>2. stops # {} => i \in stops /\ \A l \in stops : i <= l
  <2> SUFFICES ASSUME stops # {} PROVE i \in stops /\ \A l \in stops : i <= l
    OBVIOUS
  <2>1. stops \in SUBSET Nat
    BY <1>1
  <2> HIDE DEF stops
  <2>2. \E j \in stops : \A l \in stops : j <= l
    BY <2>1, MinExists
  <2> QED
    BY <2>2
<1>3. q = IF n <= 0 THEN [i |-> 0, done |-> TRUE]
          ELSE IF stops = {} THEN [i |-> Len(all), done |-> FALSE]
          ELSE [i |-> IF all[i] = Eof /\ n - i + 1 < target THEN i - 1 ELSE i, done |-> TRUE]
  BY DEF Passed
<1>4. stops \in SUBSET (1 .. m) /\ \A l \in 1 .. m : all[l] \in {Newline, Eof} => l \in stops
  BY <1>1
<1>5. g = q.i
  OBVIOUS
<1> HIDE DEF all, stops, i, q
<1>6. CASE n <= 0
  <2>1. g = 0
    BY <1>3, <1>5, <1>6
  <2> QED
    BY <2>1
<1>7. CASE ~(n <= 0) /\ stops = {}
  <2>1. g = m
    BY <1>1, <1>3, <1>5, <1>7
  <2>2. \A l \in 1 .. m : all[l] \notin {Newline, Eof}
    BY <1>4, <1>7
  <2>3. g > 1 => g \in 1 .. m
    BY <2>1
  <2> QED
    BY <1>1, <2>1, <2>2, <2>3
<1>8. CASE ~(n <= 0) /\ stops # {}
  <2>1. i \in 1 .. m /\ \A l \in stops : i <= l
    BY <1>2, <1>4, <1>8
  <2>2. g = IF all[i] = Eof /\ n - i + 1 < target THEN i - 1 ELSE i
    BY <1>3, <1>5, <1>8
  <2>3. \A l \in 1 .. i - 1 : l \in 1 .. m /\ all[l] \notin {Newline, Eof}
    <3> TAKE l \in 1 .. i - 1
    <3>1. l \in 1 .. m /\ ~(i <= l)
      BY <2>1
    <3> QED
      BY <1>4, <2>1, <3>1
  <2>4. CASE g = i - 1
    <3>1. g > 1 => g \in 1 .. i - 1
      BY <2>1, <2>4
    <3> QED
      BY <1>1, <2>3, <2>4, <3>1
  <2>5. CASE g = i
    <3>1. \A l \in 1 .. g : l = g \/ l \in 1 .. i - 1
      BY <2>1, <2>5
    <3>2. g > 1 => all[g] # Eof
      <4> SUFFICES ASSUME g > 1, all[g] = Eof PROVE FALSE
        OBVIOUS
      <4>1. n - i + 1 < target
        BY <2>1, <2>5
      <4>2. g = i - 1
        BY <2>2, <2>5, <4>1
      <4> QED
        BY <2>1, <2>5, <4>2
    <3> QED
      BY <1>1, <2>3, <3>1, <3>2
  <2> QED
    BY <2>2, <2>4, <2>5
<1> QED
  BY <1>6, <1>7, <1>8

\* No newline in the line that is edited, so that ^U takes all of it back.
EditInv == \A i \in DOMAIN Edit(input) : Edit(input)[i] # Newline

LEMMA ErasedLine ==
  ASSUME input \in Inputs, EditInv, NEW ch
  PROVE  /\ Erased(input, ch) \in 0 .. Minus(input.e, input.w)
         /\ Erased(input, ch) = IF ch # Backspace THEN Len(Edit(input)) ELSE IF Edit(input) = <<>> THEN 0 ELSE 1
<1> DEFINE line == From(input, input.w, input.e)
           last == {i \in DOMAIN line : line[i] = Newline}
<1>1. Erased(input, ch) \in 0 .. Minus(input.e, input.w)
  BY ErasedIn
<1>2. Erased(input, ch) = IF ch = Backspace THEN (IF line = <<>> THEN 0 ELSE 1)
                          ELSE IF last = {} THEN Len(line) ELSE Len(line) - (CHOOSE i \in last : \A j \in last : j <= i)
  BY DEF Erased
<1>3. last = {} /\ line = Edit(input)
  BY DEF EditInv, Edit
<1> QED
  BY <1>1, <1>2, <1>3

\* The steps of the console, as steps of the line editor.
linevars == <<Lines(input), Edit(input)>>
LineStep == EditInv' /\ (Line!Next \/ UNCHANGED linevars)

LEMMA SameLines ==
  ASSUME EditInv, input' = input
  PROVE  LineStep
BY DEF LineStep, linevars, EditInv

LEMMA GetcLines ==
  ASSUME DevInv, EditInv, NEW c \in CPUs, NEW key \in Keys, Getc(c, key)
  PROVE  LineStep
<1> DEFINE gone == Erased(input, key)
<1>1. input \in Inputs
  BY DEF DevInv, DevTypes
<1>s. PICK s : s = Edit(input)
  OBVIOUS
<1>t. PICK t : t = Lines(input)
  OBVIOUS
<1>2. s \in Seq(Keys) /\ t \in Seq(Keys) /\ Len(s) \in Nat /\ \A i \in 1 .. Len(s) : s[i] # Newline
  BY <1>s, <1>t, <1>1, InputParts DEF EditInv
<1>3. CASE key \in {"^U", Backspace} /\ input' = [input EXCEPT !.e = Minus(@, gone)]
  <2>1. /\ gone \in 0 .. Minus(input.e, input.w)
        /\ gone = IF key # Backspace THEN Len(s) ELSE IF s = <<>> THEN 0 ELSE 1
    BY <1>s, <1>1, ErasedLine
  <2> HIDE DEF gone
  <2>2. Lines(input') = t /\ Edit(input') = SubSeq(s, 1, Len(s) - gone)
    BY <1>s, <1>t, <1>1, <1>3, <2>1, EraseLine
  <2>3. gone \in 0 .. Len(s)
    BY <1>s, <1>1, <2>1, InputParts
  <2>4. EditInv'
    <3>1. PICK u : u = SubSeq(s, 1, Len(s) - gone)
      OBVIOUS
    <3>2. DOMAIN u = 1 .. Len(s) - gone /\ \A i \in 1 .. Len(s) - gone : u[i] = s[i] /\ i \in 1 .. Len(s)
      BY <1>2, <2>3, <3>1
    <3>3. \A i \in DOMAIN u : u[i] # Newline
      BY <1>2, <3>2
    <3> QED
      BY <2>2, <3>1, <3>3 DEF EditInv
  <2>5. CASE key # Backspace
    <3>1. Edit(input') = <<>>
      BY <1>2, <2>1, <2>2, <2>5
    <3>2. Line!KillLine
      BY <1>t, <2>2, <3>1 DEF Line!KillLine, Lines, Edit
    <3> QED
      BY <2>4, <3>2 DEF LineStep, Line!Next
  <2>6. CASE key = Backspace /\ s # <<>>
    <3>1. Edit(input') = SubSeq(s, 1, Len(s) - 1)
      BY <2>1, <2>2, <2>6
    <3>2. Line!Erase
      BY <1>s, <1>t, <2>2, <2>6, <3>1 DEF Line!Erase, Line!Front, Lines, Edit
    <3> QED
      BY <2>4, <3>2 DEF LineStep, Line!Next
  <2>7. CASE key = Backspace /\ s = <<>>
    <3>1. Edit(input') = s
      BY <1>2, <2>1, <2>2, <2>7
    <3> QED
      BY <1>s, <1>t, <2>2, <2>4, <3>1 DEF LineStep, linevars
  <2> QED
    BY <2>5, <2>6, <2>7
<1>4. CASE UNCHANGED consvars
  BY <1>4, SameLines DEF consvars
<1>5. CASE key \in Plain \cup {Newline, Eof} /\ Room(input) /\ input' = Put(input, key)
  <2>1. /\ Ends(input, key) <=> key \in {Newline, Eof} \/ Len(t) + Len(s) + 1 = INPUT_BUF
        /\ Len(t) + Len(s) + 1 <= INPUT_BUF
        /\ Ends(input, key) => Lines(input') = Append(t \o s, key) /\ Edit(input') = <<>>
        /\ ~Ends(input, key) => Lines(input') = t /\ Edit(input') = Append(s, key)
    BY <1>s, <1>t, <1>1, <1>5, PutLine
  <2>2. PICK u : u = (t \o s) \o <<key>>
    OBVIOUS
  <2>3. u = Append(t \o s, key) /\ Len(u) = Len(t) + Len(s) + 1
    BY <1>2, <2>2
  <2>4. CASE Ends(input, key)
    <3>1. EditInv'
      BY <2>1, <2>4 DEF EditInv
    <3>2. Line!Type(key)
      BY <1>s, <1>t, <2>1, <2>2, <2>3, <2>4 DEF Line!Type, Lines, Edit
    <3> QED
      BY <1>5, <3>1, <3>2 DEF LineStep, Line!Next
  <2>5. CASE ~Ends(input, key)
    <3>1. EditInv'
      <4>1. PICK v : v = Append(s, key)
        OBVIOUS
      <4>2. DOMAIN v = 1 .. Len(s) + 1 /\ v[Len(s) + 1] = key /\ \A i \in 1 .. Len(s) : v[i] = s[i]
        BY <1>2, <4>1
      <4>3. \A i \in 1 .. Len(s) + 1 : i \in 1 .. Len(s) \/ i = Len(s) + 1
        BY <1>2
      <4>4. \A i \in DOMAIN v : v[i] # Newline
        BY <1>2, <2>1, <2>5, <4>2, <4>3
      <4> QED
        BY <2>1, <2>5, <4>1, <4>4 DEF EditInv
    <3>2. Line!Type(key)
      BY <1>s, <1>t, <2>1, <2>2, <2>3, <2>5 DEF Line!Type, Lines, Edit
    <3> QED
      BY <1>5, <3>1, <3>2 DEF LineStep, Line!Next
  <2> QED
    BY <2>4, <2>5
<1> QED
  BY <1>3, <1>4, <1>5 DEF Getc

LEMMA ConsolereadLines ==
  ASSUME DevInv, EditInv, NEW c \in CPUs, Consoleread(c)
  PROVE  LineStep
<1>o. PICK o : o = O(c)
  OBVIOUS
<1>1. DevTypes /\ RunInv /\ k[Ctx(c)] # <<>> /\ O(c).op = "consoleread" /\ input \in Inputs
  BY DEF DevInv, DevTypes, Consoleread, At, O
<1>2. o.n \in Int /\ o.target \in Int /\ o.n <= o.target
  <2>1. PICK a, b \in Modes : Goes(O(c), a, b)
    BY <1>1, AtHead
  <2> QED
    BY <1>o, <1>1, <2>1 DEF Goes, Releases, Schedules
<1>3. PICK g : g = Passed(input, o.n, o.target).i
  OBVIOUS
<1>t. PICK t : t = Lines(input)
  OBVIOUS
<1>4. g \in 0 .. Minus(input.w, input.r)
  BY <1>1, <1>2, <1>3, PassedIn
<1>5. /\ \A l \in 1 .. g : t[l] \in {Newline, Eof} => l = g
      /\ g > 1 => t[g] # Eof
  BY <1>t, <1>1, <1>2, <1>3, PassedLine
<1>6. input' = [input EXCEPT !.r = Plus(@, g)]
  BY <1>o, <1>3 DEF Consoleread
<1>7. Edit(input') = Edit(input) /\ Lines(input') = SubSeq(t, g + 1, Len(t))
  BY <1>t, <1>1, <1>4, <1>6, TakeLine
<1>8. EditInv'
  BY <1>7 DEF EditInv
<1>9. t \in Seq(Keys) /\ g \in 0 .. Len(t) /\ Len(t) <= INPUT_BUF /\ Len(t) \in Nat /\ INPUT_BUF \in Nat
  <2>1. Len(t) = Minus(input.w, input.r)
    BY <1>t, <1>1, InputParts
  <2> QED
    BY <1>t, <1>1, <1>4, <2>1, InputParts, ConsoleAssumption
<1>10. CASE g = 0
  <2>1. SubSeq(t, 1, Len(t)) = t
    BY <1>9
  <2>2. Lines(input') = t
    BY <1>7, <1>10, <2>1
  <2> QED
    BY <1>t, <1>7, <1>8, <2>2 DEF LineStep, linevars
<1>11. CASE g # 0
  <2>1. g \in 1 .. INPUT_BUF
    BY <1>9, <1>11
  <2>2. Line!Take(g)
    BY <1>t, <1>5, <1>7, <1>9 DEF Line!Take, Lines, Edit
  <2> QED
    BY <1>8, <2>1, <2>2 DEF LineStep, Line!Next
<1> QED
  BY <1>10, <1>11

LEMMA InterruptKeepsLines ==
  ASSUME NEW c, NEW h, Interrupt(c, h)
  PROVE  input' = input
BY DEF Interrupt, consvars

LEMMA StartsKeepLines ==
  ASSUME NEW c, StartStep(c)
  PROVE  input' = input
<1>1. ASSUME NEW name, NEW ops, Call(c, name, ops) PROVE input' = input
  BY <1>1 DEF Call, consvars
<1>2. ASSUME SchedulerLoop(c) PROVE input' = input
  BY <1>2 DEF SchedulerLoop, consvars
<1> QED
  BY <1>1, <1>2, Zenon DEF StartStep, ReadCall, WriteCall, SleepCall, KillCall, TicketsCall

LEMMA KernelLines ==
  ASSUME DevInv, EditInv, NEW c \in CPUs, KernelStep(c)
  PROVE  LineStep
<1>1. CASE LockStep(c) /\ UNCHANGED <<consvars, procvars, ticks, budget>>
  BY <1>1, SameLines DEF consvars
<1>2. CASE Return(c) \/ Leave(c) \/ Iret(c)
  BY <1>2, SameLines DEF Return, Leave, Iret, consvars
<1>3. CASE TickStep(c) \/ SysSleep(c)
  BY <1>3, SameLines DEF TickStep, SysSleep, consvars
<1>4. CASE Consputs(c) \/ GetcEnd(c)
  BY <1>4, SameLines DEF Consputs, GetcEnd, consvars
<1>5. CASE Consoleread(c)
  BY <1>5, ConsolereadLines
<1>6. CASE \E key \in Keys : Getc(c, key)
  BY <1>6, GetcLines
<1>7. CASE WakeupStep(c) \/ Kill(c) \/ ChangeTickets(c)
  BY <1>7, SameLines DEF WakeupStep, Kill, ChangeTickets, consvars
<1>8. CASE SchedStep(c)
  BY <1>8, SameLines DEF SchedStep, consvars
<1>9. CASE Slot(c)
  BY <1>9, SameLines DEF Slot, consvars
<1> QED
  BY <1>1, <1>2, <1>3, <1>4, <1>5, <1>6, <1>7, <1>8, <1>9 DEF KernelStep

LEMMA LinesNext ==
  ASSUME DevInv, EditInv, [Next]_vars
  PROVE  LineStep
<1>1. CASE UNCHANGED vars
  BY <1>1, SameLines DEF vars, consvars
<1>2. CASE ConsoleInterrupt
  BY <1>2, InterruptKeepsLines, SameLines DEF ConsoleInterrupt
<1>3. ASSUME NEW c \in CPUs, TimerInterrupt(c) PROVE LineStep
  BY <1>3, InterruptKeepsLines, SameLines DEF TimerInterrupt
<1>4. ASSUME NEW c \in CPUs, Step(c) PROVE LineStep
  BY <1>4, StartsKeepLines, KernelLines, SameLines DEF Step
<1> QED
  BY <1>1, <1>2, <1>3, <1>4 DEF Next

LEMMA LinesInit ==
  ASSUME Init, DevInv
  PROVE  EditInv /\ Line!Init
<1>1. input \in Inputs /\ input.r = Wrap - 1 /\ input.w = Wrap - 1 /\ input.e = Wrap - 1
  <2>1. input \in Inputs
    BY DEF DevInv, DevTypes
  <2> QED
    BY <2>1 DEF Init, ConsoleInit
<1>2. PICK x \in 0 .. Wrap - 1 : x = Wrap - 1
  BY <1>1, InputParts
<1>3. Minus(x, x) = 0
  <2>1. Minus(x, x) = IF x >= x THEN x - x ELSE (x - x) + Wrap
    BY RingArithmetic
  <2> QED
    BY <2>1
<1>4. Lines(input) = <<>> /\ Edit(input) = <<>>
  <2>1. /\ Lines(input) \in Seq(Keys) /\ Len(Lines(input)) = 0
        /\ Edit(input) \in Seq(Keys) /\ Len(Edit(input)) = 0
    BY <1>1, <1>2, <1>3, InputParts
  <2> QED
    BY <2>1
<1> QED
  BY <1>4 DEF EditInv, Line!Init, Lines, Edit

\* The ring of the console, whose indices grow and wrap around, is the line
\* editor of LineInput: a key, a backspace, a ^U and a read() are its steps, a
\* wrapped index never takes a character of a finished line for one of the line
\* that is edited, and every other step of the kernel leaves both alone.
THEOREM ConsoleIsALineEditor == Spec => ImplementsLineInput
<1>1. Init /\ DevInv => EditInv /\ Line!Init
  BY LinesInit
<1>2. DevInv /\ EditInv /\ [Next]_vars => EditInv'
  BY LinesNext DEF LineStep
<1>3. DevInv /\ EditInv /\ [Next]_vars => [Line!Next]_<<From(input, input.r, input.w), From(input, input.w, input.e)>>
  BY LinesNext DEF LineStep, linevars, Lines, Edit
<1> QED
  BY <1>1, <1>2, <1>3, DevInvariant, PTL DEF Spec, ImplementsLineInput, Line!Spec

=============================================================================
