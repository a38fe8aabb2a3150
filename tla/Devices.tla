------------------------------ MODULE Devices -------------------------------
(***************************************************************************)
(* Interrupts, the clock, the console and the lottery scheduler on CPUs    *)
(* that share cons.lock, tickslock and ptable.lock: trap(), consoleintr(), *)
(* consoleread(), consolewrite(), cprintf(), sys_sleep(), kill(),          *)
(* change_tickets(), and under them sleep(), wakeup(), yield(), sched()    *)
(* and scheduler().  A function is the sequence of its operations.  The    *)
(* lock of the console's inode is left out.                                *)
(***************************************************************************)
EXTENDS Spinlock, Console

CONSTANTS TicksWrap,      \* ticks is unsigned and wraps here
          SleepTimes,     \* arguments of sleep(), as unsigned
          ReadSizes,
          CallsOf,        \* the system calls that a process makes
          Tickets,        \* arguments of change_tickets()
          DEFAULT_TICKETS,
          MaxKeys, MaxInterrupts, MaxCalls   \* bounds

ASSUME DevicesAssumption ==
  /\ TicksWrap \in Nat \ {0} /\ SleepTimes \subseteq Nat /\ ReadSizes \subseteq Nat
  /\ Tickets \subseteq Int /\ DEFAULT_TICKETS \in Int

VARIABLES state, chan, killed, tickets,
          ticks,
          elapsed,        \* the ticks there really were
          keys, interrupts, calls   \* what is left of the bounds

vars == <<spinvars, consvars, state, chan, killed, tickets, ticks, elapsed, keys, interrupts, calls>>
spinning == <<cpu, lock, panicked>>
procvars == <<state, chan, killed, tickets>>
budget == <<elapsed, keys, interrupts, calls>>

\* sleep(), wakeup(), yield(), exit(), as their operations.
Sched(st, ch) == [op |-> "sched", n |-> ch, lk |-> "ptable", state |-> st]
SleepEarly(ch, lk) ==
  <<Release(lk), Acquire("ptable"), Sched("SLEEPING", ch), Release("ptable"), Acquire(lk)>>

Sleep(ch, lk) ==
  <<Acquire("ptable"), Release(lk), Sched("SLEEPING", ch), Release("ptable"), Acquire(lk)>>

Wakeup(ch) == <<Acquire("ptable"), Under("wakeup", ch, "ptable")>>
Yield == <<Acquire("ptable"), Sched("RUNNABLE", NULL), Release("ptable")>>
Exit == <<Acquire("ptable"), Sched("ZOMBIE", NULL)>>
Cprintf == <<Acquire("cons"), Under("consputs", <<"a", Newline>>, "cons")>>

\* trap() of the timer, which counts on CPU 0, and of the keyboard or uart.
TickWide ==
  <<Acquire("ptable"), Acquire("tickslock"), Op("tick", 0), Release("tickslock"),
    Under("wakeup", "ticks", "ptable")>>

Tick == <<Acquire("tickslock"), Op("tick", 0)>> \o Wakeup("ticks") \o <<Release("tickslock")>>

TimerTrap(c) == (IF c = 0 THEN Tick ELSE <<>>) \o <<Op("leave", TRUE), Op("iret", 0)>>
ConsoleTrap == <<Acquire("cons"), Under("getc", FALSE, "cons"), Op("leave", FALSE), Op("iret", 0)>>

\* Process c + 1 is in user space on CPU c, whose scheduler waits for it to
\* call sched(); the others had to yield() there.
Init ==
  /\ ConsoleInit
  /\ lock = [lk \in Locks |-> NULL]
  /\ panicked = FALSE
  /\ cpu = [c \in CPUs |-> [proc |-> c + 1, ncli |-> 0, intena |-> TRUE, if |-> TRUE]]
  /\ k = [x \in Contexts |-> IF x <= NCPU THEN <<>>
                             ELSE IF x \in Procs THEN <<Op("resume", FALSE), Release("ptable"), Op("iret", 0)>>
                             ELSE <<Under("slot", x - NPROC + 1, "ptable")>>]
  /\ state = [p \in Procs |-> IF p <= NCPU THEN "RUNNING" ELSE "RUNNABLE"]
  /\ chan = [p \in Procs |-> NULL]
  /\ killed = [p \in Procs |-> FALSE]
  /\ tickets = [p \in Procs |-> DEFAULT_TICKETS]
  /\ ticks = TicksWrap - 1
  /\ elapsed = 0 /\ keys = MaxKeys /\ interrupts = MaxInterrupts /\ calls = [p \in Procs |-> MaxCalls]

-----------------------------------------------------------------------------
\* An interrupt, when the CPU takes one; only CPU 0 takes the console's.
Interrupt(c, handler) ==
  /\ ~panicked /\ cpu[c].if /\ interrupts > 0
  /\ interrupts' = interrupts - 1
  /\ cpu' = [cpu EXCEPT ![c].if = FALSE]
  /\ k' = [k EXCEPT ![Ctx(c)] = handler \o @]
  /\ UNCHANGED <<lock, panicked, consvars, procvars, ticks, elapsed, keys, calls>>

TimerInterrupt(c) == Interrupt(c, TimerTrap(c))
ConsoleInterrupt == keys > 0 /\ Interrupt(0, ConsoleTrap)

\* The process that c runs, and the operation it is at.
P(c) == cpu[c].proc
O(c) == Head(k[Ctx(c)])

\* A system call, from user space; a killed process exits instead.
Call(c, name, ops) ==
  /\ ~panicked /\ P(c) # NULL /\ k[P(c)] = <<>>
  /\ name \in CallsOf[P(c)] /\ calls[P(c)] > 0
  /\ calls' = [calls EXCEPT ![P(c)] = @ - 1]
  /\ k' = [k EXCEPT ![P(c)] = IF killed[P(c)] THEN Exit ELSE ops \o <<Op("ret", 0)>>]
  /\ UNCHANGED <<cpu, lock, panicked, consvars, procvars, ticks, elapsed, keys, interrupts>>

ReadCall(c) == \E n \in ReadSizes :
  Call(c, "read", <<Acquire("cons"), [op |-> "consoleread", n |-> n, lk |-> "cons", target |-> n]>>)
WriteCall(c) == Call(c, "write", Cprintf)
SleepCall(c) == \E n \in SleepTimes : Call(c, "sleep", <<Acquire("tickslock"), Under("ticks0", n, "tickslock")>>)
KillCall(c) == \E q \in Procs \ {P(c)} : Call(c, "kill", <<Acquire("ptable"), Under("kill", q, "ptable")>>)
TicketsCall(c) == \E n \in Tickets, q \in Procs :
  Call(c, "change_tickets", Cprintf \o <<Acquire("ptable"), [op |-> "change_tickets", n |-> n, lk |-> "ptable", q |-> q]>>)

-----------------------------------------------------------------------------
\* trap(): the end of a system call; the end of an interrupt, where the timer
\* makes the process yield, and which ends a killed process in user space.
Return(c) ==
  /\ At(c, "ret")
  /\ Continue(c, IF killed[P(c)] THEN Exit ELSE <<>>)
  /\ UNCHANGED <<cpu, lock, panicked, consvars, procvars, ticks, budget>>

Exits(c) ==
  /\ P(c) # NULL /\ killed[P(c)]
  /\ k[P(c)][Len(k[P(c)])].op = "iret"

Leave(c) ==
  /\ At(c, "leave")
  /\ IF Exits(c) THEN k' = [k EXCEPT ![P(c)] = Exit]
     ELSE Continue(c, IF P(c) # NULL /\ O(c).n THEN Yield ELSE <<>>)
  /\ UNCHANGED <<cpu, lock, panicked, consvars, procvars, ticks, budget>>

Iret(c) ==
  /\ At(c, "iret")
  /\ IF Exits(c) THEN k' = [k EXCEPT ![P(c)] = Exit] /\ UNCHANGED cpu
     ELSE Continue(c, <<>>) /\ cpu' = [cpu EXCEPT ![c].if = TRUE]
  /\ UNCHANGED <<lock, panicked, consvars, procvars, ticks, budget>>

\* The clock.
TickStep(c) ==
  /\ At(c, "tick")
  /\ ticks' = (ticks + 1) % TicksWrap
  /\ elapsed' = elapsed + 1
  /\ Continue(c, <<>>)
  /\ UNCHANGED <<cpu, lock, panicked, consvars, procvars, keys, interrupts, calls>>

StillSleepsSum(o) == ticks < (o.t0 + o.n) % TicksWrap

\* The condition of the loop of sys_sleep().
StillSleeps(o) == (ticks - o.t0) % TicksWrap < o.n

SysSleep(c) ==
  /\ \/ /\ At(c, "ticks0")
        /\ Continue(c, <<[op |-> "sys_sleep", n |-> O(c).n, lk |-> "tickslock", t0 |-> ticks, at |-> elapsed]>>)
        /\ UNCHANGED spinning
     \/ /\ At(c, "sys_sleep")
        /\ IF StillSleeps(O(c)) /\ ~killed[P(c)]
           THEN Continue(c, Sleep("ticks", "tickslock") \o <<O(c)>>) /\ UNCHANGED spinning
           ELSE Done(c, FALSE)
  /\ UNCHANGED <<consvars, procvars, ticks, budget>>

\* The console.
Consputs(c) ==
  LET s == O(c).n
      at == [i \in 1 .. Len(s) + 1 |-> FoldLeft(Cursor, pos, SubSeq(s, 1, i - 1))]
  IN
  /\ At(c, "consputs")
  /\ pos' = at[Len(s) + 1]
  /\ Done(c, \E i \in 1 .. Len(s) : CursorBad(at[i], s[i]))
  /\ UNCHANGED <<input, procvars, ticks, budget>>

Getc(c, key) ==
  LET o == O(c)
      gone == Erased(input, key)
      nth[n \in 0 .. INPUT_BUF] == IF n = 0 THEN pos ELSE Cursor(nth[n - 1], Backspace)
  IN
  /\ At(c, "getc") /\ keys > 0 /\ keys' = keys - 1
  /\ \/ /\ key \in {"^U", Backspace}
        /\ input' = [input EXCEPT !.e = Minus(@, gone)]
        /\ pos' = nth[gone]
        /\ Continue(c, <<o>>) /\ UNCHANGED panicked
     \/ /\ key = "^P"
        /\ Continue(c, <<[o EXCEPT !.n = TRUE]>>) /\ UNCHANGED <<consvars, panicked>>
     \/ /\ key \in Plain \cup {Newline, Eof} /\ ~Room(input)
        /\ Continue(c, <<o>>) /\ UNCHANGED <<consvars, panicked>>
     \/ /\ key \in Plain \cup {Newline, Eof} /\ Room(input)
        /\ input' = Put(input, key)
        /\ pos' = Cursor(pos, key) /\ panicked' = CursorBad(pos, key)
        /\ Continue(c, (IF Ends(input, key) THEN Wakeup("input") ELSE <<>>) \o <<o>>)
  /\ UNCHANGED <<cpu, lock, procvars, ticks, elapsed, interrupts, calls>>

\* No more keys; a process listing comes after the release().
GetcEnd(c) ==
  /\ At(c, "getc")
  /\ Continue(c, IF O(c).n THEN Cprintf ELSE <<>>)
  /\ ReleaseLock(c, "cons", FALSE)
  /\ UNCHANGED <<consvars, procvars, ticks, budget>>

Consoleread(c) ==
  LET o == O(c)
      q == Passed(input, o.n, o.target)
  IN
  /\ At(c, "consoleread")
  /\ input' = [input EXCEPT !.r = Plus(@, q.i)]
  /\ IF q.done \/ killed[P(c)] THEN Done(c, FALSE)
     ELSE Continue(c, Sleep("input", "cons") \o <<[o EXCEPT !.n = @ - q.i]>>) /\ UNCHANGED spinning
  /\ UNCHANGED <<pos, procvars, ticks, budget>>

-----------------------------------------------------------------------------
\* proc.c: what is done under ptable.lock.
WakeupStep(c) ==
  /\ At(c, "wakeup") /\ Done(c, FALSE)
  /\ state' = [p \in Procs |-> IF state[p] = "SLEEPING" /\ chan[p] = O(c).n THEN "RUNNABLE" ELSE state[p]]
  /\ UNCHANGED <<consvars, chan, killed, tickets, ticks, budget>>

Kill(c) ==
  LET q == O(c).n IN
  /\ At(c, "kill") /\ Done(c, FALSE)
  /\ killed' = [killed EXCEPT ![q] = TRUE]
  /\ state' = [state EXCEPT ![q] = IF @ = "SLEEPING" THEN "RUNNABLE" ELSE @]
  /\ UNCHANGED <<consvars, chan, tickets, ticks, budget>>

ChangeTickets(c) ==
  /\ At(c, "change_tickets") /\ Done(c, FALSE)
  /\ tickets' = [tickets EXCEPT ![O(c).q] = O(c).n]
  /\ UNCHANGED <<consvars, state, chan, killed, ticks, budget>>

\* sched(): intena stays with the process.
SavedNot(u) == TRUE

Saved(u) == u.intena

SchedStep(c) ==
  /\ At(c, "sched")
  /\ panicked' = (~Holding(c, "ptable") \/ cpu[c].ncli # 1 \/ cpu[c].if)
  /\ state' = [state EXCEPT ![P(c)] = O(c).state]
  /\ chan' = [chan EXCEPT ![P(c)] = O(c).n]
  /\ cpu' = [cpu EXCEPT ![c].proc = NULL]
  /\ Continue(c, <<Op("resume", Saved(cpu[c]))>>)
  /\ UNCHANGED <<lock, consvars, killed, tickets, ticks, budget>>

\* get_tickets(), random(): any number below the sum, which is never negative.
Runnable == {p \in Procs : state[p] = "RUNNABLE"}
GetTickets == FoldLeft(LAMBDA s, p : IF p \in Runnable THEN s + tickets[p] ELSE s, 0, [i \in Procs |-> i])
RandomFromOne(max) == 1 .. max

Random(max) == 0 .. max - 1

Lots == IF GetTickets > 0 THEN Random(GetTickets) ELSE {-1}

\* scheduler(): the table from the first slot to the last.  With interrupts
\* on, a round that finds nobody RUNNABLE changes nothing and is left out.
SchedulerLoop(c) ==
  /\ ~panicked /\ P(c) = NULL /\ k[SchedulerOf(c)] = <<>>
  /\ Runnable # {} \/ ~cpu[c].if
  /\ cpu' = [cpu EXCEPT ![c].if = TRUE]
  /\ k' = [k EXCEPT ![SchedulerOf(c)] = <<Acquire("ptable"), Under("slot", 1, "ptable")>>]
  /\ UNCHANGED <<lock, panicked, consvars, procvars, ticks, budget>>

Draws(p) == \E lot \in Lots : lot < tickets[p]
Skips(p) == \E lot \in Lots : lot >= tickets[p]

\* swtch() to p, which goes on in sched().
Switch(c, p) ==
  /\ cpu' = [cpu EXCEPT ![c].proc = p, ![c].intena = Head(k[p]).n]
  /\ state' = [state EXCEPT ![p] = "RUNNING"]
  /\ chan' = [chan EXCEPT ![p] = NULL]
  /\ k' = [k EXCEPT ![p] = Tail(@),
                    ![SchedulerOf(c)] = <<Under("slot", p + 1, "ptable")>>]

Slot(c) ==
  LET left == {p \in Runnable : p >= O(c).n}
      p == Min(left)
  IN
  /\ At(c, "slot")
  /\ \/ left = {} /\ Done(c, FALSE) /\ UNCHANGED <<state, chan>>
     \/ /\ left # {} /\ Skips(p)
        /\ Continue(c, <<[O(c) EXCEPT !.n = p + 1]>>) /\ UNCHANGED <<spinning, state, chan>>
     \/ left # {} /\ Draws(p) /\ Switch(c, p) /\ UNCHANGED <<lock, panicked>>
  /\ UNCHANGED <<consvars, killed, tickets, ticks, budget>>

\* A process in user space makes a call; a scheduler begins a round.
StartStep(c) ==
  \/ ReadCall(c) \/ WriteCall(c) \/ SleepCall(c) \/ KillCall(c) \/ TicketsCall(c)
  \/ SchedulerLoop(c)

KernelStep(c) ==
  \/ LockStep(c) /\ UNCHANGED <<consvars, procvars, ticks, budget>>
  \/ Return(c) \/ Leave(c) \/ Iret(c)
  \/ TickStep(c) \/ SysSleep(c)
  \/ Consputs(c) \/ GetcEnd(c) \/ Consoleread(c)
  \/ At(c, "getc") /\ \E key \in Keys : Getc(c, key)
  \/ WakeupStep(c) \/ Kill(c) \/ ChangeTickets(c) \/ SchedStep(c)
  \/ Slot(c)

Step(c) ==
  \/ k[Ctx(c)] = <<>> /\ StartStep(c)
  \/ k[Ctx(c)] # <<>> /\ KernelStep(c)

Next == ConsoleInterrupt \/ \E c \in CPUs : TimerInterrupt(c) \/ Step(c)

Spec == Init /\ [][Next]_vars

-----------------------------------------------------------------------------
\* Nothing panics: no lock is taken twice by a CPU, also not by a handler that
\* interrupts its holder, sched() is entered with ptable.lock alone, and the
\* cursor stays on the screen.
NoPanic == ~panicked

\* A process has interrupts on where it holds no lock, and off inside a
\* handler, on whatever CPU it comes back from sched().
Exiting(p) == \E i \in Ahead(p, {"sched"}) : k[p][i].state = "ZOMBIE"
InterruptsRight ==
  \A c \in CPUs :
    (P(c) # NULL /\ cpu[c].ncli = 0 /\ ~Exiting(P(c)))
      => (cpu[c].if <=> Ahead(P(c), {"iret"}) = {})

\* Nobody sleeps in consoleread() with input to read, or in sys_sleep() when
\* its time is over, unless the wakeup() is on its way.
Coming(ch) == \E x \in Contexts : \E i \in Ahead(x, {"wakeup"}) : k[x][i].n = ch
NoMissedWakeup ==
  \A p \in Procs : state[p] = "SLEEPING" =>
    \/ Coming(chan[p])
    \/ chan[p] = "input" /\ input.r = input.w
    \/ chan[p] = "ticks" /\ \E i \in Ahead(p, {"sys_sleep"}) : StillSleeps(k[p][i])

\* sleep(n) takes n ticks or more, also when ticks wraps around; a killed
\* process may leave early.
SleptEnough ==
  [][\A p \in Procs :
       (k[p] # <<>> /\ Head(k[p]).op = "sys_sleep" /\ Len(k'[p]) < Len(k[p]) /\ ~killed[p])
         => elapsed - Head(k[p]).at >= Head(k[p]).n]_vars

\* While nobody has a negative number of tickets, some runnable process can
\* win the draw.
SomeoneWins ==
  (Runnable # {} /\ \A p \in Procs : tickets[p] >= 0) => \E p \in Runnable : Draws(p)

\* The ring of the console, with its wrapping indices, is a line editor.
Line == INSTANCE LineInput WITH Size <- INPUT_BUF,
          lines <- From(input, input.r, input.w), edited <- From(input, input.w, input.e)
ImplementsLineInput == Line!Spec
=============================================================================
