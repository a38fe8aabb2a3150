------------------------------ MODULE Spinlock ------------------------------
(***************************************************************************)
(* Spin locks and interrupt masking: spinlock.c, with the kernel contexts  *)
(* that use them.  A context is the kernel stack of a process, or of a     *)
(* CPU's scheduler; k[x] is what x has still to do, a sequence of          *)
(* operations, and an interrupt puts its handler in front.  Each CPU runs  *)
(* the operations of one context in turn.                                  *)
(***************************************************************************)
EXTENDS Integers, Sequences, FiniteSets

CONSTANTS NCPU, NPROC, NULL

CPUs == 0 .. NCPU - 1
Procs == 1 .. NPROC
SchedulerOf(c) == NPROC + 1 + c
Contexts == 1 .. NPROC + NCPU
Locks == {"cons", "tickslock", "ptable"}

ASSUME SpinlockAssumption ==
  /\ NCPU \in Nat \ {0} /\ NPROC \in Nat /\ NPROC >= NCPU
  /\ NULL \notin Int /\ NULL \notin Locks

VARIABLES cpu,       \* struct cpu, and the interrupt flag of its eflags
          lock,      \* lk->cpu, NULL if not locked
          k,
          panicked

spinvars == <<cpu, lock, k, panicked>>

\* An operation, its argument, and the lock that it ends with a release() of.
Op(name, n) == [op |-> name, n |-> n, lk |-> NULL]
Under(name, n, lk) == [op |-> name, n |-> n, lk |-> lk]
Acquire(lk) == Under("acquire", 0, lk)
Release(lk) == Under("release", 0, lk)

Ctx(c) == IF cpu[c].proc = NULL THEN SchedulerOf(c) ELSE cpu[c].proc
At(c, name) == ~panicked /\ k[Ctx(c)] # <<>> /\ Head(k[Ctx(c)]).op = name
Holding(c, lk) == lock[lk] = c

\* The context that c runs goes on with ops, and then with the rest.
Continue(c, ops) == k' = [k EXCEPT ![Ctx(c)] = ops \o Tail(@)]

Pushcli(u) ==
  [u EXCEPT !.if = FALSE, !.ncli = @ + 1, !.intena = IF u.ncli = 0 THEN u.if ELSE @]

PopcliBad(u) == u.if \/ u.ncli = 0
Popcli(u) ==
  [u EXCEPT !.ncli = @ - 1, !.if = (u.ncli = 1 /\ u.intena)]

\* What the xchg of acquire() finds.
Xchg(lk) == lock[lk] = NULL

\* acquire(): interrupts go off before the xchg, which is repeated until it
\* finds the lock free.
AcquireStep(c) ==
  LET lk == Head(k[Ctx(c)]).lk IN
  /\ At(c, "acquire")
  /\ cpu' = [cpu EXCEPT ![c] = Pushcli(@)]
  /\ panicked' = Holding(c, lk)
  /\ IF Xchg(lk) THEN lock' = [lock EXCEPT ![lk] = c] /\ Continue(c, <<>>)
     ELSE Continue(c, <<[Head(k[Ctx(c)]) EXCEPT !.op = "xchg"]>>) /\ UNCHANGED lock

SpinStep(c) ==
  LET lk == Head(k[Ctx(c)]).lk IN
  /\ At(c, "xchg") /\ Xchg(lk)
  /\ lock' = [lock EXCEPT ![lk] = c]
  /\ Continue(c, <<>>)
  /\ UNCHANGED <<cpu, panicked>>

\* release(), where bad are the other reasons for a panic.
ReleaseLock(c, lk, bad) ==
  /\ lock' = [lock EXCEPT ![lk] = NULL]
  /\ cpu' = [cpu EXCEPT ![c] = Popcli(@)]
  /\ panicked' = (bad \/ ~Holding(c, lk) \/ PopcliBad(cpu[c]))

\* The operation that c is at is over.
Done(c, bad) == Continue(c, <<>>) /\ ReleaseLock(c, Head(k[Ctx(c)]).lk, bad)

ReleaseStep(c) == At(c, "release") /\ Done(c, FALSE)

LockStep(c) == AcquireStep(c) \/ SpinStep(c) \/ ReleaseStep(c)

-----------------------------------------------------------------------------
\* A context is inside lk's critical section: of what it has still to do, the
\* first operation on lk is not an acquire().
Ahead(x, S) == {i \in DOMAIN k[x] : k[x][i].op \in S}
Inside(x, lk) ==
  \E i \in DOMAIN k[x] :
    /\ k[x][i].lk = lk /\ k[x][i].op \notin {"acquire", "xchg"}
    /\ \A j \in 1 .. i - 1 : k[x][j].lk # lk

\* A lock belongs to the CPU that runs its critical section, to one only, also
\* while ptable.lock goes from a process to the scheduler and on to another.
LocksMatch == ~panicked => \A c \in CPUs, lk \in Locks : Holding(c, lk) <=> Inside(Ctx(c), lk)

\* No two CPUs spin, with their interrupts off, for locks of each other.
WaitsFor(c, d) ==
  /\ k[Ctx(c)] # <<>> /\ Head(k[Ctx(c)]).op = "xchg"
  /\ lock[Head(k[Ctx(c)]).lk] = d
NoSpinCycle == \A c, d \in CPUs : ~(WaitsFor(c, d) /\ WaitsFor(d, c))

\* Spin locks exclude and do not deadlock, with handlers at any point.
LocksRight == LocksMatch /\ NoSpinCycle
=============================================================================
