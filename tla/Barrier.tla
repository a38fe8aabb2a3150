------------------------------ MODULE Barrier ------------------------------
(***************************************************************************)
(* The barrier of proc.c: the globals count, proc_count and lock (lk),     *)
(* barrier_init() and barrier_lock().                                      *)
(*                                                                         *)
(* The program is the one of test_barrier_06.c: a main thread initialises  *)
(* the barrier, creates its threads, joins them, and may do all of it      *)
(* again; each thread calls barrier_lock() Calls times and exits.          *)
(* barrier_init() takes no lock, so its three assignments are three steps. *)
(***************************************************************************)
EXTENDS Sleep, FiniteSets

CONSTANTS Parties,   \* the argument of barrier_init()
          Calls,     \* how often each thread calls barrier_lock()
          Cycles     \* bound: how often main runs its threads

ASSUME BarrierAssumption ==
  /\ Parties \in Nat
  /\ Calls \in Nat \ {0}
  /\ Cycles \in Nat \ {0}
  /\ NULL # "proc_count"

Main    == 1
Threads == Procs \ {Main}
Chan    == "proc_count"    \* sleep(&proc_count, &lock)

VARIABLES count, proc_count,
          entered,   \* how many calls of barrier_lock() the thread has counted
          passed,    \* how many of its calls have left the loop and woken the others
          cycle      \* how many cycles main has begun

bvars == <<count, proc_count, entered, passed, cycle>>
vars  == <<kvars, lk, bvars>>

MainLabels == {"main.count", "main.lock", "main.n", "main.create", "main.join"}
Labels == SleepLabels \cup MainLabels \cup {"user", "barrier.wakeup", "exit"}

Init ==
  /\ state      = [p \in Procs |-> IF p = Main THEN "RUNNABLE" ELSE "UNUSED"]
  /\ chan       = [p \in Procs |-> NULL]
  /\ killed     = [p \in Procs |-> FALSE]
  /\ cproc      = [c \in CPUs |-> NULL]
  /\ ptlock     = NULL
  /\ pc         = [p \in Procs |-> IF p = Main THEN "main.count" ELSE "exit"]
  /\ lk         = NULL
  /\ count      = 0
  /\ proc_count = 0
  /\ entered    = [p \in Threads |-> 0]
  /\ passed     = [p \in Threads |-> 0]
  /\ cycle      = 0

-----------------------------------------------------------------------------
(* main: barrier_init(), then thread_create() and thread_join(), which Proc *)
(* models; here they only start the threads and wait for them to exit.     *)

MainAt(c, label) == Runs(c, Main) /\ pc[Main] = label

InitCount(c) ==
  /\ MainAt(c, "main.count")
  /\ cycle < Cycles
  /\ cycle' = cycle + 1
  /\ count' = 0
  /\ Goto(Main, "main.lock")
  /\ UNCHANGED <<state, chan, killed, cproc, ptlock, lk, proc_count, entered, passed>>

\* initlock() makes the lock free, whoever holds it.
InitLock(c) ==
  /\ MainAt(c, "main.lock")
  /\ lk' = NULL
  /\ Goto(Main, "main.n")
  /\ UNCHANGED <<state, chan, killed, cproc, ptlock, bvars>>

InitProcCount(c) ==
  /\ MainAt(c, "main.n")
  /\ proc_count' = Parties
  /\ Goto(Main, "main.create")
  /\ UNCHANGED <<state, chan, killed, cproc, ptlock, lk, count, entered, passed, cycle>>

CreateThreads(c) ==
  /\ MainAt(c, "main.create")
  /\ ptlock = NULL
  /\ state' = [p \in Procs |-> IF p = Main THEN state[p] ELSE "RUNNABLE"]
  /\ pc' = [p \in Procs |-> IF p = Main THEN "main.join" ELSE "user"]
  /\ entered' = [p \in Threads |-> 0]
  /\ passed' = [p \in Threads |-> 0]
  /\ UNCHANGED <<chan, killed, cproc, ptlock, lk, count, proc_count, cycle>>

JoinThreads(c) ==
  /\ MainAt(c, "main.join")
  /\ ptlock = NULL
  /\ \A p \in Threads : state[p] = "ZOMBIE"
  /\ state' = [p \in Procs |-> IF p = Main THEN state[p] ELSE "UNUSED"]
  /\ Goto(Main, "main.count")
  /\ UNCHANGED <<chan, killed, cproc, ptlock, lk, bvars>>

MainStep(c) ==
  \/ InitCount(c) \/ InitLock(c) \/ InitProcCount(c)
  \/ CreateThreads(c) \/ JoinThreads(c)

-----------------------------------------------------------------------------
(* barrier_lock()                                                          *)

\* Mutant: the loop lets the last but one thread through.
BlockedEarly(n) == n < proc_count - 1

\* The condition of the loop.
Blocked(n) == n < proc_count

\* What the loop does with lock held, when count is n: sleep() or leave.
Loop(c, p, n) ==
  /\ lk' = c
  /\ Goto(p, IF Blocked(n) THEN "sleep.acquire" ELSE "barrier.wakeup")

\* acquire(&lock); count += 1; the first test of the loop.
BarrierLock(c, p) ==
  /\ Runs(c, p)
  /\ pc[p] = "user"
  /\ entered[p] < Calls
  /\ lk = NULL
  /\ count' = count + 1
  /\ entered' = [entered EXCEPT ![p] = @ + 1]
  /\ Loop(c, p, count + 1)
  /\ UNCHANGED <<state, chan, killed, cproc, ptlock, proc_count, passed, cycle>>

\* sleep() has returned with lock held: the next test.
BarrierRetest(c, p) ==
  /\ Runs(c, p)
  /\ pc[p] = "sleep.relock"
  /\ lk = NULL
  /\ Loop(c, p, count)
  /\ UNCHANGED <<state, chan, killed, cproc, ptlock, bvars>>

\* Mutant: the thread that opens the barrier tells nobody.
WakeupNobody == state

\* wakeup(&proc_count)
WakeupAll == Wakeup1(state, Chan)

\* wakeup() takes ptable.lock; then release(&lock) and return.
BarrierWakeup(c, p) ==
  /\ Runs(c, p)
  /\ pc[p] = "barrier.wakeup"
  /\ ptlock = NULL
  /\ state' = WakeupAll
  /\ lk' = NULL
  /\ passed' = [passed EXCEPT ![p] = @ + 1]
  /\ Goto(p, "user")
  /\ UNCHANGED <<chan, killed, cproc, ptlock, count, proc_count, entered, cycle>>

\* A thread exits when it has made its calls.
Exit(c, p) ==
  /\ Runs(c, p)
  /\ pc[p] = "user"
  /\ entered[p] = Calls
  /\ ptlock = NULL
  /\ Sched(c, p, "ZOMBIE", state)
  /\ Goto(p, "exit")
  /\ UNCHANGED <<chan, killed, lk, bvars>>

ThreadStep(c, p) ==
  \/ BarrierLock(c, p) \/ BarrierRetest(c, p) \/ BarrierWakeup(c, p) \/ Exit(c, p)
  \/ SleepStep(c, p, Chan) /\ UNCHANGED bvars

Next ==
  \E c \in CPUs :
    \/ SchedStep(c) /\ UNCHANGED bvars
    \/ MainStep(c)
    \/ \E p \in Threads : ThreadStep(c, p)

Spec == Init /\ [][Next]_vars

\* The CPUs keep executing, timer interrupts keep coming, every RUNNABLE
\* process is eventually drawn, and programs go on when they have the CPU.
FairSpec ==
  /\ Spec
  /\ WF_vars(\E c \in CPUs : SchedAcquire(c) /\ UNCHANGED <<lk, bvars>>)
  /\ \A c \in CPUs :
       WF_vars((SchedRelease(c) \/ \E p \in Procs : Dispatch(c, p)) /\ UNCHANGED <<lk, bvars>>)
  /\ SF_vars(\E c \in CPUs, p \in Procs : lk # c /\ Yield(c, p) /\ UNCHANGED <<lk, bvars>>)
  /\ \A p \in Procs :
       /\ SF_vars(\E c \in CPUs : Dispatch(c, p) /\ UNCHANGED <<lk, bvars>>)
       /\ WF_vars(\E c \in CPUs : Resume(c, p, SleepLocked) /\ UNCHANGED <<lk, bvars>>)
  /\ SF_vars(\E c \in CPUs : MainStep(c))
  /\ \A p \in Threads : SF_vars(\E c \in CPUs : ThreadStep(c, p))

-----------------------------------------------------------------------------
\* Every variable has its type.
TypeOK ==
  /\ state \in [Procs -> States]
  /\ chan \in [Procs -> {Chan, NULL}]
  /\ killed \in [Procs -> BOOLEAN]
  /\ cproc \in [CPUs -> Procs \cup {NULL}]
  /\ ptlock \in CPUs \cup {NULL}
  /\ lk \in CPUs \cup {NULL}
  /\ pc \in [Procs -> Labels]
  /\ count \in Nat
  /\ proc_count \in Nat
  /\ entered \in [Threads -> 0..Calls]
  /\ passed \in [Threads -> 0..Calls]
  /\ cycle \in 0..Cycles

\* "wait at the barrier until all the threads reach the barrier": when a
\* thread has left barrier_lock() for the r-th time, at least Parties threads
\* have called it for the r-th time.
Separation ==
  \A p \in Threads : passed[p] > 0 =>
    Cardinality({q \in Threads : entered[q] >= passed[p]}) >= Parties

\* No wakeup is lost: when the barrier is open and a thread sleeps on it, or
\* is past the last test before it sleeps, some thread that has lock is about
\* to call wakeup().
NoLostWakeup ==
  \A p \in Threads :
    /\ ~Blocked(count)
    /\ \/ pc[p] \in {"sleep.acquire", "sleep.release", "sleep.switch"}
       \/ state[p] = "SLEEPING"
    => \E q \in Threads : pc[q] = "barrier.wakeup"

\* "When the last thread arrives at the barrier, all the threads resume
\* execution": every cycle comes to its end.
AllResume == <>(cycle = Cycles /\ pc[Main] = "main.count")

-----------------------------------------------------------------------------
(* The inductive invariant behind the safety properties (BarrierProofs).   *)

\* Labels at which a thread is inside lock, and inside ptable.lock on its way
\* into sleep(); labels of a call of barrier_lock() that is not over.
InLock   == {"sleep.acquire", "sleep.release", "barrier.wakeup"}
InPtable == {"sleep.release", "sleep.switch"}
InCall   == SleepLabels \cup {"barrier.wakeup"}

\* Locks stay with the CPU whose process took them.
HandOffInv ==
  /\ \A p \in Procs : pc[p] \in InLock => \E c \in CPUs : cproc[c] = p /\ lk = c
  /\ \A p \in Procs : pc[p] \in InPtable => \E c \in CPUs : cproc[c] = p /\ ptlock = c

\* The barrier is initialised while main has no threads, and only then.
MainInv ==
  /\ pc[Main] \in MainLabels
  /\ state[Main] \in {"RUNNABLE", "RUNNING"}
  /\ \A p \in Threads : pc[p] \notin MainLabels
  /\ pc[Main] # "main.join" => \A p \in Threads : pc[p] = "exit"
  /\ pc[Main] \in {"main.create", "main.join"} => proc_count = Parties

\* Where the threads are, and what they have counted.
ThreadInv ==
  \A p \in Threads :
    /\ pc[p] = "exit" <=> state[p] \in {"UNUSED", "ZOMBIE"}
    /\ state[p] = "SLEEPING" => pc[p] = "sleep.wake" /\ chan[p] = Chan
    /\ pc[p] = "user" => passed[p] = entered[p]
    /\ pc[p] \in InCall => passed[p] + 1 = entered[p]
    /\ pc[p] = "barrier.wakeup" => ~Blocked(count)

Entered == {p \in Threads : entered[p] >= 1}

\* When every thread calls barrier_lock() once, count is the number of threads
\* that have called it.
CountInv ==
  Calls = 1 =>
    /\ pc[Main] = "main.join" => count = Cardinality(Entered)
    /\ pc[Main] \in {"main.lock", "main.n", "main.create"} => count = 0
    /\ Separation

BarrierInv ==
  TypeOK /\ OneCpuPerProc /\ HandOffInv /\ MainInv /\ ThreadInv /\ NoLostWakeup /\ CountInv

=============================================================================
