------------------------------ MODULE Kthread ------------------------------
(***************************************************************************)
(* Kernel threads of xv6: the per-CPU scheduler loop, the hand-off of      *)
(* ptable.lock across swtch(), yield(), sleep() and wakeup1() (proc.c).    *)
(*                                                                         *)
(* A process p executes on CPU c when cpus[c].proc = p.  ptable.lock is    *)
(* recorded by the CPU that holds it, as spinlock.c does (lk->cpu).  The   *)
(* scheduler of c holds it while cproc[c] = NULL /\ ptlock = c; it passes  *)
(* it, still locked, to the process it switches to, and gets it back when  *)
(* that process calls sched().                                             *)
(*                                                                         *)
(* pc[p] is the place in p's kernel code where p continues; the modules    *)
(* that extend this one choose the labels.  The scheduler loop and the     *)
(* interrupt path are written so that no label is needed for them: a       *)
(* process that was switched in while its label is one of the unlocked     *)
(* ones still has to release ptable.lock (the end of yield() or forkret()).*)
(*                                                                         *)
(* The lottery draw only decides which RUNNABLE process runs, so here any  *)
(* RUNNABLE process may be dispatched.                                     *)
(***************************************************************************)
EXTENDS Integers

CONSTANTS NPROC,   \* number of slots of the process table
          CPUs,    \* the processors
          NULL     \* the null pointer

\* The table has a slot for initproc, and null is neither a CPU nor a process.
ASSUME KthreadAssumption ==
  /\ NPROC \in Nat \ {0}
  /\ NULL \notin CPUs
  /\ NULL \notin 1..NPROC

Procs == 1..NPROC

States == {"UNUSED", "EMBRYO", "SLEEPING", "RUNNABLE", "RUNNING", "ZOMBIE"}

VARIABLES state,    \* p->state
          chan,     \* p->chan, NULL when not sleeping
          killed,   \* p->killed
          cproc,    \* cpus[c].proc
          ptlock,   \* the CPU that holds ptable.lock, or NULL
          pc        \* where p continues in the kernel or in user code

kvars == <<state, chan, killed, cproc, ptlock, pc>>

\* p executes on c outside ptable.lock, with interrupts enabled as far as
\* ptable.lock is concerned.
Runs(c, p) == cproc[c] = p /\ ptlock # c

\* p executes on c inside ptable.lock.
Holds(c, p) == cproc[c] = p /\ ptlock = c

\* The first slot in table order that satisfies the loop's condition, which
\* is where every scan of ptable.proc[] stops.
First(S, p) == p \in S /\ \A q \in S : p <= q

Goto(p, label) == pc' = [pc EXCEPT ![p] = label]

-----------------------------------------------------------------------------
\* scheduler(): acquire ptable.lock at the top of the loop.
SchedAcquire(c) ==
  /\ cproc[c] = NULL
  /\ ptlock = NULL
  /\ ptlock' = c
  /\ UNCHANGED <<state, chan, killed, cproc, pc>>

\* Mutant: p->state stays RUNNABLE while p runs.
DispatchKeepsState(c, p) ==
  /\ cproc[c] = NULL
  /\ ptlock = c
  /\ state[p] = "RUNNABLE"
  /\ cproc' = [cproc EXCEPT ![c] = p]
  /\ UNCHANGED <<state, chan, killed, ptlock, pc>>

\* scheduler(): switch to the RUNNABLE process p that wins the draw.
Dispatch(c, p) ==
  /\ cproc[c] = NULL
  /\ ptlock = c
  /\ state[p] = "RUNNABLE"
  /\ state' = [state EXCEPT ![p] = "RUNNING"]
  /\ cproc' = [cproc EXCEPT ![c] = p]
  /\ UNCHANGED <<chan, killed, ptlock, pc>>

\* scheduler(): the scan is over.
SchedRelease(c) ==
  /\ cproc[c] = NULL
  /\ ptlock = c
  /\ ptlock' = NULL
  /\ UNCHANGED <<state, chan, killed, cproc, pc>>

\* sched(): p, inside ptable.lock, has set p->state to st and leaves the CPU;
\* the scheduler of c goes on with the lock held.  The rest of p->state, as
\* changed before the switch, is in rest.
Sched(c, p, st, rest) ==
  /\ state' = [rest EXCEPT ![p] = st]
  /\ cproc' = [cproc EXCEPT ![c] = NULL]
  /\ ptlock' = c

\* A timer interrupt at an interruptible label makes p call yield().
Yield(c, p) ==
  /\ Runs(c, p)
  /\ ptlock = NULL
  /\ Sched(c, p, "RUNNABLE", state)
  /\ UNCHANGED <<chan, killed, pc>>

\* The release of ptable.lock at the end of yield(), or in forkret() when p
\* runs for the first time.
Resume(c, p, lockedLabels) ==
  /\ Holds(c, p)
  /\ pc[p] \notin lockedLabels
  /\ ptlock' = NULL
  /\ UNCHANGED <<state, chan, killed, cproc, pc>>

\* wakeup1(): every process that sleeps on ch becomes RUNNABLE.
Wakeup1(st, ch) ==
  [q \in Procs |-> IF st[q] = "SLEEPING" /\ chan[q] = ch THEN "RUNNABLE" ELSE st[q]]

-----------------------------------------------------------------------------
\* A process is RUNNING exactly while some CPU executes it, and never two
\* CPUs at once: scheduler(), sched() and the hand-off of ptable.lock keep
\* p->state and cpus[].proc in step.
OneCpuPerProc ==
  /\ \A p \in Procs : state[p] = "RUNNING" <=> \E c \in CPUs : cproc[c] = p
  /\ \A c, d \in CPUs : cproc[c] = cproc[d] /\ cproc[c] # NULL => c = d

=============================================================================
