------------------------------- MODULE Proc -------------------------------
(***************************************************************************)
(* The life of processes and threads in xv6 (proc.c): allocproc, fork,     *)
(* clone, exit, wait, join, kill, and the part of exec that replaces the   *)
(* address space.                                                          *)
(*                                                                         *)
(* A critical section of ptable.lock that does not give up the CPU is one  *)
(* step; what the code does outside the lock (kalloc, copyuvm, the         *)
(* failure paths, the thread counter) is a step of its own.                *)
(*                                                                         *)
(* Memory is a pool of pages (kalloc.c).  kstack[p] is a page; pgdir[p] is *)
(* a page that stands for the whole address space freed by freevm().       *)
(* p->refs is never initialised, so *p->refs is the word at virtual        *)
(* address 0 of the address space (program text): word0[pg] is how far     *)
(* that word has moved from what exec() loaded there.                      *)
(***************************************************************************)
EXTENDS Kthread, FiniteSets

CONSTANTS Pages,      \* physical pages handed out by kalloc()
          Heads(_),   \* the pages of a set that may be at the head of kmem.freelist
          Calls,      \* the system calls user programs make
          KillPids,   \* the arguments user programs pass to kill()
          MaxPid,     \* bound: no process is created once nextpid > MaxPid
          Disciplined \* programs join their threads before anything that frees memory

SysCalls == {"fork", "clone", "exit", "wait", "join", "kill", "exec"}

ASSUME ProcAssumption ==
  /\ Calls \subseteq SysCalls
  /\ KillPids \subseteq Nat
  /\ MaxPid \in Nat
  /\ Disciplined \in BOOLEAN
  /\ NULL \notin Pages
  /\ \A S \in SUBSET Pages : Heads(S) \subseteq S /\ (S # {} => Heads(S) # {})

InitProc == 1

VARIABLES pid,       \* p->pid
          parent,    \* p->parent
          kstack,    \* p->kstack
          pgdir,     \* p->pgdir
          nextpid,
          freelist,  \* kmem.freelist, order abstracted
          word0,     \* change of the word at virtual address 0, per address space
          np,        \* local np / new_process of fork() and clone()
          tmp,       \* the value of *refs loaded by clone() or join()
          shell      \* init.c: the slot whose pid init waits for, or NULL

pvars == <<pid, parent, kstack, pgdir, nextpid, freelist, word0, np, tmp, shell>>
vars  == <<kvars, pvars>>

\* Labels inside ptable.lock: sleep() returns there with the lock held.
LockedLabels == {"wait", "join", "join.store"}

Labels == LockedLabels \cup
  {"user", "sys", "exit", "panic",
   "fork.kalloc", "fork.copyuvm", "fork.publish",
   "clone.kalloc", "clone.share", "clone.publish", "clone.load", "clone.store"}

-----------------------------------------------------------------------------
(* main() up to scheduler(): userinit() has made initproc RUNNABLE.        *)
Init ==
  \E ks \in Heads(Pages) : \E pg \in Heads(Pages \ {ks}) :
    /\ state    = [p \in Procs |-> IF p = InitProc THEN "RUNNABLE" ELSE "UNUSED"]
    /\ chan     = [p \in Procs |-> NULL]
    /\ killed   = [p \in Procs |-> FALSE]
    /\ cproc    = [c \in CPUs |-> NULL]
    /\ ptlock   = NULL
    /\ pc       = [p \in Procs |-> "user"]
    /\ pid      = [p \in Procs |-> IF p = InitProc THEN 1 ELSE 0]
    /\ parent   = [p \in Procs |-> NULL]
    /\ kstack   = [p \in Procs |-> IF p = InitProc THEN ks ELSE NULL]
    /\ pgdir    = [p \in Procs |-> IF p = InitProc THEN pg ELSE NULL]
    /\ nextpid  = 2
    /\ freelist = Pages \ {ks, pg}
    /\ word0    = [g \in Pages |-> 0]
    /\ np       = [p \in Procs |-> NULL]
    /\ tmp      = [p \in Procs |-> 0]
    /\ shell    = NULL

\* trap(): a system call.  p->killed is tested here, before syscall(), and
\* may be set by another CPU before the call does anything.
TrapEnter(c, p) ==
  /\ Runs(c, p)
  /\ pc[p] = "user"
  /\ ~killed[p]
  /\ Goto(p, "sys")
  /\ UNCHANGED <<state, chan, killed, cproc, ptlock, pvars>>

Kids(p) == {q \in Procs : parent[q] = p}

\* Mutant: join() takes any child for a thread.
ThreadsAnyChild(p) == Kids(p)

\* The children that join() looks for: they share the address space.
Threads(p) == {q \in Kids(p) : pgdir[q] = pgdir[p]}

\* The part of the system's correctness that rests on user programs: p has
\* joined its threads before it calls exit() or wait(), and calls exec() only
\* when nobody shares its address space.
Careful(p, f) ==
  /\ f \in {"exit", "wait"} => Threads(p) = {}
  /\ f = "exec" => \A q \in Procs \ {p} : state[q] # "UNUSED" => pgdir[q] # pgdir[p]

\* init.c forks a shell and waits until that shell has exited.
InitCall(f) == f = IF shell = NULL THEN "fork" ELSE "wait"

\* syscall() dispatches to system call f.
Call(c, p, f) ==
  /\ Runs(c, p)
  /\ pc[p] = "sys"
  /\ f \in Calls
  /\ Disciplined => Careful(p, f)
  /\ p = InitProc => InitCall(f)

\* A system call that does nothing here: getpid(), kill() of a pid nobody has,
\* exec() of a bad file.
OtherCall(c, p) ==
  /\ Runs(c, p)
  /\ p # InitProc
  /\ pc[p] = "sys"
  /\ Goto(p, "user")
  /\ UNCHANGED <<state, chan, killed, cproc, ptlock, pvars>>

\* Return from fork() with -1: init.c exits, other programs go on.
ForkFailed(p) == Goto(p, IF p = InitProc THEN "exit" ELSE "user")

-----------------------------------------------------------------------------
(* allocproc(): the scan for an UNUSED slot, under ptable.lock.            *)

Unused == {q \in Procs : state[q] = "UNUSED"}

AllocFound(c, p, q, label) ==
  /\ ptlock = NULL
  /\ nextpid <= MaxPid
  /\ First(Unused, q)
  /\ state' = [state EXCEPT ![q] = "EMBRYO"]
  /\ pid' = [pid EXCEPT ![q] = nextpid]
  /\ nextpid' = nextpid + 1
  /\ np' = [np EXCEPT ![p] = q]
  /\ Goto(p, label)
  /\ UNCHANGED <<chan, killed, cproc, ptlock, parent, kstack, pgdir, freelist, word0, tmp, shell>>

\* allocproc() finds no slot and returns 0.
AllocNone(c, p) ==
  /\ ptlock = NULL
  /\ Unused = {}
  /\ ForkFailed(p)
  /\ UNCHANGED <<state, chan, killed, cproc, ptlock, pvars>>

ForkCall(c, p) ==
  /\ Call(c, p, "fork")
  /\ \/ \E q \in Procs : AllocFound(c, p, q, "fork.kalloc")
     \/ AllocNone(c, p)

CloneCall(c, p) ==
  /\ Call(c, p, "clone")
  /\ \/ \E q \in Procs : AllocFound(c, p, q, "clone.kalloc")
     \/ AllocNone(c, p)

\* allocproc() after the lock is released: the kernel stack.  When kalloc()
\* fails the slot becomes UNUSED again, its pid left as it is.
AllocKstack(c, p, from, to) ==
  /\ Runs(c, p)
  /\ pc[p] = from
  /\ \/ \E g \in Heads(freelist) :
          /\ freelist' = freelist \ {g}
          /\ kstack' = [kstack EXCEPT ![np[p]] = g]
          /\ Goto(p, to)
          /\ UNCHANGED <<state, np>>
     \/ /\ freelist = {}
        /\ kstack' = [kstack EXCEPT ![np[p]] = NULL]
        /\ state' = [state EXCEPT ![np[p]] = "UNUSED"]
        /\ np' = [np EXCEPT ![p] = NULL]
        /\ ForkFailed(p)
        /\ UNCHANGED freelist
  /\ UNCHANGED <<chan, killed, cproc, ptlock, pid, parent, pgdir, nextpid, word0, tmp, shell>>

ForkKstack(c, p)  == AllocKstack(c, p, "fork.kalloc", "fork.copyuvm")
CloneKstack(c, p) == AllocKstack(c, p, "clone.kalloc", "clone.share")

\* fork(): copyuvm() makes a copy of the address space, or fails and the
\* slot and its kernel stack are given back.
ForkCopyuvm(c, p) ==
  /\ Runs(c, p)
  /\ pc[p] = "fork.copyuvm"
  /\ \/ \E g \in Heads(freelist) :
          /\ freelist' = freelist \ {g}
          /\ pgdir' = [pgdir EXCEPT ![np[p]] = g]
          /\ word0' = [word0 EXCEPT ![g] = word0[pgdir[p]]]
          /\ parent' = [parent EXCEPT ![np[p]] = p]
          /\ Goto(p, "fork.publish")
          /\ UNCHANGED <<state, kstack, np>>
     \/ /\ freelist = {}
        /\ pgdir' = [pgdir EXCEPT ![np[p]] = NULL]
        /\ freelist' = freelist \cup {kstack[np[p]]}
        /\ kstack' = [kstack EXCEPT ![np[p]] = NULL]
        /\ state' = [state EXCEPT ![np[p]] = "UNUSED"]
        /\ np' = [np EXCEPT ![p] = NULL]
        /\ ForkFailed(p)
        /\ UNCHANGED <<parent, word0>>
  /\ UNCHANGED <<chan, killed, cproc, ptlock, pid, nextpid, tmp, shell>>

\* The new process becomes RUNNABLE, under ptable.lock; it will start in
\* user space.
Publish(c, p, from, to) ==
  /\ Runs(c, p)
  /\ pc[p] = from
  /\ ptlock = NULL
  /\ state' = [state EXCEPT ![np[p]] = "RUNNABLE"]
  /\ pc' = [pc EXCEPT ![p] = to, ![np[p]] = "user"]
  /\ np' = [np EXCEPT ![p] = NULL]
  /\ shell' = IF p = InitProc THEN np[p] ELSE shell
  /\ UNCHANGED <<chan, killed, cproc, ptlock, pid, parent, kstack, pgdir,
                 nextpid, freelist, word0, tmp>>

ForkPublish(c, p)  == Publish(c, p, "fork.publish", "user")
ClonePublish(c, p) == Publish(c, p, "clone.publish", "clone.load")

\* clone(): the thread shares the caller's address space.
CloneShare(c, p) ==
  /\ Runs(c, p)
  /\ pc[p] = "clone.share"
  /\ pgdir' = [pgdir EXCEPT ![np[p]] = pgdir[p]]
  /\ parent' = [parent EXCEPT ![np[p]] = p]
  /\ Goto(p, "clone.publish")
  /\ UNCHANGED <<state, chan, killed, cproc, ptlock, pid, kstack, nextpid,
                 freelist, word0, np, tmp, shell>>

\* clone(): *new_process->refs += 1, after the lock is released.
CloneLoad(c, p) ==
  /\ Runs(c, p)
  /\ pc[p] = "clone.load"
  /\ tmp' = [tmp EXCEPT ![p] = word0[pgdir[p]]]
  /\ Goto(p, "clone.store")
  /\ UNCHANGED <<state, chan, killed, cproc, ptlock, pid, parent, kstack, pgdir,
                 nextpid, freelist, word0, np, shell>>

CloneStore(c, p) ==
  /\ Runs(c, p)
  /\ pc[p] = "clone.store"
  /\ word0' = [word0 EXCEPT ![pgdir[p]] = tmp[p] + 1]
  /\ tmp' = [tmp EXCEPT ![p] = 0]
  /\ Goto(p, "user")
  /\ UNCHANGED <<state, chan, killed, cproc, ptlock, pid, parent, kstack, pgdir,
                 nextpid, freelist, np, shell>>

-----------------------------------------------------------------------------
(* exit()                                                                  *)

\* A program calls exit(), or clone() with a stack outside its memory.
ExitCall(c, p) ==
  /\ Call(c, p, "exit")
  /\ Goto(p, "exit")
  /\ UNCHANGED <<state, chan, killed, cproc, ptlock, pvars>>

\* trap() finds p->killed set, on the way in or out of the kernel.
TrapKilled(c, p) ==
  /\ Runs(c, p)
  /\ pc[p] = "user"
  /\ killed[p]
  /\ Goto(p, "exit")
  /\ UNCHANGED <<state, chan, killed, cproc, ptlock, pvars>>

ExitPanic(c, p) ==
  /\ Runs(c, p)
  /\ pc[p] = "exit"
  /\ p = InitProc
  /\ Goto(p, "panic")
  /\ UNCHANGED <<state, chan, killed, cproc, ptlock, pvars>>

\* Mutant: the children keep their parent.
ReparentNobody(p) == parent

\* The p->parent fields after the children of p were passed to init.
Reparent(p) == [q \in Procs |-> IF parent[q] = p THEN InitProc ELSE parent[q]]

\* Mutant: nobody is woken.
ExitWakesNobody(p) == state

\* Mutant: init is not told of the zombies it inherits.
ExitWakesParent(p) == Wakeup1(state, parent[p])

\* Wake the parent; wake init when an abandoned child is a zombie.
ExitWakeups(p) ==
  LET st == Wakeup1(state, parent[p])
  IN  IF \E q \in Procs : parent[q] = p /\ st[q] = "ZOMBIE"
      THEN Wakeup1(st, InitProc)
      ELSE st

\* Files and cwd are closed; the section under ptable.lock ends in sched().
ExitFinish(c, p) ==
  /\ Runs(c, p)
  /\ pc[p] = "exit"
  /\ p # InitProc
  /\ ptlock = NULL
  /\ parent' = Reparent(p)
  /\ Sched(c, p, "ZOMBIE", ExitWakeups(p))
  /\ UNCHANGED <<chan, killed, pc, pid, kstack, pgdir, nextpid, freelist, word0, np, tmp,
                 shell>>

-----------------------------------------------------------------------------
(* wait() and join()                                                       *)
Zombies(S) == {q \in S : state[q] = "ZOMBIE"}

\* Mutant: p->kstack is cleared before it is freed.
WaitFreesCleared(q) == {kstack'[q], pgdir[q]}

\* The pages wait() gives back: kernel stack and address space.
WaitFrees(q) == {kstack[q], pgdir[q]}

\* The fields of slot q that wait() and join() reset; the pages in freed go
\* back to kalloc.
Reap(c, p, q, freed) ==
  /\ state' = [state EXCEPT ![q] = "UNUSED"]
  /\ pid' = [pid EXCEPT ![q] = 0]
  /\ parent' = [parent EXCEPT ![q] = NULL]
  /\ killed' = [killed EXCEPT ![q] = FALSE]
  /\ kstack' = [kstack EXCEPT ![q] = NULL]
  /\ freelist' = freelist \cup freed
  /\ word0' = [g \in Pages |-> IF g \in freed THEN 0 ELSE word0[g]]
  /\ chan' = [chan EXCEPT ![p] = NULL]
  /\ UNCHANGED <<cproc, pgdir, nextpid, np>>

\* sleep(p, &ptable.lock)
SleepOnSelf(c, p, label) ==
  /\ chan' = [chan EXCEPT ![p] = p]
  /\ Sched(c, p, "SLEEPING", state)
  /\ Goto(p, label)
  /\ UNCHANGED <<killed, pvars>>

\* One round of the loop of wait(), inside ptable.lock.
WaitLoop(c, p) ==
  \/ \E q \in Procs :
       /\ First(Zombies(Kids(p)), q)
       /\ Reap(c, p, q, WaitFrees(q))
       /\ ptlock' = NULL
       /\ Goto(p, "user")
       /\ shell' = IF p = InitProc /\ q = shell THEN NULL ELSE shell
       /\ UNCHANGED tmp
  \/ /\ Zombies(Kids(p)) = {}
     /\ Kids(p) = {} \/ killed[p]
     /\ ptlock' = NULL
     /\ chan' = [chan EXCEPT ![p] = NULL]
     /\ Goto(p, "user")
     /\ shell' = IF p = InitProc THEN NULL ELSE shell
     /\ UNCHANGED <<state, killed, cproc, pid, parent, kstack, pgdir, nextpid, freelist,
                    word0, np, tmp>>
  \/ /\ Zombies(Kids(p)) = {}
     /\ Kids(p) # {}
     /\ ~killed[p]
     /\ SleepOnSelf(c, p, "wait")

WaitCall(c, p)   == Call(c, p, "wait") /\ ptlock = NULL /\ WaitLoop(c, p)
WaitResume(c, p) == Holds(c, p) /\ pc[p] = "wait" /\ WaitLoop(c, p)

\* One round of the loop of join(): only threads, no look at p->killed, and
\* the address space is not freed.  *process->refs -= 1 is a load here and a
\* store in JoinStore, both inside ptable.lock.
JoinLoop(c, p) ==
  \/ \E q \in Procs :
       /\ First(Zombies(Threads(p)), q)
       /\ Reap(c, p, q, {kstack[q]})
       /\ ptlock' = c
       /\ tmp' = [tmp EXCEPT ![p] = word0[pgdir[p]]]
       /\ Goto(p, "join.store")
       /\ UNCHANGED shell
  \/ /\ Zombies(Threads(p)) = {}
     /\ SleepOnSelf(c, p, "join")

JoinCall(c, p)   == Call(c, p, "join") /\ ptlock = NULL /\ JoinLoop(c, p)
JoinResume(c, p) == Holds(c, p) /\ pc[p] = "join" /\ JoinLoop(c, p)

JoinStore(c, p) ==
  /\ Holds(c, p)
  /\ pc[p] = "join.store"
  /\ word0' = [word0 EXCEPT ![pgdir[p]] = tmp[p] - 1]
  /\ tmp' = [tmp EXCEPT ![p] = 0]
  /\ ptlock' = NULL
  /\ Goto(p, "user")
  /\ UNCHANGED <<state, chan, killed, cproc, pid, parent, kstack, pgdir, nextpid, freelist, np,
                 shell>>

-----------------------------------------------------------------------------
\* Mutant: kill() leaves a sleeping process asleep.
KillWakesNobody(q) == state

\* kill() wakes the process from sleep if necessary.
KillWakes(q) == [state EXCEPT ![q] = IF @ = "SLEEPING" THEN "RUNNABLE" ELSE @]

\* kill(k): the first slot with that pid, whatever its state.
Kill(c, p, k) ==
  /\ Call(c, p, "kill")
  /\ ptlock = NULL
  /\ \E q \in Procs :
       /\ First({r \in Procs : pid[r] = k}, q)
       /\ killed' = [killed EXCEPT ![q] = TRUE]
       /\ state' = KillWakes(q)
  /\ Goto(p, "user")
  /\ UNCHANGED <<chan, cproc, ptlock, pvars>>

\* exec(): build a new address space, switch to it, free the old one.
Exec(c, p) ==
  /\ Call(c, p, "exec")
  /\ \E g \in Heads(freelist) :
       /\ pgdir' = [pgdir EXCEPT ![p] = g]
       /\ freelist' = (freelist \ {g}) \cup {pgdir[p]}
       /\ word0' = [word0 EXCEPT ![g] = 0, ![pgdir[p]] = 0]
  /\ Goto(p, "user")
  /\ UNCHANGED <<state, chan, killed, cproc, ptlock, pid, parent, kstack, nextpid, np, tmp,
                 shell>>

-----------------------------------------------------------------------------
\* Steps of a process inside the kernel.
KernelStep(c, p) ==
  \/ ForkKstack(c, p) \/ ForkCopyuvm(c, p) \/ ForkPublish(c, p)
  \/ CloneKstack(c, p) \/ CloneShare(c, p) \/ ClonePublish(c, p)
  \/ CloneLoad(c, p) \/ CloneStore(c, p)
  \/ ExitPanic(c, p) \/ ExitFinish(c, p)
  \/ WaitResume(c, p) \/ JoinResume(c, p) \/ JoinStore(c, p)

\* The system call the program chose.
SysStep(c, p) ==
  \/ ForkCall(c, p) \/ CloneCall(c, p) \/ ExitCall(c, p)
  \/ WaitCall(c, p) \/ JoinCall(c, p) \/ Exec(c, p)
  \/ \E k \in KillPids : Kill(c, p, k)
  \/ OtherCall(c, p)

\* A timer interrupt on c.  panic() has disabled interrupts.
Tick(c, p) == pc[p] # "panic" /\ Yield(c, p)

\* The scheduler of c, and the timer interrupt on c.
CpuStep(c) ==
  /\ \/ SchedAcquire(c)
     \/ SchedRelease(c)
     \/ \E p \in Procs : Dispatch(c, p)
     \/ \E p \in Procs : Tick(c, p)
     \/ \E p \in Procs : Resume(c, p, LockedLabels)
  /\ UNCHANGED pvars

Next ==
  \E c \in CPUs :
    \/ CpuStep(c)
    \/ \E p \in Procs :
         TrapEnter(c, p) \/ TrapKilled(c, p) \/ SysStep(c, p) \/ KernelStep(c, p)

Spec == Init /\ [][Next]_vars

-----------------------------------------------------------------------------
(* Fairness.  A CPU keeps executing, and gets a spin lock that is free     *)
(* again and again.  Timer interrupts keep coming.  The lottery gives every *)
(* RUNNABLE process a turn: all hold DEFAULT_TICKETS or their creator's.    *)
(* A process in the kernel, or killed, goes on when it has the CPU; what   *)
(* user programs do is not assumed, but for init.c, which keeps calling.   *)

ProcStep(c, p) ==
  \/ TrapKilled(c, p) \/ SysStep(c, p) \/ KernelStep(c, p)
  \/ p = InitProc /\ TrapEnter(c, p)

Fairness ==
  /\ WF_vars(\E c \in CPUs : SchedAcquire(c) /\ UNCHANGED pvars)
  /\ \A c \in CPUs :
       WF_vars((SchedRelease(c) \/ \E p \in Procs : Dispatch(c, p)) /\ UNCHANGED pvars)
  /\ SF_vars(\E c \in CPUs, p \in Procs : Tick(c, p) /\ UNCHANGED pvars)
  /\ \A p \in Procs :
       /\ SF_vars(\E c \in CPUs : Dispatch(c, p) /\ UNCHANGED pvars)
       /\ WF_vars(\E c \in CPUs : Resume(c, p, LockedLabels) /\ UNCHANGED pvars)
       /\ SF_vars(\E c \in CPUs : ProcStep(c, p))

FairSpec == Spec /\ Fairness

-----------------------------------------------------------------------------
(* Properties                                                              *)

\* Every variable has its type.
TypeOK ==
  /\ state \in [Procs -> States]
  /\ chan \in [Procs -> Procs \cup {NULL}]
  /\ killed \in [Procs -> BOOLEAN]
  /\ cproc \in [CPUs -> Procs \cup {NULL}]
  /\ ptlock \in CPUs \cup {NULL}
  /\ pc \in [Procs -> Labels]
  /\ pid \in [Procs -> Nat]
  /\ parent \in [Procs -> Procs \cup {NULL}]
  /\ kstack \in [Procs -> Pages \cup {NULL}]
  /\ pgdir \in [Procs -> Pages \cup {NULL}]
  /\ nextpid \in Nat
  /\ freelist \subseteq Pages
  /\ word0 \in [Pages -> Int]
  /\ np \in [Procs -> Procs \cup {NULL}]
  /\ tmp \in [Procs -> Int]
  /\ shell \in Procs \cup {NULL}

\* No exit is missed: while a process sleeps in wait() (join()), none of its
\* children (threads) is already a zombie, so the wakeup1() in exit() always
\* reaches it.
NoMissedExit ==
  \A p \in Procs : state[p] = "SLEEPING" =>
    /\ pc[p] = "wait" => Zombies(Kids(p)) = {}
    /\ pc[p] = "join" => Zombies(Threads(p)) = {}

Started(p) == state[p] \in {"SLEEPING", "RUNNABLE", "RUNNING", "ZOMBIE"}

\* exit() leaves no orphan: the parent of every started process but init is
\* another process that can still wait for it.
ParentAlive ==
  \A p \in Procs \ {InitProc} : Started(p) =>
    /\ parent[p] \in Procs \ {p}
    /\ Started(parent[p])
    /\ state[parent[p]] # "ZOMBIE"

\* An address space belongs to p: copied for it, and not yet freed by wait().
HasSpace(p) == Started(p) \/ (state[p] = "EMBRYO" /\ parent[p] # NULL)

\* Every page is free, or the kernel stack of one slot, or the address space
\* of processes, and never two of these: the failure paths of allocproc() and
\* fork(), and exec(), wait() and join() neither leak a page nor free one that
\* is in use.  With threads this rests on Disciplined programs.
PagesAccounted ==
  /\ \A p \in Procs : kstack[p] # NULL => kstack[p] \notin freelist
  /\ \A p \in Procs : HasSpace(p) => pgdir[p] \in Pages \ freelist
  /\ \A p, q \in Procs : kstack[p] = kstack[q] /\ kstack[p] # NULL => p = q
  /\ \A p, q \in Procs : HasSpace(p) => pgdir[p] # kstack[q]
  /\ \A g \in Pages \ freelist :
       \E p \in Procs : kstack[p] = g \/ (HasSpace(p) /\ pgdir[p] = g)

\* kill() takes effect: a killed process leaves user space through exit().
KilledExits ==
  \A p \in Procs \ {InitProc} :
    (killed[p] /\ Started(p)) ~> state[p] \in {"ZOMBIE", "UNUSED"}

Panicked == \E p \in Procs : pc[p] = "panic"

\* A zombie handed to init is reaped by init's wait() loop (unless init has
\* panicked, or the bound on pids keeps it from starting its next shell).
OrphanReaped ==
  \A p \in Procs :
    (state[p] = "ZOMBIE" /\ parent[p] = InitProc) ~>
      (state[p] = "UNUSED" \/ Panicked \/ (shell = NULL /\ nextpid > MaxPid))

-----------------------------------------------------------------------------
(* The inductive invariant behind the safety properties (ProcProofs).      *)

\* Labels at which p owns the EMBRYO slot np[p]; at which that slot has its
\* kernel stack; at which it is ready to be published.
Creating == {"fork.kalloc", "fork.copyuvm", "fork.publish",
             "clone.kalloc", "clone.share", "clone.publish"}
Stacked  == Creating \ {"fork.kalloc", "clone.kalloc"}
Ready    == {"fork.publish", "clone.publish"}

\* A slot under construction has exactly one creator, which cannot exit.
CreatorInv ==
  /\ \A p \in Procs : np[p] # NULL <=> pc[p] \in Creating
  /\ \A p, q \in Procs : np[p] = np[q] /\ np[p] # NULL => p = q
  /\ \A p \in Procs : pc[p] \in Creating =>
       state[p] \in {"RUNNABLE", "RUNNING"} /\ state[np[p]] = "EMBRYO"
  /\ \A p \in Procs : pc[p] \in Stacked => kstack[np[p]] \in Pages
  /\ \A p \in Procs : pc[p] \in Ready => parent[np[p]] = p /\ pgdir[np[p]] \in Pages

\* A process that was started has a kernel stack and an address space.
SpaceInv == \A p \in Procs : Started(p) => kstack[p] \in Pages /\ pgdir[p] \in Pages

\* Sleeping processes are in wait() or join(), on their own channel.
SleepInv == \A p \in Procs : state[p] = "SLEEPING" => pc[p] \in {"wait", "join"} /\ chan[p] = p

\* initproc is never a zombie, nor its slot free.
InitAlive == state[InitProc] \in {"SLEEPING", "RUNNABLE", "RUNNING"}

ProcInv ==
  /\ TypeOK
  /\ OneCpuPerProc
  /\ CreatorInv
  /\ SpaceInv
  /\ SleepInv
  /\ InitAlive
  /\ NoMissedExit
  /\ ParentAlive

=============================================================================
