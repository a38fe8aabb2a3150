---------------------------- MODULE ProcProofs ----------------------------
(***************************************************************************)
(* Proofs about Proc for every number of processes, CPUs and pages.        *)
(*                                                                         *)
(* ProcInv is inductive.  The argument for each action is about one slot:  *)
(* the process that takes the step is RUNNING and on one CPU only, the     *)
(* slot it creates is EMBRYO and its alone, the slot it reaps is a ZOMBIE, *)
(* and everything else keeps its state or goes from SLEEPING to RUNNABLE.  *)
(*                                                                         *)
(* PagesInv is inductive on top of it: an address space belongs to one     *)
(* leader and the threads below it, and is freed when only the leader is   *)
(* left.                                                                   *)
(***************************************************************************)
EXTENDS Proc, WellFoundedInduction, TLAPS

\* What a step of p on c may rely on: p is RUNNING, hence started, and a
\* process started has its pages.
LEMMA RunningLemma ==
  ASSUME ProcInv, NEW c \in CPUs, NEW p \in Procs, cproc[c] = p
  PROVE  /\ state[p] = "RUNNING"
         /\ kstack[p] \in Pages
         /\ pgdir[p] \in Pages
  BY DEF ProcInv, OneCpuPerProc, SpaceInv, Started

\* main() leaves the table in a state that satisfies the invariant.
LEMMA InitLemma == Init => ProcInv
<1> SUFFICES ASSUME Init PROVE ProcInv
  OBVIOUS
<1> USE KthreadAssumption, ProcAssumption DEF Procs, InitProc
<1>1. PICK ks \in Heads(Pages), pg \in Pages :
        /\ state    = [p \in Procs |-> IF p = InitProc THEN "RUNNABLE" ELSE "UNUSED"]
        /\ kstack   = [p \in Procs |-> IF p = InitProc THEN ks ELSE NULL]
        /\ pgdir    = [p \in Procs |-> IF p = InitProc THEN pg ELSE NULL]
        /\ freelist = Pages \ {ks, pg}
  <2>1. \A ks \in Heads(Pages) : Heads(Pages \ {ks}) \subseteq Pages
    BY Pages \in SUBSET Pages
  <2> QED
    BY <2>1 DEF Init
<1>2. TypeOK
  <2>1. ks \in Pages
    BY Pages \in SUBSET Pages
  <2> QED
    BY <1>1, <2>1 DEF Init, TypeOK, States, Labels, LockedLabels
<1>3. OneCpuPerProc
  BY <1>1 DEF Init, OneCpuPerProc
<1>4. CreatorInv
  BY DEF Init, CreatorInv, Creating, Stacked, Ready
<1>5. SpaceInv
  BY <1>1 DEF SpaceInv, Started
<1>6. SleepInv /\ InitAlive
  BY <1>1 DEF SleepInv, InitAlive
<1>7. NoMissedExit /\ ParentAlive
  BY <1>1 DEF NoMissedExit, ParentAlive, Started
<1> QED
  BY <1>2, <1>3, <1>4, <1>5, <1>6, <1>7 DEF ProcInv

\* kalloc() hands out a free page.
LEMMA KallocLemma ==
  ASSUME TypeOK, NEW g \in Heads(freelist)
  PROVE  g \in freelist /\ g \in Pages
  BY ProcAssumption DEF TypeOK

\* The labels outside fork() and clone().
Elsewhere == Labels \ Creating

-----------------------------------------------------------------------------
(* Steps of fork() and clone().                                            *)

\* allocproc() makes an UNUSED slot the EMBRYO of p.
LEMMA AllocFoundLemma ==
  ASSUME ProcInv, NEW c \in CPUs, NEW p \in Procs, Runs(c, p), pc[p] = "sys",
         NEW q \in Procs, NEW label \in {"fork.kalloc", "clone.kalloc"},
         AllocFound(c, p, q, label)
  PROVE  ProcInv'
<1> USE RunningLemma DEF ProcInv, Goto, Runs, AllocFound
<1>0. state[q] = "UNUSED" /\ q # p
  BY DEF First, Unused
<1>1. TypeOK'
  BY DEF TypeOK, Labels, States
<1>2. OneCpuPerProc'
  BY <1>0 DEF OneCpuPerProc, TypeOK
<1>3. CreatorInv'
  <2>1. \A r \in Procs : np[r] # q
    BY <1>0, KthreadAssumption DEF CreatorInv, Procs
  <2>2. pc[p] \notin Creating /\ np[p] = NULL /\ q # NULL
    BY KthreadAssumption DEF CreatorInv, Creating, Procs
  <2>3. /\ np' = [np EXCEPT ![p] = q]
        /\ pc' = [pc EXCEPT ![p] = label]
        /\ state' = [state EXCEPT ![q] = "EMBRYO"]
        /\ UNCHANGED <<kstack, parent, pgdir>>
        /\ np \in [Procs -> Procs \cup {NULL}]
        /\ pc \in [Procs -> Labels]
        /\ state \in [Procs -> States]
        /\ label \in Creating /\ label \notin Stacked /\ label \notin Ready
    BY DEF TypeOK, Creating, Stacked, Ready
  <2>4. \A r \in Procs : np'[r] # NULL <=> pc'[r] \in Creating
    BY <2>2, <2>3 DEF CreatorInv
  <2>5. \A r, s \in Procs : np'[r] = np'[s] /\ np'[r] # NULL => r = s
    BY <2>1, <2>2, <2>3 DEF CreatorInv
  <2>6. \A r \in Procs : pc'[r] \in Creating =>
          state'[r] \in {"RUNNABLE", "RUNNING"} /\ state'[np'[r]] = "EMBRYO"
    BY <1>0, <2>1, <2>2, <2>3 DEF CreatorInv
  <2>7. \A r \in Procs : pc'[r] \in Stacked => kstack'[np'[r]] \in Pages
    BY <2>1, <2>2, <2>3 DEF CreatorInv
  <2>8. \A r \in Procs : pc'[r] \in Ready => parent'[np'[r]] = r /\ pgdir'[np'[r]] \in Pages
    BY <2>1, <2>2, <2>3 DEF CreatorInv
  <2> QED
    BY <2>4, <2>5, <2>6, <2>7, <2>8 DEF CreatorInv
<1>4. SpaceInv'
  BY <1>0 DEF SpaceInv, Started, TypeOK
<1>5. SleepInv'
  BY <1>0 DEF SleepInv, TypeOK
<1>6. InitAlive'
  BY <1>0 DEF InitAlive, TypeOK
<1>7. NoMissedExit'
  BY <1>0 DEF NoMissedExit, TypeOK, Zombies, Kids, Threads
<1>8. ParentAlive'
  BY <1>0 DEF ParentAlive, Started, TypeOK
<1> QED
  BY <1>1, <1>2, <1>3, <1>4, <1>5, <1>6, <1>7, <1>8

\* allocproc() has no kernel stack for the slot, or copyuvm() has failed: p
\* gives its slot up.
LEMMA GiveUpLemma ==
  ASSUME ProcInv, NEW c \in CPUs, NEW p \in Procs, cproc[c] = p,
         pc[p] \in Creating, ForkFailed(p),
         state' = [state EXCEPT ![np[p]] = "UNUSED"],
         np' = [np EXCEPT ![p] = NULL],
         kstack' = [kstack EXCEPT ![np[p]] = NULL],
         pgdir' = pgdir \/ pgdir' = [pgdir EXCEPT ![np[p]] = NULL],
         freelist' \subseteq Pages,
         UNCHANGED <<chan, killed, cproc, ptlock, pid, parent, nextpid, word0, tmp, shell>>
  PROVE  ProcInv'
<1> DEFINE q == np[p]
<1>0. /\ q \in Procs /\ state[q] = "EMBRYO" /\ q # p
      /\ state[p] = "RUNNING"
      /\ \A r \in Procs \ {p} : np[r] # q
      /\ pc' = [pc EXCEPT ![p] = IF p = InitProc THEN "exit" ELSE "user"]
  BY RunningLemma, KthreadAssumption DEF ProcInv, CreatorInv, TypeOK, ForkFailed, Goto
<1> USE <1>0 DEF ProcInv
<1> HIDE DEF q
<1>00. /\ state' = [state EXCEPT ![q] = "UNUSED"]
       /\ kstack' = [kstack EXCEPT ![q] = NULL]
       /\ pgdir' = pgdir \/ pgdir' = [pgdir EXCEPT ![q] = NULL]
  BY DEF q
<1>1. TypeOK'
  BY <1>00 DEF TypeOK, Labels, States
<1>2. OneCpuPerProc'
  BY <1>00 DEF OneCpuPerProc, TypeOK
<1>3. CreatorInv'
  <2>1. \A r \in Procs : pc'[r] \in Creating =>
          r # p /\ pc'[r] = pc[r] /\ np'[r] = np[r] /\ np[r] # q /\ np[r] \in Procs
    BY KthreadAssumption DEF TypeOK, Creating, CreatorInv
  <2>2. \A r \in Procs : np'[r] # NULL <=> pc'[r] \in Creating
    BY DEF CreatorInv, TypeOK, Creating
  <2>3. \A r, s \in Procs : np'[r] = np'[s] /\ np'[r] # NULL => r = s
    BY DEF CreatorInv, TypeOK
  <2>4. Stacked \subseteq Creating /\ Ready \subseteq Creating
    BY DEF Stacked, Ready, Creating
  <2>5. \A r \in Procs : pc'[r] \in Creating =>
          /\ state'[r] = state[r] /\ state'[np'[r]] = state[np[r]]
          /\ kstack'[np'[r]] = kstack[np[r]] /\ pgdir'[np'[r]] = pgdir[np[r]]
    <3> SUFFICES ASSUME NEW r \in Procs, pc'[r] \in Creating
                 PROVE  /\ state'[r] = state[r] /\ state'[np'[r]] = state[np[r]]
                        /\ kstack'[np'[r]] = kstack[np[r]] /\ pgdir'[np'[r]] = pgdir[np[r]]
      OBVIOUS
    <3>1. r # q
      BY <2>1 DEF CreatorInv
    <3> QED
      BY <1>00, <2>1, <3>1 DEF TypeOK
  <2> QED
    BY <2>1, <2>2, <2>3, <2>4, <2>5 DEF CreatorInv
<1>4. SpaceInv'
  BY <1>00 DEF SpaceInv, Started, TypeOK
<1>5. SleepInv'
  BY <1>00 DEF SleepInv, TypeOK
<1>6. InitAlive'
  BY <1>00 DEF InitAlive, TypeOK
<1>7. NoMissedExit'
  <2>1. \A r \in Procs : Zombies(Kids(r))' \subseteq Zombies(Kids(r))
    BY <1>00 DEF Zombies, Kids, TypeOK
  <2>2. \A r \in Procs : state'[r] = "SLEEPING" => Zombies(Threads(r))' \subseteq Zombies(Threads(r))
    BY <1>00 DEF Zombies, Kids, Threads, TypeOK
  <2> QED
    BY <1>00, <2>1, <2>2 DEF NoMissedExit, TypeOK
<1>8. ParentAlive'
  BY <1>00 DEF ParentAlive, Started, TypeOK
<1> QED
  BY <1>1, <1>2, <1>3, <1>4, <1>5, <1>6, <1>7, <1>8

\* p fills in fields of the slot it is creating.
LEMMA BuildLemma ==
  ASSUME ProcInv, NEW c \in CPUs, NEW p \in Procs, cproc[c] = p,
         pc[p] \in Creating, NEW label \in Stacked, Goto(p, label),
         UNCHANGED <<state, np, chan, killed, cproc, ptlock, pid, nextpid, tmp, shell>>,
         kstack' \in [Procs -> Pages \cup {NULL}],
         pgdir' \in [Procs -> Pages \cup {NULL}],
         parent' \in [Procs -> Procs \cup {NULL}],
         word0' \in [Pages -> Int],
         freelist' \subseteq Pages,
         \A r \in Procs : r # np[p] =>
           kstack'[r] = kstack[r] /\ pgdir'[r] = pgdir[r] /\ parent'[r] = parent[r],
         kstack'[np[p]] \in Pages,
         label \in Ready => parent'[np[p]] = p /\ pgdir'[np[p]] \in Pages
  PROVE  ProcInv'
<1>0. /\ np[p] \in Procs /\ state[np[p]] = "EMBRYO"
      /\ state[p] = "RUNNING"
      /\ \A r \in Procs : np[r] = np[p] => r = p
      /\ pc' = [pc EXCEPT ![p] = label]
      /\ label \in Creating /\ label \in Labels
  BY RunningLemma, KthreadAssumption
     DEF ProcInv, CreatorInv, TypeOK, Goto, Stacked, Creating, Labels
<1> USE <1>0 DEF ProcInv
<1>1. TypeOK'
  BY DEF TypeOK
<1>2. OneCpuPerProc'
  BY DEF OneCpuPerProc
<1>3. CreatorInv'
  <2>1. Stacked \subseteq Creating /\ Ready \subseteq Creating
    BY DEF Stacked, Ready, Creating
  <2>2. \A r \in Procs : r # p => pc'[r] = pc[r] /\ np[r] # np[p]
    BY DEF TypeOK
  <2>3. pc'[p] = label
    BY DEF TypeOK
  <2>4. \A r \in Procs : pc[r] \in Creating => np[r] \in Procs
    BY DEF TypeOK, CreatorInv
  <2>5. \A r \in Procs : pc'[r] \in Stacked => kstack'[np'[r]] \in Pages
    BY <2>1, <2>2, <2>3, <2>4 DEF CreatorInv
  <2>6. \A r \in Procs : pc'[r] \in Ready => parent'[np'[r]] = r /\ pgdir'[np'[r]] \in Pages
    BY <2>1, <2>2, <2>3, <2>4 DEF CreatorInv
  <2> QED
    BY <2>1, <2>2, <2>3, <2>5, <2>6 DEF CreatorInv
<1>4. SpaceInv'
  BY DEF SpaceInv, Started
<1>5. SleepInv'
  BY DEF SleepInv, TypeOK
<1>6. InitAlive'
  BY DEF InitAlive
<1>7. NoMissedExit'
  <2>1. \A r \in Procs : Zombies(Kids(r))' = Zombies(Kids(r))
    BY DEF Zombies, Kids
  <2>2. \A r \in Procs : state[r] = "SLEEPING" => Zombies(Threads(r))' = Zombies(Threads(r))
    BY DEF Zombies, Kids, Threads
  <2> QED
    BY <2>1, <2>2 DEF NoMissedExit, TypeOK
<1>8. ParentAlive'
  BY DEF ParentAlive, Started
<1> QED
  BY <1>1, <1>2, <1>3, <1>4, <1>5, <1>6, <1>7, <1>8

\* The new process becomes RUNNABLE.
LEMMA PublishLemma ==
  ASSUME ProcInv, NEW c \in CPUs, NEW p \in Procs, NEW from \in Ready,
         NEW to \in Elsewhere, Publish(c, p, from, to)
  PROVE  ProcInv'
<1> DEFINE q == np[p]
<1>0. /\ q \in Procs /\ state[q] = "EMBRYO" /\ q # p
      /\ state[p] = "RUNNING"
      /\ kstack[q] \in Pages /\ pgdir[q] \in Pages /\ parent[q] = p
      /\ pc[q] \notin Creating /\ pc[p] \in Creating
      /\ \A r \in Procs : np[r] = q => r = p
  <2>1. from \in Stacked /\ from \in Creating
    BY DEF Ready, Stacked, Creating
  <2> QED
    BY <2>1, RunningLemma, KthreadAssumption DEF Publish, Runs, ProcInv, CreatorInv, TypeOK
<1> HIDE DEF q
<1>00. /\ state' = [state EXCEPT ![q] = "RUNNABLE"]
       /\ pc' = [pc EXCEPT ![p] = to, ![q] = "user"]
       /\ np' = [np EXCEPT ![p] = NULL]
       /\ shell' \in Procs \cup {NULL}
       /\ UNCHANGED <<chan, killed, cproc, ptlock, pid, parent, kstack, pgdir,
                      nextpid, freelist, word0, tmp>>
  BY <1>0 DEF Publish, q, ProcInv, TypeOK
<1> USE <1>0, <1>00 DEF ProcInv, Elsewhere
<1>1. TypeOK'
  BY DEF TypeOK, Labels, States
<1>2. OneCpuPerProc'
  BY DEF OneCpuPerProc, TypeOK
<1>3. CreatorInv'
  <2>1. \A r \in Procs : pc'[r] \in Creating =>
          r # p /\ r # q /\ pc'[r] = pc[r] /\ np'[r] = np[r] /\ np[r] # q /\ np[r] \in Procs
    BY KthreadAssumption DEF TypeOK, Creating, CreatorInv
  <2>2. \A r \in Procs : np'[r] # NULL <=> pc'[r] \in Creating
    BY DEF CreatorInv, TypeOK, Creating
  <2>3. \A r, s \in Procs : np'[r] = np'[s] /\ np'[r] # NULL => r = s
    BY DEF CreatorInv, TypeOK
  <2>4. Stacked \subseteq Creating /\ Ready \subseteq Creating
    BY DEF Stacked, Ready, Creating
  <2>5. \A r \in Procs : pc'[r] \in Creating =>
          state'[r] = state[r] /\ state'[np'[r]] = state[np[r]]
    BY <2>1 DEF TypeOK
  <2>6. \A r \in Procs : pc'[r] \in Creating =>
          state'[r] \in {"RUNNABLE", "RUNNING"} /\ state'[np'[r]] = "EMBRYO"
    BY <2>1, <2>5 DEF CreatorInv
  <2>7. \A r \in Procs : pc'[r] \in Stacked => kstack'[np'[r]] \in Pages
    BY <2>1, <2>4 DEF CreatorInv
  <2>8. \A r \in Procs : pc'[r] \in Ready => parent'[np'[r]] = r /\ pgdir'[np'[r]] \in Pages
    BY <2>1, <2>4 DEF CreatorInv
  <2> QED
    BY <2>2, <2>3, <2>6, <2>7, <2>8 DEF CreatorInv
<1>4. SpaceInv'
  BY DEF SpaceInv, Started, TypeOK
<1>5. SleepInv'
  BY DEF SleepInv, TypeOK
<1>6. InitAlive'
  BY DEF InitAlive, TypeOK
<1>7. NoMissedExit'
  BY DEF NoMissedExit, TypeOK, Zombies, Kids, Threads
<1>8. ParentAlive'
  BY DEF ParentAlive, Started, TypeOK
<1> QED
  BY <1>1, <1>2, <1>3, <1>4, <1>5, <1>6, <1>7, <1>8

-----------------------------------------------------------------------------
(* Steps outside fork() and clone().  They leave the slots under           *)
(* construction alone.                                                     *)
LEMMA CreatorFrame ==
  ASSUME ProcInv, np' = np,
         \A r \in Procs : pc[r] \in Creating \/ pc'[r] \in Creating => pc'[r] = pc[r],
         \A r \in Procs : pc[r] \in Creating =>
           /\ state'[r] \in {"RUNNABLE", "RUNNING"}
           /\ state'[np[r]] = "EMBRYO"
           /\ kstack'[np[r]] = kstack[np[r]]
           /\ pgdir'[np[r]] = pgdir[np[r]]
           /\ parent[np[r]] = r => parent'[np[r]] = r
  PROVE  CreatorInv'
<1>1. Stacked \subseteq Creating /\ Ready \subseteq Creating
  BY DEF Stacked, Ready, Creating
<1>2. \A r \in Procs : np'[r] # NULL <=> pc'[r] \in Creating
  BY DEF ProcInv, CreatorInv
<1>3. \A r \in Procs : pc'[r] \in Stacked => kstack'[np'[r]] \in Pages
  BY <1>1 DEF ProcInv, CreatorInv
<1>4. \A r \in Procs : pc'[r] \in Ready => parent'[np'[r]] = r /\ pgdir'[np'[r]] \in Pages
  BY <1>1 DEF ProcInv, CreatorInv
<1> QED
  BY <1>2, <1>3, <1>4 DEF ProcInv, CreatorInv

\* The creator of an EMBRYO slot is not the slot itself.
LEMMA EmbryoLemma ==
  ASSUME ProcInv, NEW r \in Procs, pc[r] \in Creating
  PROVE  np[r] \in Procs /\ state[np[r]] = "EMBRYO" /\ np[r] # r
  BY DEF ProcInv, CreatorInv, TypeOK

\* p updates the thread counter, its copy of it, or returns to user code with
\* or without ptable.lock.
LEMMA ReturnLemma ==
  ASSUME ProcInv, NEW c \in CPUs, NEW p \in Procs, cproc[c] = p,
         pc[p] \in Elsewhere, NEW label \in Elsewhere, Goto(p, label),
         chan' = chan \/ chan' = [chan EXCEPT ![p] = NULL],
         ptlock' \in CPUs \cup {NULL}, shell' \in Procs \cup {NULL},
         word0' \in [Pages -> Int], tmp' \in [Procs -> Int],
         UNCHANGED <<state, killed, cproc, pid, parent, kstack, pgdir, nextpid, freelist, np>>
  PROVE  ProcInv'
<1>0. state[p] = "RUNNING" /\ pc' = [pc EXCEPT ![p] = label]
  BY RunningLemma DEF Goto
<1> USE <1>0 DEF ProcInv, Elsewhere
<1>1. TypeOK'
  BY DEF TypeOK
<1>2. OneCpuPerProc'
  BY DEF OneCpuPerProc
<1>3. CreatorInv'
  <2>1. \A r \in Procs : pc[r] \in Creating \/ pc'[r] \in Creating => pc'[r] = pc[r]
    BY DEF TypeOK
  <2> QED
    BY <2>1, CreatorFrame DEF CreatorInv
<1>4. SpaceInv'
  BY DEF SpaceInv, Started
<1>5. SleepInv'
  BY DEF SleepInv, TypeOK
<1>6. InitAlive'
  BY DEF InitAlive
<1>7. NoMissedExit'
  BY DEF NoMissedExit, TypeOK, Zombies, Kids, Threads
<1>8. ParentAlive'
  BY DEF ParentAlive, Started
<1> QED
  BY <1>1, <1>2, <1>3, <1>4, <1>5, <1>6, <1>7, <1>8

\* Only ptable.lock changes hands.
LEMMA LockLemma ==
  ASSUME ProcInv, ptlock' \in CPUs \cup {NULL},
         UNCHANGED <<state, chan, killed, cproc, pc, pvars>>
  PROVE  ProcInv'
<1>1. TypeOK'
  BY DEF ProcInv, TypeOK, pvars
<1>2. /\ OneCpuPerProc' /\ CreatorInv' /\ SpaceInv' /\ SleepInv'
      /\ InitAlive' /\ NoMissedExit' /\ ParentAlive'
  BY DEF ProcInv, OneCpuPerProc, CreatorInv, SpaceInv, SleepInv, InitAlive,
         NoMissedExit, ParentAlive, Started, Zombies, Kids, Threads, pvars
<1> QED
  BY <1>1, <1>2 DEF ProcInv

\* scheduler() switches to p.
LEMMA DispatchLemma ==
  ASSUME ProcInv, NEW c \in CPUs, NEW p \in Procs, Dispatch(c, p), UNCHANGED pvars
  PROVE  ProcInv'
<1> USE DEF ProcInv, Dispatch, pvars
<1>1. TypeOK'
  BY DEF TypeOK, States
<1>2. OneCpuPerProc'
  <2>1. \A d \in CPUs : cproc[d] # p
    BY DEF OneCpuPerProc
  <2>2. \A d \in CPUs : cproc'[d] = IF d = c THEN p ELSE cproc[d]
    BY DEF TypeOK
  <2>3. \A q \in Procs : state'[q] = IF q = p THEN "RUNNING" ELSE state[q]
    BY DEF TypeOK
  <2>4. \A d, e \in CPUs : cproc'[d] = cproc'[e] /\ cproc'[d] # NULL => d = e
    BY <2>1, <2>2 DEF OneCpuPerProc
  <2>5. \A q \in Procs : state'[q] = "RUNNING" <=> \E d \in CPUs : cproc'[d] = q
    BY <2>1, <2>2, <2>3, KthreadAssumption DEF OneCpuPerProc, Procs
  <2> QED
    BY <2>4, <2>5 DEF OneCpuPerProc
<1>3. CreatorInv'
  <2>1. \A r \in Procs : pc[r] \in Creating =>
          state'[r] \in {"RUNNABLE", "RUNNING"} /\ state'[np[r]] = "EMBRYO"
    BY EmbryoLemma DEF CreatorInv, TypeOK
  <2> QED
    BY <2>1, CreatorFrame
<1>4. SpaceInv'
  BY DEF SpaceInv, Started, TypeOK
<1>5. SleepInv'
  BY DEF SleepInv, TypeOK
<1>6. InitAlive'
  BY DEF InitAlive, TypeOK
<1>7. NoMissedExit'
  BY DEF NoMissedExit, TypeOK, Zombies, Kids, Threads
<1>8. ParentAlive'
  BY DEF ParentAlive, Started, TypeOK
<1> QED
  BY <1>1, <1>2, <1>3, <1>4, <1>5, <1>6, <1>7, <1>8

\* A timer interrupt: p gives up the CPU.
LEMMA YieldLemma ==
  ASSUME ProcInv, NEW c \in CPUs, NEW p \in Procs, Yield(c, p), UNCHANGED pvars
  PROVE  ProcInv'
<1>0. state[p] = "RUNNING"
  BY RunningLemma DEF Yield, Runs
<1> USE <1>0 DEF ProcInv, Yield, Runs, Sched, pvars
<1>1. TypeOK'
  BY DEF TypeOK, States
<1>2. OneCpuPerProc'
  BY KthreadAssumption DEF OneCpuPerProc, TypeOK, Procs
<1>3. CreatorInv'
  <2>1. \A r \in Procs : pc[r] \in Creating =>
          state'[r] \in {"RUNNABLE", "RUNNING"} /\ state'[np[r]] = "EMBRYO"
    BY EmbryoLemma DEF CreatorInv, TypeOK
  <2> QED
    BY <2>1, CreatorFrame
<1>4. SpaceInv'
  BY DEF SpaceInv, Started, TypeOK
<1>5. SleepInv'
  BY DEF SleepInv, TypeOK
<1>6. InitAlive'
  BY DEF InitAlive, TypeOK
<1>7. NoMissedExit'
  BY DEF NoMissedExit, TypeOK, Zombies, Kids, Threads
<1>8. ParentAlive'
  BY DEF ParentAlive, Started, TypeOK
<1> QED
  BY <1>1, <1>2, <1>3, <1>4, <1>5, <1>6, <1>7, <1>8

\* p has found nothing to reap, and sleeps.
LEMMA SleepLemma ==
  ASSUME ProcInv, NEW c \in CPUs, NEW p \in Procs, cproc[c] = p, pc[p] \in Elsewhere,
         NEW label \in {"wait", "join"}, SleepOnSelf(c, p, label),
         label = "wait" => Zombies(Kids(p)) = {},
         label = "join" => Zombies(Threads(p)) = {}
  PROVE  ProcInv'
<1>0. state[p] = "RUNNING" /\ pc' = [pc EXCEPT ![p] = label]
  BY RunningLemma DEF SleepOnSelf, Goto
<1> USE <1>0 DEF ProcInv, SleepOnSelf, Sched, pvars, Elsewhere
<1>1. TypeOK'
  BY DEF TypeOK, States, Labels, LockedLabels
<1>2. OneCpuPerProc'
  <2>1. \A q \in Procs : state'[q] = "RUNNING" <=> q # p /\ state[q] = "RUNNING"
    BY DEF TypeOK
  <2>2. \A d \in CPUs : cproc'[d] = IF d = c THEN NULL ELSE cproc[d]
    BY DEF TypeOK
  <2> QED
    BY <2>1, <2>2, KthreadAssumption DEF OneCpuPerProc, Procs
<1>3. CreatorInv'
  <2>1. \A r \in Procs : pc[r] \in Creating \/ pc'[r] \in Creating => pc'[r] = pc[r] /\ r # p
    BY DEF TypeOK, Creating
  <2>2. \A r \in Procs : pc[r] \in Creating =>
          state'[r] \in {"RUNNABLE", "RUNNING"} /\ state'[np[r]] = "EMBRYO"
    BY <2>1, EmbryoLemma DEF CreatorInv, TypeOK
  <2> QED
    BY <2>1, <2>2, CreatorFrame
<1>4. SpaceInv'
  BY DEF SpaceInv, Started, TypeOK
<1>5. SleepInv'
  BY DEF SleepInv, TypeOK
<1>6. InitAlive'
  BY DEF InitAlive, TypeOK
<1>7. NoMissedExit'
  BY DEF NoMissedExit, TypeOK, Zombies, Kids, Threads
<1>8. ParentAlive'
  BY DEF ParentAlive, Started, TypeOK
<1> QED
  BY <1>1, <1>2, <1>3, <1>4, <1>5, <1>6, <1>7, <1>8

\* exit(): p becomes a zombie, its children go to init, its parent and init
\* are woken.
LEMMA ExitLemma ==
  ASSUME ProcInv, NEW c \in CPUs, NEW p \in Procs, ExitFinish(c, p)
  PROVE  ProcInv'
<1>0. /\ state[p] = "RUNNING" /\ p # InitProc /\ cproc[c] = p /\ pc[p] \notin Creating
      /\ InitProc \in Procs
      /\ parent' = [q \in Procs |-> IF parent[q] = p THEN InitProc ELSE parent[q]]
      /\ cproc' = [cproc EXCEPT ![c] = NULL] /\ ptlock' = c
      /\ UNCHANGED <<chan, killed, pc, pid, kstack, pgdir, nextpid, freelist, word0, np, tmp, shell>>
  BY RunningLemma, KthreadAssumption
     DEF ExitFinish, Runs, Sched, Reparent, Creating, InitProc, Procs
<1>00. /\ state' \in [Procs -> States]
       /\ state'[p] = "ZOMBIE"
       /\ \A q \in Procs \ {p} : state'[q] = state[q] \/ (state[q] = "SLEEPING" /\ state'[q] = "RUNNABLE")
       /\ \A q \in Procs : state'[q] = "SLEEPING" => chan[q] # parent[p]
       /\ \A q, r \in Procs : parent[r] = p /\ state[r] = "ZOMBIE" /\ state'[q] = "SLEEPING" => chan[q] # InitProc
  <2>1. ExitWakeups(p) \in [Procs -> States] /\ p \in Procs
    BY DEF ProcInv, TypeOK, ExitWakeups, Wakeup1, States
  <2>2. state' = [ExitWakeups(p) EXCEPT ![p] = "ZOMBIE"]
    BY DEF ExitFinish, Sched
  <2>3. \A q \in Procs : \/ ExitWakeups(p)[q] = state[q] /\ (state[q] = "SLEEPING" => chan[q] # parent[p])
                         \/ state[q] = "SLEEPING" /\ ExitWakeups(p)[q] = "RUNNABLE"
    BY DEF ExitWakeups, Wakeup1
  <2>4. \A q, r \in Procs : parent[r] = p /\ state[r] = "ZOMBIE" /\ ExitWakeups(p)[q] = "SLEEPING" => chan[q] # InitProc
    BY DEF ExitWakeups, Wakeup1
  <2> QED
    BY <2>1, <2>2, <2>3, <2>4 DEF States
<1> USE <1>0 DEF ProcInv
<1>1. TypeOK'
  BY <1>00 DEF TypeOK
<1>2. OneCpuPerProc'
  <2>1. \A q \in Procs : state'[q] = "RUNNING" <=> q # p /\ state[q] = "RUNNING"
    BY <1>00
  <2>2. \A d \in CPUs : cproc'[d] = IF d = c THEN NULL ELSE cproc[d]
    BY DEF TypeOK
  <2> QED
    BY <2>1, <2>2, KthreadAssumption DEF OneCpuPerProc, Procs
<1>3. CreatorInv'
  <2>1. \A r \in Procs : pc[r] \in Creating =>
          /\ state'[r] \in {"RUNNABLE", "RUNNING"} /\ state'[np[r]] = "EMBRYO"
          /\ parent[np[r]] = r => parent'[np[r]] = r
    BY <1>00, EmbryoLemma DEF CreatorInv
  <2> QED
    BY <2>1, CreatorFrame
<1>4. SpaceInv'
  BY <1>00 DEF SpaceInv, Started
<1>5. SleepInv'
  BY <1>00 DEF SleepInv
<1>6. InitAlive'
  BY <1>00 DEF InitAlive
<1>7. NoMissedExit'
  <2> SUFFICES ASSUME NEW q \in Procs, state'[q] = "SLEEPING"
               PROVE  /\ pc[q] = "wait" => Zombies(Kids(q))' = {}
                      /\ pc[q] = "join" => Zombies(Threads(q))' = {}
    BY DEF NoMissedExit
  <2>1. state[q] = "SLEEPING" /\ chan[q] = q /\ q # p
    BY <1>00 DEF SleepInv
  <2>2. parent'[p] # q
    BY <1>00, <2>1 DEF ParentAlive, Started
  <2>3. \A r \in Procs : state'[r] = "ZOMBIE" /\ parent'[r] = q =>
          state[r] = "ZOMBIE" /\ parent[r] = q
    BY <1>00, <2>1, <2>2
  <2> QED
    BY <2>1, <2>3 DEF NoMissedExit, Zombies, Kids, Threads
<1>8. ParentAlive'
  BY <1>00 DEF ParentAlive, Started, InitAlive
<1> QED
  BY <1>1, <1>2, <1>3, <1>4, <1>5, <1>6, <1>7, <1>8

\* wait() or join(): p frees the slot of its zombie child q.
LEMMA ReapLemma ==
  ASSUME ProcInv, NEW c \in CPUs, NEW p \in Procs, cproc[c] = p, pc[p] \in Elsewhere,
         NEW q \in Procs, state[q] = "ZOMBIE",
         NEW freed \in SUBSET Pages, Reap(c, p, q, freed),
         NEW label \in Elsewhere, Goto(p, label),
         ptlock' \in CPUs \cup {NULL}, shell' \in Procs \cup {NULL}, tmp' \in [Procs -> Int]
  PROVE  ProcInv'
<1>0. /\ state[p] = "RUNNING" /\ q # p
      /\ pc' = [pc EXCEPT ![p] = label]
  BY RunningLemma DEF Goto
<1> USE <1>0 DEF ProcInv, Reap, Elsewhere
<1>1. TypeOK'
  BY DEF TypeOK, States
<1>2. OneCpuPerProc'
  BY DEF OneCpuPerProc, TypeOK
<1>3. CreatorInv'
  <2>1. \A r \in Procs : pc[r] \in Creating \/ pc'[r] \in Creating => pc'[r] = pc[r]
    BY DEF TypeOK
  <2>2. \A r \in Procs : pc[r] \in Creating => r # q /\ np[r] # q /\ np[r] \in Procs
    BY EmbryoLemma DEF CreatorInv
  <2>3. \A r \in Procs : pc[r] \in Creating =>
          /\ state'[r] \in {"RUNNABLE", "RUNNING"} /\ state'[np[r]] = "EMBRYO"
          /\ kstack'[np[r]] = kstack[np[r]] /\ parent'[np[r]] = parent[np[r]]
    BY <2>2, EmbryoLemma DEF CreatorInv, TypeOK
  <2> QED
    BY <2>1, <2>3, CreatorFrame
<1>4. SpaceInv'
  BY DEF SpaceInv, Started, TypeOK
<1>5. SleepInv'
  BY DEF SleepInv, TypeOK
<1>6. InitAlive'
  BY DEF InitAlive, TypeOK
<1>7. NoMissedExit'
  BY DEF NoMissedExit, TypeOK, Zombies, Kids, Threads
<1>8. ParentAlive'
  BY DEF ParentAlive, Started, TypeOK
<1> QED
  BY <1>1, <1>2, <1>3, <1>4, <1>5, <1>6, <1>7, <1>8

\* kill(): q is marked, and woken if it sleeps.
LEMMA KillLemma ==
  ASSUME ProcInv, NEW c \in CPUs, NEW p \in Procs, NEW k \in KillPids, Kill(c, p, k)
  PROVE  ProcInv'
<1>0. PICK q \in Procs : killed' = [killed EXCEPT ![q] = TRUE] /\ state' = KillWakes(q)
  BY DEF Kill
<1>00. /\ state[p] = "RUNNING" /\ cproc[c] = p
       /\ pc' = [pc EXCEPT ![p] = "user"] /\ pc[p] = "sys"
       /\ UNCHANGED <<chan, cproc, ptlock, pvars>>
  BY RunningLemma DEF Kill, Call, Runs, Goto
<1>000. /\ state' \in [Procs -> States]
        /\ \A r \in Procs : state'[r] = state[r] \/ (state[r] = "SLEEPING" /\ state'[r] = "RUNNABLE")
  BY <1>0 DEF KillWakes, ProcInv, TypeOK, States
<1> USE <1>00 DEF ProcInv, pvars
<1>1. TypeOK'
  BY <1>0, <1>000 DEF TypeOK, Labels
<1>2. OneCpuPerProc'
  BY <1>000 DEF OneCpuPerProc
<1>3. CreatorInv'
  <2>1. \A r \in Procs : pc[r] \in Creating \/ pc'[r] \in Creating => pc'[r] = pc[r]
    BY DEF TypeOK, Creating
  <2>2. \A r \in Procs : pc[r] \in Creating =>
          state'[r] \in {"RUNNABLE", "RUNNING"} /\ state'[np[r]] = "EMBRYO"
    BY <1>000, EmbryoLemma DEF CreatorInv
  <2> QED
    BY <2>1, <2>2, CreatorFrame
<1>4. SpaceInv'
  BY <1>000 DEF SpaceInv, Started
<1>5. SleepInv'
  BY <1>000 DEF SleepInv, TypeOK
<1>6. InitAlive'
  BY <1>000, KthreadAssumption DEF InitAlive, InitProc, Procs
<1>7. NoMissedExit'
  BY <1>000 DEF NoMissedExit, TypeOK, Zombies, Kids, Threads
<1>8. ParentAlive'
  BY <1>000 DEF ParentAlive, Started
<1> QED
  BY <1>1, <1>2, <1>3, <1>4, <1>5, <1>6, <1>7, <1>8

\* exec(): p gets a new address space.
LEMMA ExecLemma ==
  ASSUME ProcInv, NEW c \in CPUs, NEW p \in Procs, Exec(c, p)
  PROVE  ProcInv'
<1>0. PICK g \in Heads(freelist) :
        /\ pgdir' = [pgdir EXCEPT ![p] = g]
        /\ freelist' = (freelist \ {g}) \cup {pgdir[p]}
        /\ word0' = [word0 EXCEPT ![g] = 0, ![pgdir[p]] = 0]
  BY DEF Exec
<1>00. /\ state[p] = "RUNNING" /\ cproc[c] = p /\ g \in Pages /\ pgdir[p] \in Pages
       /\ pc' = [pc EXCEPT ![p] = "user"] /\ pc[p] = "sys"
       /\ UNCHANGED <<state, chan, killed, cproc, ptlock, pid, parent, kstack, nextpid, np, tmp, shell>>
  BY RunningLemma, KallocLemma DEF Exec, Call, Runs, Goto, ProcInv
<1> USE <1>0, <1>00 DEF ProcInv
<1>1. TypeOK'
  BY DEF TypeOK, Labels
<1>2. OneCpuPerProc'
  BY DEF OneCpuPerProc
<1>3. CreatorInv'
  <2>1. \A r \in Procs : pc[r] \in Creating \/ pc'[r] \in Creating => pc'[r] = pc[r]
    BY DEF TypeOK, Creating
  <2>2. \A r \in Procs : pc[r] \in Creating => pgdir'[np[r]] = pgdir[np[r]]
    BY EmbryoLemma DEF TypeOK
  <2> QED
    BY <2>1, <2>2, CreatorFrame DEF CreatorInv
<1>4. SpaceInv'
  BY DEF SpaceInv, Started, TypeOK
<1>5. SleepInv'
  BY DEF SleepInv, TypeOK
<1>6. InitAlive'
  BY DEF InitAlive
<1>7. NoMissedExit'
  BY DEF NoMissedExit, TypeOK, Zombies, Kids, Threads
<1>8. ParentAlive'
  BY DEF ParentAlive, Started
<1> QED
  BY <1>1, <1>2, <1>3, <1>4, <1>5, <1>6, <1>7, <1>8

-----------------------------------------------------------------------------
(* One lemma per group of actions of Next.                                 *)

LEMMA CpuStepLemma ==
  ASSUME ProcInv, NEW c \in CPUs, CpuStep(c)
  PROVE  ProcInv'
<1>1. CASE SchedAcquire(c) \/ SchedRelease(c)
  BY <1>1, LockLemma DEF CpuStep, SchedAcquire, SchedRelease
<1>2. CASE \E p \in Procs : Dispatch(c, p)
  BY <1>2, DispatchLemma DEF CpuStep
<1>3. CASE \E p \in Procs : Tick(c, p)
  BY <1>3, YieldLemma DEF CpuStep, Tick
<1>4. CASE \E p \in Procs : Resume(c, p, LockedLabels)
  BY <1>4, LockLemma DEF CpuStep, Resume
<1> QED
  BY <1>1, <1>2, <1>3, <1>4 DEF CpuStep

LEMMA WaitLoopLemma ==
  ASSUME ProcInv, NEW c \in CPUs, NEW p \in Procs, cproc[c] = p, pc[p] \in Elsewhere,
         WaitLoop(c, p)
  PROVE  ProcInv'
<1>0. {"user", "wait"} \subseteq Elsewhere
  BY DEF Elsewhere, Labels, LockedLabels, Creating
<1>1. CASE \E q \in Procs :
             /\ First(Zombies(Kids(p)), q)
             /\ Reap(c, p, q, WaitFrees(q))
             /\ ptlock' = NULL
             /\ Goto(p, "user")
             /\ shell' = IF p = InitProc /\ q = shell THEN NULL ELSE shell
             /\ UNCHANGED tmp
  <2>1. PICK q \in Procs :
             /\ First(Zombies(Kids(p)), q)
             /\ Reap(c, p, q, WaitFrees(q))
             /\ ptlock' = NULL
             /\ Goto(p, "user")
             /\ shell' = IF p = InitProc /\ q = shell THEN NULL ELSE shell
             /\ UNCHANGED tmp
    BY <1>1
  <2>2. state[q] = "ZOMBIE" /\ WaitFrees(q) \in SUBSET Pages
    BY <2>1 DEF First, Zombies, WaitFrees, ProcInv, SpaceInv, Started
  <2>3. shell' \in Procs \cup {NULL} /\ tmp' \in [Procs -> Int]
    BY <2>1 DEF ProcInv, TypeOK
  <2> QED
    BY <1>0, <2>1, <2>2, <2>3, ReapLemma
<1>2. CASE /\ Kids(p) = {} \/ killed[p]
           /\ ptlock' = NULL
           /\ chan' = [chan EXCEPT ![p] = NULL]
           /\ Goto(p, "user")
           /\ shell' = IF p = InitProc THEN NULL ELSE shell
           /\ UNCHANGED <<state, killed, cproc, pid, parent, kstack, pgdir, nextpid, freelist,
                          word0, np, tmp>>
  <2>1. shell' \in Procs \cup {NULL} /\ tmp' \in [Procs -> Int] /\ word0' \in [Pages -> Int]
    BY <1>2 DEF ProcInv, TypeOK
  <2> QED
    BY <1>0, <1>2, <2>1, ReturnLemma
<1>3. CASE Zombies(Kids(p)) = {} /\ SleepOnSelf(c, p, "wait")
  BY <1>3, SleepLemma
<1> QED
  BY <1>1, <1>2, <1>3 DEF WaitLoop

LEMMA JoinLoopLemma ==
  ASSUME ProcInv, NEW c \in CPUs, NEW p \in Procs, cproc[c] = p, pc[p] \in Elsewhere,
         JoinLoop(c, p)
  PROVE  ProcInv'
<1>0. {"join.store", "join"} \subseteq Elsewhere
  BY DEF Elsewhere, Labels, LockedLabels, Creating
<1>1. CASE \E q \in Procs :
             /\ First(Zombies(Threads(p)), q)
             /\ Reap(c, p, q, {kstack[q]})
             /\ ptlock' = c
             /\ tmp' = [tmp EXCEPT ![p] = word0[pgdir[p]]]
             /\ Goto(p, "join.store")
             /\ UNCHANGED shell
  <2>1. PICK q \in Procs :
             /\ First(Zombies(Threads(p)), q)
             /\ Reap(c, p, q, {kstack[q]})
             /\ ptlock' = c
             /\ tmp' = [tmp EXCEPT ![p] = word0[pgdir[p]]]
             /\ Goto(p, "join.store")
             /\ UNCHANGED shell
    BY <1>1
  <2>2. state[q] = "ZOMBIE" /\ {kstack[q]} \in SUBSET Pages
    BY <2>1 DEF First, Zombies, ProcInv, SpaceInv, Started
  <2>3. shell' \in Procs \cup {NULL} /\ tmp' \in [Procs -> Int]
    BY <2>1, RunningLemma DEF ProcInv, TypeOK
  <2> QED
    BY <1>0, <2>1, <2>2, <2>3, ReapLemma
<1>2. CASE Zombies(Threads(p)) = {} /\ SleepOnSelf(c, p, "join")
  BY <1>2, SleepLemma
<1> QED
  BY <1>1, <1>2 DEF JoinLoop

LEMMA AllocKstackLemma ==
  ASSUME ProcInv, NEW c \in CPUs, NEW p \in Procs, NEW from \in Creating,
         NEW to \in Stacked \ Ready, AllocKstack(c, p, from, to)
  PROVE  ProcInv'
<1>0. cproc[c] = p /\ pc[p] \in Creating /\ np[p] \in Procs
  BY EmbryoLemma DEF AllocKstack, Runs
<1>1. CASE \E g \in Heads(freelist) :
             /\ freelist' = freelist \ {g}
             /\ kstack' = [kstack EXCEPT ![np[p]] = g]
             /\ Goto(p, to)
             /\ UNCHANGED <<state, np>>
  <2>1. PICK g \in Heads(freelist) :
             /\ freelist' = freelist \ {g}
             /\ kstack' = [kstack EXCEPT ![np[p]] = g]
             /\ Goto(p, to)
             /\ UNCHANGED <<state, np>>
    BY <1>1
  <2>2. UNCHANGED <<chan, killed, cproc, ptlock, pid, parent, pgdir, nextpid, word0, tmp, shell>>
    BY DEF AllocKstack
  <2>3. /\ kstack' \in [Procs -> Pages \cup {NULL}] /\ kstack'[np[p]] \in Pages
        /\ pgdir' \in [Procs -> Pages \cup {NULL}]
        /\ parent' \in [Procs -> Procs \cup {NULL}]
        /\ word0' \in [Pages -> Int]
        /\ freelist' \subseteq Pages
        /\ \A r \in Procs : r # np[p] =>
             kstack'[r] = kstack[r] /\ pgdir'[r] = pgdir[r] /\ parent'[r] = parent[r]
    BY <1>0, <2>1, <2>2, KallocLemma DEF ProcInv, TypeOK
  <2> QED
    BY <1>0, <2>1, <2>2, <2>3, BuildLemma
<1>2. CASE /\ freelist = {}
           /\ kstack' = [kstack EXCEPT ![np[p]] = NULL]
           /\ state' = [state EXCEPT ![np[p]] = "UNUSED"]
           /\ np' = [np EXCEPT ![p] = NULL]
           /\ ForkFailed(p)
           /\ UNCHANGED freelist
  BY <1>0, <1>2, GiveUpLemma DEF AllocKstack
<1> QED
  BY <1>1, <1>2 DEF AllocKstack

LEMMA ForkCopyuvmLemma ==
  ASSUME ProcInv, NEW c \in CPUs, NEW p \in Procs, ForkCopyuvm(c, p)
  PROVE  ProcInv'
<1>0. /\ cproc[c] = p /\ pc[p] \in Creating /\ np[p] \in Procs /\ pgdir[p] \in Pages
      /\ kstack[np[p]] \in Pages
      /\ "fork.publish" \in Stacked
      /\ UNCHANGED <<chan, killed, cproc, ptlock, pid, nextpid, tmp, shell>>
  <2>1. "fork.copyuvm" \in Stacked /\ "fork.copyuvm" \in Creating /\ "fork.publish" \in Stacked
    BY DEF Stacked, Creating
  <2> QED
    BY <2>1, EmbryoLemma, RunningLemma DEF ForkCopyuvm, Runs, ProcInv, CreatorInv
<1>1. CASE \E g \in Heads(freelist) :
             /\ freelist' = freelist \ {g}
             /\ pgdir' = [pgdir EXCEPT ![np[p]] = g]
             /\ word0' = [word0 EXCEPT ![g] = word0[pgdir[p]]]
             /\ parent' = [parent EXCEPT ![np[p]] = p]
             /\ Goto(p, "fork.publish")
             /\ UNCHANGED <<state, kstack, np>>
  <2>1. PICK g \in Heads(freelist) :
             /\ freelist' = freelist \ {g}
             /\ pgdir' = [pgdir EXCEPT ![np[p]] = g]
             /\ word0' = [word0 EXCEPT ![g] = word0[pgdir[p]]]
             /\ parent' = [parent EXCEPT ![np[p]] = p]
             /\ Goto(p, "fork.publish")
             /\ UNCHANGED <<state, kstack, np>>
    BY <1>1
  <2>2. /\ kstack' \in [Procs -> Pages \cup {NULL}] /\ kstack'[np[p]] \in Pages
        /\ pgdir' \in [Procs -> Pages \cup {NULL}] /\ pgdir'[np[p]] \in Pages
        /\ parent' \in [Procs -> Procs \cup {NULL}] /\ parent'[np[p]] = p
        /\ word0' \in [Pages -> Int]
        /\ freelist' \subseteq Pages
        /\ \A r \in Procs : r # np[p] =>
             kstack'[r] = kstack[r] /\ pgdir'[r] = pgdir[r] /\ parent'[r] = parent[r]
    BY <1>0, <2>1, KallocLemma DEF ProcInv, TypeOK
  <2> QED
    BY <1>0, <2>1, <2>2, BuildLemma
<1>2. CASE /\ freelist = {}
           /\ pgdir' = [pgdir EXCEPT ![np[p]] = NULL]
           /\ freelist' = freelist \cup {kstack[np[p]]}
           /\ kstack' = [kstack EXCEPT ![np[p]] = NULL]
           /\ state' = [state EXCEPT ![np[p]] = "UNUSED"]
           /\ np' = [np EXCEPT ![p] = NULL]
           /\ ForkFailed(p)
           /\ UNCHANGED <<parent, word0>>
  BY <1>0, <1>2, GiveUpLemma
<1> QED
  BY <1>1, <1>2 DEF ForkCopyuvm

LEMMA CloneShareLemma ==
  ASSUME ProcInv, NEW c \in CPUs, NEW p \in Procs, CloneShare(c, p)
  PROVE  ProcInv'
<1>1. "clone.share" \in Stacked /\ "clone.share" \in Creating /\ "clone.publish" \in Stacked
  BY DEF Stacked, Creating
<1>2. /\ cproc[c] = p /\ pc[p] \in Creating /\ np[p] \in Procs /\ pgdir[p] \in Pages
      /\ kstack[np[p]] \in Pages
  BY <1>1, EmbryoLemma, RunningLemma DEF CloneShare, Runs, ProcInv, CreatorInv
<1>3. /\ kstack' \in [Procs -> Pages \cup {NULL}] /\ kstack'[np[p]] \in Pages
      /\ pgdir' \in [Procs -> Pages \cup {NULL}] /\ pgdir'[np[p]] \in Pages
      /\ parent' \in [Procs -> Procs \cup {NULL}] /\ parent'[np[p]] = p
      /\ word0' \in [Pages -> Int]
      /\ freelist' \subseteq Pages
      /\ \A r \in Procs : r # np[p] =>
           kstack'[r] = kstack[r] /\ pgdir'[r] = pgdir[r] /\ parent'[r] = parent[r]
  BY <1>2 DEF CloneShare, ProcInv, TypeOK
<1> QED
  BY <1>1, <1>2, <1>3, BuildLemma DEF CloneShare

LEMMA KernelStepLemma ==
  ASSUME ProcInv, NEW c \in CPUs, NEW p \in Procs, KernelStep(c, p)
  PROVE  ProcInv'
<1>0. /\ {"fork.kalloc", "clone.kalloc"} \subseteq Creating
      /\ {"fork.copyuvm", "clone.share"} \subseteq Stacked \ Ready
      /\ {"fork.publish", "clone.publish"} \subseteq Ready
      /\ {"user", "exit", "panic", "wait", "join", "join.store",
          "clone.load", "clone.store"} \subseteq Elsewhere
  BY DEF Creating, Stacked, Ready, Elsewhere, Labels, LockedLabels
<1>1. CASE ForkKstack(c, p) \/ CloneKstack(c, p)
  BY <1>0, <1>1, AllocKstackLemma DEF ForkKstack, CloneKstack
<1>2. CASE ForkCopyuvm(c, p) \/ CloneShare(c, p)
  BY <1>2, ForkCopyuvmLemma, CloneShareLemma
<1>3. CASE ForkPublish(c, p) \/ ClonePublish(c, p)
  BY <1>0, <1>3, PublishLemma DEF ForkPublish, ClonePublish
<1>4. CASE CloneLoad(c, p)
  <2>1. pgdir[p] \in Pages /\ cproc[c] = p
    BY <1>4, RunningLemma DEF CloneLoad, Runs
  <2>2. /\ ptlock' \in CPUs \cup {NULL} /\ shell' \in Procs \cup {NULL}
        /\ word0' \in [Pages -> Int] /\ tmp' \in [Procs -> Int]
    BY <1>4, <2>1 DEF CloneLoad, ProcInv, TypeOK
  <2> QED
    BY <1>0, <1>4, <2>1, <2>2, ReturnLemma DEF CloneLoad
<1>5. CASE CloneStore(c, p)
  <2>1. pgdir[p] \in Pages /\ cproc[c] = p
    BY <1>5, RunningLemma DEF CloneStore, Runs
  <2>2. /\ ptlock' \in CPUs \cup {NULL} /\ shell' \in Procs \cup {NULL}
        /\ word0' \in [Pages -> Int] /\ tmp' \in [Procs -> Int]
    BY <1>5, <2>1 DEF CloneStore, ProcInv, TypeOK
  <2> QED
    BY <1>0, <1>5, <2>1, <2>2, ReturnLemma DEF CloneStore
<1>6. CASE ExitPanic(c, p)
  <2>1. /\ ptlock' \in CPUs \cup {NULL} /\ shell' \in Procs \cup {NULL}
        /\ word0' \in [Pages -> Int] /\ tmp' \in [Procs -> Int]
    BY <1>6 DEF ExitPanic, ProcInv, TypeOK, pvars
  <2> QED
    BY <1>0, <1>6, <2>1, ReturnLemma DEF ExitPanic, Runs, pvars
<1>7. CASE ExitFinish(c, p)
  BY <1>7, ExitLemma
<1>8. CASE WaitResume(c, p)
  BY <1>0, <1>8, WaitLoopLemma DEF WaitResume, Holds
<1>9. CASE JoinResume(c, p)
  BY <1>0, <1>9, JoinLoopLemma DEF JoinResume, Holds
<1>10. CASE JoinStore(c, p)
  <2>1. pgdir[p] \in Pages /\ cproc[c] = p /\ tmp[p] - 1 \in Int
    BY <1>10, RunningLemma DEF JoinStore, Holds, ProcInv, TypeOK
  <2>2. /\ ptlock' \in CPUs \cup {NULL} /\ shell' \in Procs \cup {NULL}
        /\ word0' \in [Pages -> Int] /\ tmp' \in [Procs -> Int]
    BY <1>10, <2>1 DEF JoinStore, ProcInv, TypeOK
  <2> QED
    BY <1>0, <1>10, <2>1, <2>2, ReturnLemma DEF JoinStore, Holds
<1> QED
  BY <1>1, <1>2, <1>3, <1>4, <1>5, <1>6, <1>7, <1>8, <1>9, <1>10 DEF KernelStep

\* trap() and the system calls.
LEMMA CallLemma ==
  ASSUME ProcInv, NEW c \in CPUs, NEW p \in Procs,
         TrapEnter(c, p) \/ TrapKilled(c, p) \/ SysStep(c, p)
  PROVE  ProcInv'
<1>0. {"user", "sys", "exit"} \subseteq Elsewhere
  BY DEF Creating, Elsewhere, Labels
<1>1. ASSUME cproc[c] = p, pc[p] \in Elsewhere, NEW label \in Elsewhere, Goto(p, label),
             UNCHANGED <<state, chan, killed, cproc, ptlock, pvars>>
      PROVE  ProcInv'
  <2>1. /\ ptlock' \in CPUs \cup {NULL} /\ shell' \in Procs \cup {NULL}
        /\ word0' \in [Pages -> Int] /\ tmp' \in [Procs -> Int]
    BY <1>1 DEF ProcInv, TypeOK, pvars
  <2> QED
    BY <1>1, <2>1, ReturnLemma DEF pvars
<1>2. CASE TrapEnter(c, p) \/ TrapKilled(c, p) \/ ExitCall(c, p) \/ OtherCall(c, p)
  BY <1>0, <1>1, <1>2 DEF TrapEnter, TrapKilled, ExitCall, OtherCall, Call, Runs
<1>3. CASE ForkCall(c, p) \/ CloneCall(c, p)
  <2>1. /\ Runs(c, p) /\ pc[p] = "sys"
        /\ \/ \E q \in Procs : AllocFound(c, p, q, "fork.kalloc")
           \/ \E q \in Procs : AllocFound(c, p, q, "clone.kalloc")
           \/ AllocNone(c, p)
    BY <1>3 DEF ForkCall, CloneCall, Call
  <2>2. CASE \E q \in Procs : AllocFound(c, p, q, "fork.kalloc")
    BY <2>1, <2>2, AllocFoundLemma
  <2>3. CASE \E q \in Procs : AllocFound(c, p, q, "clone.kalloc")
    BY <2>1, <2>3, AllocFoundLemma
  <2>4. CASE AllocNone(c, p)
    BY <1>0, <1>1, <2>1, <2>4 DEF AllocNone, ForkFailed, Runs
  <2> QED
    BY <2>1, <2>2, <2>3, <2>4
<1>4. CASE WaitCall(c, p)
  BY <1>0, <1>4, WaitLoopLemma DEF WaitCall, Call, Runs
<1>5. CASE JoinCall(c, p)
  BY <1>0, <1>5, JoinLoopLemma DEF JoinCall, Call, Runs
<1>6. CASE Exec(c, p) \/ \E k \in KillPids : Kill(c, p, k)
  BY <1>6, ExecLemma, KillLemma
<1> QED
  BY <1>2, <1>3, <1>4, <1>5, <1>6 DEF SysStep

-----------------------------------------------------------------------------
(* The theorems.                                                           *)

\* ProcInv holds in every reachable state: it is implied by Init, preserved
\* by every step, and does not depend on Disciplined.
THEOREM ProcInvariance == Spec => []ProcInv
<1>1. ProcInv /\ [Next]_vars => ProcInv'
  <2> SUFFICES ASSUME ProcInv, [Next]_vars PROVE ProcInv'
    OBVIOUS
  <2>1. CASE Next
    BY <2>1, CpuStepLemma, KernelStepLemma, CallLemma DEF Next
  <2>2. CASE UNCHANGED vars
    <3>1. ptlock' \in CPUs \cup {NULL} /\ UNCHANGED <<state, chan, killed, cproc, pc, pvars>>
      BY <2>2 DEF ProcInv, TypeOK, vars, kvars
    <3> QED
      BY <3>1, LockLemma
  <2> QED
    BY <2>1, <2>2
<1> QED
  BY <1>1, InitLemma, PTL DEF Spec

\* Type correctness of proc.c's table: in particular only pages are freed,
\* and only processes are scheduled.
THEOREM TypeCorrectness == Spec => []TypeOK
  BY ProcInvariance, PTL DEF ProcInv

\* Whatever the number of CPUs and the order in which they take ptable.lock,
\* scheduler(), sched(), yield(), sleep(), exit() and kill() keep every
\* process on at most one CPU.
THEOREM OneCpu == Spec => []OneCpuPerProc
  BY ProcInvariance, PTL DEF ProcInv

\* exit() never misses a parent that sleeps in wait() or join(), nor init
\* when it inherits a zombie.
THEOREM ExitsAreSeen == Spec => []NoMissedExit
  BY ProcInvariance, PTL DEF ProcInv

\* exit() and fork() keep the process tree rooted in init: every process has
\* a living parent to reap it.
THEOREM NoOrphans == Spec => []ParentAlive
  BY ProcInvariance, PTL DEF ProcInv

-----------------------------------------------------------------------------
(* The pages.  PagesAccounted needs programs that do not share address     *)
(* spaces, or that join their threads before they exit, wait or exec and   *)
(* are not killed in between.                                              *)
Orderly == "clone" \notin Calls \/ (Disciplined /\ "kill" \notin Calls)

\* Slots that are free or just taken have no parent and no kernel stack.
Blanks ==
  /\ \A p \in Procs : state[p] = "UNUSED" => parent[p] = NULL /\ kstack[p] = NULL
  /\ \A p \in Procs : state[p] = "EMBRYO" => \E q \in Procs : np[q] = p
  /\ \A p \in Procs : pc[p] \in Creating \ Ready => parent[np[p]] = NULL
  /\ \A p \in Procs : pc[p] \in Creating \ Stacked => kstack[np[p]] = NULL

\* Parents are older than their children, so that the process tree has no
\* cycles.
PidOrder ==
  /\ parent[InitProc] = NULL /\ pid[InitProc] = 1 /\ nextpid >= 2
  /\ \A p \in Procs : pid[p] < nextpid /\ (HasSpace(p) => pid[p] >= 1)
  /\ \A p \in Procs \ {InitProc} : HasSpace(p) => pid[parent[p]] < pid[p]
  /\ \A p \in Procs : np[p] # NULL => pid[p] < pid[np[p]]

\* An address space has one process that did not get it from its parent.
Leader(p) == p = InitProc \/ pgdir[parent[p]] # pgdir[p]
OneLeader ==
  \A p, q \in Procs :
    HasSpace(p) /\ HasSpace(q) /\ Leader(p) /\ Leader(q) /\ pgdir[p] = pgdir[q] => p = q

\* init makes no threads; others have joined theirs before exit() and wait().
Threadless(p) == p = InitProc \/ "clone" \notin Calls
Joined ==
  /\ \A p \in Procs : Threadless(p) => pc[p] \notin {"clone.kalloc", "clone.share"}
  /\ \A p \in Procs : Threadless(p) \/ pc[p] \in {"exit", "wait"} => Threads(p) = {}
  /\ "clone" \in Calls => \A p \in Procs : ~killed[p]

PagesInv == PagesAccounted /\ Blanks /\ PidOrder /\ OneLeader /\ Joined

\* initproc has a slot.
LEMMA InitInProcs == InitProc \in Procs
  BY KthreadAssumption DEF InitProc, Procs

\* The parent of an address space's owner can wait for it: it is another slot,
\* started and not a zombie, whether fork() has published the owner or not.
LEMMA ParentLemma ==
  ASSUME ProcInv, Blanks, NEW p \in Procs \ {InitProc}, HasSpace(p)
  PROVE  /\ parent[p] \in Procs \ {p}
         /\ Started(parent[p]) /\ state[parent[p]] # "ZOMBIE"
<1>1. CASE Started(p)
  BY <1>1 DEF ProcInv, ParentAlive
<1>2. CASE state[p] = "EMBRYO" /\ parent[p] # NULL
  <2>1. PICK r \in Procs : np[r] = p
    BY <1>2 DEF Blanks
  <2>2. pc[r] \in Creating
    BY <2>1, KthreadAssumption DEF ProcInv, CreatorInv, Procs
  <2>3. pc[r] \in Ready
    BY <1>2, <2>1, <2>2 DEF Blanks
  <2>4. parent[p] = r /\ state[r] \in {"RUNNABLE", "RUNNING"} /\ r # p
    BY <1>2, <2>1, <2>2, <2>3 DEF ProcInv, CreatorInv
  <2> QED
    BY <2>4 DEF Started
<1> QED
  BY <1>1, <1>2 DEF HasSpace

\* A slot with a parent owns an address space and is not init; so zombies,
\* free slots and slots under construction have no children.
LEMMA KidLemma ==
  ASSUME ProcInv, Blanks, PidOrder, NEW q \in Procs, parent[q] # NULL
  PROVE  /\ q # InitProc /\ HasSpace(q) /\ parent[q] \in Procs \ {q}
         /\ Started(parent[q]) /\ state[parent[q]] # "ZOMBIE"
<1>1. q # InitProc
  BY DEF PidOrder
<1>2. HasSpace(q)
  BY DEF Blanks, HasSpace, Started, ProcInv, TypeOK, States
<1> QED
  BY <1>1, <1>2, ParentLemma

\* A set of natural numbers that is not empty has a least element.
LEMMA LeastLemma ==
  ASSUME NEW S \in SUBSET Nat, S # {}
  PROVE  \E n \in S : \A m \in S : n <= m
<1> DEFINE R == {ss \in Nat \X Nat : ss[1] < ss[2]}
<1>1. IsWellFoundedOn(R, Nat)
  BY NatLessThanWellFounded, Zenon DEF OpToRel
<1>2. \A m, n \in Nat : m < n => <<m, n>> \in R
  OBVIOUS
<1> HIDE DEF R
<1>3. PICK n \in S : \A m \in S : ~(<<m, n>> \in R)
  BY <1>1, WFMin, Zenon
<1>4. \A m \in S : ~(m < n)
  BY <1>2, <1>3
<1> QED
  BY <1>4

\* The leader of an address space whose threads are all joined is its only
\* owner: of other owners the oldest would be a thread of the leader.
LEMMA OnlyOwner ==
  ASSUME ProcInv, PagesInv, NEW q \in Procs, HasSpace(q), Leader(q), Threads(q) = {},
         NEW r \in Procs \ {q}, HasSpace(r)
  PROVE  pgdir[r] # pgdir[q]
<1> SUFFICES ASSUME pgdir[r] = pgdir[q] PROVE FALSE
  OBVIOUS
<1> DEFINE Others == {s \in Procs \ {q} : HasSpace(s) /\ pgdir[s] = pgdir[q]}
           Pids   == {pid[s] : s \in Others}
<1>1. Pids \in SUBSET Nat /\ Pids # {}
  <2>1. \A s \in Procs : pid[s] \in Nat
    BY DEF ProcInv, TypeOK
  <2>2. r \in Others
    OBVIOUS
  <2> QED
    BY <2>1, <2>2
<1>2. PICK n \in Pids : \A m \in Pids : n <= m
  BY <1>1, LeastLemma
<1>3. PICK s \in Others : pid[s] = n
  BY <1>2
<1>4. s \in Procs \ {q} /\ HasSpace(s) /\ pgdir[s] = pgdir[q]
  BY <1>3
<1>5. ~Leader(s)
  BY <1>4 DEF PagesInv, OneLeader
<1>6. s # InitProc /\ pgdir[parent[s]] = pgdir[q]
  BY <1>4, <1>5 DEF Leader
<1>7. parent[s] \in Procs /\ HasSpace(parent[s])
  BY <1>4, <1>6, ParentLemma DEF PagesInv, HasSpace
<1>8. parent[s] # q
  BY <1>4 DEF Threads, Kids
<1>9. pid[parent[s]] < pid[s]
  BY <1>4, <1>6 DEF PagesInv, PidOrder
<1>10. pid[parent[s]] \in Pids
  BY <1>6, <1>7, <1>8
<1>11. n <= pid[parent[s]] /\ pid[parent[s]] \in Nat /\ n \in Nat
  BY <1>1, <1>2, <1>10
<1> QED
  BY <1>3, <1>9, <1>11

-----------------------------------------------------------------------------
(* Steps and the pages.  Where ProcInv' is assumed it is what the lemmas   *)
(* above prove.                                                            *)

\* A step that neither takes, frees nor reaps anything, and enters exit() or
\* wait() only with all threads joined.
LEMMA PagesFrame ==
  ASSUME ProcInv, PagesInv, ProcInv',
         UNCHANGED <<pid, parent, kstack, pgdir, nextpid, freelist, np>>,
         \A q \in Procs : /\ state'[q] = "UNUSED" <=> state[q] = "UNUSED"
                          /\ state'[q] = "EMBRYO" <=> state[q] = "EMBRYO",
         \A q \in Procs : \/ pc'[q] = pc[q]
                          \/ /\ pc[q] \notin Creating /\ pc'[q] \notin Creating
                             /\ pc'[q] \in {"exit", "wait"} => Threads(q) = {},
         "clone" \in Calls => killed' = killed
  PROVE  PagesInv'
<1>1. \A q \in Procs : HasSpace(q)' <=> HasSpace(q)
  BY DEF HasSpace, Started, ProcInv, TypeOK, States
<1>2. \A q \in Procs : Threads(q)' = Threads(q) /\ (Leader(q)' <=> Leader(q))
  BY DEF Threads, Kids, Leader
<1> USE DEF PagesInv
<1>3. PagesAccounted'
  BY <1>1 DEF PagesAccounted
<1>4. Blanks'
  BY DEF Blanks
<1>5. PidOrder'
  BY <1>1 DEF PidOrder
<1>6. OneLeader'
  BY <1>1, <1>2 DEF OneLeader
<1>7. Joined'
  <2>1. "clone.kalloc" \in Creating /\ "clone.share" \in Creating
    BY DEF Creating
  <2> QED
    BY <1>2, <2>1 DEF Joined, Threadless
<1> QED
  BY <1>3, <1>4, <1>5, <1>6, <1>7

\* allocproc() takes slot q for p.
LEMMA AllocFoundPages ==
  ASSUME ProcInv, PagesInv, NEW c \in CPUs, NEW p \in Procs, Runs(c, p), pc[p] = "sys",
         NEW q \in Procs, NEW label \in {"fork.kalloc", "clone.kalloc"},
         label = "clone.kalloc" => ~Threadless(p),
         AllocFound(c, p, q, label)
  PROVE  PagesInv'
<1>0. /\ state[q] = "UNUSED" /\ q # p /\ q # InitProc
      /\ parent[q] = NULL /\ kstack[q] = NULL
      /\ pc[p] \notin Creating /\ np[p] = NULL
      /\ \A r \in Procs : np[r] # q /\ parent[r] # q
      /\ NULL \notin Procs
  <2>1. state[q] = "UNUSED" /\ q # p /\ q # InitProc
    BY RunningLemma DEF AllocFound, First, Unused, Runs, ProcInv, InitAlive
  <2>2. pc[p] \notin Creating /\ np[p] = NULL
    BY DEF ProcInv, CreatorInv, Creating
  <2>3. \A r \in Procs : np[r] # q
    BY <2>1, KthreadAssumption DEF ProcInv, CreatorInv, Procs
  <2>4. NULL \notin Procs
    BY KthreadAssumption DEF Procs
  <2>5. \A r \in Procs : parent[r] # q
    BY <2>1, <2>4, KidLemma DEF PagesInv, Started
  <2> QED
    BY <2>1, <2>2, <2>3, <2>4, <2>5 DEF PagesInv, Blanks
<1>1. /\ \A r \in Procs : state'[r] = IF r = q THEN "EMBRYO" ELSE state[r]
      /\ \A r \in Procs : pid'[r] = IF r = q THEN nextpid ELSE pid[r]
      /\ \A r \in Procs : np'[r] = IF r = p THEN q ELSE np[r]
      /\ \A r \in Procs : pc'[r] = IF r = p THEN label ELSE pc[r]
      /\ nextpid' = nextpid + 1
      /\ UNCHANGED <<killed, parent, kstack, pgdir, freelist>>
  BY DEF AllocFound, Goto, ProcInv, TypeOK
<1>2. \A r \in Procs : HasSpace(r)' <=> HasSpace(r)
  BY <1>0, <1>1 DEF HasSpace, Started
<1>3. \A r \in Procs : Threads(r)' = Threads(r) /\ (Leader(r)' <=> Leader(r))
  BY <1>1 DEF Threads, Kids, Leader
<1>4. label \in Creating \ Stacked /\ label \notin Ready /\ Ready \subseteq Creating
  BY DEF Creating, Stacked, Ready
<1> USE DEF PagesInv
<1>5. PagesAccounted'
  BY <1>1, <1>2 DEF PagesAccounted
<1>6. Blanks'
  <2>1. \A r \in Procs : state'[r] = "UNUSED" => parent'[r] = NULL /\ kstack'[r] = NULL
    BY <1>1 DEF Blanks
  <2>2. \A r \in Procs : state'[r] = "EMBRYO" => \E s \in Procs : np'[s] = r
    <3> SUFFICES ASSUME NEW r \in Procs, state'[r] = "EMBRYO" PROVE \E s \in Procs : np'[s] = r
      OBVIOUS
    <3>1. CASE r = q
      BY <1>1, <3>1
    <3>2. CASE r # q
      <4>1. PICK s \in Procs : np[s] = r
        BY <1>1, <3>2 DEF Blanks
      <4>2. s # p
        BY <1>0, <4>1
      <4> QED
        BY <1>1, <4>1, <4>2
    <3> QED
      BY <3>1, <3>2
  <2>3. \A r \in Procs : pc'[r] \in Creating \ Ready => parent'[np'[r]] = NULL
    BY <1>0, <1>1 DEF Blanks
  <2>4. \A r \in Procs : pc'[r] \in Creating \ Stacked => kstack'[np'[r]] = NULL
    BY <1>0, <1>1 DEF Blanks
  <2> QED
    BY <2>1, <2>2, <2>3, <2>4 DEF Blanks
<1>7. PidOrder'
  <2>1. nextpid \in Nat /\ \A r \in Procs : pid[r] \in Nat /\ np[r] \in Procs \cup {NULL}
    BY DEF ProcInv, TypeOK
  <2>2. \A r \in Procs : HasSpace(r) => r # q
    BY <1>0 DEF HasSpace, Started
  <2>3. parent'[InitProc] = NULL /\ pid'[InitProc] = 1 /\ nextpid' >= 2
    BY <1>0, <1>1, <2>1, InitInProcs DEF PidOrder
  <2>4. \A r \in Procs : pid'[r] < nextpid' /\ (HasSpace(r)' => pid'[r] >= 1)
    BY <1>1, <1>2, <2>1, <2>2 DEF PidOrder
  <2>5. \A r \in Procs \ {InitProc} : HasSpace(r)' => pid'[parent'[r]] < pid'[r]
    <3> SUFFICES ASSUME NEW r \in Procs \ {InitProc}, HasSpace(r) PROVE pid'[parent[r]] < pid'[r]
      BY <1>1, <1>2
    <3>1. parent[r] \in Procs
      BY ParentLemma
    <3> QED
      BY <1>0, <1>1, <2>2, <3>1 DEF PidOrder
  <2>6. \A r \in Procs : np'[r] # NULL => pid'[r] < pid'[np'[r]]
    <3> SUFFICES ASSUME NEW r \in Procs, np'[r] # NULL PROVE pid'[r] < pid'[np'[r]]
      OBVIOUS
    <3>1. CASE r = p
      BY <1>0, <1>1, <3>1 DEF PidOrder
    <3>2. CASE r # p
      <4>1. np[r] \in Procs \ {q} /\ pid[r] < pid[np[r]]
        BY <1>0, <1>1, <2>1, <3>2 DEF PidOrder
      <4>2. r # q
        <5>1. pc[r] \in Creating
          BY <1>1, <3>2 DEF ProcInv, CreatorInv
        <5> QED
          BY <1>0, <5>1 DEF ProcInv, CreatorInv
      <4> QED
        BY <1>1, <3>2, <4>1, <4>2
    <3> QED
      BY <3>1, <3>2
  <2> QED
    BY <2>3, <2>4, <2>5, <2>6 DEF PidOrder
<1>8. OneLeader'
  BY <1>1, <1>2, <1>3 DEF OneLeader
<1>9. Joined'
  BY <1>1, <1>3 DEF Joined, Threadless
<1> QED
  BY <1>5, <1>6, <1>7, <1>8, <1>9

\* What p may rely on about the slot it creates.
LEMMA OwnSlot ==
  ASSUME ProcInv, PagesInv, NEW p \in Procs, pc[p] \in Creating
  PROVE  /\ np[p] \in Procs \ {p, InitProc} /\ state[np[p]] = "EMBRYO"
         /\ \A r \in Procs : np[r] = np[p] => r = p
         /\ \A r \in Procs : parent[r] # np[p]
         /\ Started(p) /\ pgdir[p] \in Pages \ freelist /\ pid[p] < pid[np[p]]
         /\ NULL \notin Procs
<1>1. np[p] \in Procs /\ state[np[p]] = "EMBRYO" /\ np[p] # p
  BY EmbryoLemma
<1>2. np[p] # InitProc
  BY <1>1 DEF ProcInv, InitAlive
<1>3. NULL \notin Procs
  BY KthreadAssumption DEF Procs
<1>4. \A r \in Procs : np[r] = np[p] => r = p
  BY <1>1, <1>3 DEF ProcInv, CreatorInv
<1>5. \A r \in Procs : parent[r] # np[p]
  BY <1>1, <1>3, KidLemma DEF PagesInv, Started
<1>6. Started(p)
  BY DEF ProcInv, CreatorInv, Started
<1>7. pgdir[p] \in Pages \ freelist
  BY <1>6 DEF PagesInv, PagesAccounted, HasSpace
<1>8. pid[p] < pid[np[p]]
  BY <1>1, <1>3 DEF PagesInv, PidOrder
<1> QED
  BY <1>1, <1>2, <1>3, <1>4, <1>5, <1>6, <1>7, <1>8

\* kalloc() gives the slot of p a kernel stack.
LEMMA KstackPages ==
  ASSUME ProcInv, PagesInv, NEW p \in Procs, pc[p] \in Creating \ Stacked,
         NEW g \in Heads(freelist), freelist' = freelist \ {g},
         kstack' = [kstack EXCEPT ![np[p]] = g],
         NEW label \in Stacked \ Ready, Goto(p, label),
         label = "clone.share" => ~Threadless(p),
         UNCHANGED <<state, np, killed, pid, parent, pgdir, nextpid>>
  PROVE  PagesInv'
<1> DEFINE q == np[p]
<1>0. /\ q \in Procs \ {p, InitProc} /\ state[q] = "EMBRYO"
      /\ \A r \in Procs : np[r] = q => r = p
      /\ Ready \subseteq Creating /\ label \in Creating /\ label \notin {"exit", "wait", "clone.kalloc"}
  BY OwnSlot DEF Creating, Stacked, Ready
<1>1. g \in freelist /\ g \in Pages /\ g # NULL
  BY KallocLemma, ProcAssumption DEF ProcInv
<1>2. /\ \A r \in Procs : kstack'[r] = IF r = q THEN g ELSE kstack[r]
      /\ \A r \in Procs : pc'[r] = IF r = p THEN label ELSE pc[r]
  BY <1>0 DEF ProcInv, TypeOK, Goto
<1>3. kstack[q] = NULL /\ parent[q] = NULL
  BY <1>0 DEF PagesInv, Blanks, Stacked, Ready
<1> HIDE DEF q
<1>4. \A r \in Procs : HasSpace(r)' <=> HasSpace(r)
  BY DEF HasSpace, Started
<1>5. \A r \in Procs : Threads(r)' = Threads(r) /\ (Leader(r)' <=> Leader(r))
  BY DEF Threads, Kids, Leader
<1> USE DEF PagesInv
<1>6. PagesAccounted'
  <2>1. \A r \in Procs : kstack'[r] # NULL => kstack'[r] \notin freelist'
    BY <1>2 DEF PagesAccounted
  <2>2. \A r \in Procs : HasSpace(r)' => pgdir'[r] \in Pages \ freelist'
    BY <1>4 DEF PagesAccounted
  <2>3. \A r, s \in Procs : kstack'[r] = kstack'[s] /\ kstack'[r] # NULL => r = s
    BY <1>1, <1>2 DEF PagesAccounted
  <2>4. \A r, s \in Procs : HasSpace(r)' => pgdir'[r] # kstack'[s]
    BY <1>1, <1>2, <1>4 DEF PagesAccounted
  <2>5. \A h \in Pages \ freelist' :
          \E r \in Procs : kstack'[r] = h \/ (HasSpace(r)' /\ pgdir'[r] = h)
    <3> SUFFICES ASSUME NEW h \in Pages, h \notin freelist
                 PROVE  \E r \in Procs : kstack'[r] = h \/ (HasSpace(r)' /\ pgdir'[r] = h)
      BY <1>0, <1>2
    <3>1. PICK r \in Procs : kstack[r] = h \/ (HasSpace(r) /\ pgdir[r] = h)
      BY DEF PagesAccounted
    <3> QED
      BY <1>2, <1>3, <1>4, <3>1, ProcAssumption
  <2> QED
    BY <2>1, <2>2, <2>3, <2>4, <2>5 DEF PagesAccounted
<1>7. Blanks'
  <2>1. \A r \in Procs : state'[r] = "UNUSED" => parent'[r] = NULL /\ kstack'[r] = NULL
    BY <1>0, <1>2 DEF Blanks
  <2>2. \A r \in Procs : pc'[r] \in Creating \ Ready => parent'[np'[r]] = NULL
    BY <1>2, <1>3 DEF Blanks, q
  <2>3. \A r \in Procs : pc'[r] \in Creating \ Stacked => kstack'[np'[r]] = NULL
    <3> SUFFICES ASSUME NEW r \in Procs, pc'[r] \in Creating \ Stacked
                 PROVE  kstack'[np[r]] = NULL
      OBVIOUS
    <3>1. r # p /\ pc[r] \in Creating \ Stacked
      BY <1>2
    <3>2. np[r] \in Procs \ {q}
      BY <1>0, <3>1, EmbryoLemma
    <3> QED
      BY <1>2, <3>1, <3>2 DEF Blanks
  <2> QED
    BY <2>1, <2>2, <2>3 DEF Blanks
<1>8. PidOrder'
  BY <1>4 DEF PidOrder
<1>9. OneLeader'
  BY <1>4, <1>5 DEF OneLeader
<1>10. Joined'
  BY <1>0, <1>2, <1>5 DEF Joined, Threadless
<1> QED
  BY <1>6, <1>7, <1>8, <1>9, <1>10

\* p gives its slot up: its kernel stack, if it has one, goes back to kalloc.
LEMMA GiveUpPages ==
  ASSUME ProcInv, PagesInv, NEW p \in Procs, pc[p] \in Creating \ Ready, ForkFailed(p),
         state' = [state EXCEPT ![np[p]] = "UNUSED"],
         np' = [np EXCEPT ![p] = NULL],
         kstack' = [kstack EXCEPT ![np[p]] = NULL],
         pgdir' = pgdir \/ pgdir' = [pgdir EXCEPT ![np[p]] = NULL],
         freelist' = freelist \cup ({kstack[np[p]]} \ {NULL}),
         UNCHANGED <<killed, pid, parent, nextpid>>
  PROVE  PagesInv'
<1> DEFINE q == np[p]
<1>0. /\ q \in Procs \ {p, InitProc} /\ state[q] = "EMBRYO"
      /\ \A r \in Procs : np[r] = q => r = p
      /\ \A r \in Procs : parent[r] # q
      /\ parent[q] = NULL
  BY OwnSlot DEF PagesInv, Blanks
<1>1. /\ \A r \in Procs : state'[r] = IF r = q THEN "UNUSED" ELSE state[r]
      /\ \A r \in Procs : np'[r] = IF r = p THEN NULL ELSE np[r]
      /\ \A r \in Procs : kstack'[r] = IF r = q THEN NULL ELSE kstack[r]
      /\ \A r \in Procs : r # q => pgdir'[r] = pgdir[r]
      /\ \A r \in Procs : r # p => pc'[r] = pc[r]
      /\ pc'[p] = IF p = InitProc THEN "exit" ELSE "user"
      /\ freelist' = freelist \cup ({kstack[q]} \ {NULL})
  BY <1>0 DEF ProcInv, TypeOK, ForkFailed, Goto
<1> HIDE DEF q
<1>2. \A r \in Procs : HasSpace(r)' <=> HasSpace(r)
  BY <1>0, <1>1 DEF HasSpace, Started
<1>3. \A r \in Procs : HasSpace(r) => r # q /\ pgdir'[r] = pgdir[r]
  BY <1>0, <1>1 DEF HasSpace, Started
<1>4. \A r \in Procs : HasSpace(r) => (Leader(r)' <=> Leader(r))
  <2> SUFFICES ASSUME NEW r \in Procs \ {InitProc}, HasSpace(r) PROVE Leader(r)' <=> Leader(r)
    BY DEF Leader
  <2>1. parent[r] \in Procs \ {q}
    BY <1>0, ParentLemma DEF PagesInv
  <2> QED
    BY <1>1, <1>3, <2>1 DEF Leader
<1>5. \A r \in Procs : Threads(r)' \subseteq Threads(r)
  <2> SUFFICES ASSUME NEW r \in Procs, NEW s \in Procs, parent[s] = r, pgdir'[s] = pgdir'[r]
               PROVE  pgdir[s] = pgdir[r]
    BY DEF Threads, Kids
  <2>1. r # q /\ s # q
    BY <1>0, OwnSlot
  <2> QED
    BY <1>1, <2>1
<1> USE DEF PagesInv
<1>6. PagesAccounted'
  <2>1. \A r \in Procs : kstack'[r] # NULL => kstack'[r] \notin freelist'
    BY <1>0, <1>1 DEF PagesAccounted
  <2>2. \A r \in Procs : HasSpace(r)' => pgdir'[r] \in Pages \ freelist'
    BY <1>0, <1>1, <1>2, <1>3 DEF PagesAccounted
  <2>3. \A r, s \in Procs : kstack'[r] = kstack'[s] /\ kstack'[r] # NULL => r = s
    BY <1>1 DEF PagesAccounted
  <2>4. \A r, s \in Procs : HasSpace(r)' => pgdir'[r] # kstack'[s]
    <3> SUFFICES ASSUME NEW r \in Procs, NEW s \in Procs, HasSpace(r) PROVE pgdir'[r] # kstack'[s]
      BY <1>2
    <3>1. pgdir'[r] = pgdir[r] /\ pgdir[r] \in Pages /\ pgdir[r] # kstack[s]
      BY <1>3 DEF PagesAccounted
    <3> QED
      BY <1>1, <3>1, ProcAssumption
  <2>5. \A h \in Pages \ freelist' :
          \E r \in Procs : kstack'[r] = h \/ (HasSpace(r)' /\ pgdir'[r] = h)
    <3> SUFFICES ASSUME NEW h \in Pages \ freelist'
                 PROVE  \E r \in Procs : kstack'[r] = h \/ (HasSpace(r)' /\ pgdir'[r] = h)
      OBVIOUS
    <3>1. h \notin freelist /\ h # kstack[q]
      BY <1>1, ProcAssumption
    <3>2. PICK r \in Procs : kstack[r] = h \/ (HasSpace(r) /\ pgdir[r] = h)
      BY <3>1 DEF PagesAccounted
    <3> QED
      BY <1>1, <1>2, <1>3, <3>1, <3>2
  <2> QED
    BY <2>1, <2>2, <2>3, <2>4, <2>5 DEF PagesAccounted
<1>7. Blanks'
  <2>0. pc'[p] \notin Creating /\ \A r \in Procs : pc'[r] \in Creating => np'[r] \in Procs \ {q} /\ np'[r] = np[r] /\ pc'[r] = pc[r]
    <3>1. pc'[p] \notin Creating
      BY <1>1 DEF Creating
    <3> QED
      BY <1>0, <1>1, <3>1, EmbryoLemma
  <2>1. \A r \in Procs : state'[r] = "UNUSED" => parent'[r] = NULL /\ kstack'[r] = NULL
    BY <1>0, <1>1 DEF Blanks
  <2>2. \A r \in Procs : state'[r] = "EMBRYO" => \E s \in Procs : np'[s] = r
    <3> SUFFICES ASSUME NEW r \in Procs, state'[r] = "EMBRYO" PROVE \E s \in Procs : np'[s] = r
      OBVIOUS
    <3>1. r # q /\ state[r] = "EMBRYO"
      BY <1>1
    <3>2. PICK s \in Procs : np[s] = r
      BY <3>1 DEF Blanks
    <3>3. s # p
      BY <3>1, <3>2 DEF q
    <3> QED
      BY <1>1, <3>2, <3>3
  <2>3. \A r \in Procs : pc'[r] \in Creating \ Ready => parent'[np'[r]] = NULL
    BY <2>0 DEF Blanks
  <2>4. \A r \in Procs : pc'[r] \in Creating \ Stacked => kstack'[np'[r]] = NULL
    BY <1>1, <2>0 DEF Blanks
  <2> QED
    BY <2>1, <2>2, <2>3, <2>4 DEF Blanks
<1>8. PidOrder'
  BY <1>1, <1>2 DEF PidOrder
<1>9. OneLeader'
  BY <1>2, <1>3, <1>4 DEF OneLeader
<1>10. Joined'
  BY <1>1, <1>5 DEF Joined, Threadless
<1> QED
  BY <1>6, <1>7, <1>8, <1>9, <1>10

\* The slot of p gets its address space and its parent: a page from kalloc in
\* fork(), where it becomes the leader of that page, the page of p in clone().
LEMMA FillPages ==
  ASSUME ProcInv, PagesInv, NEW p \in Procs, pc[p] \in Stacked \ Ready,
         NEW g \in Pages,
         pgdir' = [pgdir EXCEPT ![np[p]] = g],
         parent' = [parent EXCEPT ![np[p]] = p],
         NEW label \in Ready, Goto(p, label),
         \/ g \in freelist /\ freelist' = freelist \ {g}
         \/ g = pgdir[p] /\ freelist' = freelist /\ ~Threadless(p),
         UNCHANGED <<state, np, killed, pid, kstack, nextpid>>
  PROVE  PagesInv'
<1> DEFINE q == np[p]
<1>0. /\ q \in Procs \ {p, InitProc} /\ state[q] = "EMBRYO"
      /\ \A r \in Procs : np[r] = q => r = p
      /\ \A r \in Procs : parent[r] # q
      /\ parent[q] = NULL /\ NULL \notin Procs
      /\ Started(p) /\ pgdir[p] \in Pages \ freelist /\ pid[p] < pid[q]
      /\ Ready \subseteq Creating /\ Ready \subseteq Stacked /\ Stacked \subseteq Creating
  <2>1. pc[p] \in Creating \ Ready /\ Ready \subseteq Stacked /\ Stacked \subseteq Creating
    BY DEF Creating, Stacked, Ready
  <2> QED
    BY <2>1, OwnSlot DEF PagesInv, Blanks
<1>1. /\ \A r \in Procs : pgdir'[r] = IF r = q THEN g ELSE pgdir[r]
      /\ \A r \in Procs : parent'[r] = IF r = q THEN p ELSE parent[r]
      /\ \A r \in Procs : pc'[r] = IF r = p THEN label ELSE pc[r]
  BY <1>0 DEF ProcInv, TypeOK, Goto
<1>2. q = np[p]
  OBVIOUS
<1> HIDE DEF q
<1>3. \A r \in Procs : HasSpace(r)' <=> r = q \/ HasSpace(r)
  BY <1>0, <1>1 DEF HasSpace, Started
<1>4. \A r \in Procs : HasSpace(r) => r # q /\ pgdir'[r] = pgdir[r]
  BY <1>0, <1>1 DEF HasSpace, Started
<1>5. \A r \in Procs : HasSpace(r) => (Leader(r)' <=> Leader(r))
  <2> SUFFICES ASSUME NEW r \in Procs \ {InitProc}, HasSpace(r) PROVE Leader(r)' <=> Leader(r)
    BY DEF Leader
  <2>1. parent[r] \in Procs \ {q} /\ r # q
    BY <1>0, <1>4, ParentLemma DEF PagesInv
  <2> QED
    BY <1>1, <2>1 DEF Leader
<1>6. \A r \in Procs : r = q => (Leader(r)' <=> g # pgdir[p])
  BY <1>0, <1>1 DEF Leader
<1>7. \A r \in Procs \ {p} : Threads(r)' \subseteq Threads(r)
  BY <1>0, <1>1 DEF Threads, Kids
<1>8. g # pgdir[p] => Threads(p)' \subseteq Threads(p)
  BY <1>0, <1>1 DEF Threads, Kids
<1>9. g \notin freelist'
  BY <1>0
<1>10. g \in freelist => \A r \in Procs : HasSpace(r) => pgdir[r] # g
  BY DEF PagesInv, PagesAccounted
<1> USE DEF PagesInv
<1>11. PagesAccounted'
  <2>1. \A r \in Procs : kstack'[r] # NULL => kstack'[r] \notin freelist'
    BY <1>0 DEF PagesAccounted
  <2>2. \A r \in Procs : HasSpace(r)' => pgdir'[r] \in Pages \ freelist'
    BY <1>1, <1>3, <1>4, <1>9 DEF PagesAccounted
  <2>3. \A r, s \in Procs : kstack'[r] = kstack'[s] /\ kstack'[r] # NULL => r = s
    BY DEF PagesAccounted
  <2>4. \A r, s \in Procs : HasSpace(r)' => pgdir'[r] # kstack'[s]
    <3>1. \A s \in Procs : g # kstack[s]
      <4>1. CASE g \in freelist
        BY <4>1, ProcAssumption DEF PagesAccounted
      <4>2. CASE g = pgdir[p]
        BY <1>0, <4>2 DEF PagesAccounted, HasSpace
      <4> QED
        BY <4>1, <4>2
    <3> QED
      BY <1>1, <1>3, <1>4, <3>1 DEF PagesAccounted
  <2>5. \A h \in Pages \ freelist' :
          \E r \in Procs : kstack'[r] = h \/ (HasSpace(r)' /\ pgdir'[r] = h)
    <3> SUFFICES ASSUME NEW h \in Pages \ freelist'
                 PROVE  \E r \in Procs : kstack'[r] = h \/ (HasSpace(r)' /\ pgdir'[r] = h)
      OBVIOUS
    <3>1. CASE h = g
      BY <1>0, <1>1, <1>3, <3>1
    <3>2. CASE h # g
      <4>1. h \notin freelist
        BY <3>2
      <4>2. PICK r \in Procs : kstack[r] = h \/ (HasSpace(r) /\ pgdir[r] = h)
        BY <4>1 DEF PagesAccounted
      <4> QED
        BY <1>3, <1>4, <4>2
    <3> QED
      BY <3>1, <3>2
  <2> QED
    BY <2>1, <2>2, <2>3, <2>4, <2>5 DEF PagesAccounted
<1>12. Blanks'
  <2>1. \A r \in Procs : state'[r] = "UNUSED" => parent'[r] = NULL /\ kstack'[r] = NULL
    BY <1>0, <1>1 DEF Blanks
  <2>2. \A r \in Procs : pc'[r] \in Creating \ Ready => parent'[np'[r]] = NULL
    <3> SUFFICES ASSUME NEW r \in Procs, pc'[r] \in Creating \ Ready
                 PROVE  parent'[np[r]] = NULL
      OBVIOUS
    <3>1. r # p /\ pc[r] \in Creating \ Ready
      BY <1>1
    <3>2. np[r] \in Procs \ {q}
      BY <1>0, <3>1, EmbryoLemma
    <3> QED
      BY <1>1, <3>1, <3>2 DEF Blanks
  <2>3. \A r \in Procs : pc'[r] \in Creating \ Stacked => kstack'[np'[r]] = NULL
    BY <1>0, <1>1 DEF Blanks
  <2> QED
    BY <2>1, <2>2, <2>3 DEF Blanks
<1>13. PidOrder'
  <2>1. \A r \in Procs : pid[r] \in Nat
    BY DEF ProcInv, TypeOK
  <2>2. parent'[InitProc] = NULL
    BY <1>0, <1>1, InitInProcs DEF PidOrder
  <2>3. pid[p] >= 1
    BY <1>0 DEF PidOrder, HasSpace
  <2>4. \A r \in Procs : HasSpace(r)' => pid[r] >= 1
    BY <1>0, <1>3, <2>1, <2>3 DEF PidOrder
  <2>5. \A r \in Procs \ {InitProc} : HasSpace(r)' => pid[parent'[r]] < pid[r]
    BY <1>0, <1>1, <1>3, <1>4 DEF PidOrder
  <2> QED
    BY <2>2, <2>4, <2>5 DEF PidOrder
<1>14. OneLeader'
  <2> SUFFICES ASSUME NEW r \in Procs, NEW s \in Procs, HasSpace(r)', HasSpace(s)',
                      Leader(r)', Leader(s)', pgdir'[r] = pgdir'[s], r # s
               PROVE  FALSE
    BY DEF OneLeader
  <2>1. CASE r # q /\ s # q
    BY <1>3, <1>4, <1>5, <2>1 DEF OneLeader
  <2>2. CASE r = q
    BY <1>1, <1>3, <1>4, <1>6, <1>10, <2>2
  <2>3. CASE s = q
    BY <1>1, <1>3, <1>4, <1>6, <1>10, <2>3
  <2> QED
    BY <2>1, <2>2, <2>3
<1>15. Joined'
  <2>1. label \notin {"exit", "wait", "clone.kalloc", "clone.share"}
    BY DEF Ready
  <2>2. \A r \in Procs : Threadless(r) \/ pc'[r] \in {"exit", "wait"} => Threads(r)' = {}
    <3> SUFFICES ASSUME NEW r \in Procs, Threadless(r) \/ pc'[r] \in {"exit", "wait"}
                 PROVE  Threads(r)' = {}
      OBVIOUS
    <3>1. Threads(r) = {}
      BY <1>1, <2>1 DEF Joined
    <3>2. CASE r = p
      <4>1. g # pgdir[p]
        BY <1>0, <1>1, <2>1, <3>2
      <4> QED
        BY <1>8, <3>1, <3>2, <4>1
    <3> QED
      BY <1>7, <3>1, <3>2
  <2> QED
    BY <1>1, <2>1, <2>2 DEF Joined, Threadless
<1> QED
  BY <1>11, <1>12, <1>13, <1>14, <1>15

\* fork() and clone() make the slot of p RUNNABLE.
LEMMA PublishPages ==
  ASSUME ProcInv, PagesInv, NEW c \in CPUs, NEW p \in Procs, NEW from \in Ready,
         NEW to \in {"user", "clone.load"}, Publish(c, p, from, to)
  PROVE  PagesInv'
<1> DEFINE q == np[p]
<1>0. /\ pc[p] \in Ready /\ Ready \subseteq Creating
      /\ q \in Procs \ {p, InitProc} /\ state[q] = "EMBRYO"
      /\ \A r \in Procs : np[r] = q => r = p
      /\ parent[q] = p /\ NULL \notin Procs
  <2>1. pc[p] \in Ready /\ Ready \subseteq Creating
    BY DEF Publish, Creating, Ready
  <2> QED
    BY <2>1, OwnSlot DEF ProcInv, CreatorInv
<1>1. /\ \A r \in Procs : state'[r] = IF r = q THEN "RUNNABLE" ELSE state[r]
      /\ \A r \in Procs : np'[r] = IF r = p THEN NULL ELSE np[r]
      /\ \A r \in Procs : pc'[r] = IF r = q THEN "user" ELSE IF r = p THEN to ELSE pc[r]
      /\ UNCHANGED <<killed, pid, parent, kstack, pgdir, nextpid, freelist>>
  BY <1>0 DEF ProcInv, TypeOK, Publish
<1>2. q = np[p]
  OBVIOUS
<1> HIDE DEF q
<1>3. \A r \in Procs : HasSpace(r)' <=> HasSpace(r)
  BY <1>0, <1>1 DEF HasSpace, Started
<1>4. \A r \in Procs : Threads(r)' = Threads(r) /\ (Leader(r)' <=> Leader(r))
  BY <1>1 DEF Threads, Kids, Leader
<1> USE DEF PagesInv
<1>5. PagesAccounted'
  BY <1>1, <1>3 DEF PagesAccounted
<1>6. Blanks'
  <2>0. \A r \in Procs : pc'[r] \in Creating => np'[r] = np[r] /\ pc'[r] = pc[r]
    <3>1. "user" \notin Creating /\ to \notin Creating
      BY DEF Creating
    <3> QED
      BY <1>1, <3>1
  <2>1. \A r \in Procs : state'[r] = "EMBRYO" => \E s \in Procs : np'[s] = r
    <3> SUFFICES ASSUME NEW r \in Procs, state'[r] = "EMBRYO" PROVE \E s \in Procs : np'[s] = r
      OBVIOUS
    <3>1. r # q /\ state[r] = "EMBRYO"
      BY <1>1
    <3>2. PICK s \in Procs : np[s] = r
      BY <3>1 DEF Blanks
    <3> QED
      BY <1>1, <1>2, <3>1, <3>2
  <2>2. \A r \in Procs : state'[r] = "UNUSED" => parent'[r] = NULL /\ kstack'[r] = NULL
    BY <1>1 DEF Blanks
  <2> QED
    BY <1>1, <2>0, <2>1, <2>2 DEF Blanks
<1>7. PidOrder'
  BY <1>1, <1>3 DEF PidOrder
<1>8. OneLeader'
  BY <1>1, <1>3, <1>4 DEF OneLeader
<1>9. Joined'
  BY <1>1, <1>4 DEF Joined, Threadless
<1> QED
  BY <1>5, <1>6, <1>7, <1>8, <1>9

\* exit(): the children that init inherits are leaders of their address
\* spaces, because p has joined its threads, and init is another leader.
LEMMA ExitPages ==
  ASSUME ProcInv, PagesInv, NEW c \in CPUs, NEW p \in Procs, ExitFinish(c, p)
  PROVE  PagesInv'
<1>0. /\ state[p] = "RUNNING" /\ p # InitProc /\ pc[p] = "exit"
      /\ \A r \in Procs : parent'[r] = IF parent[r] = p THEN InitProc ELSE parent[r]
      /\ UNCHANGED <<killed, pc, pid, kstack, pgdir, nextpid, freelist, np>>
  BY RunningLemma DEF ExitFinish, Runs, Reparent
<1>1. /\ state'[p] = "ZOMBIE"
      /\ \A r \in Procs \ {p} :
           state'[r] = state[r] \/ (state[r] = "SLEEPING" /\ state'[r] = "RUNNABLE")
  <2>1. ExitWakeups(p) \in [Procs -> States]
    BY DEF ProcInv, TypeOK, ExitWakeups, Wakeup1, States
  <2>2. state' = [ExitWakeups(p) EXCEPT ![p] = "ZOMBIE"]
    BY DEF ExitFinish, Sched
  <2>3. \A r \in Procs : \/ ExitWakeups(p)[r] = state[r]
                         \/ state[r] = "SLEEPING" /\ ExitWakeups(p)[r] = "RUNNABLE"
    BY DEF ExitWakeups, Wakeup1
  <2> QED
    BY <2>1, <2>2, <2>3
<1>2. InitProc \in Procs /\ InitProc # NULL /\ p # NULL /\ HasSpace(InitProc)
  BY InitInProcs, KthreadAssumption DEF Procs, ProcInv, InitAlive, HasSpace, Started
<1>3. \A r \in Procs : HasSpace(r)' <=> HasSpace(r)
  BY <1>0, <1>1, <1>2 DEF HasSpace, Started
<1>4. \A r \in Procs : parent[r] = p =>
        r # InitProc /\ HasSpace(r) /\ pgdir[r] # pgdir[p] /\ pgdir[r] # pgdir[InitProc]
  <2> SUFFICES ASSUME NEW r \in Procs, parent[r] = p
               PROVE  r # InitProc /\ HasSpace(r) /\ pgdir[r] # pgdir[p] /\ pgdir[r] # pgdir[InitProc]
    OBVIOUS
  <2>1. r # InitProc /\ HasSpace(r)
    BY <1>2, KidLemma DEF PagesInv
  <2>2. pgdir[r] # pgdir[p]
    BY <1>0 DEF PagesInv, Joined, Threads, Kids
  <2>3. Leader(r) /\ Leader(InitProc)
    BY <2>2 DEF Leader
  <2> QED
    BY <1>2, <2>1, <2>2, <2>3 DEF PagesInv, OneLeader
<1>5. \A r \in Procs : Leader(r)' <=> Leader(r)
  BY <1>0, <1>4 DEF Leader
<1>6. \A r \in Procs : Threads(r)' \subseteq Threads(r)
  BY <1>0, <1>4 DEF Threads, Kids
<1> USE DEF PagesInv
<1>7. PagesAccounted'
  BY <1>0, <1>3 DEF PagesAccounted
<1>8. Blanks'
  <2>1. \A r \in Procs : parent[r] = NULL => parent'[r] = NULL
    BY <1>0, <1>2
  <2>2. \A r \in Procs : state'[r] = "UNUSED" => parent'[r] = NULL /\ kstack'[r] = NULL
    BY <1>0, <1>1, <2>1 DEF Blanks
  <2>3. \A r \in Procs : state'[r] = "EMBRYO" => \E s \in Procs : np'[s] = r
    BY <1>0, <1>1 DEF Blanks
  <2>4. \A r \in Procs : pc'[r] \in Creating \ Ready => parent'[np'[r]] = NULL
    BY <1>0, <2>1, EmbryoLemma DEF Blanks
  <2>5. \A r \in Procs : pc'[r] \in Creating \ Stacked => kstack'[np'[r]] = NULL
    BY <1>0 DEF Blanks
  <2> QED
    BY <2>2, <2>3, <2>4, <2>5 DEF Blanks
<1>9. PidOrder'
  <2>1. \A r \in Procs : pid[r] \in Nat
    BY DEF ProcInv, TypeOK
  <2>2. parent'[InitProc] = NULL
    BY <1>0, <1>2 DEF PidOrder
  <2>3. pid[p] >= 1 /\ pid[InitProc] = 1
    BY <1>0 DEF PidOrder, HasSpace, Started
  <2>4. \A r \in Procs \ {InitProc} : HasSpace(r) => pid[parent'[r]] < pid[r]
    <3> SUFFICES ASSUME NEW r \in Procs \ {InitProc}, HasSpace(r) PROVE pid[parent'[r]] < pid[r]
      OBVIOUS
    <3>1. pid[parent[r]] < pid[r]
      BY DEF PidOrder
    <3> QED
      BY <1>0, <2>1, <2>3, <3>1
  <2> QED
    BY <1>0, <1>3, <2>2, <2>4 DEF PidOrder
<1>10. OneLeader'
  BY <1>0, <1>3, <1>5 DEF OneLeader
<1>11. Joined'
  BY <1>0, <1>6 DEF Joined, Threadless
<1> QED
  BY <1>7, <1>8, <1>9, <1>10, <1>11

\* wait() and join(): p reaps its zombie child q and frees its kernel stack,
\* and its address space unless that is the address space of p.
LEMMA ReapPages ==
  ASSUME ProcInv, PagesInv, NEW c \in CPUs, NEW p \in Procs, cproc[c] = p, pc[p] \notin Creating,
         NEW q \in Procs, state[q] = "ZOMBIE", parent[q] = p,
         NEW freed, Reap(c, p, q, freed),
         NEW label \in {"user", "join.store"}, Goto(p, label),
         \/ freed = {kstack[q], pgdir[q]} /\ pgdir[q] # pgdir[p]
         \/ freed = {kstack[q]} /\ pgdir[q] = pgdir[p]
  PROVE  PagesInv'
<1>0. /\ state[p] = "RUNNING" /\ q # p /\ q # InitProc /\ p # NULL
      /\ kstack[q] \in Pages /\ pgdir[q] \in Pages
      /\ \A r \in Procs : np[r] # q /\ parent[r] # q
  <2>1. state[p] = "RUNNING" /\ q # InitProc /\ p # NULL /\ q # NULL
    BY RunningLemma, KthreadAssumption DEF ProcInv, InitAlive, Procs
  <2>2. kstack[q] \in Pages /\ pgdir[q] \in Pages
    BY DEF ProcInv, SpaceInv, Started
  <2>3. \A r \in Procs : np[r] # q
    BY <2>1 DEF ProcInv, CreatorInv
  <2>4. \A r \in Procs : parent[r] # q
    BY <2>1, KidLemma DEF PagesInv
  <2> QED
    BY <2>1, <2>2, <2>3, <2>4
<1>1. /\ \A r \in Procs : state'[r] = IF r = q THEN "UNUSED" ELSE state[r]
      /\ \A r \in Procs : pid'[r] = IF r = q THEN 0 ELSE pid[r]
      /\ \A r \in Procs : parent'[r] = IF r = q THEN NULL ELSE parent[r]
      /\ \A r \in Procs : killed'[r] = IF r = q THEN FALSE ELSE killed[r]
      /\ \A r \in Procs : kstack'[r] = IF r = q THEN NULL ELSE kstack[r]
      /\ \A r \in Procs : pc'[r] = IF r = p THEN label ELSE pc[r]
      /\ freelist' = freelist \cup freed
      /\ UNCHANGED <<pgdir, nextpid, np>>
  BY DEF Reap, Goto, ProcInv, TypeOK
<1>2. \A r \in Procs : HasSpace(r)' <=> r # q /\ HasSpace(r)
  BY <1>0, <1>1 DEF HasSpace, Started
<1>3. \A r \in Procs \ {q} : Leader(r)' <=> Leader(r)
  BY <1>1 DEF Leader
<1>4. \A r \in Procs : Threads(r)' \subseteq Threads(r)
  <2>1. \A s \in Procs : NULL # s
    BY KthreadAssumption DEF Procs
  <2> QED
    BY <1>1, <2>1 DEF Threads, Kids
<1>5. HasSpace(q) /\ HasSpace(p)
  BY <1>0 DEF HasSpace, Started
<1>6. \A r \in Procs \ {q} : HasSpace(r) => pgdir[r] \notin freed
  <2> SUFFICES ASSUME NEW r \in Procs \ {q}, HasSpace(r) PROVE pgdir[r] \notin freed
    OBVIOUS
  <2>1. pgdir[r] # kstack[q]
    BY DEF PagesInv, PagesAccounted
  <2>2. ASSUME pgdir[q] # pgdir[p] PROVE pgdir[r] # pgdir[q]
    <3>1. Leader(q)
      BY <2>2 DEF Leader
    <3>2. Threads(q) = {}
      BY <1>0 DEF Threads, Kids
    <3> QED
      BY <1>5, <3>1, <3>2, OnlyOwner
  <2> QED
    BY <2>1, <2>2
<1>7. \A r \in Procs \ {q} : kstack[r] # NULL => kstack[r] \notin freed
  <2> SUFFICES ASSUME NEW r \in Procs \ {q}, kstack[r] # NULL PROVE kstack[r] \notin freed
    OBVIOUS
  <2>1. kstack[r] # kstack[q] /\ kstack[r] # pgdir[q]
    BY <1>5 DEF PagesInv, PagesAccounted
  <2> QED
    BY <2>1
<1> USE DEF PagesInv
<1>8. PagesAccounted'
  <2>1. \A r \in Procs : kstack'[r] # NULL => kstack'[r] \notin freelist'
    BY <1>1, <1>7 DEF PagesAccounted
  <2>2. \A r \in Procs : HasSpace(r)' => pgdir'[r] \in Pages \ freelist'
    BY <1>1, <1>2, <1>6 DEF PagesAccounted
  <2>3. \A r, s \in Procs : kstack'[r] = kstack'[s] /\ kstack'[r] # NULL => r = s
    BY <1>1 DEF PagesAccounted
  <2>4. \A r, s \in Procs : HasSpace(r)' => pgdir'[r] # kstack'[s]
    <3> SUFFICES ASSUME NEW r \in Procs, NEW s \in Procs, HasSpace(r) PROVE pgdir[r] # kstack'[s]
      BY <1>1, <1>2
    <3>1. pgdir[r] \in Pages /\ pgdir[r] # kstack[s]
      BY DEF PagesAccounted
    <3> QED
      BY <1>1, <3>1, ProcAssumption
  <2>5. \A h \in Pages \ freelist' :
          \E r \in Procs : kstack'[r] = h \/ (HasSpace(r)' /\ pgdir'[r] = h)
    <3> SUFFICES ASSUME NEW h \in Pages, h \notin freelist, h \notin freed
                 PROVE  \E r \in Procs : kstack'[r] = h \/ (HasSpace(r)' /\ pgdir'[r] = h)
      BY <1>1
    <3>1. PICK r \in Procs : kstack[r] = h \/ (HasSpace(r) /\ pgdir[r] = h)
      BY DEF PagesAccounted
    <3>2. CASE r # q
      BY <1>1, <1>2, <3>1, <3>2
    <3>3. CASE r = q
      <4>1. pgdir[p] = h
        BY <3>1, <3>3
      <4> QED
        BY <1>0, <1>1, <1>2, <1>5, <4>1
    <3> QED
      BY <3>2, <3>3
  <2> QED
    BY <2>1, <2>2, <2>3, <2>4, <2>5 DEF PagesAccounted
<1>9. Blanks'
  <2>0. \A r \in Procs : pc'[r] \in Creating => pc'[r] = pc[r] /\ np[r] \in Procs \ {q}
    <3>1. label \notin Creating
      BY DEF Creating
    <3> QED
      BY <1>0, <1>1, <3>1, EmbryoLemma
  <2>1. \A r \in Procs : state'[r] = "UNUSED" => parent'[r] = NULL /\ kstack'[r] = NULL
    BY <1>1 DEF Blanks
  <2>2. \A r \in Procs : state'[r] = "EMBRYO" => \E s \in Procs : np'[s] = r
    BY <1>1 DEF Blanks
  <2>3. \A r \in Procs : pc'[r] \in Creating \ Ready => parent'[np'[r]] = NULL
    BY <1>1, <2>0 DEF Blanks
  <2>4. \A r \in Procs : pc'[r] \in Creating \ Stacked => kstack'[np'[r]] = NULL
    BY <1>1, <2>0 DEF Blanks
  <2> QED
    BY <2>1, <2>2, <2>3, <2>4 DEF Blanks
<1>10. PidOrder'
  <2>1. \A r \in Procs : pid[r] \in Nat /\ np[r] \in Procs \cup {NULL}
    BY DEF ProcInv, TypeOK
  <2>2. nextpid \in Nat /\ nextpid >= 2
    BY DEF ProcInv, TypeOK, PidOrder
  <2>3. parent'[InitProc] = NULL /\ pid'[InitProc] = 1
    BY <1>0, <1>1, InitInProcs DEF PidOrder
  <2>4. \A r \in Procs : pid'[r] < nextpid /\ (HasSpace(r)' => pid'[r] >= 1)
    BY <1>1, <1>2, <2>1, <2>2 DEF PidOrder
  <2>5. \A r \in Procs \ {InitProc} : HasSpace(r)' => pid'[parent'[r]] < pid'[r]
    <3> SUFFICES ASSUME NEW r \in Procs \ {InitProc, q}, HasSpace(r) PROVE pid'[parent[r]] < pid'[r]
      BY <1>1, <1>2
    <3>1. parent[r] \in Procs \ {q}
      BY <1>0, ParentLemma
    <3> QED
      BY <1>1, <3>1 DEF PidOrder
  <2>6. \A r \in Procs : np[r] # NULL => pid'[r] < pid'[np[r]]
    <3> SUFFICES ASSUME NEW r \in Procs, np[r] # NULL PROVE pid'[r] < pid'[np[r]]
      OBVIOUS
    <3>1. np[r] \in Procs \ {q} /\ pid[r] < pid[np[r]] /\ pid[r] \in Nat /\ pid[np[r]] \in Nat
      BY <1>0, <2>1 DEF PidOrder
    <3> QED
      BY <1>1, <3>1
  <2> QED
    BY <1>1, <2>2, <2>3, <2>4, <2>5, <2>6 DEF PidOrder
<1>11. OneLeader'
  BY <1>1, <1>2, <1>3 DEF OneLeader
<1>12. Joined'
  <2>1. label \notin {"exit", "wait", "clone.kalloc", "clone.share"}
    OBVIOUS
  <2>2. \A r \in Procs : pc'[r] \in {"exit", "wait", "clone.kalloc", "clone.share"} => pc'[r] = pc[r]
    BY <1>1, <2>1
  <2>3. \A r \in Procs : Threadless(r) => pc'[r] \notin {"clone.kalloc", "clone.share"}
    BY <2>2 DEF Joined
  <2>4. \A r \in Procs : Threadless(r) \/ pc'[r] \in {"exit", "wait"} => Threads(r)' = {}
    BY <1>4, <2>2 DEF Joined
  <2>5. "clone" \in Calls => \A r \in Procs : ~killed'[r]
    BY <1>1 DEF Joined
  <2> QED
    BY <2>3, <2>4, <2>5 DEF Joined, Threadless
<1> QED
  BY <1>8, <1>9, <1>10, <1>11, <1>12

\* exec(): nobody shares the address space that p frees.
LEMMA ExecPages ==
  ASSUME Orderly, ProcInv, PagesInv, NEW c \in CPUs, NEW p \in Procs, Exec(c, p)
  PROVE  PagesInv'
<1>0. PICK g \in Heads(freelist) :
        pgdir' = [pgdir EXCEPT ![p] = g] /\ freelist' = (freelist \ {g}) \cup {pgdir[p]}
  BY DEF Exec
<1>1. /\ state[p] = "RUNNING" /\ pgdir[p] \in Pages /\ g \in freelist /\ g \in Pages
      /\ p # InitProc /\ HasSpace(p) /\ pc[p] = "sys"
      /\ UNCHANGED <<state, killed, pid, parent, kstack, nextpid, np>>
  <2>1. p # InitProc
    BY DEF Exec, Call, InitCall
  <2> QED
    BY <2>1, RunningLemma, KallocLemma DEF Exec, Call, Runs, ProcInv, HasSpace, Started
<1>2. /\ \A r \in Procs : pgdir'[r] = IF r = p THEN g ELSE pgdir[r]
      /\ \A r \in Procs : pc'[r] = IF r = p THEN "user" ELSE pc[r]
  BY <1>0 DEF ProcInv, TypeOK, Exec, Goto
<1>3. \A r \in Procs \ {p} : HasSpace(r) => pgdir[r] # pgdir[p]
  <2>1. CASE "clone" \in Calls
    BY <2>1 DEF Orderly, Exec, Call, Careful, HasSpace, Started
  <2>2. CASE "clone" \notin Calls
    <3>1. parent[p] \in Procs
      BY <1>1, ParentLemma DEF PagesInv
    <3>2. Threads(p) = {} /\ Threads(parent[p]) = {}
      BY <2>2, <3>1 DEF PagesInv, Joined, Threadless
    <3>3. Leader(p)
      BY <3>2 DEF Threads, Kids, Leader
    <3> QED
      BY <1>1, <3>2, <3>3, OnlyOwner
  <2> QED
    BY <2>1, <2>2
<1>4. \A r \in Procs : HasSpace(r) => pgdir[r] \in Pages \ freelist
  BY DEF PagesInv, PagesAccounted
<1>5. \A r \in Procs : HasSpace(r)' <=> HasSpace(r)
  BY <1>1 DEF HasSpace, Started
<1>6. \A r \in Procs : HasSpace(r) /\ Leader(r)' => r = p \/ Leader(r)
  <2> SUFFICES ASSUME NEW r \in Procs \ {p, InitProc}, HasSpace(r), Leader(r)' PROVE Leader(r)
    BY DEF Leader
  <2>1. parent[r] \in Procs
    BY ParentLemma DEF PagesInv
  <2>2. parent[r] # p => pgdir'[parent[r]] = pgdir[parent[r]]
    BY <1>2, <2>1
  <2>3. parent[r] = p => pgdir[parent[r]] # pgdir[r]
    BY <1>3
  <2> QED
    BY <1>1, <1>2, <2>2, <2>3 DEF Leader
<1>7. \A r \in Procs : Threads(r)' \subseteq Threads(r)
  <2> SUFFICES ASSUME NEW r \in Procs, NEW s \in Procs, parent[s] = r, pgdir'[s] = pgdir'[r]
               PROVE  pgdir[s] = pgdir[r]
    BY <1>1 DEF Threads, Kids
  <2>1. HasSpace(s) /\ HasSpace(r) /\ r # s
    BY KthreadAssumption, KidLemma DEF PagesInv, Procs, HasSpace
  <2> QED
    BY <1>1, <1>2, <1>4, <2>1
<1> USE DEF PagesInv
<1>8. PagesAccounted'
  <2>1. \A r \in Procs : kstack'[r] # NULL => kstack'[r] \notin freelist'
    BY <1>0, <1>1 DEF PagesAccounted
  <2>2. \A r \in Procs : HasSpace(r)' => pgdir'[r] \in Pages \ freelist'
    BY <1>0, <1>1, <1>2, <1>3, <1>4, <1>5
  <2>3. \A r, s \in Procs : kstack'[r] = kstack'[s] /\ kstack'[r] # NULL => r = s
    BY <1>1 DEF PagesAccounted
  <2>4. \A r, s \in Procs : HasSpace(r)' => pgdir'[r] # kstack'[s]
    <3>1. \A s \in Procs : g # kstack[s]
      BY <1>1, ProcAssumption DEF PagesAccounted
    <3> QED
      BY <1>1, <1>2, <1>5, <3>1 DEF PagesAccounted
  <2>5. \A h \in Pages \ freelist' :
          \E r \in Procs : kstack'[r] = h \/ (HasSpace(r)' /\ pgdir'[r] = h)
    <3> SUFFICES ASSUME NEW h \in Pages \ freelist'
                 PROVE  \E r \in Procs : kstack'[r] = h \/ (HasSpace(r)' /\ pgdir'[r] = h)
      OBVIOUS
    <3>1. CASE h = g
      BY <1>1, <1>2, <1>5, <3>1
    <3>2. CASE h # g
      <4>1. h \notin freelist /\ h # pgdir[p]
        BY <1>0, <3>2
      <4>2. PICK r \in Procs : kstack[r] = h \/ (HasSpace(r) /\ pgdir[r] = h)
        BY <4>1 DEF PagesAccounted
      <4> QED
        BY <1>1, <1>2, <1>5, <4>1, <4>2
    <3> QED
      BY <3>1, <3>2
  <2> QED
    BY <2>1, <2>2, <2>3, <2>4, <2>5 DEF PagesAccounted
<1>9. Blanks'
  <2>1. \A r \in Procs : pc'[r] \in Creating => pc'[r] = pc[r]
    BY <1>2 DEF Creating
  <2> QED
    BY <1>1, <2>1 DEF Blanks
<1>10. PidOrder'
  BY <1>1, <1>5 DEF PidOrder
<1>11. OneLeader'
  <2> SUFFICES ASSUME NEW r \in Procs, NEW s \in Procs, HasSpace(r), HasSpace(s),
                      Leader(r)', Leader(s)', pgdir'[r] = pgdir'[s], r # s
               PROVE  FALSE
    BY <1>5 DEF OneLeader
  <2>1. CASE r # p /\ s # p
    BY <1>2, <1>6, <2>1 DEF OneLeader
  <2>2. CASE r = p \/ s = p
    BY <1>1, <1>2, <1>4, <2>2
  <2> QED
    BY <2>1, <2>2
<1>12. Joined'
  BY <1>1, <1>2, <1>7 DEF Joined, Threadless
<1> QED
  BY <1>8, <1>9, <1>10, <1>11, <1>12

\* main() has taken two pages for initproc.
LEMMA InitPages == Init => PagesInv
<1> SUFFICES ASSUME Init PROVE PagesInv
  OBVIOUS
<1>0. PICK ks \in Heads(Pages) : \E pg \in Heads(Pages \ {ks}) :
        /\ state    = [p \in Procs |-> IF p = InitProc THEN "RUNNABLE" ELSE "UNUSED"]
        /\ kstack   = [p \in Procs |-> IF p = InitProc THEN ks ELSE NULL]
        /\ pgdir    = [p \in Procs |-> IF p = InitProc THEN pg ELSE NULL]
        /\ freelist = Pages \ {ks, pg}
  BY DEF Init
<1>1. PICK pg \in Heads(Pages \ {ks}) :
        /\ state    = [p \in Procs |-> IF p = InitProc THEN "RUNNABLE" ELSE "UNUSED"]
        /\ kstack   = [p \in Procs |-> IF p = InitProc THEN ks ELSE NULL]
        /\ pgdir    = [p \in Procs |-> IF p = InitProc THEN pg ELSE NULL]
        /\ freelist = Pages \ {ks, pg}
  BY <1>0
<1>2. /\ killed   = [p \in Procs |-> FALSE]
      /\ pc       = [p \in Procs |-> "user"]
      /\ pid      = [p \in Procs |-> IF p = InitProc THEN 1 ELSE 0]
      /\ parent   = [p \in Procs |-> NULL]
      /\ nextpid  = 2
      /\ np       = [p \in Procs |-> NULL]
  BY DEF Init
<1>3. ks \in Pages /\ pg \in Pages /\ ks # pg /\ ks # NULL /\ pg # NULL
  <2>1. Heads(Pages) \subseteq Pages /\ Heads(Pages \ {ks}) \subseteq Pages \ {ks}
    BY Pages \in SUBSET Pages, Pages \ {ks} \in SUBSET Pages, ProcAssumption
  <2> QED
    BY <2>1, ProcAssumption
<1>4. InitProc \in Procs /\ NULL \notin Procs
  BY InitInProcs, KthreadAssumption DEF Procs
<1>5. \A p \in Procs : HasSpace(p) <=> p = InitProc
  BY <1>1, <1>2 DEF HasSpace, Started
<1>6. \A p \in Procs : Threads(p) = {}
  BY <1>2, <1>4 DEF Threads, Kids
<1>7. PagesAccounted
  BY <1>1, <1>3, <1>4, <1>5 DEF PagesAccounted
<1>8. Blanks
  BY <1>1, <1>2 DEF Blanks, Creating
<1>9. PidOrder
  BY <1>2, <1>4, <1>5 DEF PidOrder
<1>10. OneLeader
  BY <1>5 DEF OneLeader
<1>11. Joined
  BY <1>2, <1>6 DEF Joined
<1> QED
  BY <1>7, <1>8, <1>9, <1>10, <1>11 DEF PagesInv

-----------------------------------------------------------------------------
(* One lemma per group of actions of Next, for the pages.                  *)

\* Orderly programs have joined their threads when they call exit() or wait().
LEMMA CalledJoined ==
  ASSUME Orderly, PagesInv, NEW c \in CPUs, NEW p \in Procs, NEW f \in {"exit", "wait"},
         Call(c, p, f)
  PROVE  Threads(p) = {}
  BY DEF Orderly, Call, Careful, PagesInv, Joined, Threadless

\* p goes on outside fork() and clone(), or returns to user code.
LEMMA QuietPages ==
  ASSUME ProcInv, PagesInv, ProcInv', NEW p \in Procs, pc[p] \notin Creating,
         NEW label \in Elsewhere, Goto(p, label),
         label \in {"exit", "wait"} => Threads(p) = {},
         UNCHANGED <<state, killed, pid, parent, kstack, pgdir, nextpid, freelist, np>>
  PROVE  PagesInv'
<1>1. \A q \in Procs : pc'[q] = IF q = p THEN label ELSE pc[q]
  BY DEF Goto, ProcInv, TypeOK
<1>2. label \notin Creating
  BY DEF Elsewhere
<1> QED
  BY <1>1, <1>2, PagesFrame

\* The scheduler moves nothing but states of started processes.
LEMMA CpuPages ==
  ASSUME ProcInv, PagesInv, ProcInv', NEW c \in CPUs, CpuStep(c)
  PROVE  PagesInv'
<1>1. UNCHANGED <<pid, parent, kstack, pgdir, nextpid, freelist, np, killed, pc>>
  BY DEF CpuStep, pvars, SchedAcquire, SchedRelease, Dispatch, Tick, Yield, Resume
<1>2. \A q \in Procs : /\ state'[q] = "UNUSED" <=> state[q] = "UNUSED"
                       /\ state'[q] = "EMBRYO" <=> state[q] = "EMBRYO"
  <2>1. CASE state' = state
    BY <2>1
  <2>2. CASE \E p \in Procs : Dispatch(c, p)
    BY <2>2 DEF Dispatch, ProcInv, TypeOK
  <2>3. CASE \E p \in Procs : Tick(c, p)
    BY <2>3, RunningLemma DEF Tick, Yield, Sched, Runs, ProcInv, TypeOK
  <2> QED
    BY <2>1, <2>2, <2>3 DEF CpuStep, SchedAcquire, SchedRelease, Resume
<1> QED
  BY <1>1, <1>2, PagesFrame

\* p sleeps in wait() or join().
LEMMA SleepPages ==
  ASSUME ProcInv, PagesInv, ProcInv', NEW c \in CPUs, NEW p \in Procs, cproc[c] = p,
         pc[p] \notin Creating, NEW label \in {"wait", "join"}, SleepOnSelf(c, p, label),
         label = "wait" => Threads(p) = {}
  PROVE  PagesInv'
<1>1. UNCHANGED <<pid, parent, kstack, pgdir, nextpid, freelist, np, killed>>
  BY DEF SleepOnSelf, pvars
<1>2. /\ \A q \in Procs : pc'[q] = IF q = p THEN label ELSE pc[q]
      /\ \A q \in Procs : state'[q] = IF q = p THEN "SLEEPING" ELSE state[q]
  BY DEF SleepOnSelf, Sched, Goto, ProcInv, TypeOK
<1>3. state[p] = "RUNNING" /\ label \notin Creating
  BY RunningLemma DEF Creating
<1> QED
  BY <1>1, <1>2, <1>3, PagesFrame

\* One round of wait(), all threads joined.
LEMMA WaitLoopPages ==
  ASSUME ProcInv, PagesInv, ProcInv', NEW c \in CPUs, NEW p \in Procs, cproc[c] = p,
         pc[p] \notin Creating, Threads(p) = {}, WaitLoop(c, p)
  PROVE  PagesInv'
<1>1. CASE \E q \in Procs :
             /\ First(Zombies(Kids(p)), q)
             /\ Reap(c, p, q, WaitFrees(q))
             /\ Goto(p, "user")
  <2>1. PICK q \in Procs :
             /\ First(Zombies(Kids(p)), q)
             /\ Reap(c, p, q, WaitFrees(q))
             /\ Goto(p, "user")
    BY <1>1
  <2>2. state[q] = "ZOMBIE" /\ parent[q] = p /\ pgdir[q] # pgdir[p]
    BY <2>1 DEF First, Zombies, Kids, Threads
  <2>3. WaitFrees(q) = {kstack[q], pgdir[q]}
    BY DEF WaitFrees
  <2> QED
    BY <2>1, <2>2, <2>3, ReapPages
<1>2. CASE /\ Goto(p, "user")
           /\ UNCHANGED <<state, killed, pid, parent, kstack, pgdir, nextpid, freelist, np>>
  <2>1. "user" \in Elsewhere
    BY DEF Elsewhere, Labels, Creating
  <2> QED
    BY <1>2, <2>1, QuietPages
<1>3. CASE SleepOnSelf(c, p, "wait")
  BY <1>3, SleepPages
<1> QED
  BY <1>1, <1>2, <1>3 DEF WaitLoop

\* One round of join().
LEMMA JoinLoopPages ==
  ASSUME ProcInv, PagesInv, ProcInv', NEW c \in CPUs, NEW p \in Procs, cproc[c] = p,
         pc[p] \notin Creating, JoinLoop(c, p)
  PROVE  PagesInv'
<1>1. CASE \E q \in Procs :
             /\ First(Zombies(Threads(p)), q)
             /\ Reap(c, p, q, {kstack[q]})
             /\ Goto(p, "join.store")
  <2>1. PICK q \in Procs :
             /\ First(Zombies(Threads(p)), q)
             /\ Reap(c, p, q, {kstack[q]})
             /\ Goto(p, "join.store")
    BY <1>1
  <2>2. state[q] = "ZOMBIE" /\ parent[q] = p /\ pgdir[q] = pgdir[p]
    BY <2>1 DEF First, Zombies, Kids, Threads
  <2> QED
    BY <2>1, <2>2, ReapPages
<1>2. CASE SleepOnSelf(c, p, "join")
  BY <1>2, SleepPages
<1> QED
  BY <1>1, <1>2 DEF JoinLoop

\* allocproc() gets a kernel stack, or gives the slot up.
LEMMA AllocKstackPages ==
  ASSUME ProcInv, PagesInv, NEW c \in CPUs, NEW p \in Procs,
         NEW from \in {"fork.kalloc", "clone.kalloc"}, NEW to \in {"fork.copyuvm", "clone.share"},
         to = "clone.share" => from = "clone.kalloc",
         AllocKstack(c, p, from, to)
  PROVE  PagesInv'
<1>0. /\ pc[p] \in Creating \ Stacked /\ pc[p] \in Creating \ Ready
      /\ to \in Stacked \ Ready
      /\ to = "clone.share" => ~Threadless(p)
      /\ UNCHANGED <<killed, pid, parent, pgdir, nextpid>>
  BY DEF AllocKstack, Creating, Stacked, Ready, PagesInv, Joined
<1>1. CASE \E g \in Heads(freelist) :
             /\ freelist' = freelist \ {g}
             /\ kstack' = [kstack EXCEPT ![np[p]] = g]
             /\ Goto(p, to)
             /\ UNCHANGED <<state, np>>
  BY <1>0, <1>1, KstackPages
<1>2. CASE /\ freelist = {}
           /\ kstack' = [kstack EXCEPT ![np[p]] = NULL]
           /\ state' = [state EXCEPT ![np[p]] = "UNUSED"]
           /\ np' = [np EXCEPT ![p] = NULL]
           /\ ForkFailed(p)
           /\ UNCHANGED freelist
  <2>1. kstack[np[p]] = NULL
    BY <1>0 DEF PagesInv, Blanks
  <2>2. freelist' = freelist \cup ({kstack[np[p]]} \ {NULL})
    BY <1>2, <2>1
  <2> QED
    BY <1>0, <1>2, <2>2, GiveUpPages
<1> QED
  BY <1>1, <1>2 DEF AllocKstack

\* copyuvm() succeeds or fails.
LEMMA CopyuvmPages ==
  ASSUME ProcInv, PagesInv, NEW c \in CPUs, NEW p \in Procs, ForkCopyuvm(c, p)
  PROVE  PagesInv'
<1>0. /\ pc[p] \in Stacked \ Ready /\ pc[p] \in Creating \ Ready
      /\ "fork.publish" \in Ready
      /\ kstack[np[p]] \in Pages
      /\ UNCHANGED <<killed, pid, nextpid>>
  <2>1. pc[p] \in Stacked \ Ready /\ pc[p] \in Creating \ Ready /\ "fork.publish" \in Ready
    BY DEF ForkCopyuvm, Creating, Stacked, Ready
  <2> QED
    BY <2>1 DEF ForkCopyuvm, ProcInv, CreatorInv
<1>1. CASE \E g \in Heads(freelist) :
             /\ freelist' = freelist \ {g}
             /\ pgdir' = [pgdir EXCEPT ![np[p]] = g]
             /\ parent' = [parent EXCEPT ![np[p]] = p]
             /\ Goto(p, "fork.publish")
             /\ UNCHANGED <<state, kstack, np>>
  <2>1. PICK g \in Heads(freelist) :
             /\ freelist' = freelist \ {g}
             /\ pgdir' = [pgdir EXCEPT ![np[p]] = g]
             /\ parent' = [parent EXCEPT ![np[p]] = p]
             /\ Goto(p, "fork.publish")
             /\ UNCHANGED <<state, kstack, np>>
    BY <1>1
  <2>2. g \in freelist /\ g \in Pages
    BY KallocLemma DEF ProcInv
  <2> QED
    BY <1>0, <2>1, <2>2, FillPages
<1>2. CASE /\ pgdir' = [pgdir EXCEPT ![np[p]] = NULL]
           /\ freelist' = freelist \cup {kstack[np[p]]}
           /\ kstack' = [kstack EXCEPT ![np[p]] = NULL]
           /\ state' = [state EXCEPT ![np[p]] = "UNUSED"]
           /\ np' = [np EXCEPT ![p] = NULL]
           /\ ForkFailed(p)
           /\ UNCHANGED parent
  <2>1. freelist' = freelist \cup ({kstack[np[p]]} \ {NULL})
    BY <1>0, <1>2, ProcAssumption
  <2> QED
    BY <1>0, <1>2, <2>1, GiveUpPages
<1> QED
  BY <1>1, <1>2 DEF ForkCopyuvm

\* clone() shares the address space of its caller.
LEMMA CloneSharePages ==
  ASSUME ProcInv, PagesInv, NEW c \in CPUs, NEW p \in Procs, CloneShare(c, p)
  PROVE  PagesInv'
<1>1. pc[p] \in Stacked \ Ready /\ "clone.publish" \in Ready /\ ~Threadless(p)
  BY DEF CloneShare, Stacked, Ready, Creating, PagesInv, Joined
<1>2. pgdir[p] \in Pages
  BY RunningLemma DEF CloneShare, Runs
<1> QED
  BY <1>1, <1>2, FillPages DEF CloneShare

LEMMA KernelPages ==
  ASSUME ProcInv, PagesInv, ProcInv', NEW c \in CPUs, NEW p \in Procs, KernelStep(c, p)
  PROVE  PagesInv'
<1>0. /\ {"fork.publish", "clone.publish"} \subseteq Ready
      /\ {"user", "panic", "clone.store"} \subseteq Elsewhere
      /\ {"clone.load", "clone.store", "exit", "wait", "join", "join.store"} \cap Creating = {}
  BY DEF Creating, Ready, Elsewhere, Labels, LockedLabels
<1>1. CASE ForkKstack(c, p) \/ CloneKstack(c, p)
  BY <1>1, AllocKstackPages DEF ForkKstack, CloneKstack
<1>2. CASE ForkCopyuvm(c, p) \/ CloneShare(c, p)
  BY <1>2, CopyuvmPages, CloneSharePages
<1>3. CASE ForkPublish(c, p) \/ ClonePublish(c, p)
  BY <1>0, <1>3, PublishPages DEF ForkPublish, ClonePublish
<1>4. CASE CloneLoad(c, p)
  BY <1>0, <1>4, QuietPages DEF CloneLoad
<1>5. CASE CloneStore(c, p)
  BY <1>0, <1>5, QuietPages DEF CloneStore
<1>6. CASE ExitPanic(c, p)
  BY <1>0, <1>6, QuietPages DEF ExitPanic, pvars
<1>7. CASE ExitFinish(c, p)
  BY <1>7, ExitPages
<1>8. CASE WaitResume(c, p)
  <2>1. Threads(p) = {}
    BY <1>8 DEF WaitResume, PagesInv, Joined
  <2> QED
    BY <1>0, <1>8, <2>1, WaitLoopPages DEF WaitResume, Holds
<1>9. CASE JoinResume(c, p)
  BY <1>0, <1>9, JoinLoopPages DEF JoinResume, Holds
<1>10. CASE JoinStore(c, p)
  BY <1>0, <1>10, QuietPages DEF JoinStore
<1> QED
  BY <1>1, <1>2, <1>3, <1>4, <1>5, <1>6, <1>7, <1>8, <1>9, <1>10 DEF KernelStep

\* trap() and the system calls of orderly programs.
LEMMA CallPages ==
  ASSUME Orderly, ProcInv, PagesInv, ProcInv', NEW c \in CPUs, NEW p \in Procs,
         TrapEnter(c, p) \/ TrapKilled(c, p) \/ SysStep(c, p)
  PROVE  PagesInv'
<1>0. {"user", "sys", "exit"} \subseteq Elsewhere /\ {"user", "sys"} \cap Creating = {}
  BY DEF Creating, Elsewhere, Labels
<1>1. CASE TrapEnter(c, p) \/ OtherCall(c, p)
  BY <1>0, <1>1, QuietPages DEF TrapEnter, OtherCall, pvars
<1>2. CASE TrapKilled(c, p)
  <2>1. Threads(p) = {}
    BY <1>2 DEF TrapKilled, PagesInv, Joined, Threadless
  <2> QED
    BY <1>0, <1>2, <2>1, QuietPages DEF TrapKilled, pvars
<1>3. CASE ExitCall(c, p)
  <2>1. Threads(p) = {} /\ pc[p] = "sys"
    BY <1>3, CalledJoined DEF ExitCall, Call
  <2> QED
    BY <1>0, <1>3, <2>1, QuietPages DEF ExitCall, pvars
<1>4. CASE ForkCall(c, p) \/ CloneCall(c, p)
  <2>1. /\ Runs(c, p) /\ pc[p] = "sys"
        /\ \/ \E q \in Procs : AllocFound(c, p, q, "fork.kalloc")
           \/ (\E q \in Procs : AllocFound(c, p, q, "clone.kalloc")) /\ ~Threadless(p)
           \/ AllocNone(c, p)
    <3>1. CloneCall(c, p) => ~Threadless(p)
      BY DEF CloneCall, Call, InitCall, Threadless
    <3> QED
      BY <1>4, <3>1 DEF ForkCall, CloneCall, Call
  <2>2. CASE \E q \in Procs : AllocFound(c, p, q, "fork.kalloc")
    BY <2>1, <2>2, AllocFoundPages
  <2>3. CASE (\E q \in Procs : AllocFound(c, p, q, "clone.kalloc")) /\ ~Threadless(p)
    BY <2>1, <2>3, AllocFoundPages
  <2>4. CASE AllocNone(c, p)
    <3>1. (Goto(p, "exit") /\ p = InitProc) \/ Goto(p, "user")
      BY <2>4 DEF AllocNone, ForkFailed
    <3>2. p = InitProc => Threads(p) = {}
      BY DEF PagesInv, Joined, Threadless
    <3>3. UNCHANGED <<state, killed, pid, parent, kstack, pgdir, nextpid, freelist, np>>
      BY <2>4 DEF AllocNone, pvars
    <3> QED
      BY <1>0, <2>1, <3>1, <3>2, <3>3, QuietPages
  <2> QED
    BY <2>1, <2>2, <2>3, <2>4
<1>5. CASE WaitCall(c, p)
  <2>1. Threads(p) = {} /\ pc[p] = "sys" /\ cproc[c] = p
    BY <1>5, CalledJoined DEF WaitCall, Call, Runs
  <2> QED
    BY <1>0, <1>5, <2>1, WaitLoopPages DEF WaitCall
<1>6. CASE JoinCall(c, p)
  BY <1>0, <1>6, JoinLoopPages DEF JoinCall, Call, Runs
<1>7. CASE Exec(c, p)
  BY <1>7, ExecPages
<1>8. CASE \E k \in KillPids : Kill(c, p, k)
  <2>1. /\ pc[p] = "sys" /\ Goto(p, "user") /\ "clone" \notin Calls
        /\ UNCHANGED <<pid, parent, kstack, pgdir, nextpid, freelist, np>>
    BY <1>8 DEF Kill, Call, Orderly, pvars
  <2>2. \A q \in Procs : state'[q] = state[q] \/ (state[q] = "SLEEPING" /\ state'[q] = "RUNNABLE")
    BY <1>8 DEF Kill, KillWakes, ProcInv, TypeOK
  <2>3. \A q \in Procs : pc'[q] = IF q = p THEN "user" ELSE pc[q]
    BY <2>1 DEF Goto, ProcInv, TypeOK
  <2> QED
    BY <1>0, <2>1, <2>2, <2>3, PagesFrame
<1> QED
  BY <1>1, <1>2, <1>3, <1>4, <1>5, <1>6, <1>7, <1>8 DEF SysStep

\* allocproc(), fork(), clone(), exec(), wait() and join() neither leak a page
\* nor free one in use, failures of kalloc() included, as long as programs do
\* not share address spaces, or join their threads before they exit, wait or
\* exec and are not killed in between.  Without this the code does free the
\* memory of running threads.
THEOREM PagesAreAccounted == Orderly => (Spec => []PagesAccounted)
<1> SUFFICES ASSUME Orderly PROVE Spec => []PagesAccounted
  OBVIOUS
<1>1. ProcInv /\ ProcInv' /\ PagesInv /\ [Next]_vars => PagesInv'
  <2> SUFFICES ASSUME ProcInv, ProcInv', PagesInv, [Next]_vars PROVE PagesInv'
    OBVIOUS
  <2>1. CASE Next
    BY <2>1, CpuPages, KernelPages, CallPages DEF Next
  <2>2. CASE UNCHANGED vars
    BY <2>2, PagesFrame DEF vars, kvars, pvars
  <2> QED
    BY <2>1, <2>2
<1>2. PagesInv => PagesAccounted
  BY DEF PagesInv
<1> QED
  BY <1>1, <1>2, InitPages, ProcInvariance, PTL DEF Spec

=============================================================================
