--------------------------- MODULE BarrierProofs ---------------------------
(***************************************************************************)
(* Proofs about Barrier for every number of threads, CPUs, parties, calls  *)
(* and cycles: BarrierInv is inductive.  No wakeup is lost because a       *)
(* thread that goes to sleep() holds lock or ptable.lock from its test of  *)
(* count until it is SLEEPING, and wakeup() needs both; the calls are      *)
(* separated, when there is one per thread, because count is the number of *)
(* threads that have made it.                                              *)
(***************************************************************************)
EXTENDS Barrier, FiniteSetTheorems, TLAPS

\* The assumptions on constants in the form the steps use them.
LEMMA ConstantsLemma ==
  /\ NULL \notin CPUs /\ NULL \notin Procs /\ NULL # Chan
  /\ Main \in Procs /\ Main \notin Threads /\ Threads \subseteq Procs
  /\ \A p \in Procs : p = Main \/ p \in Threads
  /\ Parties \in Nat /\ Calls \in Nat /\ Calls >= 1 /\ Cycles \in Nat
  BY KthreadAssumption, BarrierAssumption DEF Procs, Threads, Main, Chan

\* The boot state satisfies the invariant.
LEMMA InitLemma == Init => BarrierInv
<1> SUFFICES ASSUME Init PROVE BarrierInv
  OBVIOUS
<1> USE ConstantsLemma DEF Init
<1>1. TypeOK
  BY DEF TypeOK, States, Labels, MainLabels
<1>2. OneCpuPerProc /\ HandOffInv
  BY DEF OneCpuPerProc, HandOffInv, InLock, InPtable
<1>3. MainInv /\ ThreadInv
  BY DEF MainInv, ThreadInv, MainLabels, InCall, SleepLabels, SleepLocked
<1>4. NoLostWakeup /\ CountInv
  BY DEF NoLostWakeup, CountInv, Separation
<1> QED
  BY <1>1, <1>2, <1>3, <1>4 DEF BarrierInv

\* The assignments of passed[] and entered[] keep their types: a thread whose
\* call is not over has counted it.
LEMMA TypeLemma ==
  ASSUME BarrierInv, [Next]_vars
  PROVE  TypeOK'
<1> USE ConstantsLemma DEF Goto, bvars
<1>0. TypeOK
  BY DEF BarrierInv
<1>1. ASSUME NEW c \in CPUs, SchedStep(c), UNCHANGED bvars PROVE TypeOK'
  <2> USE <1>0, <1>1 DEF TypeOK, States
  <2>1. CASE SchedAcquire(c)
    BY <2>1 DEF SchedAcquire, SchedStep
  <2>2. CASE SchedRelease(c)
    BY <2>2 DEF SchedRelease, SchedStep
  <2>3. CASE \E p \in Procs : Dispatch(c, p)
    BY <2>3 DEF Dispatch, SchedStep
  <2>4. CASE \E p \in Procs : lk # c /\ Yield(c, p)
    BY <2>4 DEF Yield, Sched, SchedStep
  <2>5. CASE \E p \in Procs : Resume(c, p, SleepLocked)
    BY <2>5 DEF Resume, SchedStep
  <2> QED
    BY <2>1, <2>2, <2>3, <2>4, <2>5 DEF SchedStep
<1>2. ASSUME NEW c \in CPUs, NEW p \in Threads, SleepStep(c, p, Chan), UNCHANGED bvars
      PROVE  TypeOK'
  <2> USE <1>0, <1>2 DEF TypeOK, States, Labels, SleepLabels, SleepLocked
  <2>1. CASE SleepAcquire(c, p)
    BY <2>1 DEF SleepAcquire
  <2>2. CASE SleepRelease(c, p)
    BY <2>2 DEF SleepRelease
  <2>3. CASE SleepSwitch(c, p, Chan)
    BY <2>3 DEF SleepSwitch, Sched
  <2>4. CASE SleepWake(c, p)
    BY <2>4 DEF SleepWake
  <2> QED
    BY <2>1, <2>2, <2>3, <2>4 DEF SleepStep
<1>3. ASSUME NEW c \in CPUs, InitCount(c) PROVE TypeOK'
  <2>1. cycle' \in 0..Cycles
    BY <1>0, <1>3 DEF InitCount, TypeOK
  <2> QED
    BY <1>0, <1>3, <2>1 DEF InitCount, TypeOK, Labels, MainLabels
<1>4. ASSUME NEW c \in CPUs, InitLock(c) \/ InitProcCount(c) PROVE TypeOK'
  BY <1>0, <1>4 DEF InitLock, InitProcCount, TypeOK, Labels, MainLabels
<1>5. ASSUME NEW c \in CPUs, CreateThreads(c) PROVE TypeOK'
  BY <1>0, <1>5 DEF CreateThreads, TypeOK, States, Labels, MainLabels
<1>6. ASSUME NEW c \in CPUs, JoinThreads(c) PROVE TypeOK'
  BY <1>0, <1>6 DEF JoinThreads, TypeOK, States, Labels, MainLabels
<1>7. ASSUME NEW c \in CPUs, NEW p \in Threads, BarrierLock(c, p) PROVE TypeOK'
  <2>1. count' \in Nat /\ entered' \in [Threads -> 0..Calls]
    BY <1>0, <1>7 DEF BarrierLock, TypeOK
  <2>2. pc' \in [Procs -> Labels] /\ lk' \in CPUs \cup {NULL}
    BY <1>0, <1>7 DEF BarrierLock, Loop, TypeOK, Labels, SleepLabels
  <2> QED
    BY <1>0, <1>7, <2>1, <2>2 DEF BarrierLock, TypeOK
<1>8. ASSUME NEW c \in CPUs, NEW p \in Threads, BarrierRetest(c, p) PROVE TypeOK'
  BY <1>0, <1>8 DEF BarrierRetest, Loop, TypeOK, Labels, SleepLabels
<1>9. ASSUME NEW c \in CPUs, NEW p \in Threads, BarrierWakeup(c, p) PROVE TypeOK'
  <2>1. passed' \in [Threads -> 0..Calls]
    <3>1. passed[p] + 1 = entered[p] /\ passed[p] \in 0..Calls /\ entered[p] \in 0..Calls
      BY <1>0, <1>9 DEF BarrierWakeup, BarrierInv, ThreadInv, InCall, TypeOK
    <3> QED
      BY <1>0, <1>9, <3>1 DEF BarrierWakeup, TypeOK
  <2>2. state' \in [Procs -> States]
    BY <1>0, <1>9 DEF BarrierWakeup, WakeupAll, Wakeup1, TypeOK, States
  <2> QED
    BY <1>0, <1>9, <2>1, <2>2 DEF BarrierWakeup, TypeOK, Labels
<1>10. ASSUME NEW c \in CPUs, NEW p \in Threads, Exit(c, p) PROVE TypeOK'
  BY <1>0, <1>10 DEF Exit, Sched, TypeOK, States, Labels
<1>11. CASE UNCHANGED vars
  BY <1>0, <1>11 DEF vars, kvars, TypeOK
<1> QED
  BY <1>1, <1>2, <1>3, <1>4, <1>5, <1>6, <1>7, <1>8, <1>9, <1>10, <1>11
  DEF Next, MainStep, ThreadStep

-----------------------------------------------------------------------------
(* Steps that leave the barrier alone.                                     *)

\* What a step of p on c may rely on.
LEMMA RunningLemma ==
  ASSUME BarrierInv, NEW c \in CPUs, NEW p \in Procs, cproc[c] = p
  PROVE  /\ state[p] = "RUNNING"
         /\ \A d \in CPUs : cproc[d] = p => d = c
         /\ pc[p] \in InLock => lk = c
         /\ pc[p] \in InPtable => ptlock = c
         /\ \A q \in Procs : lk = c /\ pc[q] \in InLock => q = p
         /\ \A q \in Procs : ptlock = c /\ pc[q] \in InPtable => q = p
  BY ConstantsLemma DEF BarrierInv, OneCpuPerProc, HandOffInv

\* The count of the barrier and the labels of main are as before.
LEMMA SameCount ==
  ASSUME CountInv, pc'[Main] = pc[Main], UNCHANGED <<count, entered, passed>>
  PROVE  CountInv'
  BY DEF CountInv, Separation, Entered

\* A step of the scheduler or of the timer interrupt: labels and the barrier
\* stay, and nobody falls asleep, exits or comes back.
LEMMA QuietLemma ==
  ASSUME BarrierInv, TypeOK', OneCpuPerProc', HandOffInv',
         UNCHANGED <<pc, chan, lk, bvars>>,
         \A p \in Procs : \/ state'[p] = state[p]
                          \/ {state[p], state'[p]} \subseteq {"RUNNABLE", "RUNNING"}
  PROVE  BarrierInv'
<1> USE ConstantsLemma DEF BarrierInv, bvars
<1>1. MainInv'
  BY DEF MainInv
<1>2. ThreadInv'
  BY DEF ThreadInv, Blocked
<1>3. NoLostWakeup'
  BY DEF NoLostWakeup, Blocked
<1> QED
  BY <1>1, <1>2, <1>3, SameCount

\* The scheduler and the timer interrupt.
LEMMA SchedStepLemma ==
  ASSUME BarrierInv, TypeOK', NEW c \in CPUs, SchedStep(c), UNCHANGED bvars
  PROVE  BarrierInv'
<1> USE ConstantsLemma
<1>0. TypeOK /\ OneCpuPerProc /\ HandOffInv
  BY DEF BarrierInv
<1>1. CASE SchedAcquire(c)
  <2>1. OneCpuPerProc' /\ HandOffInv'
    BY <1>0, <1>1 DEF SchedAcquire, SchedStep, OneCpuPerProc, HandOffInv
  <2> QED
    BY <1>1, <2>1, QuietLemma DEF SchedAcquire, SchedStep
<1>2. CASE SchedRelease(c)
  <2>1. \A p \in Procs : pc[p] \in InPtable => ptlock # c
    BY <1>0, <1>2 DEF SchedRelease, HandOffInv
  <2>2. OneCpuPerProc' /\ HandOffInv'
    BY <1>0, <1>2, <2>1 DEF SchedRelease, SchedStep, OneCpuPerProc, HandOffInv
  <2> QED
    BY <1>2, <2>2, QuietLemma DEF SchedRelease, SchedStep
<1>3. ASSUME NEW p \in Procs, Dispatch(c, p), UNCHANGED lk PROVE BarrierInv'
  <2>1. /\ state[p] = "RUNNABLE" /\ \A d \in CPUs : cproc[d] # p
        /\ \A q \in Procs : pc[q] \in InPtable \/ pc[q] \in InLock => cproc[c] # q /\ q # p
    BY <1>0, <1>3 DEF Dispatch, OneCpuPerProc, HandOffInv
  <2>2. /\ state' = [state EXCEPT ![p] = "RUNNING"]
        /\ cproc' = [cproc EXCEPT ![c] = p]
        /\ cproc[c] = NULL
        /\ UNCHANGED <<ptlock, pc, chan, lk>>
    BY <1>3 DEF Dispatch
  <2>3. OneCpuPerProc'
    BY <1>0, <2>1, <2>2 DEF OneCpuPerProc, TypeOK
  <2>4. HandOffInv'
    BY <1>0, <2>1, <2>2 DEF HandOffInv, TypeOK
  <2>5. \A q \in Procs : \/ state'[q] = state[q]
                         \/ {state[q], state'[q]} \subseteq {"RUNNABLE", "RUNNING"}
    BY <1>0, <2>1, <2>2 DEF TypeOK
  <2> QED
    BY <2>2, <2>3, <2>4, <2>5, QuietLemma
<1>4. ASSUME NEW p \in Procs, lk # c, Yield(c, p), UNCHANGED lk PROVE BarrierInv'
  <2>1. /\ state[p] = "RUNNING" /\ cproc[c] = p /\ pc[p] \notin InLock /\ pc[p] \notin InPtable
        /\ \A d \in CPUs : cproc[d] = p => d = c
        /\ \A q \in Procs : pc[q] \notin InPtable
    BY <1>0, <1>4, RunningLemma DEF Yield, Runs, HandOffInv
  <2>2. /\ state' = [state EXCEPT ![p] = "RUNNABLE"]
        /\ cproc' = [cproc EXCEPT ![c] = NULL]
        /\ UNCHANGED <<pc, chan, lk>>
    BY <1>4 DEF Yield, Sched
  <2>3. OneCpuPerProc'
    BY <1>0, <2>1, <2>2 DEF OneCpuPerProc, TypeOK
  <2>4. HandOffInv'
    BY <1>0, <2>1, <2>2 DEF HandOffInv, TypeOK
  <2>5. \A q \in Procs : \/ state'[q] = state[q]
                         \/ {state[q], state'[q]} \subseteq {"RUNNABLE", "RUNNING"}
    BY <1>0, <2>1, <2>2 DEF TypeOK
  <2> QED
    BY <2>2, <2>3, <2>4, <2>5, QuietLemma
<1>5. ASSUME NEW p \in Procs, Resume(c, p, SleepLocked), UNCHANGED lk PROVE BarrierInv'
  <2>1. \A q \in Procs : pc[q] \notin InPtable \/ ptlock # c
    BY <1>5, RunningLemma DEF Resume, Holds, InPtable, SleepLocked
  <2>2. UNCHANGED <<state, chan, cproc, pc, lk>>
    BY <1>5 DEF Resume
  <2>3. HandOffInv'
    BY <1>0, <1>5, <2>1, <2>2 DEF Resume, Holds, HandOffInv
  <2>4. OneCpuPerProc'
    BY <1>0, <2>2 DEF OneCpuPerProc
  <2> QED
    BY <2>2, <2>3, <2>4, QuietLemma
<1> QED
  BY <1>1, <1>2, <1>3, <1>4, <1>5 DEF SchedStep

\* A step of p on c that takes p from one label to another, with the locks
\* that the labels stand for.
LEMMA MoveLemma ==
  ASSUME BarrierInv, NEW c \in CPUs, NEW p \in Procs, cproc[c] = p,
         UNCHANGED <<state, cproc>>,
         \A q \in Procs \ {p} : pc'[q] = pc[q],
         \/ lk' = lk
         \/ lk' = c /\ lk = NULL
         \/ lk' = NULL /\ lk = c,
         \/ ptlock' = ptlock
         \/ ptlock' = c /\ ptlock = NULL
         \/ ptlock' = NULL /\ ptlock = c,
         pc'[p] \in InLock => lk' = c,
         pc'[p] \in InPtable => ptlock' = c
  PROVE  OneCpuPerProc' /\ HandOffInv'
<1>1. OneCpuPerProc'
  BY DEF BarrierInv, OneCpuPerProc
<1>2. \A q \in Procs : pc'[q] \in InLock => \E d \in CPUs : cproc'[d] = q /\ lk' = d
  <2> SUFFICES ASSUME NEW q \in Procs, pc'[q] \in InLock, q # p
               PROVE  \E d \in CPUs : cproc'[d] = q /\ lk' = d
    OBVIOUS
  <2>1. PICK d \in CPUs : cproc[d] = q /\ lk = d
    BY DEF BarrierInv, HandOffInv
  <2> QED
    BY <2>1, ConstantsLemma
<1>3. \A q \in Procs : pc'[q] \in InPtable => \E d \in CPUs : cproc'[d] = q /\ ptlock' = d
  <2> SUFFICES ASSUME NEW q \in Procs, pc'[q] \in InPtable, q # p
               PROVE  \E d \in CPUs : cproc'[d] = q /\ ptlock' = d
    OBVIOUS
  <2>1. PICK d \in CPUs : cproc[d] = q /\ ptlock = d
    BY DEF BarrierInv, HandOffInv
  <2> QED
    BY <2>1, ConstantsLemma
<1> QED
  BY <1>1, <1>2, <1>3 DEF HandOffInv

\* p leaves the CPU for good or goes to sleep.
LEMMA LeaveLemma ==
  ASSUME BarrierInv, NEW c \in CPUs, NEW p \in Procs, cproc[c] = p,
         ptlock \in {c, NULL},
         NEW st \in {"SLEEPING", "ZOMBIE"}, Sched(c, p, st, state),
         NEW label \in {"sleep.wake", "exit"}, Goto(p, label),
         UNCHANGED lk
  PROVE  OneCpuPerProc' /\ HandOffInv'
<1> USE ConstantsLemma DEF BarrierInv
<1>1. /\ state' = [state EXCEPT ![p] = st] /\ cproc' = [cproc EXCEPT ![c] = NULL]
      /\ pc' = [pc EXCEPT ![p] = label]
      /\ state[p] = "RUNNING" /\ \A d \in CPUs : cproc[d] = p => d = c
      /\ \A q \in Procs \ {p} : pc[q] \notin InPtable
      /\ label \notin InLock /\ label \notin InPtable
      /\ pc \in [Procs -> Labels] /\ cproc \in [CPUs -> Procs \cup {NULL}]
  BY RunningLemma DEF Sched, Goto, InLock, InPtable, HandOffInv, TypeOK
<1>2. OneCpuPerProc'
  BY <1>1 DEF OneCpuPerProc, TypeOK
<1>3. \A q \in Procs : pc'[q] \in InLock => \E d \in CPUs : cproc'[d] = q /\ lk' = d
  <2> SUFFICES ASSUME NEW q \in Procs, pc'[q] \in InLock
               PROVE  \E d \in CPUs : cproc'[d] = q /\ lk' = d
    OBVIOUS
  <2>1. q # p /\ pc[q] \in InLock
    BY <1>1
  <2>2. PICK d \in CPUs : cproc[d] = q /\ lk = d
    BY <2>1 DEF HandOffInv
  <2> QED
    BY <1>1, <2>1, <2>2
<1>4. \A q \in Procs : pc'[q] \notin InPtable
  BY <1>1
<1> QED
  BY <1>2, <1>3, <1>4 DEF HandOffInv

-----------------------------------------------------------------------------
(* Steps of the threads.                                                   *)

\* A step of a thread does not concern main.
LEMMA MainStays ==
  ASSUME BarrierInv, NEW p \in Threads, pc[p] # "exit", NEW label \in Labels \ MainLabels,
         Goto(p, label), state'[Main] = state[Main], UNCHANGED proc_count
  PROVE  MainInv' /\ pc'[Main] = pc[Main] /\ pc[Main] = "main.join"
  BY ConstantsLemma DEF BarrierInv, MainInv, TypeOK, Goto

\* sleep()
LEMMA SleepStepLemma ==
  ASSUME BarrierInv, TypeOK', NEW c \in CPUs, NEW p \in Threads,
         SleepStep(c, p, Chan), UNCHANGED bvars
  PROVE  BarrierInv'
<1> USE ConstantsLemma
<1>0. /\ TypeOK /\ pc \in [Procs -> Labels] /\ state \in [Procs -> States]
      /\ chan \in [Procs -> {Chan, NULL}]
  BY DEF BarrierInv, TypeOK
<1>1. PICK label \in SleepLabels : Goto(p, label)
  BY DEF SleepStep, SleepAcquire, SleepRelease, SleepSwitch, SleepWake, SleepLabels, SleepLocked
<1>2. /\ pc[p] \in SleepLabels /\ pc[p] # "sleep.relock" /\ cproc[c] = p
      /\ SleepLabels \subseteq Labels \ MainLabels
      /\ "exit" \notin SleepLabels /\ "user" \notin SleepLabels /\ "barrier.wakeup" \notin SleepLabels
  BY DEF SleepStep, SleepAcquire, SleepRelease, SleepSwitch, SleepWake, SleepLabels, SleepLocked,
         Runs, Holds, Labels, MainLabels
<1>3. state[p] = "RUNNING"
  BY <1>2, RunningLemma
<1>4. OneCpuPerProc' /\ HandOffInv'
  <2>1. CASE SleepAcquire(c, p)
    <3>1. lk = c
      BY <2>1, RunningLemma DEF SleepAcquire, Runs, InLock
    <3> QED
      BY <1>0, <2>1, <3>1, MoveLemma DEF SleepAcquire, Runs, Goto, InLock, InPtable
  <2>2. CASE SleepRelease(c, p)
    <3>1. lk = c
      BY <2>2, RunningLemma DEF SleepRelease, Holds, InLock
    <3> QED
      BY <1>0, <2>2, <3>1, MoveLemma DEF SleepRelease, Holds, Goto, InLock, InPtable
  <2>3. CASE SleepSwitch(c, p, Chan)
    BY <2>3, LeaveLemma DEF SleepSwitch, Holds
  <2>4. CASE SleepWake(c, p)
    BY <1>0, <2>4, MoveLemma DEF SleepWake, Holds, Goto, InLock, InPtable
  <2> QED
    BY <2>1, <2>2, <2>3, <2>4 DEF SleepStep
<1>5. /\ \A q \in Procs \ {p} : pc'[q] = pc[q] /\ state'[q] = state[q] /\ chan'[q] = chan[q]
      /\ pc'[p] = label
      /\ state'[p] = "SLEEPING" =>
           label = "sleep.wake" /\ chan'[p] = Chan /\ pc[p] = "sleep.switch"
      /\ label \in {"sleep.acquire", "sleep.release", "sleep.switch"} =>
           pc[p] \in {"sleep.acquire", "sleep.release"}
      /\ label # "sleep.wake" \/ state'[p] = "SLEEPING"
  BY <1>0, <1>1, <1>3 DEF SleepStep, SleepAcquire, SleepRelease, SleepSwitch, SleepWake,
                          Goto, Sched
<1>6. MainInv' /\ pc'[Main] = pc[Main]
  BY <1>1, <1>2, <1>5, MainStays DEF bvars
<1>7. ThreadInv'
  <2>1. \A q \in Threads \ {p} : pc'[q] = pc[q] /\ state'[q] = state[q] /\ chan'[q] = chan[q]
    BY <1>5
  <2>2. label \in InCall /\ label \notin {"exit", "user", "barrier.wakeup"} /\ pc[p] \in InCall
    BY <1>2 DEF InCall
  <2>3. state'[p] \in {"RUNNING", "SLEEPING"}
    BY <1>0, <1>3 DEF SleepStep, SleepAcquire, SleepRelease, SleepSwitch, SleepWake, Sched
  <2> QED
    BY <1>5, <2>1, <2>2, <2>3 DEF BarrierInv, ThreadInv, Blocked, bvars
<1>8. NoLostWakeup'
  BY <1>2, <1>5 DEF BarrierInv, NoLostWakeup, Blocked, bvars
<1>9. CountInv'
  BY <1>6, SameCount DEF BarrierInv, bvars
<1> QED
  BY <1>4, <1>6, <1>7, <1>8, <1>9 DEF BarrierInv

\* sleep() has returned: the next test of count.
LEMMA RetestLemma ==
  ASSUME BarrierInv, TypeOK', NEW c \in CPUs, NEW p \in Threads, BarrierRetest(c, p)
  PROVE  BarrierInv'
<1> USE ConstantsLemma
<1> DEFINE label == IF Blocked(count) THEN "sleep.acquire" ELSE "barrier.wakeup"
<1>0. /\ pc \in [Procs -> Labels] /\ cproc[c] = p /\ ptlock # c
      /\ pc[p] = "sleep.relock" /\ lk = NULL /\ lk' = c /\ Goto(p, label)
      /\ UNCHANGED <<state, chan, cproc, ptlock, bvars>>
  BY DEF BarrierInv, TypeOK, BarrierRetest, Runs, Loop
<1>1. label \in Labels \ MainLabels /\ label \notin InPtable /\ label \in InCall
  BY DEF Labels, MainLabels, SleepLabels, InPtable, InCall
<1>2. pc'[p] = label /\ \A q \in Procs \ {p} : pc'[q] = pc[q]
  BY <1>0 DEF Goto
<1>3. OneCpuPerProc' /\ HandOffInv'
  BY <1>0, <1>1, <1>2, MoveLemma
<1>4. MainInv' /\ pc'[Main] = pc[Main]
  BY <1>0, <1>1, MainStays DEF bvars
<1>5. state[p] = "RUNNING"
  BY <1>0, RunningLemma
<1>6. ThreadInv'
  BY <1>0, <1>1, <1>2, <1>5 DEF BarrierInv, ThreadInv, InCall, SleepLabels, Blocked, bvars
<1>7. NoLostWakeup'
  BY <1>0, <1>2, <1>5 DEF BarrierInv, NoLostWakeup, Blocked, bvars
<1>8. CountInv'
  BY <1>0, <1>4, SameCount DEF BarrierInv, bvars
<1> QED
  BY <1>3, <1>4, <1>6, <1>7, <1>8 DEF BarrierInv

\* The thread has made its calls.
LEMMA ExitLemma ==
  ASSUME BarrierInv, TypeOK', NEW c \in CPUs, NEW p \in Threads, Exit(c, p)
  PROVE  BarrierInv'
<1> USE ConstantsLemma
<1>0. /\ pc \in [Procs -> Labels] /\ state \in [Procs -> States]
      /\ cproc[c] = p /\ pc[p] = "user" /\ Goto(p, "exit") /\ Sched(c, p, "ZOMBIE", state)
      /\ ptlock = NULL /\ UNCHANGED <<chan, lk, bvars>>
  BY DEF BarrierInv, TypeOK, Exit, Runs
<1>1. OneCpuPerProc' /\ HandOffInv'
  BY <1>0, LeaveLemma
<1>2. /\ pc'[p] = "exit" /\ state'[p] = "ZOMBIE"
      /\ \A q \in Procs \ {p} : pc'[q] = pc[q] /\ state'[q] = state[q]
  BY <1>0 DEF Goto, Sched
<1>3. MainInv' /\ pc'[Main] = pc[Main]
  BY <1>0, <1>2, MainStays DEF bvars, Labels, MainLabels
<1>4. ThreadInv'
  BY <1>0, <1>2 DEF BarrierInv, ThreadInv, InCall, SleepLabels, SleepLocked, Blocked, bvars
<1>5. NoLostWakeup'
  BY <1>0, <1>2 DEF BarrierInv, NoLostWakeup, Blocked, bvars
<1>6. CountInv'
  BY <1>0, <1>3, SameCount DEF BarrierInv, bvars
<1> QED
  BY <1>1, <1>3, <1>4, <1>5, <1>6 DEF BarrierInv

-----------------------------------------------------------------------------
(* Counting.                                                               *)

\* With one call per thread, the calls are separated when nobody has left
\* before Parties threads have come.
LEMMA SeparationLemma ==
  ASSUME Calls = 1, NEW f \in [Threads -> 0..Calls], NEW g \in [Threads -> 0..Calls]
  PROVE  (\A p \in Threads : g[p] > 0 =>
             Cardinality({q \in Threads : f[q] >= g[p]}) >= Parties)
         <=> ((\E p \in Threads : g[p] > 0) =>
                Cardinality({q \in Threads : f[q] >= 1}) >= Parties)
<1>1. ASSUME NEW p \in Threads, g[p] > 0
      PROVE  {q \in Threads : f[q] >= g[p]} = {q \in Threads : f[q] >= 1}
  <2>1. g[p] = 1
    BY <1>1
  <2> QED
    BY <2>1
<1> QED
  BY <1>1

\* The threads that have called are finitely many.
LEMMA EnteredFinite == IsFiniteSet(Entered) /\ Cardinality(Entered) \in Nat
<1>1. IsFiniteSet(Procs)
  BY FS_Interval, KthreadAssumption DEF Procs
<1>2. Entered \in SUBSET Procs
  BY DEF Entered, Threads
<1>3. IsFiniteSet(Entered)
  BY <1>1, <1>2, FS_Subset
<1> QED
  BY <1>3, FS_CardinalityType

\* The first half of barrier_lock().
LEMMA LockLemma ==
  ASSUME BarrierInv, TypeOK', NEW c \in CPUs, NEW p \in Threads, BarrierLock(c, p)
  PROVE  BarrierInv'
<1> USE ConstantsLemma
<1> DEFINE label == IF Blocked(count + 1) THEN "sleep.acquire" ELSE "barrier.wakeup"
<1>0. /\ pc \in [Procs -> Labels] /\ entered \in [Threads -> 0..Calls]
      /\ passed \in [Threads -> 0..Calls] /\ count \in Nat /\ proc_count \in Nat
      /\ cproc[c] = p /\ ptlock # c
      /\ pc[p] = "user" /\ lk = NULL /\ lk' = c /\ Goto(p, label)
      /\ count' = count + 1 /\ entered[p] < Calls
      /\ entered' = [entered EXCEPT ![p] = @ + 1]
      /\ UNCHANGED <<state, chan, cproc, ptlock, proc_count, passed, cycle>>
  BY DEF BarrierInv, TypeOK, BarrierLock, Runs, Loop
<1>1. label \in Labels \ MainLabels /\ label \notin InPtable /\ label \in InCall
  BY DEF Labels, MainLabels, SleepLabels, InPtable, InCall
<1>2. pc'[p] = label /\ \A q \in Procs \ {p} : pc'[q] = pc[q]
  BY <1>0 DEF Goto
<1>3. OneCpuPerProc' /\ HandOffInv'
  BY <1>0, <1>1, <1>2, MoveLemma
<1>4. MainInv' /\ pc'[Main] = pc[Main] /\ pc[Main] = "main.join"
  BY <1>0, <1>1, MainStays
<1>5. state[p] = "RUNNING"
  BY <1>0, RunningLemma
<1>6. ThreadInv'
  <2>1. \A q \in Threads \ {p} : entered'[q] = entered[q]
    BY <1>0
  <2>2. entered'[p] = passed[p] + 1
    BY <1>0 DEF BarrierInv, ThreadInv
  <2>3. ~Blocked(count) => ~Blocked(count')
    BY <1>0 DEF Blocked
  <2>4. label = "barrier.wakeup" => ~Blocked(count')
    BY <1>0
  <2>5. label \notin {"exit", "user"} /\ label \in InCall
    BY <1>1
  <2> HIDE DEF label
  <2> QED
    BY <1>0, <1>2, <1>5, <2>1, <2>2, <2>3, <2>4, <2>5 DEF BarrierInv, ThreadInv, Blocked
<1>7. NoLostWakeup'
  BY <1>0, <1>2, <1>5 DEF BarrierInv, NoLostWakeup, Blocked
<1>8. CountInv'
  <2> SUFFICES ASSUME Calls = 1 PROVE count' = Cardinality(Entered') /\ Separation'
    BY <1>4 DEF CountInv
  <2>1. Entered' = Entered \cup {p} /\ p \notin Entered
    BY <1>0 DEF Entered
  <2>2. Cardinality(Entered') = Cardinality(Entered) + 1
    BY <2>1, EnteredFinite, FS_AddElement
  <2>3. (\E q \in Threads : passed[q] > 0) => Cardinality(Entered) >= Parties
    BY <1>0, SeparationLemma DEF BarrierInv, CountInv, Separation, Entered
  <2>4. Separation' <=>
          ((\E q \in Threads : passed'[q] > 0) => Cardinality(Entered') >= Parties)
    <3>1. entered' \in [Threads -> 0..Calls] /\ passed' \in [Threads -> 0..Calls]
      BY DEF TypeOK
    <3> QED
      BY <3>1, SeparationLemma DEF Separation, Entered
  <2> QED
    BY <1>0, <1>4, <2>2, <2>3, <2>4, EnteredFinite DEF BarrierInv, CountInv
<1> QED
  BY <1>3, <1>4, <1>6, <1>7, <1>8 DEF BarrierInv

\* The second half: nobody sleeps, or is about to, once wakeup() is done.
LEMMA WakeupLemma ==
  ASSUME BarrierInv, TypeOK', NEW c \in CPUs, NEW p \in Threads, BarrierWakeup(c, p)
  PROVE  BarrierInv'
<1> USE ConstantsLemma
<1>0. /\ pc \in [Procs -> Labels] /\ passed \in [Threads -> 0..Calls] /\ state \in [Procs -> States]
      /\ entered \in [Threads -> 0..Calls] /\ count \in Nat /\ proc_count \in Nat
      /\ cproc[c] = p /\ ptlock = NULL /\ pc[p] = "barrier.wakeup" /\ lk = c /\ lk' = NULL
      /\ Goto(p, "user") /\ state' = WakeupAll
      /\ passed' = [passed EXCEPT ![p] = @ + 1]
      /\ UNCHANGED <<chan, cproc, ptlock, count, proc_count, entered, cycle>>
  BY RunningLemma DEF BarrierInv, TypeOK, BarrierWakeup, Runs, InLock
<1>1. pc'[p] = "user" /\ \A q \in Procs \ {p} : pc'[q] = pc[q]
  BY <1>0 DEF Goto
<1>2. state[p] = "RUNNING" /\ state[Main] # "SLEEPING"
  BY <1>0, RunningLemma DEF BarrierInv, MainInv
<1>3. /\ \A q \in Procs : state[q] # "SLEEPING" => state'[q] = state[q]
      /\ \A q \in Threads : state[q] = "SLEEPING" => state'[q] = "RUNNABLE"
  BY <1>0 DEF WakeupAll, Wakeup1, BarrierInv, ThreadInv
<1>4. OneCpuPerProc'
  BY <1>0, <1>2, <1>3 DEF BarrierInv, OneCpuPerProc
<1>5. \A q \in Procs : pc'[q] \notin InLock /\ pc'[q] \notin InPtable
  BY <1>0, <1>1, RunningLemma DEF BarrierInv, HandOffInv, InLock, InPtable
<1>6. MainInv' /\ pc'[Main] = pc[Main] /\ pc[Main] = "main.join"
  BY <1>0, <1>2, <1>3, MainStays DEF Labels, MainLabels
<1>7. ThreadInv'
  <2>1. passed'[p] = entered[p] /\ \A q \in Threads \ {p} : passed'[q] = passed[q]
    BY <1>0 DEF BarrierInv, ThreadInv, InCall
  <2>2. \A q \in Threads : pc'[q] = "exit" <=> state'[q] \in {"UNUSED", "ZOMBIE"}
    BY <1>0, <1>1, <1>2, <1>3 DEF BarrierInv, ThreadInv
  <2>3. "user" \notin InCall
    BY DEF InCall, SleepLabels, SleepLocked
  <2> QED
    BY <1>0, <1>1, <1>2, <1>3, <2>1, <2>2, <2>3 DEF BarrierInv, ThreadInv, Blocked
<1>8. NoLostWakeup'
  BY <1>2, <1>3, <1>5 DEF NoLostWakeup, InLock, InPtable
<1>9. CountInv'
  <2> SUFFICES ASSUME Calls = 1 PROVE count' = Cardinality(Entered') /\ Separation'
    BY <1>6 DEF CountInv
  <2>1. Entered' = Entered
    BY <1>0 DEF Entered
  <2>2. Cardinality(Entered) = count /\ count >= Parties
    BY <1>0, <1>6 DEF BarrierInv, CountInv, ThreadInv, MainInv, Blocked
  <2>3. Separation' <=>
          ((\E q \in Threads : passed'[q] > 0) => Cardinality(Entered') >= Parties)
    <3>1. entered' \in [Threads -> 0..Calls] /\ passed' \in [Threads -> 0..Calls]
      BY DEF TypeOK
    <3> QED
      BY <3>1, SeparationLemma DEF Separation, Entered
  <2> QED
    BY <1>0, <2>1, <2>2, <2>3
<1> QED
  BY <1>4, <1>5, <1>6, <1>7, <1>8, <1>9 DEF BarrierInv, HandOffInv

-----------------------------------------------------------------------------
(* Steps of main, which takes them while there are no threads.             *)

LEMMA MainStepLemma ==
  ASSUME BarrierInv, TypeOK', NEW c \in CPUs, MainStep(c)
  PROVE  BarrierInv'
<1> USE ConstantsLemma
<1>0. /\ TypeOK /\ pc \in [Procs -> Labels] /\ state \in [Procs -> States]
      /\ cproc[c] = Main /\ ptlock # c /\ state[Main] = "RUNNING"
  BY RunningLemma DEF BarrierInv, TypeOK, MainStep, MainAt, Runs, InitCount, InitLock,
                      InitProcCount, CreateThreads, JoinThreads
<1>1. CASE InitCount(c) \/ InitLock(c) \/ InitProcCount(c)
  <2>1. /\ pc[Main] \in {"main.count", "main.lock", "main.n"}
        /\ pc'[Main] \in {"main.lock", "main.n", "main.create"}
        /\ \A q \in Procs \ {Main} : pc'[q] = pc[q]
        /\ pc'[Main] = "main.create" => proc_count' = Parties
        /\ UNCHANGED <<state, chan, cproc, ptlock, entered, passed>>
        /\ lk' = lk \/ lk' = NULL
    BY <1>0, <1>1 DEF InitCount, InitLock, InitProcCount, MainAt, Goto, bvars
  <2>2. \A p \in Threads : pc[p] = "exit" /\ pc'[p] = "exit"
    BY <2>1 DEF BarrierInv, MainInv
  <2>3. OneCpuPerProc' /\ HandOffInv'
    BY <2>1, <2>2 DEF BarrierInv, OneCpuPerProc, HandOffInv, InLock, InPtable
  <2>4. MainInv' /\ ThreadInv' /\ NoLostWakeup'
    BY <1>0, <2>1, <2>2
    DEF BarrierInv, MainInv, MainLabels, ThreadInv, InCall, SleepLabels, SleepLocked, NoLostWakeup
  <2>5. CountInv'
    <3>1. count' = 0 \/ (count' = count /\ pc[Main] \in {"main.lock", "main.n"})
      BY <1>1 DEF InitCount, InitLock, InitProcCount, MainAt, bvars
    <3> QED
      BY <2>1, <3>1 DEF BarrierInv, CountInv, Separation
  <2> QED
    BY <2>3, <2>4, <2>5 DEF BarrierInv
<1>2. CASE CreateThreads(c)
  <2>1. /\ pc[Main] = "main.create" /\ pc'[Main] = "main.join" /\ state'[Main] = state[Main]
        /\ \A p \in Threads : pc'[p] = "user" /\ state'[p] = "RUNNABLE"
                              /\ entered'[p] = 0 /\ passed'[p] = 0
        /\ UNCHANGED <<chan, cproc, ptlock, lk, count, proc_count>>
    BY <1>2 DEF CreateThreads, MainAt
  <2>2. \A p \in Threads : state[p] \in {"UNUSED", "ZOMBIE"}
    BY <2>1 DEF BarrierInv, MainInv, ThreadInv
  <2>3. OneCpuPerProc' /\ HandOffInv'
    BY <1>0, <2>1, <2>2 DEF BarrierInv, OneCpuPerProc, HandOffInv, InLock, InPtable
  <2>4. MainInv' /\ ThreadInv' /\ NoLostWakeup'
    BY <1>0, <2>1
    DEF BarrierInv, MainInv, MainLabels, ThreadInv, InCall, SleepLabels, SleepLocked, NoLostWakeup
  <2>5. CountInv'
    <3>1. Entered' = {}
      BY <2>1 DEF Entered
    <3>2. Cardinality(Entered') = 0
      BY <3>1, FS_EmptySet
    <3> QED
      BY <2>1, <3>2 DEF BarrierInv, CountInv, Separation
  <2> QED
    BY <2>3, <2>4, <2>5 DEF BarrierInv
<1>3. CASE JoinThreads(c)
  <2>1. /\ pc[Main] = "main.join" /\ pc'[Main] = "main.count" /\ state'[Main] = state[Main]
        /\ \A p \in Threads : pc'[p] = pc[p] /\ state[p] = "ZOMBIE" /\ state'[p] = "UNUSED"
        /\ UNCHANGED <<chan, cproc, ptlock, lk, bvars>>
    BY <1>0, <1>3 DEF JoinThreads, MainAt, Goto
  <2>2. OneCpuPerProc' /\ HandOffInv'
    BY <1>0, <2>1 DEF BarrierInv, OneCpuPerProc, HandOffInv, InLock, InPtable
  <2>3. \A p \in Threads : pc[p] = "exit"
    BY <2>1 DEF BarrierInv, ThreadInv
  <2>4. MainInv' /\ ThreadInv' /\ NoLostWakeup'
    BY <1>0, <2>1, <2>3
    DEF BarrierInv, MainInv, MainLabels, ThreadInv, InCall, SleepLabels, SleepLocked, NoLostWakeup
  <2>5. CountInv'
    BY <2>1 DEF BarrierInv, CountInv, Separation, bvars
  <2> QED
    BY <2>2, <2>4, <2>5 DEF BarrierInv
<1> QED
  BY <1>1, <1>2, <1>3 DEF MainStep

-----------------------------------------------------------------------------
(* The theorems.                                                           *)

\* BarrierInv holds in every reachable state.
THEOREM BarrierInvariance == Spec => []BarrierInv
<1>1. BarrierInv /\ [Next]_vars => BarrierInv'
  <2> SUFFICES ASSUME BarrierInv, [Next]_vars PROVE BarrierInv'
    OBVIOUS
  <2>1. TypeOK'
    BY TypeLemma
  <2>2. CASE UNCHANGED vars
    BY <2>1, <2>2
    DEF vars, kvars, bvars, BarrierInv, OneCpuPerProc, HandOffInv, MainInv, ThreadInv, Blocked,
        NoLostWakeup, CountInv, Separation, Entered
  <2>3. ASSUME NEW c \in CPUs, NEW p \in Threads, ThreadStep(c, p) PROVE BarrierInv'
    BY <2>1, <2>3, LockLemma, RetestLemma, WakeupLemma, ExitLemma, SleepStepLemma DEF ThreadStep
  <2> QED
    BY <2>1, <2>2, <2>3, SchedStepLemma, MainStepLemma DEF Next
<1> QED
  BY <1>1, InitLemma, PTL DEF Spec

\* barrier_lock() never loses a wakeup: whatever the number of threads, CPUs
\* and calls, a thread that has seen the barrier closed is not left asleep
\* when it opens.
THEOREM BarrierWakesAll == Spec => []NoLostWakeup
  BY BarrierInvariance, PTL DEF BarrierInv

\* When every thread calls barrier_lock() once between two barrier_init(), no
\* thread leaves before Parties threads have arrived.
THEOREM BarrierSeparates == ASSUME Calls = 1 PROVE Spec => []Separation
<1>1. BarrierInv => Separation
  BY DEF BarrierInv, CountInv
<1> QED
  BY <1>1, BarrierInvariance, PTL

=============================================================================
