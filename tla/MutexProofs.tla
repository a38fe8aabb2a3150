---------------------------- MODULE MutexProofs ----------------------------
(***************************************************************************)
(* Proofs about Mutex for every number of threads, CPUs and mutexes.       *)
(*                                                                         *)
(* Three invariants are inductive, each on its own.  SchedInv says that    *)
(* the locks stay with the CPU whose process took them; it gives           *)
(* OneCpuPerProc when nobody calls kill(), because then only wakeup1()     *)
(* itself moves a process out of SLEEPING.  MutexInv ties holders and      *)
(* waiters to the slots of mtable; it gives mutual exclusion when all      *)
(* mutexes are created before the first is locked.  TableInv says what is  *)
(* left of it when slots are handed out again: exclusion for the mutexes   *)
(* that are still in mtable.                                               *)
(***************************************************************************)
EXTENDS Mutex, TLAPS

\* The boot state satisfies both invariants.
LEMMA InitLemma == Init => SchedInv /\ MutexInv
<1> SUFFICES ASSUME Init PROVE SchedInv /\ MutexInv
  OBVIOUS
<1> USE KthreadAssumption, MutexAssumption DEF Init
<1>1. TypeOK
  BY DEF TypeOK, States, Labels, SleepLabels, SleepLocked, Procs, Slots, Ids
<1>2. OneCpuPerProc
  BY DEF OneCpuPerProc, Procs
<1>3. HandOffInv
  BY DEF HandOffInv, InMtable, InPtable
<1>4. IdInv /\ HoldInv /\ MutualExclusion
  BY DEF IdInv, HoldInv, MutualExclusion, SleepLabels, SleepLocked
<1> QED
  BY <1>1, <1>2, <1>3, <1>4 DEF SchedInv, MutexInv

\* The assumptions on constants in the form the steps use them.
LEMMA ConstantsLemma ==
  /\ NPROC \in Nat /\ NPROC >= 1 /\ MAX_MUTEXES \in Nat /\ MaxMid \in Nat /\ Rounds \in Nat
  /\ NULL \notin CPUs /\ NULL \notin Procs /\ NULL \notin Slots /\ NULL \notin Ids
  /\ 1 \in Procs /\ 0 \notin Ids /\ Ids \subseteq Nat /\ Procs \subseteq Nat
  BY KthreadAssumption, MutexAssumption DEF Procs, Slots, Ids

-----------------------------------------------------------------------------
(* Type correctness.                                                       *)

\* The end of a round of wakeup1() keeps scan inside the table.
LEMMA AfterScanLemma ==
  ASSUME TypeOK, NEW c \in CPUs, NEW p \in Procs, AfterScan(c, p)
  PROVE  /\ scan' \in [Procs -> Procs]
         /\ pc' \in [Procs -> Labels]
         /\ lk' \in CPUs \cup {NULL}
         /\ m' \in [Procs -> Slots \cup {NULL}]
<1>1. scan[p] < NPROC => scan[p] + 1 \in Procs
  <2>1. scan[p] \in Procs
    BY DEF TypeOK
  <2> QED
    BY <2>1, KthreadAssumption DEF Procs
<1>2. "user" \in Labels /\ "wakeup.test" \in Labels
  BY DEF Labels
<1>3. CASE scan[p] < NPROC
  BY <1>1, <1>2, <1>3 DEF AfterScan, TypeOK, Goto
<1>4. CASE ~(scan[p] < NPROC)
  BY <1>2, <1>4, ConstantsLemma DEF AfterScan, TypeOK, Goto
<1> QED
  BY <1>3, <1>4

\* Every step keeps the types.
LEMMA TypeLemma ==
  ASSUME TypeOK, [Next]_vars
  PROVE  TypeOK'
<1> USE DEF Goto, Enter
<1>1. ASSUME NEW c \in CPUs, SchedStep(c), UNCHANGED mvars PROVE TypeOK'
  <2> USE <1>1 DEF TypeOK, mvars, States
  <2>1. CASE SchedAcquire(c)
    BY <2>1 DEF SchedAcquire, SchedStep
  <2>2. CASE SchedRelease(c)
    BY <2>2 DEF SchedRelease, SchedStep
  <2>3. CASE \E p \in Procs : Dispatch(c, p)
    BY <2>3 DEF Dispatch, SchedStep
  <2>4. CASE \E p \in Procs : lk # c /\ Yield(c, p)
    BY <2>4 DEF Yield, Sched, SchedStep
  <2>5. CASE \E p \in Procs : Resume(c, p, SleepLocked)
    BY <2>5 DEF Resume, SchedStep
  <2> QED
    BY <2>1, <2>2, <2>3, <2>4, <2>5 DEF SchedStep
<1>2. ASSUME NEW c \in CPUs, NEW p \in Procs, SleepStep(c, p, m[p]), UNCHANGED mvars
      PROVE  TypeOK'
  <2> USE <1>2 DEF TypeOK, mvars, States, Labels, SleepLabels, SleepLocked
  <2>1. CASE SleepAcquire(c, p)
    BY <2>1 DEF SleepAcquire
  <2>2. CASE SleepRelease(c, p)
    BY <2>2 DEF SleepRelease
  <2>3. CASE SleepSwitch(c, p, m[p])
    BY <2>3 DEF SleepSwitch, Sched
  <2>4. CASE SleepWake(c, p)
    BY <2>4 DEF SleepWake
  <2> QED
    BY <2>1, <2>2, <2>3, <2>4 DEF SleepStep
<1>3. ASSUME NEW c \in CPUs, NEW p \in Procs, MutexInit(c, p) PROVE TypeOK'
  BY <1>3 DEF MutexInit, TypeOK, kvars
<1>4. ASSUME NEW c \in CPUs, NEW p \in Procs, NEW id \in Ids, LockFree(c, p, id)
      PROVE  TypeOK'
  <2>1. left' \in [Procs -> 0..Rounds]
    BY <1>4, ConstantsLemma DEF LockFree, TypeOK
  <2> QED
    BY <1>4, <2>1 DEF LockFree, TypeOK, kvars
<1>5. ASSUME NEW c \in CPUs, NEW p \in Procs, NEW id \in Ids, LockBusy(c, p, id)
      PROVE  TypeOK'
  <2>1. left' \in [Procs -> 0..Rounds]
    BY <1>5, ConstantsLemma DEF LockBusy, TypeOK
  <2> QED
    BY <1>5, <2>1 DEF LockBusy, TypeOK, Labels, SleepLabels
<1>6. ASSUME NEW c \in CPUs, NEW p \in Procs, LockRetest(c, p) PROVE TypeOK'
  BY <1>6 DEF LockRetest, TypeOK, Labels, SleepLabels
<1>7. ASSUME NEW c \in CPUs, NEW p \in Procs, Unlock(c, p) PROVE TypeOK'
  BY <1>7, ConstantsLemma DEF Unlock, TypeOK, Labels
<1>8. ASSUME NEW c \in CPUs, NEW p \in Procs, UnlockFails(c, p) PROVE TypeOK'
  BY <1>8 DEF UnlockFails, TypeOK, kvars
<1>9. ASSUME NEW c \in CPUs, NEW p \in Procs, WakeTest(c, p) PROVE TypeOK'
  <2>1. CASE AfterScan(c, p)
    BY <1>9, <2>1, AfterScanLemma DEF WakeTest, TypeOK
  <2>2. CASE ~AfterScan(c, p)
    BY <1>9, <2>2 DEF WakeTest, TypeOK, Labels
  <2> QED
    BY <2>1, <2>2
<1>10. ASSUME NEW c \in CPUs, NEW p \in Procs, WakeWrite(c, p) PROVE TypeOK'
  BY <1>10, AfterScanLemma DEF WakeWrite, TypeOK, States
<1>11. ASSUME NEW c \in CPUs, NEW p \in Procs, Exit(c, p) PROVE TypeOK'
  BY <1>11 DEF Exit, Sched, TypeOK, States, Labels, mvars
<1>12. ASSUME NEW c \in CPUs, NEW p \in Procs, NEW q \in Procs, Kill(c, p, q) PROVE TypeOK'
  BY <1>12 DEF Kill, TypeOK, States, mvars
<1>13. CASE UNCHANGED vars
  BY <1>13 DEF vars, kvars, mvars, TypeOK
<1> QED
  BY <1>1, <1>2, <1>3, <1>4, <1>5, <1>6, <1>7, <1>8, <1>9, <1>10, <1>11, <1>12, <1>13
  DEF Next, ThreadStep

-----------------------------------------------------------------------------
(* One CPU per process.                                                    *)

\* A thread that runs on c is RUNNING there and nowhere else.
LEMMA RunningLemma ==
  ASSUME SchedInv, NEW c \in CPUs, NEW p \in Procs, cproc[c] = p
  PROVE  /\ state[p] = "RUNNING"
         /\ \A d \in CPUs : cproc[d] = p => d = c
         /\ pc[p] \in InMtable => lk = c
         /\ pc[p] \in InPtable => ptlock = c
         /\ \A q \in Procs : lk = c /\ pc[q] \in InMtable => q = p
         /\ \A q \in Procs : ptlock = c /\ pc[q] \in InPtable => q = p
  BY ConstantsLemma DEF SchedInv, OneCpuPerProc, HandOffInv

\* The scheduler and the timer interrupt.
LEMMA SchedStepLemma ==
  ASSUME SchedInv, TypeOK', NEW c \in CPUs, SchedStep(c), UNCHANGED mvars
  PROVE  SchedInv'
<1> USE ConstantsLemma DEF SchedInv, mvars
<1>1. CASE SchedAcquire(c)
  BY <1>1 DEF SchedAcquire, SchedStep, OneCpuPerProc, HandOffInv
<1>2. CASE SchedRelease(c)
  <2>1. \A p \in Procs : pc[p] \in InPtable => ptlock # c
    BY <1>2 DEF SchedRelease, HandOffInv
  <2> QED
    BY <1>2, <2>1 DEF SchedRelease, SchedStep, OneCpuPerProc, HandOffInv
<1>3. ASSUME NEW p \in Procs, Dispatch(c, p), UNCHANGED lk PROVE SchedInv'
  <2>1. /\ state[p] = "RUNNABLE" /\ \A d \in CPUs : cproc[d] # p
        /\ \A q \in Procs : pc[q] \in InPtable \/ pc[q] \in InMtable => cproc[c] # q /\ q # p
    BY <1>3 DEF Dispatch, OneCpuPerProc, HandOffInv
  <2>2. /\ state' = [state EXCEPT ![p] = "RUNNING"]
        /\ cproc' = [cproc EXCEPT ![c] = p]
        /\ UNCHANGED <<ptlock, pc, scan, lk>>
    BY <1>3 DEF Dispatch
  <2>3. OneCpuPerProc'
    BY <1>3, <2>1, <2>2 DEF Dispatch, OneCpuPerProc, TypeOK
  <2>4. HandOffInv'
    BY <1>3, <2>1, <2>2 DEF Dispatch, HandOffInv, TypeOK
  <2> QED
    BY <2>3, <2>4
<1>4. ASSUME NEW p \in Procs, lk # c, Yield(c, p), UNCHANGED lk PROVE SchedInv'
  <2>1. /\ state[p] = "RUNNING" /\ cproc[c] = p /\ pc[p] \notin InMtable /\ pc[p] \notin InPtable
        /\ \A d \in CPUs : cproc[d] = p => d = c
        /\ \A q \in Procs : pc[q] \notin InPtable
    BY <1>4, RunningLemma DEF Yield, Runs, HandOffInv
  <2>2. /\ state' = [state EXCEPT ![p] = "RUNNABLE"]
        /\ cproc' = [cproc EXCEPT ![c] = NULL]
        /\ UNCHANGED <<pc, scan, lk>>
    BY <1>4 DEF Yield, Sched
  <2>3. OneCpuPerProc'
    BY <2>1, <2>2 DEF OneCpuPerProc, TypeOK
  <2>4. HandOffInv'
    BY <1>4, <2>1, <2>2 DEF HandOffInv, TypeOK
  <2> QED
    BY <2>3, <2>4
<1>5. ASSUME NEW p \in Procs, Resume(c, p, SleepLocked), UNCHANGED lk PROVE SchedInv'
  <2>1. \A q \in Procs : pc[q] \notin InPtable \/ ptlock # c
    BY <1>5, RunningLemma DEF Resume, Holds, InPtable, SleepLocked
  <2>2. UNCHANGED <<state, cproc, pc, scan, lk>>
    BY <1>5 DEF Resume
  <2>3. HandOffInv'
    BY <1>5, <2>1, <2>2 DEF Resume, Holds, HandOffInv
  <2> QED
    BY <2>2, <2>3 DEF OneCpuPerProc
<1> QED
  BY <1>1, <1>2, <1>3, <1>4, <1>5 DEF SchedStep

\* A step of p on c that leaves scheduling alone and takes p from one label
\* to another, with the locks that the labels stand for.
LEMMA MoveLemma ==
  ASSUME SchedInv, TypeOK', NEW c \in CPUs, NEW p \in Procs, cproc[c] = p,
         UNCHANGED <<state, cproc>>,
         \A q \in Procs \ {p} : pc'[q] = pc[q] /\ scan'[q] = scan[q],
         \/ lk' = lk
         \/ lk' = c /\ lk = NULL
         \/ lk' = NULL /\ lk = c,
         \/ ptlock' = ptlock
         \/ ptlock' = c /\ ptlock = NULL
         \/ ptlock' = NULL /\ ptlock = c,
         pc'[p] \in InMtable => lk' = c,
         pc'[p] \in InPtable => ptlock' = c,
         pc'[p] = "wakeup.write" => state[scan'[p]] = "SLEEPING"
  PROVE  SchedInv'
<1>1. OneCpuPerProc'
  BY DEF SchedInv, OneCpuPerProc
<1>2. \A q \in Procs : pc'[q] \in InMtable => \E d \in CPUs : cproc'[d] = q /\ lk' = d
  <2> SUFFICES ASSUME NEW q \in Procs, pc'[q] \in InMtable, q # p
               PROVE  \E d \in CPUs : cproc'[d] = q /\ lk' = d
    OBVIOUS
  <2>1. PICK d \in CPUs : cproc[d] = q /\ lk = d
    BY DEF SchedInv, HandOffInv
  <2> QED
    BY <2>1, ConstantsLemma
<1>3. \A q \in Procs : pc'[q] \in InPtable => \E d \in CPUs : cproc'[d] = q /\ ptlock' = d
  <2> SUFFICES ASSUME NEW q \in Procs, pc'[q] \in InPtable, q # p
               PROVE  \E d \in CPUs : cproc'[d] = q /\ ptlock' = d
    OBVIOUS
  <2>1. PICK d \in CPUs : cproc[d] = q /\ ptlock = d
    BY DEF SchedInv, HandOffInv
  <2> QED
    BY <2>1, ConstantsLemma
<1>4. \A q \in Procs : pc'[q] = "wakeup.write" => state'[scan'[q]] = "SLEEPING"
  BY DEF SchedInv, HandOffInv
<1> QED
  BY <1>1, <1>2, <1>3, <1>4 DEF SchedInv, HandOffInv

\* p leaves the CPU for good or goes to sleep.
LEMMA LeaveLemma ==
  ASSUME SchedInv, TypeOK', NEW c \in CPUs, NEW p \in Procs, cproc[c] = p,
         ptlock \in {c, NULL},
         NEW st \in {"SLEEPING", "ZOMBIE"}, Sched(c, p, st, state),
         NEW label \in {"sleep.wake", "exit"}, Goto(p, label),
         UNCHANGED <<lk, scan>>
  PROVE  SchedInv'
<1> USE ConstantsLemma DEF SchedInv
<1>1. /\ state' = [state EXCEPT ![p] = st] /\ cproc' = [cproc EXCEPT ![c] = NULL]
      /\ pc' = [pc EXCEPT ![p] = label] /\ ptlock' = c
      /\ state[p] = "RUNNING" /\ \A d \in CPUs : cproc[d] = p => d = c
      /\ \A q \in Procs \ {p} : pc[q] \notin InPtable
      /\ label \notin InMtable /\ label \notin InPtable /\ label # "wakeup.write"
  BY RunningLemma DEF Sched, Goto, InMtable, InPtable, HandOffInv
<1>2. OneCpuPerProc'
  BY <1>1 DEF OneCpuPerProc, TypeOK
<1>3. \A q \in Procs : pc'[q] \in InMtable => \E d \in CPUs : cproc'[d] = q /\ lk' = d
  <2> SUFFICES ASSUME NEW q \in Procs, pc'[q] \in InMtable
               PROVE  \E d \in CPUs : cproc'[d] = q /\ lk' = d
    OBVIOUS
  <2>1. q # p /\ pc[q] \in InMtable /\ cproc \in [CPUs -> Procs \cup {NULL}]
    BY <1>1 DEF TypeOK
  <2>2. PICK d \in CPUs : cproc[d] = q /\ lk = d
    BY <2>1 DEF HandOffInv
  <2> QED
    BY <1>1, <2>1, <2>2
<1>4. \A q \in Procs : pc'[q] \notin InPtable
  BY <1>1 DEF TypeOK
<1>5. \A q \in Procs : pc'[q] = "wakeup.write" => state'[scan'[q]] = "SLEEPING"
  BY <1>1 DEF HandOffInv, TypeOK
<1> QED
  BY <1>2, <1>3, <1>4, <1>5 DEF HandOffInv

\* The steps of sleep() are moves, but for the switch.
LEMMA SleepStepLemma ==
  ASSUME SchedInv, TypeOK', NEW c \in CPUs, NEW p \in Procs,
         SleepStep(c, p, m[p]), UNCHANGED mvars
  PROVE  SchedInv'
<1> USE ConstantsLemma DEF Goto, mvars
<1>0. pc \in [Procs -> Labels]
  BY DEF SchedInv, TypeOK
<1>1. CASE SleepAcquire(c, p)
  <2>1. lk = c
    BY <1>1, RunningLemma DEF SleepAcquire, Runs, InMtable
  <2> QED
    BY <1>0, <1>1, <2>1, MoveLemma DEF SleepAcquire, Runs, InMtable, InPtable
<1>2. CASE SleepRelease(c, p)
  <2>1. lk = c
    BY <1>2, RunningLemma DEF SleepRelease, Holds, InMtable
  <2> QED
    BY <1>0, <1>2, <2>1, MoveLemma DEF SleepRelease, Holds, InMtable, InPtable
<1>3. CASE SleepSwitch(c, p, m[p])
  BY <1>3, LeaveLemma DEF SleepSwitch, Holds
<1>4. CASE SleepWake(c, p)
  BY <1>0, <1>4, MoveLemma DEF SleepWake, Holds, InMtable, InPtable
<1> QED
  BY <1>1, <1>2, <1>3, <1>4 DEF SleepStep

\* wakeup1(), called by mutex_unlock() without ptable.lock.
LEMMA WakeupLemma ==
  ASSUME SchedInv, TypeOK', NEW c \in CPUs, NEW p \in Procs,
         WakeTest(c, p) \/ WakeWrite(c, p)
  PROVE  SchedInv'
<1> USE ConstantsLemma DEF Goto
<1>0. /\ cproc[c] = p /\ lk = c /\ UNCHANGED <<cproc, ptlock>>
      /\ pc \in [Procs -> Labels] /\ scan \in [Procs -> Procs] /\ state \in [Procs -> States]
  BY RunningLemma DEF WakeTest, WakeWrite, InMtable, SchedInv, TypeOK
<1>1. ASSUME AfterScan(c, p)
      PROVE  /\ \A q \in Procs \ {p} : pc'[q] = pc[q] /\ scan'[q] = scan[q]
             /\ lk' = lk \/ (lk' = NULL /\ lk = c)
             /\ pc'[p] \in InMtable => lk' = c
             /\ pc'[p] \notin InPtable
             /\ pc'[p] # "wakeup.write"
  BY <1>0, <1>1 DEF AfterScan, InMtable, InPtable
<1>2. CASE WakeTest(c, p) /\ AfterScan(c, p)
  BY <1>0, <1>1, <1>2, MoveLemma DEF WakeTest
<1>3. CASE WakeTest(c, p) /\ ~AfterScan(c, p)
  BY <1>0, <1>3, MoveLemma DEF WakeTest, Sleeper, InMtable, InPtable
<1>4. CASE WakeWrite(c, p)
  <2> DEFINE q == scan[p]
  <2>1. /\ q \in Procs /\ state[q] = "SLEEPING" /\ \A d \in CPUs : cproc[d] # q
        /\ state' = [state EXCEPT ![q] = "RUNNABLE"]
    BY <1>0, <1>4 DEF WakeWrite, SchedInv, HandOffInv, OneCpuPerProc
  <2> HIDE DEF q
  <2>2. OneCpuPerProc'
    BY <1>0, <2>1 DEF SchedInv, OneCpuPerProc
  <2>3. \A r \in Procs : pc'[r] # "wakeup.write"
    BY <1>0, <1>1, <1>4, RunningLemma DEF WakeWrite, InMtable
  <2>4. \A r \in Procs : pc'[r] \in InMtable => \E d \in CPUs : cproc'[d] = r /\ lk' = d
    BY <1>0, <1>1, <1>4, RunningLemma DEF WakeWrite
  <2>5. \A r \in Procs : pc'[r] \in InPtable => \E d \in CPUs : cproc'[d] = r /\ ptlock' = d
    BY <1>0, <1>1, <1>4 DEF WakeWrite, SchedInv, HandOffInv
  <2> QED
    BY <2>2, <2>3, <2>4, <2>5 DEF SchedInv, HandOffInv
<1> QED
  BY <1>2, <1>3, <1>4

\* The system calls themselves.
LEMMA CallLemma ==
  ASSUME SchedInv, TypeOK', NEW c \in CPUs, NEW p \in Procs,
         \/ MutexInit(c, p) \/ \E id \in Ids : LockFree(c, p, id) \/ LockBusy(c, p, id)
         \/ LockRetest(c, p) \/ Unlock(c, p) \/ UnlockFails(c, p) \/ Exit(c, p)
  PROVE  SchedInv'
<1> USE ConstantsLemma DEF Goto, Enter, Runs, kvars, mvars
<1>0. pc \in [Procs -> Labels] /\ scan \in [Procs -> Procs]
  BY DEF SchedInv, TypeOK
<1>1. CASE MutexInit(c, p)
  BY <1>0, <1>1, MoveLemma DEF MutexInit, InMtable, InPtable
<1>2. CASE \E id \in Ids : LockFree(c, p, id)
  BY <1>0, <1>2, MoveLemma DEF LockFree, InMtable, InPtable
<1>3. CASE \E id \in Ids : LockBusy(c, p, id)
  BY <1>0, <1>3, MoveLemma DEF LockBusy, InMtable, InPtable
<1>4. CASE LockRetest(c, p)
  BY <1>0, <1>4, MoveLemma DEF LockRetest, InMtable, InPtable
<1>5. CASE Unlock(c, p)
  BY <1>0, <1>5, MoveLemma DEF Unlock, InMtable, InPtable
<1>6. CASE UnlockFails(c, p)
  BY <1>0, <1>6, MoveLemma DEF UnlockFails, InMtable, InPtable
<1>7. CASE Exit(c, p)
  BY <1>7, LeaveLemma DEF Exit
<1> QED
  BY <1>1, <1>2, <1>3, <1>4, <1>5, <1>6, <1>7

\* SchedInv is an invariant as long as nobody calls kill().
THEOREM SchedInvariance == ASSUME ~Killer PROVE Spec => []SchedInv
<1>1. SchedInv /\ [Next]_vars => SchedInv'
  <2> SUFFICES ASSUME SchedInv, [Next]_vars PROVE SchedInv'
    OBVIOUS
  <2>1. TypeOK'
    BY TypeLemma DEF SchedInv
  <2>2. CASE UNCHANGED vars
    BY <2>2 DEF vars, kvars, mvars, SchedInv, TypeOK, OneCpuPerProc, HandOffInv
  <2>3. ASSUME NEW c \in CPUs, NEW p \in Procs, ThreadStep(c, p) PROVE SchedInv'
    BY <2>1, <2>3, SleepStepLemma, WakeupLemma, CallLemma DEF ThreadStep
  <2> QED
    BY <2>1, <2>2, <2>3, SchedStepLemma DEF Next, Kill
<1> QED
  BY <1>1, InitLemma, PTL DEF Spec

\* Without kill(), the missing ptable.lock in mutex_unlock() does not put a
\* process on two CPUs, whatever their number: nothing but the wakeup1() of
\* that call, made under mtable.lock, can wake the process it found asleep.
THEOREM MutexOneCpu == ASSUME ~Killer PROVE Spec => []OneCpuPerProc
  BY SchedInvariance, PTL DEF SchedInv

-----------------------------------------------------------------------------
(* Mutual exclusion.                                                       *)

\* A step that changes neither mtable nor who holds what, and takes a thread
\* from sleep() to sleep() or from elsewhere to elsewhere.
LEMMA IdleLemma ==
  ASSUME MutexInv, TypeOK', NEW p \in Procs,
         UNCHANGED <<mid, mstate, nextmid, want, holds, left>>,
         \A q \in Procs \ {p} : pc'[q] = pc[q] /\ m'[q] = m[q],
         pc'[p] \in SleepLabels => pc[p] \in SleepLabels /\ m'[p] = m[p]
  PROVE  MutexInv'
<1>1. IdInv' /\ MutualExclusion'
  BY DEF MutexInv, IdInv, MutualExclusion
<1>2. HoldInv'
  BY DEF MutexInv, HoldInv
<1> QED
  BY <1>1, <1>2 DEF MutexInv

\* The scheduler, sleep(), wakeup1(), exit() and kill().
LEMMA IdleSteps ==
  ASSUME MutexInv, TypeOK', NEW c \in CPUs, NEW p \in Procs,
         \/ SchedStep(c) /\ UNCHANGED mvars
         \/ SleepStep(c, p, m[p]) /\ UNCHANGED mvars
         \/ WakeTest(c, p) \/ WakeWrite(c, p) \/ Exit(c, p)
         \/ \E q \in Procs : Kill(c, p, q)
  PROVE  MutexInv'
<1> USE DEF Goto, mvars
<1>0. pc \in [Procs -> Labels] /\ m \in [Procs -> Slots \cup {NULL}]
  BY DEF MutexInv, TypeOK
<1>1. CASE SchedStep(c) /\ UNCHANGED mvars
  <2>1. UNCHANGED pc
    BY <1>1 DEF SchedStep, SchedAcquire, SchedRelease, Dispatch, Yield, Resume
  <2> QED
    BY <1>1, <2>1, IdleLemma
<1>2. CASE SleepStep(c, p, m[p]) /\ UNCHANGED mvars
  <2>1. /\ pc[p] \in SleepLabels
        /\ \A q \in Procs \ {p} : pc'[q] = pc[q]
    BY <1>0, <1>2 DEF SleepStep, SleepAcquire, SleepRelease, SleepSwitch, SleepWake,
                      SleepLabels, SleepLocked
  <2> QED
    BY <1>2, <2>1, IdleLemma
<1>3. CASE WakeTest(c, p) \/ WakeWrite(c, p)
  <2>1. /\ pc'[p] \notin SleepLabels
        /\ \A q \in Procs \ {p} : pc'[q] = pc[q] /\ m'[q] = m[q]
        /\ UNCHANGED <<mid, mstate, nextmid, want, holds, left>>
    BY <1>0, <1>3 DEF WakeTest, WakeWrite, AfterScan, SleepLabels, SleepLocked
  <2> QED
    BY <2>1, IdleLemma
<1>4. CASE Exit(c, p)
  <2>1. pc'[p] \notin SleepLabels /\ \A q \in Procs \ {p} : pc'[q] = pc[q]
    BY <1>0, <1>4 DEF Exit, SleepLabels, SleepLocked
  <2> QED
    BY <1>4, <2>1, IdleLemma DEF Exit
<1>5. CASE \E q \in Procs : Kill(c, p, q)
  BY <1>5, IdleLemma DEF Kill
<1> QED
  BY <1>1, <1>2, <1>3, <1>4, <1>5

\* mutex_init() gives out a fresh id, before anyone holds or waits.
LEMMA MutexInitLemma ==
  ASSUME ~LateInit, MutexInv, TypeOK', NEW c \in CPUs, NEW p \in Procs, MutexInit(c, p)
  PROVE  MutexInv'
<1> USE ConstantsLemma
<1>1. PICK i \in Slots : /\ mid' = [mid EXCEPT ![i] = nextmid]
                         /\ nextmid' = nextmid + 1
                         /\ UNCHANGED <<pc, holds>>
  BY DEF MutexInit, kvars
<1>2. \A q \in Procs : holds[q] = NULL /\ pc[q] \notin SleepLabels
  BY DEF MutexInit, MutexInv, HoldInv, TypeOK
<1>3. IdInv'
  BY <1>1 DEF MutexInv, IdInv, TypeOK
<1>4. HoldInv' /\ MutualExclusion'
  BY <1>1, <1>2 DEF HoldInv, MutualExclusion
<1> QED
  BY <1>3, <1>4 DEF MutexInv

\* Finding an UNLOCKED mutex means that nobody holds it.
LEMMA FreeLemma ==
  ASSUME MutexInv, NEW i \in Slots, NEW id \in Ids, mid[i] = id, mstate[i] = "UNLOCKED"
  PROVE  \A q \in Procs : holds[q] # id
  BY ConstantsLemma DEF MutexInv, IdInv, HoldInv

\* A thread that locks slot i becomes the only holder.
LEMMA LockLemma ==
  ASSUME MutexInv, TypeOK', NEW p \in Procs, NEW i \in Slots, NEW id \in Ids,
         mid[i] = id, mstate[i] = "UNLOCKED",
         mstate' = [mstate EXCEPT ![i] = "LOCKED"],
         holds' = [holds EXCEPT ![p] = id],
         UNCHANGED <<mid, nextmid>>,
         left'[p] < Rounds, pc'[p] \notin SleepLabels,
         \A q \in Procs \ {p} :
            pc'[q] = pc[q] /\ m'[q] = m[q] /\ want'[q] = want[q] /\ left'[q] = left[q]
  PROVE  MutexInv'
<1> USE ConstantsLemma
<1>0. /\ mid \in [Slots -> Nat] /\ mstate \in [Slots -> {"LOCKED", "UNLOCKED"}]
      /\ holds \in [Procs -> Ids \cup {NULL}]
      /\ \A q \in Procs : holds[q] # id
  BY FreeLemma DEF MutexInv, TypeOK
<1>1. IdInv'
  BY DEF MutexInv, IdInv
<1>2. MutualExclusion'
  BY <1>0 DEF MutexInv, MutualExclusion
<1>3. HoldInv'
  <2>1. \A j \in Slots : mstate[j] = "LOCKED" => mstate'[j] = "LOCKED"
    BY <1>0
  <2>2. mstate'[i] = "LOCKED" /\ mid'[i] = id /\ holds'[p] = id
    BY <1>0
  <2>3. \A q \in Procs \ {p} : holds'[q] = holds[q]
    BY <1>0
  <2>4. \A q \in Procs : holds'[q] # NULL =>
          \E j \in Slots : mid'[j] = holds'[q] /\ mstate'[j] = "LOCKED"
    <3> SUFFICES ASSUME NEW q \in Procs \ {p}, holds[q] # NULL
                 PROVE  \E j \in Slots : mid[j] = holds[q] /\ mstate'[j] = "LOCKED"
      BY <2>2, <2>3
    <3>1. PICK j \in Slots : mid[j] = holds[q] /\ mstate[j] = "LOCKED"
      BY DEF MutexInv, HoldInv
    <3> QED
      BY <2>1, <3>1
  <2>5. \A q \in Procs : pc'[q] \in SleepLabels => q # p /\ pc[q] \in SleepLabels
    OBVIOUS
  <2>6. \A q \in Procs : pc'[q] \in SleepLabels =>
          /\ holds'[q] = NULL /\ want'[q] \in Ids
          /\ m'[q] \in Slots /\ mid'[m'[q]] = want'[q]
    BY <2>3, <2>5 DEF MutexInv, HoldInv
  <2>7. \A q \in Procs : holds'[q] # NULL \/ pc'[q] \in SleepLabels => left'[q] < Rounds
    BY <2>3, <2>5 DEF MutexInv, HoldInv
  <2> QED
    BY <2>4, <2>6, <2>7 DEF HoldInv
<1> QED
  BY <1>1, <1>2, <1>3 DEF MutexInv

\* What each step of mutex_lock() and mutex_unlock() does to the holders.
LEMMA UseSteps ==
  ASSUME MutexInv, TypeOK', NEW c \in CPUs, NEW p \in Procs,
         \/ \E id \in Ids : LockFree(c, p, id) \/ LockBusy(c, p, id)
         \/ LockRetest(c, p) \/ Unlock(c, p) \/ UnlockFails(c, p)
  PROVE  MutexInv'
<1> USE ConstantsLemma DEF Goto, Enter, Find, First, kvars
<1>0. /\ pc \in [Procs -> Labels] /\ m \in [Procs -> Slots \cup {NULL}]
      /\ want \in [Procs -> Ids \cup {NULL}] /\ left \in [Procs -> 0..Rounds]
      /\ holds \in [Procs -> Ids \cup {NULL}] /\ mid \in [Slots -> Nat]
      /\ mstate \in [Slots -> {"LOCKED", "UNLOCKED"}]
  BY DEF MutexInv, TypeOK
<1>1. ASSUME NEW id \in Ids, LockFree(c, p, id) PROVE MutexInv'
  <2>1. PICK i \in Slots : mid[i] = id /\ mstate[i] = "UNLOCKED"
                           /\ mstate' = [mstate EXCEPT ![i] = "LOCKED"]
    BY <1>1 DEF LockFree
  <2>2. /\ holds' = [holds EXCEPT ![p] = id]
        /\ left'[p] < Rounds /\ \A q \in Procs \ {p} : left'[q] = left[q]
        /\ UNCHANGED <<mid, nextmid, pc, m, want>>
        /\ pc'[p] \notin SleepLabels
    BY <1>0, <1>1 DEF LockFree, SleepLabels, SleepLocked
  <2> QED
    BY <2>1, <2>2, LockLemma
<1>2. ASSUME NEW id \in Ids, LockBusy(c, p, id) PROVE MutexInv'
  <2>1. PICK i \in Slots : mid[i] = id /\ m' = [m EXCEPT ![p] = i]
    BY <1>2 DEF LockBusy
  <2>2. /\ holds[p] = NULL
        /\ want' = [want EXCEPT ![p] = id]
        /\ left'[p] < Rounds /\ \A q \in Procs \ {p} : left'[q] = left[q]
        /\ pc' = [pc EXCEPT ![p] = "sleep.acquire"]
        /\ UNCHANGED <<mid, mstate, nextmid, holds>>
    BY <1>0, <1>2 DEF LockBusy
  <2>3. HoldInv'
    BY <1>0, <2>1, <2>2 DEF MutexInv, HoldInv
  <2> QED
    BY <2>2, <2>3 DEF MutexInv, IdInv, MutualExclusion
<1>3. CASE LockRetest(c, p)
  <2>1. /\ pc[p] \in SleepLabels
        /\ m[p] \in Slots /\ want[p] \in Ids /\ mid[m[p]] = want[p]
        /\ left[p] < Rounds
        /\ UNCHANGED <<mid, nextmid, left>>
    BY <1>3 DEF LockRetest, SleepLabels, MutexInv, HoldInv
  <2>2. CASE Retest(m[p])
    BY <1>0, <1>3, <2>1, <2>2, IdleLemma DEF LockRetest
  <2>3. CASE ~Retest(m[p])
    <3>1. /\ mstate[m[p]] = "UNLOCKED"
          /\ mstate' = [mstate EXCEPT ![m[p]] = "LOCKED"]
          /\ holds' = [holds EXCEPT ![p] = want[p]]
          /\ pc'[p] \notin SleepLabels
          /\ \A q \in Procs \ {p} :
                pc'[q] = pc[q] /\ m'[q] = m[q] /\ want'[q] = want[q] /\ left'[q] = left[q]
      BY <1>0, <1>3, <2>1, <2>3 DEF LockRetest, Retest, SleepLabels, SleepLocked
    <3> QED
      BY <2>1, <3>1, LockLemma
  <2> QED
    BY <2>2, <2>3
<1>4. CASE Unlock(c, p)
  <2>1. PICK i \in Slots :
          /\ mid[i] = holds[p] /\ holds[p] \in Ids
          /\ mstate' = [mstate EXCEPT ![i] = "UNLOCKED"]
          /\ m' = [m EXCEPT ![p] = i]
          /\ holds' = [holds EXCEPT ![p] = NULL]
          /\ pc' = [pc EXCEPT ![p] = "wakeup.test"]
          /\ UNCHANGED <<mid, nextmid, want, left>>
    BY <1>0, <1>4 DEF Unlock
  <2>2. IdInv'
    BY <2>1 DEF MutexInv, IdInv
  <2>3. MutualExclusion'
    BY <1>0, <2>1 DEF MutexInv, MutualExclusion
  <2>4. \A q \in Procs \ {p} : holds[q] # holds[p]
    BY <2>1 DEF MutexInv, MutualExclusion
  <2>5. HoldInv'
    BY <1>0, <2>1, <2>4 DEF MutexInv, HoldInv, SleepLabels, SleepLocked
  <2> QED
    BY <2>2, <2>3, <2>5 DEF MutexInv
<1>5. CASE UnlockFails(c, p)
  BY <1>0, <1>5 DEF UnlockFails, MutexInv, IdInv, HoldInv, MutualExclusion
<1> QED
  BY <1>1, <1>2, <1>3, <1>4, <1>5

\* MutexInv is an invariant when all mutexes are created before the first is
\* locked, with or without kill().
THEOREM MutexInvariance == ASSUME ~LateInit PROVE Spec => []MutexInv
<1>1. MutexInv /\ [Next]_vars => MutexInv'
  <2> SUFFICES ASSUME MutexInv, [Next]_vars PROVE MutexInv'
    OBVIOUS
  <2>1. TypeOK'
    BY TypeLemma DEF MutexInv
  <2>2. CASE UNCHANGED vars
    BY <2>2 DEF vars, kvars, mvars, MutexInv, TypeOK, IdInv, HoldInv, MutualExclusion
  <2>3. ASSUME NEW c \in CPUs, SchedStep(c), UNCHANGED mvars PROVE MutexInv'
    BY <2>1, <2>3, IdleSteps, ConstantsLemma
  <2>4. ASSUME NEW c \in CPUs, NEW p \in Procs, ThreadStep(c, p) PROVE MutexInv'
    BY <2>1, <2>4, IdleSteps, MutexInitLemma, UseSteps DEF ThreadStep
  <2>5. ASSUME NEW c \in CPUs, NEW p \in Procs, \E q \in Procs : Kill(c, p, q) PROVE MutexInv'
    BY <2>1, <2>5, IdleSteps
  <2> QED
    BY <2>2, <2>3, <2>4, <2>5 DEF Next
<1> QED
  BY <1>1, InitLemma, PTL DEF Spec

\* mutex_lock() excludes: for any number of threads, CPUs and mutexes, two
\* threads never hold the same mutex, provided that mutex_init() is not
\* called while mutexes are in use.
THEOREM MutexExcludes == ASSUME ~LateInit PROVE Spec => []MutualExclusion
  BY MutexInvariance, PTL DEF MutexInv

-----------------------------------------------------------------------------
(* Exclusion in mtable, also when slots are handed out again.              *)

\* The boot state satisfies TableInv.
LEMMA TableInitLemma == Init => TableInv
<1> SUFFICES ASSUME Init PROVE TableInv
  OBVIOUS
<1>1. TypeOK /\ IdInv
  BY InitLemma DEF MutexInv
<1>2. WaitInv
  BY DEF Init, WaitInv, SleepLabels, SleepLocked
<1>3. TableExclusion
  BY ConstantsLemma, MutexAssumption DEF Init, TableExclusion, Slots
<1> QED
  BY <1>1, <1>2, <1>3 DEF TableInv

\* A step that leaves mtable and the holders alone.
LEMMA TableIdleLemma ==
  ASSUME TableInv, TypeOK', NEW p \in Procs,
         UNCHANGED <<mid, mstate, nextmid, want, holds>>,
         \A q \in Procs \ {p} : pc'[q] = pc[q] /\ m'[q] = m[q],
         pc'[p] \in SleepLabels => pc[p] \in SleepLabels /\ m'[p] = m[p]
  PROVE  TableInv'
<1>1. IdInv' /\ TableExclusion'
  BY DEF TableInv, IdInv, TableExclusion
<1>2. WaitInv'
  BY DEF TableInv, WaitInv
<1> QED
  BY <1>1, <1>2 DEF TableInv

\* The scheduler, sleep(), wakeup1(), exit() and kill().
LEMMA TableIdleSteps ==
  ASSUME TableInv, TypeOK', NEW c \in CPUs, NEW p \in Procs,
         \/ SchedStep(c) /\ UNCHANGED mvars
         \/ SleepStep(c, p, m[p]) /\ UNCHANGED mvars
         \/ WakeTest(c, p) \/ WakeWrite(c, p) \/ Exit(c, p)
         \/ \E q \in Procs : Kill(c, p, q)
  PROVE  TableInv'
<1> USE DEF Goto, mvars
<1>0. pc \in [Procs -> Labels] /\ m \in [Procs -> Slots \cup {NULL}]
  BY DEF TableInv, TypeOK
<1>1. CASE SchedStep(c) /\ UNCHANGED mvars
  <2>1. UNCHANGED pc
    BY <1>1 DEF SchedStep, SchedAcquire, SchedRelease, Dispatch, Yield, Resume
  <2> QED
    BY <1>1, <2>1, TableIdleLemma
<1>2. CASE SleepStep(c, p, m[p]) /\ UNCHANGED mvars
  <2>1. /\ pc[p] \in SleepLabels
        /\ \A q \in Procs \ {p} : pc'[q] = pc[q]
    BY <1>0, <1>2 DEF SleepStep, SleepAcquire, SleepRelease, SleepSwitch, SleepWake,
                      SleepLabels, SleepLocked
  <2> QED
    BY <1>2, <2>1, TableIdleLemma
<1>3. CASE WakeTest(c, p) \/ WakeWrite(c, p)
  <2>1. /\ pc'[p] \notin SleepLabels
        /\ \A q \in Procs \ {p} : pc'[q] = pc[q] /\ m'[q] = m[q]
        /\ UNCHANGED <<mid, mstate, nextmid, want, holds>>
    BY <1>0, <1>3 DEF WakeTest, WakeWrite, AfterScan, SleepLabels, SleepLocked
  <2> QED
    BY <2>1, TableIdleLemma
<1>4. CASE Exit(c, p)
  <2>1. pc'[p] \notin SleepLabels /\ \A q \in Procs \ {p} : pc'[q] = pc[q]
    BY <1>0, <1>4 DEF Exit, SleepLabels, SleepLocked
  <2> QED
    BY <1>4, <2>1, TableIdleLemma DEF Exit
<1>5. CASE \E q \in Procs : Kill(c, p, q)
  BY <1>5, TableIdleLemma DEF Kill
<1> QED
  BY <1>1, <1>2, <1>3, <1>4, <1>5

\* mutex_init() overwrites a slot with an id that nobody holds or waits for.
LEMMA TableInitStep ==
  ASSUME TableInv, TypeOK', NEW c \in CPUs, NEW p \in Procs, MutexInit(c, p)
  PROVE  TableInv'
<1> USE ConstantsLemma
<1>0. /\ mid \in [Slots -> Nat] /\ nextmid \in Nat
      /\ holds \in [Procs -> Ids \cup {NULL}]
      /\ mstate \in [Slots -> {"LOCKED", "UNLOCKED"}]
  BY DEF TableInv, TypeOK
<1>1. PICK i \in Slots : /\ mid' = [mid EXCEPT ![i] = nextmid]
                         /\ mstate' = [mstate EXCEPT ![i] = "UNLOCKED"]
                         /\ nextmid' = nextmid + 1
                         /\ UNCHANGED <<pc, holds, want, m>>
  BY DEF MutexInit, kvars
<1>2. \A q \in Procs : holds[q] # nextmid
  <2> SUFFICES ASSUME NEW q \in Procs, holds[q] = nextmid PROVE FALSE
    OBVIOUS
  <2>1. nextmid # NULL
    BY DEF MutexInit, TableInv, TypeOK, Ids
  <2>2. nextmid < nextmid
    BY <2>1 DEF TableInv, WaitInv
  <2> QED
    BY <1>0, <2>2
<1>3. IdInv'
  BY <1>0, <1>1 DEF TableInv, IdInv
<1>4. TableExclusion'
  BY <1>0, <1>1, <1>2 DEF TableInv, TableExclusion
<1>5. WaitInv'
  <2>1. \A j \in Slots \ {i} : mid'[j] = mid[j] /\ mstate'[j] = mstate[j]
    BY <1>0, <1>1
  <2>2. mid'[i] = nextmid
    BY <1>0, <1>1
  <2>3. ASSUME NEW q \in Procs, holds[q] # NULL
        PROVE  /\ holds[q] < nextmid'
               /\ \A j \in Slots : mid'[j] = holds[q] => mstate'[j] = "LOCKED"
    <3>1. /\ holds[q] \in Nat /\ holds[q] < nextmid
          /\ \A j \in Slots : mid[j] = holds[q] => mstate[j] = "LOCKED"
      BY <1>0, <2>3 DEF TableInv, WaitInv
    <3>2. holds[q] < nextmid'
      BY <1>0, <1>1, <3>1
    <3> QED
      BY <1>2, <2>1, <2>2, <3>1, <3>2
  <2>4. ASSUME NEW q \in Procs, pc[q] \in SleepLabels
        PROVE  /\ want[q] \in Ids /\ want[q] < nextmid' /\ m[q] \in Slots
               /\ \A j \in Slots : mid'[j] = want[q] => j = m[q]
    <3>1. /\ want[q] \in Ids /\ want[q] < nextmid /\ m[q] \in Slots
          /\ \A j \in Slots : mid[j] = want[q] => j = m[q]
      BY <2>4 DEF TableInv, WaitInv
    <3>2. want[q] \in Nat
      BY <3>1
    <3>3. want[q] # nextmid /\ want[q] < nextmid'
      BY <1>0, <1>1, <3>1, <3>2
    <3> QED
      BY <2>1, <2>2, <3>1, <3>3
  <2> QED
    BY <1>1, <2>3, <2>4 DEF WaitInv
<1> QED
  BY <1>3, <1>4, <1>5 DEF TableInv

\* A thread that sets slot i to LOCKED becomes the holder of id.  When the
\* mutex is still in the table it is in slot i and had no holder.
LEMMA TableLockLemma ==
  ASSUME TableInv, TypeOK', NEW p \in Procs, NEW i \in Slots, NEW id \in Ids,
         id < nextmid, \A j \in Slots : mid[j] = id => j = i, mstate[i] = "UNLOCKED",
         mstate' = [mstate EXCEPT ![i] = "LOCKED"],
         holds' = [holds EXCEPT ![p] = id],
         UNCHANGED <<mid, nextmid>>, pc'[p] \notin SleepLabels,
         \A q \in Procs \ {p} : pc'[q] = pc[q] /\ m'[q] = m[q] /\ want'[q] = want[q]
  PROVE  TableInv'
<1> USE ConstantsLemma
<1>0. /\ mid \in [Slots -> Nat] /\ mstate \in [Slots -> {"LOCKED", "UNLOCKED"}]
      /\ holds \in [Procs -> Ids \cup {NULL}]
  BY DEF TableInv, TypeOK
<1>1. \A q \in Procs : holds[q] = id => \A j \in Slots : mid[j] # id
  BY <1>0 DEF TableInv, WaitInv
<1>2. IdInv'
  BY DEF TableInv, IdInv
<1>3. TableExclusion'
  BY <1>0, <1>1 DEF TableInv, TableExclusion
<1>4. \A j \in Slots : mstate[j] = "LOCKED" => mstate'[j] = "LOCKED"
  BY <1>0
<1>5. mstate'[i] = "LOCKED" /\ holds'[p] = id /\ \A q \in Procs \ {p} : holds'[q] = holds[q]
  BY <1>0
<1>6. WaitInv'
  BY <1>4, <1>5 DEF TableInv, WaitInv
<1> QED
  BY <1>2, <1>3, <1>6 DEF TableInv

\* mutex_lock() and mutex_unlock().
LEMMA TableUseSteps ==
  ASSUME TableInv, TypeOK', NEW c \in CPUs, NEW p \in Procs,
         \/ \E id \in Ids : LockFree(c, p, id) \/ LockBusy(c, p, id)
         \/ LockRetest(c, p) \/ Unlock(c, p) \/ UnlockFails(c, p)
  PROVE  TableInv'
<1> USE ConstantsLemma DEF Goto, Enter, Find, First, kvars
<1>0. /\ pc \in [Procs -> Labels] /\ m \in [Procs -> Slots \cup {NULL}]
      /\ want \in [Procs -> Ids \cup {NULL}]
      /\ holds \in [Procs -> Ids \cup {NULL}] /\ mid \in [Slots -> Nat]
      /\ mstate \in [Slots -> {"LOCKED", "UNLOCKED"}]
  BY DEF TableInv, TypeOK
<1>a. \A i, j \in Slots : mid[i] = mid[j] /\ mid[i] # 0 => i = j
  BY DEF TableInv, IdInv
<1>b. \A i \in Slots : mid[i] < nextmid
  BY DEF TableInv, IdInv
<1>1. ASSUME NEW id \in Ids, LockFree(c, p, id) PROVE TableInv'
  <2>1. PICK i \in Slots : mid[i] = id /\ mstate[i] = "UNLOCKED"
                           /\ mstate' = [mstate EXCEPT ![i] = "LOCKED"]
    BY <1>1 DEF LockFree
  <2>2. /\ holds' = [holds EXCEPT ![p] = id]
        /\ UNCHANGED <<mid, nextmid, pc, m, want>>
        /\ pc'[p] \notin SleepLabels
    BY <1>0, <1>1 DEF LockFree, SleepLabels, SleepLocked
  <2>3. id < nextmid /\ \A j \in Slots : mid[j] = id => j = i
    BY <1>a, <1>b, <2>1
  <2>4. \A q \in Procs \ {p} : pc'[q] = pc[q] /\ m'[q] = m[q] /\ want'[q] = want[q]
    BY <2>2
  <2> QED
    BY <2>1, <2>2, <2>3, <2>4, TableLockLemma
<1>2. ASSUME NEW id \in Ids, LockBusy(c, p, id) PROVE TableInv'
  <2>1. PICK i \in Slots : mid[i] = id /\ m' = [m EXCEPT ![p] = i]
    BY <1>2 DEF LockBusy
  <2>2. /\ want' = [want EXCEPT ![p] = id]
        /\ pc' = [pc EXCEPT ![p] = "sleep.acquire"]
        /\ UNCHANGED <<mid, mstate, nextmid, holds>>
    BY <1>0, <1>2 DEF LockBusy
  <2>3. id < nextmid /\ \A j \in Slots : mid[j] = id => j = i
    BY <1>a, <1>b, <2>1
  <2>4. WaitInv'
    BY <1>0, <2>1, <2>2, <2>3 DEF TableInv, WaitInv
  <2> QED
    BY <2>2, <2>4 DEF TableInv, IdInv, TableExclusion
<1>3. CASE LockRetest(c, p)
  <2>1. /\ pc[p] \in SleepLabels
        /\ m[p] \in Slots /\ want[p] \in Ids /\ want[p] < nextmid
        /\ \A i \in Slots : mid[i] = want[p] => i = m[p]
        /\ UNCHANGED <<mid, nextmid>>
    BY <1>3 DEF LockRetest, SleepLabels, TableInv, WaitInv
  <2>2. CASE Retest(m[p])
    BY <1>0, <1>3, <2>1, <2>2, TableIdleLemma DEF LockRetest
  <2>3. CASE ~Retest(m[p])
    <3>1. /\ mstate[m[p]] = "UNLOCKED"
          /\ mstate' = [mstate EXCEPT ![m[p]] = "LOCKED"]
          /\ holds' = [holds EXCEPT ![p] = want[p]]
          /\ pc'[p] \notin SleepLabels
          /\ \A q \in Procs \ {p} : pc'[q] = pc[q] /\ m'[q] = m[q] /\ want'[q] = want[q]
      BY <1>0, <1>3, <2>1, <2>3 DEF LockRetest, Retest, SleepLabels, SleepLocked
    <3> QED
      BY <2>1, <3>1, TableLockLemma
  <2> QED
    BY <2>2, <2>3
<1>4. CASE Unlock(c, p)
  <2>1. PICK i \in Slots :
          /\ mid[i] = holds[p] /\ holds[p] \in Ids
          /\ mstate' = [mstate EXCEPT ![i] = "UNLOCKED"]
          /\ m' = [m EXCEPT ![p] = i]
          /\ holds' = [holds EXCEPT ![p] = NULL]
          /\ pc' = [pc EXCEPT ![p] = "wakeup.test"]
          /\ UNCHANGED <<mid, nextmid, want>>
    BY <1>0, <1>4 DEF Unlock
  <2>2. IdInv'
    BY <2>1 DEF TableInv, IdInv
  <2>3. TableExclusion'
    BY <1>0, <2>1 DEF TableInv, TableExclusion
  <2>4. \A q \in Procs \ {p} : holds[q] # holds[p]
    BY <2>1 DEF TableInv, TableExclusion
  <2>5. WaitInv'
    BY <1>0, <2>1, <2>4 DEF TableInv, WaitInv, SleepLabels, SleepLocked
  <2> QED
    BY <2>2, <2>3, <2>5 DEF TableInv
<1>5. CASE UnlockFails(c, p)
  BY <1>0, <1>5 DEF UnlockFails, TableInv, IdInv, WaitInv, TableExclusion
<1> QED
  BY <1>1, <1>2, <1>3, <1>4, <1>5

\* A mutex in mtable has at most one holder, for any number of threads, CPUs
\* and mutexes, with mutex_init() and kill() at any time.
THEOREM TableExcludes == Spec => []TableExclusion
<1>1. TableInv /\ [Next]_vars => TableInv'
  <2> SUFFICES ASSUME TableInv, [Next]_vars PROVE TableInv'
    OBVIOUS
  <2>1. TypeOK'
    BY TypeLemma DEF TableInv
  <2>2. CASE UNCHANGED vars
    BY <2>2 DEF vars, kvars, mvars, TableInv, TypeOK, IdInv, WaitInv, TableExclusion
  <2>3. ASSUME NEW c \in CPUs, SchedStep(c), UNCHANGED mvars PROVE TableInv'
    BY <2>1, <2>3, TableIdleSteps, ConstantsLemma
  <2>4. ASSUME NEW c \in CPUs, NEW p \in Procs, ThreadStep(c, p) PROVE TableInv'
    BY <2>1, <2>4, TableIdleSteps, TableInitStep, TableUseSteps DEF ThreadStep
  <2>5. ASSUME NEW c \in CPUs, NEW p \in Procs, \E q \in Procs : Kill(c, p, q) PROVE TableInv'
    BY <2>1, <2>5, TableIdleSteps
  <2> QED
    BY <2>2, <2>3, <2>4, <2>5 DEF Next
<1>2. TableInv => TableExclusion
  BY DEF TableInv
<1> QED
  BY <1>1, <1>2, TableInitLemma, PTL DEF Spec

=============================================================================
