------------------------------- MODULE Mutex -------------------------------
(***************************************************************************)
(* The kernel mutexes of proc.c: mutex_init(), mutex_lock() and            *)
(* mutex_unlock() over mtable, under the spin lock mtable.lock (lk).       *)
(*                                                                         *)
(* Threads use them as the README shows: they lock a mutex they know the   *)
(* id of, and unlock the one they hold.  What is faithful in detail is the *)
(* interplay with the scheduler: mutex_lock() sleeps with sleep(m,         *)
(* &mtable.lock), mutex_unlock() calls wakeup1(m) without ptable.lock, so  *)
(* the loop of wakeup1() runs while other CPUs change p->state, and its    *)
(* test and its assignment are two steps.                                  *)
(***************************************************************************)
EXTENDS Sleep

CONSTANTS MAX_MUTEXES,  \* number of slots of mtable
          MaxMid,       \* bound: mutex_init() is called while nextmid <= MaxMid
          Rounds,       \* bound: how often each thread locks a mutex
          LateInit,     \* mutexes are also created while some are in use
          Killer        \* threads kill each other

ASSUME MutexAssumption ==
  /\ MAX_MUTEXES \in Nat \ {0}
  /\ MaxMid \in Nat
  /\ Rounds \in Nat
  /\ LateInit \in BOOLEAN
  /\ Killer \in BOOLEAN
  /\ NULL \notin 1..MAX_MUTEXES /\ NULL \notin 1..MaxMid

Slots == 1..MAX_MUTEXES
Ids   == 1..MaxMid

VARIABLES mid,      \* mtable.mutex[].id
          mstate,   \* mtable.mutex[].state; LOCKED is 0, the state at boot
          nextmid,
          want,     \* the id that the thread has passed to mutex_lock()
          m,        \* the local m of mutex_lock() or mutex_unlock()
          scan,     \* the loop variable of wakeup1()
          holds,    \* the id of the mutex the thread has locked, or NULL
          left      \* how many times the thread will still lock

mvars == <<mid, mstate, nextmid, want, m, scan, holds, left>>
vars  == <<kvars, lk, mvars>>

Labels == SleepLabels \cup {"user", "wakeup.test", "wakeup.write", "exit"}

Init ==
  /\ state   = [p \in Procs |-> "RUNNABLE"]
  /\ chan    = [p \in Procs |-> NULL]
  /\ killed  = [p \in Procs |-> FALSE]
  /\ cproc   = [c \in CPUs |-> NULL]
  /\ ptlock  = NULL
  /\ pc      = [p \in Procs |-> "user"]
  /\ lk      = NULL
  /\ mid     = [i \in Slots |-> 0]
  /\ mstate  = [i \in Slots |-> "LOCKED"]
  /\ nextmid = 1
  /\ want    = [p \in Procs |-> NULL]
  /\ m       = [p \in Procs |-> NULL]
  /\ scan    = [p \in Procs |-> 1]
  /\ holds   = [p \in Procs |-> NULL]
  /\ left    = [p \in Procs |-> Rounds]

\* p makes a system call that begins with acquire(&mtable.lock).
Enter(c, p) ==
  /\ Runs(c, p)
  /\ pc[p] = "user"
  /\ ~killed[p]
  /\ lk = NULL

-----------------------------------------------------------------------------
\* mutex_init(): takes the first slot whose state is LOCKED.
MutexInit(c, p) ==
  /\ Enter(c, p)
  /\ nextmid <= MaxMid
  /\ LateInit \/ \A q \in Procs : left[q] = Rounds
  /\ \E i \in Slots :
       /\ First({j \in Slots : mstate[j] = "LOCKED"}, i)
       /\ mid' = [mid EXCEPT ![i] = nextmid]
       /\ mstate' = [mstate EXCEPT ![i] = "UNLOCKED"]
  /\ nextmid' = nextmid + 1
  /\ UNCHANGED <<kvars, lk, want, m, scan, holds, left>>

\* The slot that the search for an id stops at.
Find(id, i) == First({j \in Slots : mid[j] = id}, i)

\* mutex_lock(id) finds the mutex unlocked.
LockFree(c, p, id) ==
  /\ Enter(c, p)
  /\ holds[p] = NULL /\ left[p] > 0
  /\ \E i \in Slots :
       /\ Find(id, i)
       /\ mstate[i] = "UNLOCKED"
       /\ mstate' = [mstate EXCEPT ![i] = "LOCKED"]
  /\ holds' = [holds EXCEPT ![p] = id]
  /\ left' = [left EXCEPT ![p] = @ - 1]
  /\ UNCHANGED <<kvars, lk, mid, nextmid, want, m, scan>>

\* mutex_lock(id) finds it locked, and calls sleep().
LockBusy(c, p, id) ==
  /\ Enter(c, p)
  /\ holds[p] = NULL /\ left[p] > 0
  /\ \E i \in Slots :
       /\ Find(id, i)
       /\ mstate[i] = "LOCKED"
       /\ m' = [m EXCEPT ![p] = i]
  /\ lk' = c
  /\ want' = [want EXCEPT ![p] = id]
  /\ left' = [left EXCEPT ![p] = @ - 1]
  /\ Goto(p, "sleep.acquire")
  /\ UNCHANGED <<state, chan, killed, cproc, ptlock, mid, mstate, nextmid, scan, holds>>

\* Mutant: mutex_lock() tests the state once (if instead of while).
RetestNever(i) == FALSE

\* The condition of the loop in mutex_lock().
Retest(i) == mstate[i] = "LOCKED"

\* sleep() is over: acquire(&mtable.lock) and test again.
LockRetest(c, p) ==
  /\ Runs(c, p)
  /\ pc[p] = "sleep.relock"
  /\ lk = NULL
  /\ \/ /\ Retest(m[p])
        /\ lk' = c
        /\ Goto(p, "sleep.acquire")
        /\ UNCHANGED <<mstate, want, m, holds>>
     \/ /\ ~Retest(m[p])
        /\ mstate' = [mstate EXCEPT ![m[p]] = "LOCKED"]
        /\ holds' = [holds EXCEPT ![p] = want[p]]
        /\ want' = [want EXCEPT ![p] = NULL]
        /\ m' = [m EXCEPT ![p] = NULL]
        /\ Goto(p, "user")
        /\ UNCHANGED lk
  /\ UNCHANGED <<state, chan, killed, cproc, ptlock, mid, nextmid, scan, left>>

-----------------------------------------------------------------------------
\* mutex_unlock(id) of the mutex that p holds.
Unlock(c, p) ==
  /\ Enter(c, p)
  /\ holds[p] # NULL
  /\ \E i \in Slots :
       /\ Find(holds[p], i)
       /\ mstate[i] = "LOCKED"
       /\ mstate' = [mstate EXCEPT ![i] = "UNLOCKED"]
       /\ m' = [m EXCEPT ![p] = i]
  /\ lk' = c
  /\ scan' = [scan EXCEPT ![p] = 1]
  /\ holds' = [holds EXCEPT ![p] = NULL]
  /\ Goto(p, "wakeup.test")
  /\ UNCHANGED <<state, chan, killed, cproc, ptlock, mid, nextmid, want, left>>

\* mutex_unlock(id) returns -1: the mutex is gone, or is not locked.
UnlockFails(c, p) ==
  /\ Enter(c, p)
  /\ holds[p] # NULL
  /\ ~ \E i \in Slots : Find(holds[p], i) /\ mstate[i] = "LOCKED"
  /\ holds' = [holds EXCEPT ![p] = NULL]
  /\ UNCHANGED <<kvars, lk, mid, mstate, nextmid, want, m, scan, left>>

\* Mutant: wakeup1() looks at p->chan only.
SleeperAnyState(q, i) == chan[q] = i

\* Mutant: wakeup1() finds nobody.
SleeperNobody(q, i) == FALSE

\* The test of wakeup1().
Sleeper(q, i) == state[q] = "SLEEPING" /\ chan[q] = i

\* The next round of the loop of wakeup1(), or the end of mutex_unlock().
AfterScan(c, p) ==
  IF scan[p] < NPROC
  THEN scan' = [scan EXCEPT ![p] = @ + 1] /\ Goto(p, "wakeup.test") /\ UNCHANGED <<lk, m>>
  ELSE scan' = [scan EXCEPT ![p] = 1] /\ Goto(p, "user") /\ lk' = NULL /\ m' = [m EXCEPT ![p] = NULL]

WakeTest(c, p) ==
  /\ cproc[c] = p
  /\ pc[p] = "wakeup.test"
  /\ \/ /\ Sleeper(scan[p], m[p])
        /\ Goto(p, "wakeup.write")
        /\ UNCHANGED <<scan, lk, m>>
     \/ /\ ~Sleeper(scan[p], m[p])
        /\ AfterScan(c, p)
  /\ UNCHANGED <<state, chan, killed, cproc, ptlock, mid, mstate, nextmid, want, holds, left>>

WakeWrite(c, p) ==
  /\ cproc[c] = p
  /\ pc[p] = "wakeup.write"
  /\ state' = [state EXCEPT ![scan[p]] = "RUNNABLE"]
  /\ AfterScan(c, p)
  /\ UNCHANGED <<chan, killed, cproc, ptlock, mid, mstate, nextmid, want, holds, left>>

-----------------------------------------------------------------------------
\* A thread that is finished, or killed, exits (exit() is in Proc).
Exit(c, p) ==
  /\ Runs(c, p)
  /\ pc[p] = "user"
  /\ killed[p] \/ (left[p] = 0 /\ holds[p] = NULL)
  /\ ptlock = NULL
  /\ Sched(c, p, "ZOMBIE", state)
  /\ Goto(p, "exit")
  /\ UNCHANGED <<chan, killed, lk, mvars>>

\* p calls kill() with the pid of q.
Kill(c, p, q) ==
  /\ Killer
  /\ Runs(c, p)
  /\ pc[p] = "user"
  /\ ~killed[p]
  /\ ptlock = NULL
  /\ killed' = [killed EXCEPT ![q] = TRUE]
  /\ state' = [state EXCEPT ![q] = IF @ = "SLEEPING" THEN "RUNNABLE" ELSE @]
  /\ UNCHANGED <<chan, cproc, ptlock, pc, lk, mvars>>

ThreadStep(c, p) ==
  \/ MutexInit(c, p)
  \/ \E id \in Ids : LockFree(c, p, id) \/ LockBusy(c, p, id)
  \/ SleepStep(c, p, m[p]) /\ UNCHANGED mvars
  \/ LockRetest(c, p)
  \/ Unlock(c, p) \/ UnlockFails(c, p)
  \/ WakeTest(c, p) \/ WakeWrite(c, p)
  \/ Exit(c, p)

Next ==
  \/ \E c \in CPUs : SchedStep(c) /\ UNCHANGED mvars
  \/ \E c \in CPUs, p \in Procs : ThreadStep(c, p) \/ \E q \in Procs : Kill(c, p, q)

Spec == Init /\ [][Next]_vars

\* The CPUs keep executing, timer interrupts keep coming, every RUNNABLE
\* process is eventually drawn, and threads carry their program through.
FairSpec ==
  /\ Spec
  /\ WF_vars(\E c \in CPUs : SchedAcquire(c) /\ UNCHANGED <<lk, mvars>>)
  /\ \A c \in CPUs :
       WF_vars((SchedRelease(c) \/ \E p \in Procs : Dispatch(c, p)) /\ UNCHANGED <<lk, mvars>>)
  /\ SF_vars(\E c \in CPUs, p \in Procs : lk # c /\ Yield(c, p) /\ UNCHANGED <<lk, mvars>>)
  /\ \A p \in Procs :
       /\ SF_vars(\E c \in CPUs : Dispatch(c, p) /\ UNCHANGED <<lk, mvars>>)
       /\ WF_vars(\E c \in CPUs : Resume(c, p, SleepLocked) /\ UNCHANGED <<lk, mvars>>)
       /\ SF_vars(\E c \in CPUs : ThreadStep(c, p))

-----------------------------------------------------------------------------
\* Every variable has its type.
TypeOK ==
  /\ state \in [Procs -> States]
  /\ chan \in [Procs -> Slots \cup {NULL}]
  /\ killed \in [Procs -> BOOLEAN]
  /\ cproc \in [CPUs -> Procs \cup {NULL}]
  /\ ptlock \in CPUs \cup {NULL}
  /\ lk \in CPUs \cup {NULL}
  /\ pc \in [Procs -> Labels]
  /\ mid \in [Slots -> Nat]
  /\ mstate \in [Slots -> {"LOCKED", "UNLOCKED"}]
  /\ nextmid \in Nat \ {0}
  /\ want \in [Procs -> Ids \cup {NULL}]
  /\ m \in [Procs -> Slots \cup {NULL}]
  /\ scan \in [Procs -> Procs]
  /\ holds \in [Procs -> Ids \cup {NULL}]
  /\ left \in [Procs -> 0..Rounds]

\* "When the lock is set, no other thread can access the locked region of
\* code": no two threads are between mutex_lock() and mutex_unlock() of one
\* mutex.
MutualExclusion ==
  \A p, q \in Procs : holds[p] = holds[q] /\ holds[p] # NULL => p = q

\* A mutex that is still in mtable has one holder at most, whenever mutexes are
\* created: also the thread that wakes up in mutex_lock() on a slot that
\* mutex_init() has handed out again does not get the new mutex.
TableExclusion ==
  \A p, q \in Procs, i \in Slots :
    holds[p] # NULL /\ holds[p] = mid[i] /\ holds[q] = mid[i] => p = q

\* "The mutex will be acquired when another thread finishes using it": every
\* thread gets through its rounds, unless one is killed with its mutex locked.
AllDone == <>((\A p \in Procs : pc[p] = "exit") \/ \E p \in Procs : killed[p])

-----------------------------------------------------------------------------
(* The inductive invariants behind the safety properties (MutexProofs).    *)

\* Labels at which the thread is inside mtable.lock, and inside ptable.lock
\* on its way into sleep().
InMtable == {"sleep.acquire", "sleep.release", "wakeup.test", "wakeup.write"}
InPtable == {"sleep.release", "sleep.switch"}

\* A thread inside mtable.lock runs on the CPU that holds it, and likewise
\* for ptable.lock; a sleeping one has passed sched(); and the process that
\* wakeup1() has found asleep stays asleep, although ptable.lock is free,
\* because only wakeup1() itself would wake it.
HandOffInv ==
  /\ \A p \in Procs : pc[p] \in InMtable => \E c \in CPUs : cproc[c] = p /\ lk = c
  /\ \A p \in Procs : pc[p] \in InPtable => \E c \in CPUs : cproc[c] = p /\ ptlock = c
  /\ \A p \in Procs : pc[p] = "wakeup.write" => state[scan[p]] = "SLEEPING"

SchedInv == TypeOK /\ OneCpuPerProc /\ HandOffInv

\* Ids are handed out once.
IdInv ==
  /\ \A i \in Slots : mid[i] < nextmid
  /\ \A i, j \in Slots : mid[i] = mid[j] /\ mid[i] # 0 => i = j

\* The mutex of a holder is LOCKED; a thread in the loop of mutex_lock() looks
\* at the slot of the mutex it asked for.
HoldInv ==
  \A p \in Procs :
    /\ holds[p] # NULL => \E i \in Slots : mid[i] = holds[p] /\ mstate[i] = "LOCKED"
    /\ pc[p] \in SleepLabels =>
         /\ holds[p] = NULL
         /\ want[p] \in Ids
         /\ m[p] \in Slots /\ mid[m[p]] = want[p]
    /\ holds[p] # NULL \/ pc[p] \in SleepLabels => left[p] < Rounds

MutexInv == TypeOK /\ IdInv /\ HoldInv /\ MutualExclusion

\* When slots are handed out again: a mutex in the table that is held is
\* LOCKED, and a waiter looks at the slot of its mutex unless the mutex has
\* left the table, to which ids do not come back.
WaitInv ==
  \A p \in Procs :
    /\ holds[p] # NULL =>
         holds[p] < nextmid /\ \A i \in Slots : mid[i] = holds[p] => mstate[i] = "LOCKED"
    /\ pc[p] \in SleepLabels =>
         /\ want[p] \in Ids /\ want[p] < nextmid
         /\ m[p] \in Slots
         /\ \A i \in Slots : mid[i] = want[p] => i = m[p]

TableInv == TypeOK /\ IdInv /\ WaitInv /\ TableExclusion

=============================================================================
