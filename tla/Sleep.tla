------------------------------- MODULE Sleep -------------------------------
(***************************************************************************)
(* sleep(chan, lk) of proc.c for a spin lock lk other than ptable.lock,    *)
(* one step per point where another CPU can see a difference:              *)
(*                                                                         *)
(*   sleep.acquire   lk held; acquire(&ptable.lock)                        *)
(*   sleep.release   both held; release(lk)                                *)
(*   sleep.switch    ptable.lock held; p->chan, SLEEPING, sched()          *)
(*   sleep.wake      switched in again; p->chan = 0, release(&ptable.lock) *)
(*   sleep.relock    acquire(lk), and whatever the caller then does        *)
(*                                                                         *)
(* Interrupts are off on a CPU that holds lk or ptable.lock (pushcli), so  *)
(* a process can lose its CPU to the timer only when it holds neither.     *)
(***************************************************************************)
EXTENDS Kthread

VARIABLE lk     \* the CPU that holds the caller's spin lock, or NULL

SleepLocked == {"sleep.release", "sleep.switch", "sleep.wake"}
SleepLabels == SleepLocked \cup {"sleep.acquire", "sleep.relock"}

SleepAcquire(c, p) ==
  /\ Runs(c, p)
  /\ pc[p] = "sleep.acquire"
  /\ ptlock = NULL
  /\ ptlock' = c
  /\ Goto(p, "sleep.release")
  /\ UNCHANGED <<state, chan, killed, cproc, lk>>

SleepRelease(c, p) ==
  /\ Holds(c, p)
  /\ pc[p] = "sleep.release"
  /\ lk' = NULL
  /\ Goto(p, "sleep.switch")
  /\ UNCHANGED <<state, chan, killed, cproc, ptlock>>

SleepSwitch(c, p, ch) ==
  /\ Holds(c, p)
  /\ pc[p] = "sleep.switch"
  /\ chan' = [chan EXCEPT ![p] = ch]
  /\ Sched(c, p, "SLEEPING", state)
  /\ Goto(p, "sleep.wake")
  /\ UNCHANGED <<killed, lk>>

SleepWake(c, p) ==
  /\ Holds(c, p)
  /\ pc[p] = "sleep.wake"
  /\ chan' = [chan EXCEPT ![p] = NULL]
  /\ ptlock' = NULL
  /\ Goto(p, "sleep.relock")
  /\ UNCHANGED <<state, killed, cproc, lk>>

SleepStep(c, p, ch) ==
  SleepAcquire(c, p) \/ SleepRelease(c, p) \/ SleepSwitch(c, p, ch) \/ SleepWake(c, p)

\* The scheduler of c, and the timer interrupt on c.
SchedStep(c) ==
  /\ \/ SchedAcquire(c)
     \/ SchedRelease(c)
     \/ \E p \in Procs : Dispatch(c, p)
     \/ \E p \in Procs : lk # c /\ Yield(c, p)
     \/ \E p \in Procs : Resume(c, p, SleepLocked)
  /\ UNCHANGED lk

=============================================================================
