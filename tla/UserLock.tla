------------------------------ MODULE UserLock -----------------------------
(***************************************************************************)
(* The user-space locks of ulib.c: lock_acquire() and lock_release() over  *)
(* an atomic test_and_set() on one struct lock, ticket_acquire() and       *)
(* ticket_release() over an atomic read_and_increment() (x86.h) on another.*)
(*                                                                         *)
(* The threads take one lock or the other, and give it back.  Retries that *)
(* change nothing are left out.                                            *)
(* next_ticket is an unsigned and now_serving an int that are compared     *)
(* after conversion, so both count modulo W (2^32 in the program).         *)
(***************************************************************************)
EXTENDS Integers, FiniteSets

CONSTANTS Threads,
          W,        \* the number of values of next_ticket and now_serving
          Rounds    \* bound: how often each thread takes the lock

ASSUME UserLockAssumption ==
  /\ W \in Nat \ {0}
  /\ Rounds \in Nat

\* No two threads can have the same ticket (64 processes, 2^32 tickets).
ASSUME TicketAssumption ==
  /\ IsFiniteSet(Threads)
  /\ Cardinality(Threads) <= W

VARIABLES locked,                     \* of the test-and-set lock
          next_ticket, now_serving,   \* of the ticket lock
          use,     \* which lock the thread takes in this round
          me,      \* the local me of ticket_acquire()
          pc,
          tmp,     \* the value loaded by now_serving += 1
          left     \* how many rounds the thread has to go

lockvars == <<locked, next_ticket, now_serving, use, me, pc, tmp, left>>

Kinds  == {"tas", "ticket"}
Inside == {"inside", "serve"}
Labels == Inside \cup {"out", "spin"}

\* A global struct lock is zero.
LockInit ==
  /\ locked      = 0
  /\ next_ticket = 0
  /\ now_serving = 0
  /\ use  = [t \in Threads |-> "tas"]
  /\ me   = [t \in Threads |-> 0]
  /\ pc   = [t \in Threads |-> "out"]
  /\ tmp  = [t \in Threads |-> 0]
  /\ left = [t \in Threads |-> Rounds]

Goto(t, label) == pc' = [pc EXCEPT ![t] = label]

Begin(t, k) ==
  /\ pc[t] = "out"
  /\ left[t] > 0
  /\ use' = [use EXCEPT ![t] = k]

-----------------------------------------------------------------------------
\* Mutant: the value found by the exchange is not looked at.
TasIgnored == FALSE

\* test_and_set() returns the old value, and leaves 1 behind.
TasFound == locked = 1

\* lock_acquire(): the test_and_set() that ends the loop.  Those before it
\* change nothing.
LockAcquire(t) ==
  /\ Begin(t, "tas")
  /\ ~TasFound
  /\ locked' = 1
  /\ Goto(t, "inside")
  /\ UNCHANGED <<next_ticket, now_serving, me, tmp, left>>

LockRelease(t) ==
  /\ use[t] = "tas"
  /\ pc[t] = "inside"
  /\ locked' = 0
  /\ left' = [left EXCEPT ![t] = @ - 1]
  /\ Goto(t, "out")
  /\ UNCHANGED <<next_ticket, now_serving, use, me, tmp>>

-----------------------------------------------------------------------------
\* ticket_acquire(): read_and_increment().
TicketDraw(t) ==
  /\ Begin(t, "ticket")
  /\ me' = [me EXCEPT ![t] = next_ticket]
  /\ next_ticket' = (next_ticket + 1) % W
  /\ Goto(t, "spin")
  /\ UNCHANGED <<locked, now_serving, tmp, left>>

\* Mutant: a later ticket may enter too.
ServedLater(t) == now_serving <= me[t]

\* Mutant: the tickets are taken to begin after the number served.
ServedNext(t) == now_serving = me[t] + 1

\* The condition that ends the loop of ticket_acquire().
Served(t) == now_serving = me[t]

TicketEnter(t) ==
  /\ pc[t] = "spin"
  /\ Served(t)
  /\ Goto(t, "inside")
  /\ UNCHANGED <<locked, next_ticket, now_serving, use, me, tmp, left>>

\* ticket_release(): now_serving += 1 is a load and a store.
TicketLoad(t) ==
  /\ use[t] = "ticket"
  /\ pc[t] = "inside"
  /\ tmp' = [tmp EXCEPT ![t] = now_serving]
  /\ Goto(t, "serve")
  /\ UNCHANGED <<locked, next_ticket, now_serving, use, me, left>>

TicketStore(t) ==
  /\ pc[t] = "serve"
  /\ now_serving' = (tmp[t] + 1) % W
  /\ left' = [left EXCEPT ![t] = @ - 1]
  /\ Goto(t, "out")
  /\ UNCHANGED <<locked, next_ticket, use, me, tmp>>

-----------------------------------------------------------------------------
Step(t) ==
  \/ LockAcquire(t) \/ LockRelease(t)
  \/ TicketDraw(t) \/ TicketEnter(t) \/ TicketLoad(t) \/ TicketStore(t)

LockNext == \E t \in Threads : Step(t)

LockSpec == LockInit /\ [][LockNext]_lockvars

\* The kernel schedules every thread again and again.  No thread is assumed to
\* win a race for locked.
FairSpec == LockSpec /\ \A t \in Threads : WF_lockvars(Step(t))

-----------------------------------------------------------------------------
\* Every variable has its type.
TypeOK ==
  /\ locked \in {0, 1}
  /\ next_ticket \in 0..W-1
  /\ now_serving \in 0..W-1
  /\ use \in [Threads -> Kinds]
  /\ me \in [Threads -> 0..W-1]
  /\ pc \in [Threads -> Labels]
  /\ tmp \in [Threads -> Nat]
  /\ left \in [Threads -> 0..Rounds]

Holders(k) == {t \in Threads : use[t] = k /\ pc[t] \in Inside}

\* "only one CPU at a time can hold the lock": lock_acquire() and
\* lock_release() are the acquire and release of a lock.
Abs == INSTANCE LockAbs WITH
         Locks <- {"tas"}, owners <- [k \in {"tas"} |-> Holders(k)]

ImplementsLock == Abs!Spec

\* The threads that have a ticket, the number on the n-th ticket when s is
\* being served, and the thread that has that ticket.
Tickets      == {t \in Threads : use[t] = "ticket" /\ pc[t] # "out"}
Number(s, n) == (s + n - 1) % W
NthTicket(n) == CHOOSE t \in Tickets : me[t] = Number(now_serving, n)

Fifo == INSTANCE FifoLock WITH
          queue  <- [n \in 1..Cardinality(Tickets) |-> NthTicket(n)],
          inside <- Holders("ticket")

\* The ticket lock admits threads one at a time, in the order of their
\* read_and_increment(), also when the tickets wrap around.
ImplementsFifo == Fifo!Spec

\* Every thread that wants the lock gets it.
AllDone == <>(\A t \in Threads : left[t] = 0)

-----------------------------------------------------------------------------
(* The inductive invariants behind ImplementsLock and ImplementsFifo       *)
(* (UserProofs).                                                           *)

\* locked is set while a thread is inside, and that thread is alone.
TasInv ==
  /\ TypeOK
  /\ Holders("tas") # {} => locked = 1
  /\ \A t, u \in Holders("tas") : t = u
  /\ \A t \in Threads : pc[t] \in {"spin", "serve"} => use[t] = "ticket"
  /\ \A t \in Threads : pc[t] # "out" => left[t] > 0

\* The tickets that are out are the numbers from now_serving up to
\* next_ticket, each held by one thread; a thread inside has the first, and
\* what it has loaded to release the lock is still what is there.
FifoInv ==
  /\ TasInv
  /\ next_ticket = Number(now_serving, Cardinality(Tickets) + 1)
  /\ \A t \in Tickets : \E n \in 1..Cardinality(Tickets) : me[t] = Number(now_serving, n)
  /\ \A n \in 1..Cardinality(Tickets) : \E t \in Tickets : me[t] = Number(now_serving, n)
  /\ \A t, u \in Tickets : me[t] = me[u] => t = u
  /\ \A t \in Holders("ticket") : me[t] = now_serving
  /\ \A t \in Threads : pc[t] = "serve" => tmp[t] = now_serving

=============================================================================
