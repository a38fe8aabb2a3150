----------------------------- MODULE UserProofs ----------------------------
(***************************************************************************)
(* What user programs build on.                                            *)
(*                                                                         *)
(* UserLock: the test-and-set lock of ulib.c implements LockAbs for any    *)
(* number of threads, whatever they do with the ticket lock meanwhile.     *)
(* The ticket lock implements FifoLock for as many threads as there are    *)
(* tickets: the tickets that are out are a row of numbers modulo W, and    *)
(* the queue of FifoLock is the row (FifoInv, Line).                       *)
(*                                                                         *)
(* Vm and Malloc: PagesAccounted, SizeMapped and HeapRight, for every      *)
(* amount of memory, page size, program and argument of sbrk().            *)
(* Each function of vm.c takes memory that is in order (MemOk) to memory   *)
(* that is in order, whatever it runs out of; its loops are folds, so what *)
(* holds before and after each round holds at the end.  VmInv says that    *)
(* memory is in order for the address spaces of the processes, that each   *)
(* of them has one process that is no thread, and that the size of that    *)
(* process says what is mapped, unless it has given everything up.         *)
(* ListInv says that the free list of malloc() is a circle upwards from    *)
(* Base, and that its blocks and those in use tile the heap.               *)
(***************************************************************************)
EXTENDS UserLock, Malloc, FiniteSetTheorems, SequenceTheorems,
        WellFoundedInduction, TLAPS

\* The modulus keeps tickets in range.
LEMMA TicketLemma == \A n \in Nat : n % W \in 0..W-1
  BY UserLockAssumption

\* A zeroed struct lock satisfies the invariant.
LEMMA LockInitLemma == LockInit => TasInv
  BY UserLockAssumption DEF LockInit, TasInv, TypeOK, Labels, Inside, Kinds, Holders

\* Variables keep their types.
LEMMA LockTypeLemma ==
  ASSUME TasInv, NEW t \in Threads, Step(t)
  PROVE  TypeOK'
<1> USE DEF TypeOK, Goto, Begin, Labels, Inside, Kinds
<1>0. TypeOK /\ (pc[t] # "out" => left[t] > 0) /\ W \in Nat \ {0} /\ Rounds \in Nat
  BY UserLockAssumption DEF TasInv
<1>1. CASE LockAcquire(t)
  BY <1>0, <1>1 DEF LockAcquire
<1>2. CASE LockRelease(t)
  BY <1>0, <1>2 DEF LockRelease
<1>3. CASE TicketDraw(t)
  <2>1. next_ticket' \in 0..W-1
    <3>1. next_ticket + 1 \in Nat
      BY <1>0
    <3> QED
      BY <1>3, <3>1, TicketLemma DEF TicketDraw
  <2> QED
    BY <1>0, <1>3, <2>1 DEF TicketDraw
<1>4. CASE TicketEnter(t)
  BY <1>0, <1>4 DEF TicketEnter
<1>5. CASE TicketLoad(t)
  BY <1>0, <1>5 DEF TicketLoad
<1>6. CASE TicketStore(t)
  <2>1. now_serving' \in 0..W-1
    BY <1>0, <1>6, TicketLemma DEF TicketStore
  <2> QED
    BY <1>0, <1>6, <2>1 DEF TicketStore
<1> QED
  BY <1>1, <1>2, <1>3, <1>4, <1>5, <1>6 DEF Step

\* What each step does to the set of threads inside lock_acquire() and
\* lock_release().
LEMMA HoldersLemma ==
  ASSUME TasInv, NEW t \in Threads, Step(t)
  PROVE  \/ LockAcquire(t) /\ Holders("tas") = {} /\ Holders("tas")' = {t}
         \/ LockRelease(t) /\ Holders("tas") = {t} /\ Holders("tas")' = {}
         \/ ~LockRelease(t) /\ Holders("tas")' = Holders("tas") /\ locked' = locked
<1> USE DEF Goto, Begin, Inside, Holders
<1>0. /\ pc \in [Threads -> Labels]
      /\ use \in [Threads -> Kinds]
  BY DEF TasInv, TypeOK
<1>1. CASE LockAcquire(t)
  <2>1. Holders("tas") = {}
    BY <1>1 DEF LockAcquire, TasFound, TasInv
  <2>2. Holders("tas")' = {t}
    BY <1>0, <1>1, <2>1 DEF LockAcquire
  <2> QED
    BY <1>1, <2>1, <2>2
<1>2. CASE LockRelease(t)
  <2>1. Holders("tas") = {t}
    BY <1>2 DEF LockRelease, TasInv
  <2>2. Holders("tas")' = {}
    BY <1>0, <1>2, <2>1 DEF LockRelease
  <2> QED
    BY <1>2, <2>1, <2>2
<1>3. CASE TicketDraw(t)
  BY <1>0, <1>3 DEF TicketDraw, LockRelease
<1>4. CASE TicketEnter(t)
  <2>1. use[t] = "ticket"
    BY <1>4 DEF TicketEnter, TasInv
  <2> QED
    BY <1>0, <1>4, <2>1 DEF TicketEnter, LockRelease
<1>5. CASE TicketLoad(t)
  BY <1>0, <1>5 DEF TicketLoad, LockRelease
<1>6. CASE TicketStore(t)
  <2>1. use[t] = "ticket"
    BY <1>6 DEF TicketStore, TasInv
  <2> QED
    BY <1>0, <1>6, <2>1 DEF TicketStore, LockRelease
<1> QED
  BY <1>1, <1>2, <1>3, <1>4, <1>5, <1>6 DEF Step

\* Every step of a thread keeps the invariant.
LEMMA LockStepLemma ==
  ASSUME TasInv, NEW t \in Threads, Step(t)
  PROVE  TasInv'
<1>1. TypeOK'
  BY LockTypeLemma
<1>2. /\ Holders("tas")' # {} => locked' = 1
      /\ \A u, v \in Holders("tas")' : u = v
  BY HoldersLemma DEF TasInv, LockAcquire
<1>3. \A u \in Threads : /\ pc'[u] \in {"spin", "serve"} => use'[u] = "ticket"
                         /\ pc'[u] # "out" => left'[u] > 0
  <2> SUFFICES ASSUME NEW u \in Threads
               PROVE  /\ pc'[u] \in {"spin", "serve"} => use'[u] = "ticket"
                      /\ pc'[u] # "out" => left'[u] > 0
    OBVIOUS
  <2> USE DEF TasInv, TypeOK, Goto, Begin
  <2>1. CASE LockAcquire(t)
    BY <2>1 DEF LockAcquire
  <2>2. CASE LockRelease(t)
    BY <2>2 DEF LockRelease
  <2>3. CASE TicketDraw(t)
    BY <2>3 DEF TicketDraw
  <2>4. CASE TicketEnter(t)
    BY <2>4 DEF TicketEnter
  <2>5. CASE TicketLoad(t)
    BY <2>5 DEF TicketLoad
  <2>6. CASE TicketStore(t)
    BY <2>6 DEF TicketStore
  <2> QED
    BY <2>1, <2>2, <2>3, <2>4, <2>5, <2>6 DEF Step
<1> QED
  BY <1>1, <1>2, <1>3 DEF TasInv, Holders

\* lock_acquire() and lock_release() are the acquire and release of a lock,
\* for every number of threads and rounds.
THEOREM TasImplementsLock == LockSpec => ImplementsLock
<1> DEFINE owners == [k \in {"tas"} |-> Holders(k)]
<1>1. TasInv /\ [LockNext]_lockvars => TasInv'
  <2> SUFFICES ASSUME TasInv, [LockNext]_lockvars PROVE TasInv'
    OBVIOUS
  <2>1. CASE UNCHANGED lockvars
    BY <2>1 DEF lockvars, TasInv, TypeOK, Holders
  <2> QED
    BY <2>1, LockStepLemma DEF LockNext
<1>2. LockInit => Abs!Init
  BY DEF LockInit, Abs!Init, Holders, Inside
<1>3. TasInv /\ [LockNext]_lockvars => [Abs!Next]_owners
  <2> SUFFICES ASSUME TasInv, [LockNext]_lockvars PROVE Abs!Next \/ UNCHANGED owners
    OBVIOUS
  <2>1. CASE UNCHANGED lockvars
    <3>1. Holders("tas")' = Holders("tas")
      BY <2>1 DEF lockvars, Holders
    <3> QED
      BY <3>1
  <2>2. ASSUME NEW t \in Threads, Step(t) PROVE Abs!Next \/ UNCHANGED owners
    <3>1. CASE Holders("tas") = {} /\ Holders("tas")' = {t}
      <4>1. Abs!Acquire("tas", t)
        BY <3>1 DEF Abs!Acquire
      <4> QED
        BY <4>1 DEF Abs!Next
    <3>2. CASE Holders("tas") = {t} /\ Holders("tas")' = {}
      <4>1. Abs!Release("tas", t)
        BY <3>2 DEF Abs!Release
      <4> QED
        BY <4>1 DEF Abs!Next
    <3>3. CASE Holders("tas")' = Holders("tas")
      BY <3>3
    <3> QED
      BY <2>2, <3>1, <3>2, <3>3, HoldersLemma
  <2> QED
    BY <2>1, <2>2 DEF LockNext
<1> QED
  BY <1>1, <1>2, <1>3, LockInitLemma, PTL DEF LockSpec, ImplementsLock, Abs!Spec

-----------------------------------------------------------------------------
(* The ticket lock.                                                        *)

\* One turn of the modulus.
LEMMA TurnLemma ==
  ASSUME NEW x \in 0..2*W-1
  PROVE  x % W = IF x < W THEN x ELSE x - W
<1>1. W \in Nat \ {0} /\ x \in Nat
  BY UserLockAssumption
<1> QED
  BY <1>1

\* The numbers on W tickets in a row are different, and each is one more than
\* the one before it.
LEMMA NumberLemma ==
  ASSUME NEW s \in 0..W-1, NEW n \in 1..W
  PROVE  /\ Number(s, n) \in 0..W-1
         /\ Number(s, 1) = s
         /\ (Number(s, n) + 1) % W = Number(s, n + 1)
         /\ Number((s + 1) % W, n) = Number(s, n + 1)
         /\ \A k \in 1..W : Number(s, k) = Number(s, n) => k = n
<1>0. W \in Nat \ {0}
  BY UserLockAssumption
<1>1. Number(s, n) = IF s + n - 1 < W THEN s + n - 1 ELSE s + n - 1 - W
  <2>1. s + n - 1 \in 0..2*W-1
    BY <1>0
  <2> QED
    BY <1>0, <2>1, TurnLemma DEF Number
<1>2. Number(s, 1) = s
  <2>1. s + 1 - 1 = s /\ s \in 0..2*W-1
    BY <1>0
  <2> QED
    BY <1>0, <2>1, TurnLemma DEF Number
<1>3. Number(s, n + 1) = IF s + n < W THEN s + n ELSE s + n - W
  <2>1. s + (n + 1) - 1 = s + n /\ s + n \in 0..2*W-1
    BY <1>0
  <2> QED
    BY <1>0, <2>1, TurnLemma DEF Number
<1>4. (Number(s, n) + 1) % W = Number(s, n + 1)
  <2> DEFINE k == Number(s, n) + 1
  <2>1. k = (IF s + n - 1 < W THEN s + n - 1 ELSE s + n - 1 - W) + 1
    BY <1>1
  <2> HIDE DEF k
  <2>2. k \in 0..2*W-1
    BY <1>0, <2>1
  <2>3. k % W = IF k < W THEN k ELSE k - W
    BY <1>0, <2>2, TurnLemma
  <2>4. k % W = Number(s, n + 1)
    BY <1>0, <1>3, <2>1, <2>2, <2>3
  <2> QED
    BY <2>4 DEF k
<1>5. Number((s + 1) % W, n) = Number(s, n + 1)
  <2> DEFINE r == (s + 1) % W
  <2>1. s + 1 \in 0..2*W-1
    BY <1>0
  <2>2. r = IF s + 1 < W THEN s + 1 ELSE s + 1 - W
    BY <1>0, <2>1, TurnLemma
  <2> HIDE DEF r
  <2>3. r + n - 1 \in 0..2*W-1 /\ r \in 0..W-1
    BY <1>0, <2>2
  <2>4. Number(r, n) = IF r + n - 1 < W THEN r + n - 1 ELSE r + n - 1 - W
    BY <1>0, <2>3, TurnLemma DEF Number
  <2>5. Number(r, n) = Number(s, n + 1)
    BY <1>0, <1>3, <2>2, <2>3, <2>4
  <2> QED
    BY <2>5 DEF r
<1>6. ASSUME NEW k \in 1..W, Number(s, k) = Number(s, n) PROVE k = n
  <2>1. s + k - 1 \in 0..2*W-1
    BY <1>0
  <2>2. Number(s, k) = IF s + k - 1 < W THEN s + k - 1 ELSE s + k - 1 - W
    BY <1>0, <2>1, TurnLemma DEF Number
  <2>3. (IF s + k - 1 < W THEN s + k - 1 ELSE s + k - 1 - W)
          = (IF s + n - 1 < W THEN s + n - 1 ELSE s + n - 1 - W)
    BY <1>1, <1>6, <2>2
  <2>4. s \in Int /\ k \in Int /\ n \in Int /\ 0 < k /\ k <= W /\ 0 < n /\ n <= W
    BY <1>0
  <2>5. CASE s + k - 1 < W /\ s + n - 1 < W
    BY <1>0, <2>3, <2>4, <2>5
  <2>6. CASE s + k - 1 < W /\ ~(s + n - 1 < W)
    BY <1>0, <2>3, <2>4, <2>6
  <2>7. CASE ~(s + k - 1 < W) /\ s + n - 1 < W
    BY <1>0, <2>3, <2>4, <2>7
  <2>8. CASE ~(s + k - 1 < W) /\ ~(s + n - 1 < W)
    BY <1>0, <2>3, <2>4, <2>8
  <2> QED
    BY <2>5, <2>6, <2>7, <2>8
<1> QED
  BY <1>0, <1>1, <1>2, <1>4, <1>5, <1>6

\* There are at most W tickets out.
LEMMA TicketsLemma ==
  /\ IsFiniteSet(Tickets)
  /\ Cardinality(Tickets) \in 0..W
  /\ Cardinality(Tickets) = 0 <=> Tickets = {}
<1>1. Tickets \subseteq Threads
  BY DEF Tickets
<1>2. IsFiniteSet(Tickets) /\ Cardinality(Tickets) <= Cardinality(Threads)
  BY <1>1, TicketAssumption, FS_Subset
<1>3. Cardinality(Tickets) \in Nat /\ Cardinality(Threads) \in Nat
  BY <1>2, TicketAssumption, FS_CardinalityType
<1> QED
  BY <1>2, <1>3, TicketAssumption, UserLockAssumption, FS_EmptySet

\* The n-th ticket is the one with the n-th number.
LEMMA NthLemma ==
  ASSUME FifoInv, NEW n \in 1..Cardinality(Tickets)
  PROVE  /\ NthTicket(n) \in Tickets
         /\ me[NthTicket(n)] = Number(now_serving, n)
         /\ \A t \in Tickets : me[t] = Number(now_serving, n) => t = NthTicket(n)
  BY DEF FifoInv, NthTicket

\* The same after a step.
LEMMA NthNext ==
  ASSUME FifoInv', NEW n \in 1..Cardinality(Tickets')
  PROVE  \A u \in Tickets' : me'[u] = Number(now_serving', n) => u = NthTicket(n)'
  BY DEF FifoInv, NthTicket

\* A ticket that is drawn has the next number; the others keep theirs.
LEMMA DrawLemma ==
  ASSUME FifoInv, NEW t \in Threads, TicketDraw(t)
  PROVE  /\ t \notin Tickets
         /\ Tickets' = Tickets \cup {t}
         /\ Cardinality(Tickets') = Cardinality(Tickets) + 1
         /\ Cardinality(Tickets) \in 0..W-1
         /\ me'[t] = Number(now_serving, Cardinality(Tickets) + 1)
         /\ \A u \in Tickets : u # t /\ me'[u] = me[u]
         /\ Holders("ticket")' = Holders("ticket")
<1> USE DEF TicketDraw, Begin, Goto
<1>0. /\ pc \in [Threads -> Labels] /\ use \in [Threads -> Kinds]
      /\ me \in [Threads -> 0..W-1]
  BY DEF FifoInv, TasInv, TypeOK
<1>1. t \notin Tickets /\ Tickets' = Tickets \cup {t}
  BY <1>0 DEF Tickets
<1>2. Cardinality(Tickets') = Cardinality(Tickets) + 1
  BY <1>1, TicketsLemma, FS_AddElement
<1>3. Cardinality(Tickets) \in 0..W-1
  <2>1. /\ IsFiniteSet(Tickets \cup {t})
        /\ Tickets \cup {t} \subseteq Threads
    BY TicketsLemma, FS_AddElement DEF Tickets
  <2>2. Cardinality(Tickets \cup {t}) <= Cardinality(Threads)
    BY <2>1, TicketAssumption, FS_Subset
  <2>3. Cardinality(Threads) \in Nat
    BY TicketAssumption, FS_CardinalityType
  <2> QED
    BY <1>1, <1>2, <2>2, <2>3, TicketsLemma, TicketAssumption, UserLockAssumption
<1>4. me'[t] = Number(now_serving, Cardinality(Tickets) + 1)
  BY <1>0 DEF FifoInv
<1>5. \A u \in Tickets : u # t /\ me'[u] = me[u]
  BY <1>0, <1>1 DEF Tickets
<1>6. Holders("ticket")' = Holders("ticket")
  BY <1>0 DEF Holders, Inside
<1> QED
  BY <1>1, <1>2, <1>3, <1>4, <1>5, <1>6

\* The thread that is let in has the first ticket, and nobody is inside.
LEMMA EnterLemma ==
  ASSUME FifoInv, NEW t \in Threads, TicketEnter(t)
  PROVE  /\ t \in Tickets /\ Tickets' = Tickets
         /\ me[t] = now_serving
         /\ Holders("ticket") = {}
         /\ Holders("ticket")' = {t}
<1> USE DEF TicketEnter, Goto
<1>0. /\ pc \in [Threads -> Labels] /\ use \in [Threads -> Kinds]
      /\ use[t] = "ticket"
  BY DEF FifoInv, TasInv, TypeOK
<1>1. t \in Tickets /\ Tickets' = Tickets
  BY <1>0 DEF Tickets
<1>2. me[t] = now_serving
  BY DEF Served
<1>3. Holders("ticket") = {}
  <2> SUFFICES ASSUME NEW u \in Holders("ticket") PROVE FALSE
    OBVIOUS
  <2>1. u \in Tickets /\ me[u] = now_serving /\ u # t
    BY DEF FifoInv, Holders, Tickets, Inside
  <2> QED
    BY <1>1, <1>2, <2>1 DEF FifoInv
<1>4. Holders("ticket")' = {t}
  BY <1>0, <1>3 DEF Holders, Inside
<1> QED
  BY <1>1, <1>2, <1>3, <1>4

\* The thread that leaves was alone inside, had the first ticket, and the next
\* number is served.
LEMMA LeaveLemma ==
  ASSUME FifoInv, NEW t \in Threads, TicketStore(t)
  PROVE  /\ t \in Tickets
         /\ Tickets' = Tickets \ {t}
         /\ Cardinality(Tickets') = Cardinality(Tickets) - 1
         /\ Cardinality(Tickets) \in 1..W
         /\ me[t] = now_serving
         /\ now_serving' = (now_serving + 1) % W
         /\ Holders("ticket") = {t}
         /\ Holders("ticket")' = {}
<1> USE DEF TicketStore, Goto
<1>0. /\ pc \in [Threads -> Labels] /\ use \in [Threads -> Kinds]
      /\ use[t] = "ticket"
  BY DEF FifoInv, TasInv, TypeOK
<1>1. t \in Tickets /\ Tickets' = Tickets \ {t} /\ t \in Holders("ticket")
  BY <1>0 DEF Tickets, Holders, Inside
<1>2. /\ Cardinality(Tickets') = Cardinality(Tickets) - 1
      /\ Cardinality(Tickets) \in 1..W
  BY <1>1, TicketsLemma, FS_RemoveElement
<1>3. me[t] = now_serving /\ now_serving' = (now_serving + 1) % W
  BY <1>1 DEF FifoInv
<1>4. Holders("ticket") = {t}
  <2> SUFFICES ASSUME NEW u \in Holders("ticket") PROVE u = t
    BY <1>1
  <2>1. u \in Tickets /\ me[u] = now_serving
    BY DEF FifoInv, Holders, Tickets, Inside
  <2> QED
    BY <1>1, <1>3, <2>1 DEF FifoInv
<1>5. Holders("ticket")' = {}
  BY <1>0, <1>4 DEF Holders, Inside
<1> QED
  BY <1>1, <1>2, <1>3, <1>4, <1>5

\* The other steps leave the ticket lock as it is.
LEMMA OtherLemma ==
  ASSUME FifoInv, NEW t \in Threads, LockAcquire(t) \/ LockRelease(t) \/ TicketLoad(t)
  PROVE  /\ Tickets' = Tickets
         /\ Holders("ticket")' = Holders("ticket")
         /\ UNCHANGED <<me, now_serving, next_ticket>>
<1> USE DEF Goto, Begin, Tickets, Holders, Inside
<1>0. /\ pc \in [Threads -> Labels] /\ use \in [Threads -> Kinds]
  BY DEF FifoInv, TasInv, TypeOK
<1>1. CASE LockAcquire(t)
  BY <1>0, <1>1 DEF LockAcquire
<1>2. CASE LockRelease(t)
  BY <1>0, <1>2 DEF LockRelease
<1>3. CASE TicketLoad(t)
  BY <1>0, <1>3 DEF TicketLoad
<1> QED
  BY <1>1, <1>2, <1>3

\* What the thread that releases the lock has loaded stays what is there: only
\* it may change now_serving.
LEMMA LoadedLemma ==
  ASSUME FifoInv, NEW t \in Threads, Step(t), NEW u \in Threads, pc'[u] = "serve"
  PROVE  tmp'[u] = now_serving'
<1> USE DEF Goto, Begin
<1>0. /\ pc \in [Threads -> Labels] /\ use \in [Threads -> Kinds]
      /\ tmp \in [Threads -> Nat]
      /\ pc[u] = "serve" => tmp[u] = now_serving
  BY DEF FifoInv, TasInv, TypeOK
<1>1. CASE LockAcquire(t)
  BY <1>0, <1>1 DEF LockAcquire
<1>2. CASE LockRelease(t)
  BY <1>0, <1>2 DEF LockRelease
<1>3. CASE TicketDraw(t)
  BY <1>0, <1>3 DEF TicketDraw
<1>4. CASE TicketEnter(t)
  BY <1>0, <1>4 DEF TicketEnter
<1>5. CASE TicketLoad(t)
  BY <1>0, <1>5 DEF TicketLoad
<1>6. CASE TicketStore(t)
  <2>1. u # t /\ pc[u] = "serve"
    BY <1>0, <1>6 DEF TicketStore
  <2>2. use[u] = "ticket"
    BY <2>1 DEF FifoInv, TasInv
  <2>3. u \in Holders("ticket")
    BY <2>1, <2>2 DEF Holders, Inside
  <2> QED
    BY <1>6, <2>1, <2>3, LeaveLemma
<1> QED
  BY <1>1, <1>2, <1>3, <1>4, <1>5, <1>6 DEF Step

\* The tickets that are out remain a row of numbers.
LEMMA RowLemma ==
  ASSUME FifoInv, NEW t \in Threads, Step(t)
  PROVE  /\ next_ticket' = Number(now_serving', Cardinality(Tickets') + 1)
         /\ \A u \in Tickets' : \E n \in 1..Cardinality(Tickets') :
              me'[u] = Number(now_serving', n)
         /\ \A n \in 1..Cardinality(Tickets') : \E u \in Tickets' :
              me'[u] = Number(now_serving', n)
         /\ \A u, v \in Tickets' : me'[u] = me'[v] => u = v
         /\ \A u \in Holders("ticket")' : me'[u] = now_serving'
<1> DEFINE s == now_serving
           c == Cardinality(Tickets)
<1>0. /\ W \in Nat \ {0}
      /\ s \in 0..W-1
      /\ me \in [Threads -> 0..W-1]
      /\ next_ticket = Number(s, c + 1)
      /\ \A u \in Tickets : \E n \in 1..c : me[u] = Number(s, n)
      /\ \A n \in 1..c : \E u \in Tickets : me[u] = Number(s, n)
      /\ \A u, v \in Tickets : me[u] = me[v] => u = v
      /\ \A u \in Holders("ticket") : me[u] = s
      /\ c \in 0..W
  BY TicketsLemma, UserLockAssumption DEF FifoInv, TasInv, TypeOK
<1>1. CASE LockAcquire(t) \/ LockRelease(t) \/ TicketLoad(t)
  BY <1>0, <1>1, OtherLemma
<1>2. CASE TicketDraw(t)
  <2>0. /\ t \notin Tickets /\ Tickets' = Tickets \cup {t}
        /\ Cardinality(Tickets') = c + 1
        /\ c \in 0..W-1
        /\ me'[t] = Number(s, c + 1)
        /\ \A u \in Tickets : u # t /\ me'[u] = me[u]
        /\ Holders("ticket")' = Holders("ticket")
        /\ now_serving' = s
    BY <1>2, DrawLemma DEF TicketDraw
  <2> HIDE DEF s, c
  <2>1. next_ticket' = Number(s, (c + 1) + 1)
    <3>1. c + 1 \in 1..W
      BY <1>0, <2>0
    <3>2. (Number(s, c + 1) + 1) % W = Number(s, (c + 1) + 1)
      BY <1>0, <3>1, NumberLemma
    <3> QED
      BY <1>0, <1>2, <3>2 DEF TicketDraw
  <2>2. \A u \in Tickets' : \E n \in 1..(c + 1) : me'[u] = Number(s, n)
    <3> SUFFICES ASSUME NEW u \in Tickets' PROVE \E n \in 1..(c + 1) : me'[u] = Number(s, n)
      OBVIOUS
    <3>1. CASE u = t
      <4>1. c + 1 \in 1..(c + 1)
        BY <1>0
      <4> QED
        BY <2>0, <3>1, <4>1
    <3>2. CASE u \in Tickets
      <4>1. PICK n \in 1..c : me[u] = Number(s, n)
        BY <1>0, <3>2
      <4>2. n \in 1..(c + 1)
        BY <1>0
      <4> QED
        BY <2>0, <3>2, <4>1, <4>2
    <3> QED
      BY <2>0, <3>1, <3>2
  <2>3. \A n \in 1..(c + 1) : \E u \in Tickets' : me'[u] = Number(s, n)
    <3> SUFFICES ASSUME NEW n \in 1..(c + 1) PROVE \E u \in Tickets' : me'[u] = Number(s, n)
      OBVIOUS
    <3>1. CASE n = c + 1
      BY <2>0, <3>1
    <3>2. CASE n \in 1..c
      <4>1. PICK u \in Tickets : me[u] = Number(s, n)
        BY <1>0, <3>2
      <4> QED
        BY <2>0, <4>1
    <3> QED
      BY <1>0, <3>1, <3>2
  <2>4. ASSUME NEW u \in Tickets PROVE me'[u] # me'[t]
    <3>1. PICK n \in 1..c : me[u] = Number(s, n)
      BY <1>0
    <3>2. n \in 1..W /\ c + 1 \in 1..W /\ n # c + 1
      BY <1>0, <2>0
    <3>3. Number(s, n) # Number(s, c + 1)
      BY <1>0, <3>2, NumberLemma
    <3> QED
      BY <2>0, <3>1, <3>3
  <2>5. \A u, v \in Tickets' : me'[u] = me'[v] => u = v
    BY <1>0, <2>0, <2>4
  <2>6. \A u \in Holders("ticket")' : me'[u] = now_serving'
    <3>1. Holders("ticket") \subseteq Tickets
      BY DEF Holders, Tickets, Inside
    <3> QED
      BY <1>0, <2>0, <3>1
  <2> QED
    BY <2>0, <2>1, <2>2, <2>3, <2>5, <2>6
<1>3. CASE TicketEnter(t)
  <2>1. UNCHANGED <<me, now_serving, next_ticket>>
    BY <1>3 DEF TicketEnter
  <2> QED
    BY <1>0, <1>3, <2>1, EnterLemma
<1>4. CASE TicketStore(t)
  <2>0. /\ t \in Tickets /\ Tickets' = Tickets \ {t}
        /\ Cardinality(Tickets') = c - 1
        /\ c \in 1..W
        /\ me[t] = s
        /\ now_serving' = (s + 1) % W
        /\ Holders("ticket")' = {}
        /\ UNCHANGED <<me, next_ticket>>
    BY <1>4, LeaveLemma DEF TicketStore
  <2> HIDE DEF s, c
  <2>1. \A n \in 1..W : Number(now_serving', n) = Number(s, n + 1)
    BY <1>0, <2>0, NumberLemma
  <2>2. Number(s, 1) = s /\ 1 \in 1..W
    BY <1>0, NumberLemma
  <2>3. next_ticket' = Number(now_serving', (c - 1) + 1)
    <3>1. (c - 1) + 1 = c
      BY <1>0
    <3> QED
      BY <1>0, <2>0, <2>1, <3>1
  <2>4. ASSUME NEW u \in Tickets' PROVE \E n \in 1..(c - 1) : me'[u] = Number(now_serving', n)
    <3>1. PICK n \in 1..c : me[u] = Number(s, n)
      BY <1>0, <2>0
    <3>2. n # 1
      BY <1>0, <2>0, <2>2, <3>1
    <3>3. n - 1 \in 1..(c - 1) /\ n - 1 \in 1..W /\ (n - 1) + 1 = n
      BY <1>0, <3>2
    <3> QED
      BY <2>0, <2>1, <3>1, <3>3
  <2>5. ASSUME NEW n \in 1..(c - 1) PROVE \E u \in Tickets' : me'[u] = Number(now_serving', n)
    <3>1. n + 1 \in 1..c /\ n + 1 \in 1..W /\ n \in 1..W /\ n + 1 # 1
      BY <1>0
    <3>2. PICK u \in Tickets : me[u] = Number(s, n + 1)
      BY <1>0, <3>1
    <3>3. Number(s, n + 1) # Number(s, 1)
      BY <1>0, <2>2, <3>1, NumberLemma
    <3>4. u # t
      BY <2>0, <2>2, <3>2, <3>3
    <3> QED
      BY <2>0, <2>1, <3>1, <3>2, <3>4
  <2> QED
    BY <1>0, <2>0, <2>3, <2>4, <2>5
<1> QED
  BY <1>1, <1>2, <1>3, <1>4 DEF Step

\* Every step of a thread keeps the row of tickets.
LEMMA FifoStepLemma ==
  ASSUME FifoInv, NEW t \in Threads, Step(t)
  PROVE  FifoInv'
<1>1. TasInv'
  BY LockStepLemma DEF FifoInv
<1> QED
  BY <1>1, RowLemma, LoadedLemma DEF FifoInv

\* No ticket is out of a zeroed struct lock.
LEMMA FifoInitLemma == LockInit => FifoInv /\ Tickets = {} /\ Holders("ticket") = {}
<1> SUFFICES ASSUME LockInit PROVE FifoInv /\ Tickets = {} /\ Holders("ticket") = {}
  OBVIOUS
<1>1. Tickets = {} /\ Holders("ticket") = {}
  BY DEF LockInit, Tickets, Holders, Inside
<1>2. Cardinality(Tickets) = 0
  BY <1>1, FS_EmptySet
<1>3. Number(0, 1) = 0
  BY UserLockAssumption, NumberLemma
<1> QED
  BY <1>1, <1>2, <1>3, LockInitLemma DEF FifoInv, LockInit

\* The tickets in the order of their numbers.
Line == [n \in 1..Cardinality(Tickets) |-> NthTicket(n)]

\* The line is a sequence of the threads that have a ticket.
LEMMA LineLemma ==
  ASSUME FifoInv
  PROVE  /\ Line \in Seq(Threads)
         /\ Len(Line) = Cardinality(Tickets)
         /\ \A i \in DOMAIN Line : Line[i] = NthTicket(i) /\ Line[i] \in Tickets
<1>1. Cardinality(Tickets) \in Nat
  BY TicketsLemma, UserLockAssumption
<1>2. \A n \in 1..Cardinality(Tickets) : NthTicket(n) \in Tickets /\ NthTicket(n) \in Threads
  BY NthLemma DEF Tickets
<1>3. Line \in [1..Cardinality(Tickets) -> Threads]
  BY <1>2 DEF Line
<1>4. Line \in Seq(Threads) /\ Len(Line) = Cardinality(Tickets)
  BY <1>1, <1>3
<1> QED
  BY <1>2, <1>4 DEF Line

\* A draw puts the thread at the end of the line.
LEMMA LineDrawLemma ==
  ASSUME FifoInv, NEW t \in Threads, TicketDraw(t), FifoInv'
  PROVE  Line' = Append(Line, t)
<1> DEFINE s == now_serving
           c == Cardinality(Tickets)
<1>0. /\ Tickets' = Tickets \cup {t}
      /\ Cardinality(Tickets') = c + 1
      /\ c \in 0..W-1
      /\ me'[t] = Number(s, c + 1)
      /\ \A u \in Tickets : me'[u] = me[u]
      /\ now_serving' = s
      /\ W \in Nat \ {0}
  BY DrawLemma, UserLockAssumption DEF TicketDraw
<1>1. ASSUME NEW n \in 1..(c + 1)
      PROVE  NthTicket(n)' = IF n = c + 1 THEN t ELSE NthTicket(n)
  <2>1. \A u \in Tickets' : me'[u] = Number(s, n) => u = NthTicket(n)'
    BY <1>0, NthNext
  <2>2. CASE n = c + 1
    BY <1>0, <2>1, <2>2
  <2>3. CASE n \in 1..c
    <3>1. NthTicket(n) \in Tickets /\ me[NthTicket(n)] = Number(s, n)
      BY <2>3, NthLemma
    <3> QED
      BY <1>0, <2>1, <2>3, <3>1
  <2> QED
    BY <1>0, <2>2, <2>3
<1>2. Line' = [n \in 1..(c + 1) |-> NthTicket(n)']
  BY <1>0 DEF Line
<1> HIDE DEF s, c
<1>3. Line \in Seq(Threads) /\ Len(Line) = c /\ \A i \in 1..c : Line[i] = NthTicket(i)
  BY LineLemma DEF c, Line
<1>4. \A n \in 1..(c + 1) : NthTicket(n)' = IF n = c + 1 THEN t ELSE Line[n]
  BY <1>0, <1>1, <1>3
<1>5. \A n \in 1..(c + 1) : NthTicket(n)' \in Threads
  BY <1>0, <1>3, <1>4
<1>6. Line' \in Seq(Threads) /\ Len(Line') = c + 1
  BY <1>0, <1>2, <1>5
<1>7. /\ Append(Line, t) \in Seq(Threads)
      /\ Len(Append(Line, t)) = c + 1
      /\ \A i \in 1..c : Append(Line, t)[i] = Line[i]
      /\ Append(Line, t)[c + 1] = t
  BY <1>3, AppendProperties
<1>8. \A i \in 1..Len(Line') : Line'[i] = Append(Line, t)[i]
  BY <1>0, <1>2, <1>4, <1>6, <1>7
<1> QED
  BY <1>6, <1>7, <1>8, SeqEqual

\* A release takes the thread off the head of the line.
LEMMA LineLeaveLemma ==
  ASSUME FifoInv, NEW t \in Threads, TicketStore(t), FifoInv'
  PROVE  Line' = Tail(Line)
<1> DEFINE s == now_serving
           c == Cardinality(Tickets)
<1>0. /\ t \in Tickets /\ Tickets' = Tickets \ {t}
      /\ Cardinality(Tickets') = c - 1
      /\ c \in 1..W
      /\ me[t] = s
      /\ now_serving' = (s + 1) % W
      /\ me' = me
      /\ W \in Nat \ {0}
      /\ s \in 0..W-1
  BY LeaveLemma, UserLockAssumption DEF TicketStore, FifoInv, TasInv, TypeOK
<1>1. ASSUME NEW n \in 1..(c - 1)
      PROVE  NthTicket(n)' = NthTicket(n + 1)
  <2>0. n + 1 \in 1..c /\ n + 1 \in 1..W /\ n \in 1..W /\ n + 1 # 1 /\ 1 \in 1..W
    BY <1>0
  <2>1. \A u \in Tickets' : me'[u] = Number(now_serving', n) => u = NthTicket(n)'
    BY <1>0, NthNext
  <2>2. NthTicket(n + 1) \in Tickets /\ me[NthTicket(n + 1)] = Number(s, n + 1)
    BY <2>0, NthLemma
  <2>3. Number(now_serving', n) = Number(s, n + 1)
    BY <1>0, <2>0, NumberLemma
  <2>4. Number(s, n + 1) # Number(s, 1) /\ Number(s, 1) = s
    BY <1>0, <2>0, NumberLemma
  <2> QED
    BY <1>0, <2>1, <2>2, <2>3, <2>4
<1>2. Line' = [n \in 1..(c - 1) |-> NthTicket(n)']
  BY <1>0 DEF Line
<1> HIDE DEF s, c
<1>3. Line \in Seq(Threads) /\ Len(Line) = c /\ \A i \in 1..c : Line[i] = NthTicket(i)
  BY LineLemma DEF c, Line
<1>4. \A n \in 1..(c - 1) : NthTicket(n)' = Line[n + 1]
  BY <1>0, <1>1, <1>3
<1>5. ASSUME NEW n \in 1..(c - 1) PROVE NthTicket(n)' \in Threads
  <2>1. n + 1 \in 1..Len(Line)
    BY <1>0, <1>3
  <2>2. Line[n + 1] \in Threads
    BY <1>3, <2>1, LenProperties
  <2> QED
    BY <1>4, <2>2
<1>6. Line' \in Seq(Threads) /\ Len(Line') = c - 1
  BY <1>0, <1>2, <1>5
<1>7. Line # <<>>
  BY <1>0, <1>3
<1>8. /\ Tail(Line) \in Seq(Threads)
      /\ Len(Tail(Line)) = c - 1
      /\ \A i \in 1..(c - 1) : Tail(Line)[i] = Line[i + 1]
  BY <1>3, <1>7, HeadTailProperties
<1>9. \A i \in 1..Len(Line') : Line'[i] = Tail(Line)[i]
  BY <1>0, <1>2, <1>4, <1>6, <1>8
<1> QED
  BY <1>6, <1>8, <1>9, SeqEqual

\* The other steps leave the line alone.
LEMMA LineOtherLemma ==
  ASSUME Tickets' = Tickets, me' = me, now_serving' = now_serving
  PROVE  Line' = Line
  BY DEF Line, NthTicket

\* The ticket lock lets threads in one at a time, in the order in which they
\* drew their tickets, for every number of threads up to the number of tickets
\* and across every wrap-around.
THEOREM TicketImplementsFifo == LockSpec => ImplementsFifo
<1> DEFINE inside == Holders("ticket")
<1>1. FifoInv /\ [LockNext]_lockvars => FifoInv'
  <2> SUFFICES ASSUME FifoInv, [LockNext]_lockvars PROVE FifoInv'
    OBVIOUS
  <2>1. CASE UNCHANGED lockvars
    BY <2>1 DEF lockvars, FifoInv, TasInv, TypeOK, Holders, Tickets
  <2> QED
    BY <2>1, FifoStepLemma DEF LockNext
<1>2. LockInit => FifoInv /\ Fifo!Init
  <2> SUFFICES ASSUME LockInit PROVE FifoInv /\ Fifo!Init
    OBVIOUS
  <2>1. FifoInv /\ Holders("ticket") = {} /\ Cardinality(Tickets) = 0
    BY FifoInitLemma, FS_EmptySet
  <2>2. Line \in Seq(Threads) /\ Len(Line) = 0
    BY <2>1, LineLemma
  <2>3. Line = <<>>
    BY <2>2
  <2> QED
    BY <2>1, <2>3 DEF Fifo!Init, Line
<1>3. FifoInv /\ FifoInv' /\ [LockNext]_lockvars => [Fifo!Next]_<<Line, inside>>
  <2> SUFFICES ASSUME FifoInv, FifoInv', [LockNext]_lockvars
               PROVE  Fifo!Next \/ (Line' = Line /\ inside' = inside)
    OBVIOUS
  <2>1. CASE UNCHANGED lockvars
    <3>1. Tickets' = Tickets /\ me' = me /\ now_serving' = now_serving /\ inside' = inside
      BY <2>1 DEF lockvars, Tickets, Holders
    <3> QED
      BY <3>1, LineOtherLemma
  <2>2. ASSUME NEW t \in Threads, Step(t)
        PROVE  Fifo!Next \/ (Line' = Line /\ inside' = inside)
    <3>1. CASE LockAcquire(t) \/ LockRelease(t) \/ TicketLoad(t)
      BY <3>1, OtherLemma, LineOtherLemma
    <3>2. CASE TicketDraw(t)
      <4>1. Line' = Append(Line, t) /\ inside' = inside
        BY <3>2, DrawLemma, LineDrawLemma
      <4>2. \A i \in DOMAIN Line : Line[i] # t
        BY <3>2, DrawLemma, LineLemma
      <4>3. Fifo!Ask(t)
        BY <4>1, <4>2 DEF Fifo!Ask, Line
      <4> QED
        BY <4>3 DEF Fifo!Next
    <3>3. CASE TicketEnter(t)
      <4>1. /\ t \in Tickets /\ Tickets' = Tickets /\ me[t] = now_serving
            /\ inside = {} /\ inside' = {t}
        BY <3>3, EnterLemma
      <4>2. Line' = Line
        BY <3>3, <4>1, LineOtherLemma DEF TicketEnter
      <4>3. 1 \in 1..Cardinality(Tickets)
        BY <4>1, TicketsLemma, UserLockAssumption
      <4>4. NthTicket(1) = t
        <5>1. now_serving \in 0..W-1 /\ 1 \in 1..W
          BY UserLockAssumption DEF FifoInv, TasInv, TypeOK
        <5>2. Number(now_serving, 1) = now_serving
          BY <5>1, NumberLemma
        <5> QED
          BY <4>1, <4>3, <5>2, NthLemma
      <4>5. Line # <<>> /\ Head(Line) = t
        <5>1. Line \in Seq(Threads) /\ Len(Line) = Cardinality(Tickets)
          BY LineLemma
        <5>2. Line[1] = t
          BY <4>3, <4>4 DEF Line
        <5>3. Len(Line) # 0
          BY <4>3, <5>1, TicketsLemma, UserLockAssumption
        <5> QED
          BY <5>1, <5>2, <5>3
      <4>6. Fifo!Enter(t)
        BY <4>1, <4>2, <4>5 DEF Fifo!Enter, Line
      <4> QED
        BY <4>6 DEF Fifo!Next
    <3>4. CASE TicketStore(t)
      <4>1. Line' = Tail(Line) /\ inside = {t} /\ inside' = {}
        BY <3>4, LeaveLemma, LineLeaveLemma
      <4>2. Fifo!Leave(t)
        BY <4>1 DEF Fifo!Leave, Line
      <4> QED
        BY <4>2 DEF Fifo!Next
    <3> QED
      BY <2>2, <3>1, <3>2, <3>3, <3>4 DEF Step
  <2> QED
    BY <2>1, <2>2 DEF LockNext
<1>4. Line = [n \in 1..Cardinality(Tickets) |-> NthTicket(n)]
  BY DEF Line
<1> QED
  BY <1>1, <1>2, <1>3, PTL DEF LockSpec, ImplementsFifo, Fifo!Spec, Line

-----------------------------------------------------------------------------
(* Numbers: the least one of a set, induction for a set, rounding.         *)
LEMMA LowestIs ==
  ASSUME NEW u \in SUBSET Nat, u # {}
  PROVE  Lowest(u) \in u /\ \A y \in u : Lowest(u) <= y
<1> DEFINE R == {ss \in Nat \X Nat : ss[1] < ss[2]}
<1>1. IsWellFoundedOn(R, Nat)
  BY NatLessThanWellFounded, Zenon DEF OpToRel
<1>2. \A i, n \in Nat : i < n => <<i, n>> \in R
  OBVIOUS
<1> HIDE DEF R
<1>3. PICK x \in u : \A y \in u : ~(<<y, x>> \in R)
  BY <1>1, WFMin, Zenon
<1>4. ASSUME NEW y \in u PROVE x <= y
  <2>1. x \in Nat /\ y \in Nat /\ ~(y < x)
    BY <1>2, <1>3
  <2> QED
    BY <2>1
<1>5. \E z \in u : \A y \in u : z <= y
  BY <1>4
<1> QED
  BY <1>5 DEF Lowest

LEMMA Induction ==
  ASSUME NEW T \in SUBSET Nat, 0 \in T, \A n \in T : n + 1 \in T
  PROVE  T = Nat
<1> SUFFICES ASSUME Nat \ T # {} PROVE FALSE
  OBVIOUS
<1>1. PICK n \in Nat \ T : \A i \in Nat \ T : n <= i
  BY LowestIs
<1>2. n # 0 /\ n - 1 \in Nat
  BY <1>1
<1>3. n - 1 \in T
  BY <1>1, <1>2
<1> QED
  BY <1>1, <1>2, <1>3

LEMMA Multiples ==
  ASSUME NEW a \in Nat, NEW b \in Nat, NEW C \in Nat \ {0}
  PROVE  /\ a * C \in Nat
         /\ a < b => a * C + C <= b * C
         /\ a <= b => a * C <= b * C
<1>1. a * C \in Nat /\ b * C \in Nat
  OBVIOUS
<1>2. ASSUME a < b PROVE a * C + C <= b * C
  <2>1. PICK d \in Nat : b = a + 1 + d
    <3>1. b - a - 1 \in Nat /\ b = a + 1 + (b - a - 1)
      BY <1>2
    <3> QED
      BY <3>1
  <2>2. b * C = a * C + C + d * C /\ d * C \in Nat
    BY <2>1
  <2> QED
    BY <2>2, <1>1
<1>3. ASSUME a <= b PROVE a * C <= b * C
  <2>1. CASE a = b
    BY <1>1, <2>1
  <2>2. CASE a < b
    BY <1>1, <1>2, <2>2
  <2> QED
    BY <1>3, <2>1, <2>2
<1> QED
  BY <1>1, <1>2, <1>3

\* The quotient is the number of whole units.
LEMMA Quotient ==
  ASSUME NEW x \in Nat, NEW C \in Nat \ {0}
  PROVE  /\ x \div C \in Nat
         /\ \A n \in Nat : n * C \in Nat /\ (n * C <= x <=> n <= x \div C)
<1> DEFINE q == x \div C
<1>1. q \in Nat /\ x % C \in 0 .. C - 1
  OBVIOUS
<1>2. x = C * q + (x % C)
  OBVIOUS
<1>3. q * C = C * q /\ q * C \in Nat
  BY <1>1
<1> HIDE DEF q
<1>4. PICK e \in 0 .. C - 1 : x = q * C + e
  BY <1>1, <1>2, <1>3
<1>5. ASSUME NEW n \in Nat PROVE n * C \in Nat /\ (n * C <= x <=> n <= q)
  <2>1. n * C \in Nat /\ (n <= q => n * C <= q * C)
    BY <1>1, Multiples
  <2>2. q < n => q * C + C <= n * C
    BY <1>1, Multiples
  <2> QED
    BY <1>1, <1>3, <1>4, <2>1, <2>2
<1> QED
  BY <1>1, <1>5 DEF q

Vs == 0 .. NV - 1
Ts == 0 .. (NV - 1) \div NPT
Sizes == 0 .. KERNBASE
Below(x) == {v \in Vs : v * PGSIZE < x}

\* PGROUNDUP(): the pages below x.
LEMMA RoundUp ==
  ASSUME NEW x \in Nat
  PROVE  /\ PgRoundUp(x) \in Nat
         /\ \A v \in Nat : v * PGSIZE < x <=> v < PgRoundUp(x)
<1> DEFINE y == x + PGSIZE - 1
           q == PgRoundUp(x)
<1>1. PGSIZE \in Nat \ {0} /\ y \in Nat
  BY VmAssumption
<1>2. q = y \div PGSIZE
  BY DEF PgRoundUp
<1> HIDE DEF q
<1>3. q \in Nat /\ \A n \in Nat : n * PGSIZE \in Nat /\ (n * PGSIZE <= y <=> n <= q)
  BY <1>1, <1>2, Quotient
<1>4. ASSUME NEW v \in Nat PROVE v * PGSIZE < x <=> v < q
  <2>1. (v + 1) * PGSIZE = v * PGSIZE + PGSIZE /\ v * PGSIZE \in Nat
    BY <1>1, <1>3
  <2>2. (v + 1) * PGSIZE <= y <=> v + 1 <= q
    BY <1>3
  <2> QED
    BY <1>1, <1>3, <2>1, <2>2
<1> QED
  BY <1>3, <1>4 DEF q

LEMMA KernbaseIs == KERNBASE \in Nat \ {0} /\ NV \in Nat \ {0} /\ PGSIZE \in Nat \ {0}
<1>1. NV \in Nat \ {0} /\ PGSIZE \in Nat \ {0}
  BY VmAssumption
<1>2. 0 * PGSIZE + PGSIZE <= NV * PGSIZE /\ NV * PGSIZE \in Nat
  BY <1>1, Multiples
<1> QED
  BY <1>1, <1>2 DEF KERNBASE

LEMMA BelowIs ==
  ASSUME NEW x \in Sizes
  PROVE  /\ PgRoundUp(x) \in 0 .. NV
         /\ Below(x) = 0 .. PgRoundUp(x) - 1
<1>1. x \in Nat /\ NV \in Nat \ {0} /\ x <= NV * PGSIZE /\ NV * PGSIZE \in Nat
  BY KernbaseIs DEF Sizes, KERNBASE
<1>2. /\ PgRoundUp(x) \in Nat
      /\ \A v \in Nat : v * PGSIZE < x <=> v < PgRoundUp(x)
  BY <1>1, RoundUp
<1>3. ~(NV < PgRoundUp(x))
  BY <1>1, <1>2
<1> QED
  BY <1>1, <1>2, <1>3 DEF Below, Vs

LEMMA TableOf ==
  ASSUME NEW v \in Vs
  PROVE  v \div NPT \in Ts
<1>1. NPT \in Nat \ {0} /\ NV \in Nat \ {0} /\ v \in Nat /\ NV - 1 \in Nat /\ v <= NV - 1
  BY VmAssumption DEF Vs
<1> DEFINE q == v \div NPT
           w == (NV - 1) \div NPT
<1>2. q \in Nat /\ \A n \in Nat : n * NPT \in Nat /\ (n * NPT <= v <=> n <= q)
  BY <1>1, Quotient
<1>3. w \in Nat /\ \A n \in Nat : n * NPT <= NV - 1 <=> n <= w
  BY <1>1, Quotient
<1> HIDE DEF q, w
<1>4. q * NPT <= v /\ q * NPT \in Nat
  BY <1>2
<1>5. q * NPT <= NV - 1
  BY <1>1, <1>4
<1>6. q <= w
  BY <1>2, <1>3, <1>5
<1> QED
  BY <1>2, <1>3, <1>6 DEF Ts, q, w

LEMMA UnsignedIs ==
  ASSUME NEW x \in Int
  PROVE  Unsigned(x) \in Nat
<1>1. 2 * KERNBASE \in Nat \ {0}
  BY KernbaseIs
<1> QED
  BY <1>1 DEF Unsigned

-----------------------------------------------------------------------------
(* The loops of allocuvm(), copyuvm() and exec(), which are folds.  c says *)
(* which loop it is, Round is one round of it.                             *)
Round(c, x, i) ==
  IF c.loop = "alloc" THEN NewPage(c.g, x, c.items[i])
  ELSE IF c.loop = "copy" THEN CopyPage(c.pte, c.g, x, c.items[i])
  ELSE LoadSegment(c.g, x, c.items[i])

IsFold(f, c, n, base) ==
  f = [u \in SUBSET (1 .. n) |-> IF u = {} THEN base ELSE Round(c, f[u \ {Max(u)}], Max(u))]
HasFold(n, c, base) == \E f : IsFold(f, c, n, base)

LEMMA MaxTop ==
  ASSUME NEW n \in Nat, NEW s \in SUBSET (1 .. n + 1), n + 1 \in s
  PROVE  Max(s) = n + 1
<1>1. \A x \in s : (\A y \in s : x >= y) => x = n + 1
  OBVIOUS
<1>2. \A y \in s : n + 1 >= y
  OBVIOUS
<1> QED
  BY <1>1, <1>2, Zenon DEF Max

LEMMA MaxIn ==
  ASSUME NEW n \in Nat, NEW u \in SUBSET (1 .. n), u # {}
  PROVE  Max(u) \in u
<1> DEFINE T == {j \in Nat : \A v \in SUBSET (1 .. j) : v # {} => Max(v) \in v}
<1>1. 0 \in T
  <2>1. \A i \in 1 .. 0 : FALSE
    OBVIOUS
  <2>2. \A v \in SUBSET (1 .. 0) : v = {}
    BY <2>1
  <2> QED
    BY <2>2
<1>2. ASSUME NEW j \in T PROVE j + 1 \in T
  <2>1. j \in Nat
    OBVIOUS
  <2>2. ASSUME NEW v \in SUBSET (1 .. j + 1), v # {} PROVE Max(v) \in v
    <3>1. CASE j + 1 \in v
      BY <2>1, <3>1, MaxTop
    <3>2. CASE j + 1 \notin v
      <4>1. v \in SUBSET (1 .. j)
        BY <2>1, <3>2
      <4> QED
        BY <2>2, <4>1
    <3> QED
      BY <3>1, <3>2
  <2> QED
    BY <2>1, <2>2
<1>3. T \in SUBSET Nat
  OBVIOUS
<1> HIDE DEF T
<1>4. n \in T
  BY <1>1, <1>2, <1>3, Induction
<1> QED
  BY <1>4 DEF T

LEMMA RoundsNext ==
  ASSUME NEW j \in Nat, NEW c, NEW base, HasFold(j, c, base)
  PROVE  HasFold(j + 1, c, base)
<1>1. PICK g : IsFold(g, c, j, base)
  BY DEF HasFold
<1>2. g = [u \in SUBSET (1 .. j) |-> IF u = {} THEN base ELSE Round(c, g[u \ {Max(u)}], Max(u))]
  BY <1>1 DEF IsFold
<1> DEFINE f == [u \in SUBSET (1 .. j + 1) |-> IF j + 1 \in u THEN Round(c, g[u \ {j + 1}], j + 1) ELSE g[u]]
<1>3. \A u \in SUBSET (1 .. j + 1) : /\ u \ {j + 1} \in SUBSET (1 .. j)
                                     /\ j + 1 \notin u => u \in SUBSET (1 .. j)
  OBVIOUS
<1>4. \A u \in SUBSET (1 .. j) : u \in SUBSET (1 .. j + 1) /\ j + 1 \notin u /\ f[u] = g[u]
  <2>1. \A u \in SUBSET (1 .. j) : u \in SUBSET (1 .. j + 1) /\ j + 1 \notin u
    OBVIOUS
  <2> QED
    BY <2>1
<1>5. \A u \in SUBSET (1 .. j + 1) : j + 1 \in u => f[u] = Round(c, g[u \ {j + 1}], j + 1)
  OBVIOUS
<1>6. f = [u \in SUBSET (1 .. j + 1) |-> f[u]]
  OBVIOUS
<1> HIDE DEF f
<1>7. ASSUME NEW u \in SUBSET (1 .. j + 1)
      PROVE  f[u] = IF u = {} THEN base ELSE Round(c, f[u \ {Max(u)}], Max(u))
  <2>1. CASE j + 1 \in u
    <3>1. Max(u) = j + 1 /\ u # {}
      BY <2>1, MaxTop
    <3>2. f[u \ {j + 1}] = g[u \ {j + 1}]
      BY <1>3, <1>4
    <3> QED
      BY <1>5, <2>1, <3>1, <3>2
  <2>2. CASE j + 1 \notin u
    <3>1. u \in SUBSET (1 .. j)
      BY <1>3, <2>2
    <3>2. f[u] = g[u] /\ f[u \ {Max(u)}] = g[u \ {Max(u)}]
      BY <1>4, <3>1
    <3>3. g[u] = IF u = {} THEN base ELSE Round(c, g[u \ {Max(u)}], Max(u))
      BY <1>2, <3>1
    <3> QED
      BY <3>2, <3>3
  <2> QED
    BY <2>1, <2>2
<1>8. f = [u \in SUBSET (1 .. j + 1) |-> IF u = {} THEN base ELSE Round(c, f[u \ {Max(u)}], Max(u))]
  BY <1>6, <1>7
<1>9. IsFold(f, c, j + 1, base)
  BY <1>8 DEF IsFold
<1> QED
  BY <1>9 DEF HasFold

LEMMA RoundsExist ==
  ASSUME NEW n \in Nat, NEW c, NEW base
  PROVE  HasFold(n, c, base)
<1> DEFINE T == {j \in Nat : HasFold(j, c, base)}
<1>1. 0 \in T
  <2> DEFINE f == [u \in SUBSET (1 .. 0) |-> base]
  <2>1. \A i \in 1 .. 0 : FALSE
    OBVIOUS
  <2>2. \A u \in SUBSET (1 .. 0) : u = {}
    BY <2>1
  <2>3. f = [u \in SUBSET (1 .. 0) |-> IF u = {} THEN base ELSE Round(c, f[u \ {Max(u)}], Max(u))]
    BY <2>2
  <2> HIDE DEF f
  <2>4. IsFold(f, c, 0, base)
    BY <2>3 DEF IsFold
  <2> QED
    BY <2>4 DEF HasFold
<1>2. ASSUME NEW j \in T PROVE j + 1 \in T
  BY RoundsNext
<1>3. T \in SUBSET Nat
  OBVIOUS
<1> HIDE DEF T
<1>4. n \in T
  BY <1>1, <1>2, <1>3, Induction
<1> QED
  BY <1>4 DEF T

LEMMA Segments ==
  ASSUME NEW n \in Nat, NEW j \in Nat, j + 1 <= n
  PROVE  1 .. j + 1 \in SUBSET (1 .. n) /\ 1 .. j + 1 # {} /\ (1 .. j + 1) \ {j + 1} = 1 .. j
<1>1. \A i \in Int : i \in 1 .. j <=> i \in 1 .. j + 1 /\ i # j + 1
  OBVIOUS
<1>2. \A i \in 1 .. j : i \in Int
  OBVIOUS
<1>3. \A i \in 1 .. j + 1 : i \in Int /\ i \in 1 .. n
  OBVIOUS
<1>4. (1 .. j + 1) \ {j + 1} = 1 .. j
  BY <1>1, <1>2, <1>3, Zenon
<1>5. 1 \in 1 .. j + 1
  OBVIOUS
<1> QED
  BY <1>3, <1>4, <1>5, Zenon

\* What holds at first and after each round holds at the end.
LEMMA RoundsIn ==
  ASSUME NEW n \in Nat, NEW c, NEW base, NEW h, h = CHOOSE f : IsFold(f, c, n, base),
         NEW A, <<0, base>> \in A, \A x \in A : x[1] \in 0 .. n - 1 => <<x[1] + 1, Round(c, x[2], x[1] + 1)>> \in A
  PROVE  <<n, h[1 .. n]>> \in A
<1>1. IsFold(h, c, n, base)
  BY RoundsExist DEF HasFold
<1>2. h = [u \in SUBSET (1 .. n) |-> IF u = {} THEN base ELSE Round(c, h[u \ {Max(u)}], Max(u))]
  BY <1>1 DEF IsFold
<1> DEFINE T == {j \in Nat : j <= n => <<j, h[1 .. j]>> \in A}
<1>3. 0 \in T
  <2>1. 1 .. 0 = {} /\ 1 .. 0 \in SUBSET (1 .. n)
    OBVIOUS
  <2> QED
    BY <1>2, <2>1
<1>4. ASSUME NEW j \in T PROVE j + 1 \in T
  <2> SUFFICES ASSUME j + 1 <= n PROVE <<j + 1, h[1 .. j + 1]>> \in A
    OBVIOUS
  <2>1. j \in Nat /\ <<j, h[1 .. j]>> \in A /\ j \in 0 .. n - 1
    OBVIOUS
  <2>2. 1 .. j + 1 \in SUBSET (1 .. j + 1) /\ j + 1 \in 1 .. j + 1
    BY <2>1
  <2>3. Max(1 .. j + 1) = j + 1
    BY <2>1, <2>2, MaxTop
  <2>4. 1 .. j + 1 \in SUBSET (1 .. n) /\ 1 .. j + 1 # {} /\ (1 .. j + 1) \ {j + 1} = 1 .. j
    BY <2>1, Segments
  <2>5. h[1 .. j + 1] = Round(c, h[1 .. j], j + 1)
    BY <1>2, <2>3, <2>4
  <2>6. <<j + 1, Round(c, h[1 .. j], j + 1)>> \in A
    BY <2>1
  <2> QED
    BY <2>5, <2>6
<1>5. T \in SUBSET Nat
  OBVIOUS
<1> HIDE DEF T
<1>6. n \in T
  BY <1>3, <1>4, <1>5, Induction
<1> QED
  BY <1>6 DEF T

\* allocuvm()
AllocAll(g, base, s) == FoldLeft(LAMBDA x, v : NewPage(g, x, v), base, s)

LEMMA AllocRounds ==
  ASSUME NEW n \in Nat, NEW s, DOMAIN s = 1 .. n, NEW g, NEW base,
         NEW A, <<0, base>> \in A, \A x \in A : x[1] \in 0 .. n - 1 => <<x[1] + 1, NewPage(g, x[2], s[x[1] + 1])>> \in A
  PROVE  <<n, AllocAll(g, base, s)>> \in A
<1> DEFINE c == [loop |-> "alloc", g |-> g, items |-> s]
           h == CHOOSE f : IsFold(f, c, n, base)
           F(f) == f = [u \in SUBSET DOMAIN s |-> IF u = {} THEN base ELSE NewPage(g, f[u \ {Max(u)}], s[Max(u)])]
<1>1. AllocAll(g, base, s) = (CHOOSE f : F(f))[DOMAIN s]
  BY Zenon DEF AllocAll, FoldLeft, MapThenFoldSet
<1>2. \A x, i : Round(c, x, i) = NewPage(g, x, s[i])
  BY DEF Round
<1> HIDE DEF c
<1>3. ASSUME NEW f PROVE F(f) <=> IsFold(f, c, n, base)
  <2>1. \A u : Round(c, f[u \ {Max(u)}], Max(u)) = NewPage(g, f[u \ {Max(u)}], s[Max(u)])
    BY <1>2
  <2> QED
    BY <2>1, Zenon DEF IsFold
<1>4. (CHOOSE f : F(f)) = h
  BY <1>3
<1>5. ASSUME NEW x \in A, x[1] \in 0 .. n - 1 PROVE <<x[1] + 1, Round(c, x[2], x[1] + 1)>> \in A
  <2>1. Round(c, x[2], x[1] + 1) = NewPage(g, x[2], s[x[1] + 1])
    BY <1>2
  <2> QED
    BY <1>5, <2>1
<1>6. h = CHOOSE f : IsFold(f, c, n, base)
  OBVIOUS
<1> HIDE DEF h
<1>7. <<n, h[1 .. n]>> \in A
  BY <1>5, <1>6, RoundsIn, Zenon
<1> QED
  BY <1>1, <1>4, <1>7

\* copyuvm()
CopyAll(pte, g, base, s) == FoldLeft(LAMBDA x, v : CopyPage(pte, g, x, v), base, s)

LEMMA CopyRounds ==
  ASSUME NEW n \in Nat, NEW s, DOMAIN s = 1 .. n, NEW pte, NEW g, NEW base,
         NEW A, <<0, base>> \in A, \A x \in A : x[1] \in 0 .. n - 1 => <<x[1] + 1, CopyPage(pte, g, x[2], s[x[1] + 1])>> \in A
  PROVE  <<n, CopyAll(pte, g, base, s)>> \in A
<1> DEFINE c == [loop |-> "copy", g |-> g, items |-> s, pte |-> pte]
           h == CHOOSE f : IsFold(f, c, n, base)
           F(f) == f = [u \in SUBSET DOMAIN s |-> IF u = {} THEN base ELSE CopyPage(pte, g, f[u \ {Max(u)}], s[Max(u)])]
<1>1. CopyAll(pte, g, base, s) = (CHOOSE f : F(f))[DOMAIN s]
  BY Zenon DEF CopyAll, FoldLeft, MapThenFoldSet
<1>2. \A x, i : Round(c, x, i) = CopyPage(pte, g, x, s[i])
  BY DEF Round
<1> HIDE DEF c
<1>3. ASSUME NEW f PROVE F(f) <=> IsFold(f, c, n, base)
  <2>1. \A u : Round(c, f[u \ {Max(u)}], Max(u)) = CopyPage(pte, g, f[u \ {Max(u)}], s[Max(u)])
    BY <1>2
  <2> QED
    BY <2>1, Zenon DEF IsFold
<1>4. (CHOOSE f : F(f)) = h
  BY <1>3
<1>5. ASSUME NEW x \in A, x[1] \in 0 .. n - 1 PROVE <<x[1] + 1, Round(c, x[2], x[1] + 1)>> \in A
  <2>1. Round(c, x[2], x[1] + 1) = CopyPage(pte, g, x[2], s[x[1] + 1])
    BY <1>2
  <2> QED
    BY <1>5, <2>1
<1>6. h = CHOOSE f : IsFold(f, c, n, base)
  OBVIOUS
<1> HIDE DEF h
<1>7. <<n, h[1 .. n]>> \in A
  BY <1>5, <1>6, RoundsIn, Zenon
<1> QED
  BY <1>1, <1>4, <1>7

\* exec()
LoadAll(g, base, s) == FoldLeft(LAMBDA r, seg : LoadSegment(g, r, seg), base, s)

LEMMA LoadRounds ==
  ASSUME NEW n \in Nat, NEW s, DOMAIN s = 1 .. n, NEW g, NEW base,
         NEW A, <<0, base>> \in A, \A x \in A : x[1] \in 0 .. n - 1 => <<x[1] + 1, LoadSegment(g, x[2], s[x[1] + 1])>> \in A
  PROVE  <<n, LoadAll(g, base, s)>> \in A
<1> DEFINE c == [loop |-> "load", g |-> g, items |-> s]
           h == CHOOSE f : IsFold(f, c, n, base)
           F(f) == f = [u \in SUBSET DOMAIN s |-> IF u = {} THEN base ELSE LoadSegment(g, f[u \ {Max(u)}], s[Max(u)])]
<1>1. LoadAll(g, base, s) = (CHOOSE f : F(f))[DOMAIN s]
  BY Zenon DEF LoadAll, FoldLeft, MapThenFoldSet
<1>2. \A x, i : Round(c, x, i) = LoadSegment(g, x, s[i])
  BY DEF Round
<1> HIDE DEF c
<1>3. ASSUME NEW f PROVE F(f) <=> IsFold(f, c, n, base)
  <2>1. \A u : Round(c, f[u \ {Max(u)}], Max(u)) = LoadSegment(g, f[u \ {Max(u)}], s[Max(u)])
    BY <1>2
  <2> QED
    BY <2>1, Zenon DEF IsFold
<1>4. (CHOOSE f : F(f)) = h
  BY <1>3
<1>5. ASSUME NEW x \in A, x[1] \in 0 .. n - 1 PROVE <<x[1] + 1, Round(c, x[2], x[1] + 1)>> \in A
  <2>1. Round(c, x[2], x[1] + 1) = LoadSegment(g, x[2], s[x[1] + 1])
    BY <1>2
  <2> QED
    BY <1>5, <2>1
<1>6. h = CHOOSE f : IsFold(f, c, n, base)
  OBVIOUS
<1> HIDE DEF h
<1>7. <<n, h[1 .. n]>> \in A
  BY <1>5, <1>6, RoundsIn, Zenon
<1> QED
  BY <1>1, <1>4, <1>7

-----------------------------------------------------------------------------
(* Memory.  A page is a table (the directory included) of an address space *)
(* a with directory g, or a user page of it.  MemOk: every page is free,   *)
(* or in the hands of the running call (X), or in one place of one of the  *)
(* address spaces of G.                                                    *)
AsRecs == [ktab : 0 .. NPAGES, tabs : [Ts -> 0 .. NPAGES], pte : [Vs -> 0 .. NPAGES]]
Mems == [free : SUBSET Pages, as : [Pages -> AsRecs \cup {NULL}], panic : BOOLEAN]

TabIn(a, g, b) == b = g \/ b = a.ktab \/ \E t \in Ts : a.tabs[t] = b
UsrIn(a, b) == \E v \in Vs : a.pte[v] = b
In(a, g, b) == TabIn(a, g, b) \/ UsrIn(a, b)

SpaceOk(a, g) ==
  /\ a \in AsRecs
  /\ \A v, w \in Vs : a.pte[v] = a.pte[w] /\ a.pte[v] # 0 => v = w
  /\ \A b \in Pages : ~(TabIn(a, g, b) /\ UsrIn(a, b))

MemOk(mem, G, X) ==
  /\ mem \in Mems /\ ~mem.panic /\ G \in SUBSET Pages /\ X \in SUBSET Pages
  /\ \A g \in G : SpaceOk(mem.as[g], g)
  /\ \A g, h \in G : \A b \in Pages : In(mem.as[g], g, b) /\ In(mem.as[h], h, b) => g = h
  /\ \A b \in Pages : b \in mem.free <=> b \notin X /\ \A g \in G : ~In(mem.as[g], g, b)
  /\ \A b \in X : \A g \in G : ~In(mem.as[g], g, b)

Has(a) == {v \in Vs : a.pte[v] # 0}
Same(mem, mem2, G) == \A h \in G : mem2.as[h] = mem.as[h]
\* What a call may give to g: what is free, in its hands, or g's already.
Mine(mem, G, X, g, b) == b \in mem.free \/ b \in X \/ (g \in G /\ In(mem.as[g], g, b))

\* A call gives g the contents a, and shares out what it may.
Becomes(mem, mem2, g, a, free) ==
  /\ mem2 \in Mems /\ ~mem2.panic /\ mem2.free = free
  /\ mem2.as = [mem.as EXCEPT ![g] = a]

Shares(mem, G, X, g, a, free, Y) ==
  /\ free \in SUBSET Pages /\ Y \in SUBSET Pages
  /\ \A b \in Pages : Mine(mem, G, X, g, b) <=> b \in free \/ b \in Y \/ In(a, g, b)
  /\ \A b \in Y : b \notin free /\ ~In(a, g, b)
  /\ \A b \in free : ~In(a, g, b)

LEMMA Repartition ==
  ASSUME NEW mem, NEW G, NEW X, MemOk(mem, G, X), NEW g \in Pages, Mine(mem, G, X, g, g),
         NEW a, SpaceOk(a, g), NEW free, NEW Y, Shares(mem, G, X, g, a, free, Y),
         NEW mem2, Becomes(mem, mem2, g, a, free)
  PROVE  MemOk(mem2, G \cup {g}, Y) /\ Same(mem, mem2, G \ {g})
<1> USE DEF Becomes, Shares
<1> DEFINE H == G \cup {g}
<1>1. mem \in Mems /\ G \in SUBSET Pages /\ X \in SUBSET Pages /\ H \in SUBSET Pages
  BY DEF MemOk
<1>2. mem2.as[g] = a /\ \A h \in G \ {g} : h \in Pages /\ mem2.as[h] = mem.as[h]
  BY <1>1 DEF Mems
<1>3. \A h \in H : SpaceOk(mem2.as[h], h)
  BY <1>2 DEF MemOk
<1>4. ASSUME NEW h \in G \ {g}, NEW b \in Pages, In(mem.as[h], h, b) PROVE ~In(a, g, b) /\ b \notin free /\ b \notin Y
  <2>1. ~Mine(mem, G, X, g, b)
    BY <1>4 DEF Mine, MemOk
  <2> QED
    BY <2>1
<1>5. \A h, i \in H : \A b \in Pages : In(mem2.as[h], h, b) /\ In(mem2.as[i], i, b) => h = i
  <2> SUFFICES ASSUME NEW h \in H, NEW i \in H, NEW b \in Pages, In(mem2.as[h], h, b), In(mem2.as[i], i, b), h # i
               PROVE  FALSE
    OBVIOUS
  <2>1. CASE h = g
    BY <1>2, <1>4, <2>1
  <2>2. CASE i = g
    BY <1>2, <1>4, <2>2
  <2>3. CASE h # g /\ i # g
    <3>1. h \in G /\ i \in G /\ In(mem.as[h], h, b) /\ In(mem.as[i], i, b)
      BY <1>2, <2>3
    <3> QED
      BY <3>1 DEF MemOk
  <2> QED
    BY <2>1, <2>2, <2>3
<1>6. ASSUME NEW b \in Pages PROVE b \in free <=> b \notin Y /\ \A h \in H : ~In(mem2.as[h], h, b)
  <2>1. ASSUME b \in free PROVE b \notin Y /\ \A h \in H : ~In(mem2.as[h], h, b)
    BY <1>2, <1>4, <2>1
  <2>2. ASSUME b \notin Y, \A h \in H : ~In(mem2.as[h], h, b) PROVE b \in free
    <3>1. ~In(a, g, b)
      BY <1>2, <2>2
    <3>2. \A h \in G \ {g} : ~In(mem.as[h], h, b)
      BY <1>2, <2>2
    <3>3. Mine(mem, G, X, g, b)
      BY <3>2 DEF Mine, MemOk
    <3> QED
      BY <2>2, <3>1, <3>3
  <2> QED
    BY <2>1, <2>2
<1>7. \A b \in Y : \A h \in H : ~In(mem2.as[h], h, b)
  BY <1>2, <1>4
<1>8. MemOk(mem2, H, Y)
  BY <1>1, <1>3, <1>5, <1>6, <1>7 DEF MemOk
<1> QED
  BY <1>2, <1>8 DEF Same

LEMMA Reshare ==
  ASSUME NEW mem, NEW G, NEW X, MemOk(mem, G, X), NEW g \in G,
         NEW a, SpaceOk(a, g), NEW free, NEW Y, Shares(mem, G, X, g, a, free, Y),
         NEW mem2, Becomes(mem, mem2, g, a, free)
  PROVE  MemOk(mem2, G, Y) /\ Same(mem, mem2, G \ {g}) /\ mem2.as[g] = a
<1>1. g \in Pages /\ Mine(mem, G, X, g, g) /\ G \cup {g} = G
  BY DEF MemOk, Mine, In, TabIn
<1>2. MemOk(mem2, G \cup {g}, Y) /\ Same(mem, mem2, G \ {g})
  BY <1>1, Repartition
<1>3. mem2.as[g] = a
  BY <1>1 DEF Becomes, MemOk, Mems
<1> QED
  BY <1>1, <1>2, <1>3, Zenon

\* A call gives up g.
LEMMA Giveup ==
  ASSUME NEW mem, NEW G, NEW X, MemOk(mem, G, X), NEW g \in G, NEW free \in SUBSET Pages,
         \A b \in Pages : b \in free <=> b \in mem.free \/ In(mem.as[g], g, b),
         NEW mem2, NEW a, Becomes(mem, mem2, g, a, free)
  PROVE  MemOk(mem2, G \ {g}, X) /\ Same(mem, mem2, G \ {g})
<1> USE DEF Becomes
<1> DEFINE H == G \ {g}
<1>1. mem \in Mems /\ G \in SUBSET Pages /\ X \in SUBSET Pages /\ H \in SUBSET Pages
  BY DEF MemOk
<1>2. \A h \in H : h \in G /\ h # g /\ h \in Pages /\ mem2.as[h] = mem.as[h]
  BY <1>1 DEF Mems
<1>3. \A h \in H : SpaceOk(mem2.as[h], h)
  BY <1>2 DEF MemOk
<1>4. \A h, i \in H : \A b \in Pages : In(mem2.as[h], h, b) /\ In(mem2.as[i], i, b) => h = i
  BY <1>2 DEF MemOk
<1>5. ASSUME NEW b \in Pages PROVE b \in free <=> b \notin X /\ \A h \in H : ~In(mem2.as[h], h, b)
  <2>1. b \in free <=> b \in mem.free \/ In(mem.as[g], g, b)
    OBVIOUS
  <2>2. In(mem.as[g], g, b) => b \notin X /\ \A h \in H : ~In(mem.as[h], h, b)
    BY <1>2 DEF MemOk
  <2>3. b \in mem.free <=> b \notin X /\ \A h \in G : ~In(mem.as[h], h, b)
    BY DEF MemOk
  <2>4. (\A h \in G : ~In(mem.as[h], h, b)) <=> ~In(mem.as[g], g, b) /\ \A h \in H : ~In(mem.as[h], h, b)
    BY <1>2
  <2>5. (\A h \in H : ~In(mem2.as[h], h, b)) <=> \A h \in H : ~In(mem.as[h], h, b)
    BY <1>2
  <2> QED
    BY <2>1, <2>2, <2>3, <2>4, <2>5
<1>6. \A b \in X : \A h \in H : ~In(mem2.as[h], h, b)
  BY <1>2 DEF MemOk
<1>7. MemOk(mem2, H, X)
  BY <1>1, <1>3, <1>4, <1>5, <1>6 DEF MemOk
<1> QED
  BY <1>2, <1>7 DEF Same

\* kalloc().
LEMMA KallocOk ==
  ASSUME NEW mem, NEW G, NEW X, MemOk(mem, G, X), mem.free # {}
  PROVE  /\ First(mem) \in mem.free /\ First(mem) \in Pages
         /\ Kalloc(mem) \in Mems /\ Kalloc(mem).free = mem.free \ {First(mem)}
         /\ Kalloc(mem).as = mem.as /\ ~Kalloc(mem).panic
         /\ MemOk(Kalloc(mem), G, X \cup {First(mem)})
<1>1. mem \in Mems /\ mem.free \in SUBSET Pages /\ Pages \in SUBSET Nat /\ ~mem.panic
  BY VmAssumption DEF MemOk, Mems, Pages
<1>2. First(mem) \in mem.free
  BY <1>1, LowestIs DEF First
<1>3. /\ Kalloc(mem) \in Mems /\ Kalloc(mem).free = mem.free \ {First(mem)}
      /\ Kalloc(mem).as = mem.as /\ ~Kalloc(mem).panic
  BY <1>1 DEF Kalloc, Mems
<1>4. First(mem) \in Pages
  BY <1>1, <1>2
<1> DEFINE f == First(mem)
           k == Kalloc(mem)
<1> HIDE DEF f, k
<1>5. MemOk(k, G, X \cup {f})
  BY <1>1, <1>2, <1>3, <1>4 DEF MemOk, f, k
<1> QED
  BY <1>2, <1>3, <1>4, <1>5 DEF f, k

LEMMA SpaceAt ==
  ASSUME NEW mem, NEW G, NEW X, MemOk(mem, G, X), NEW g \in G
  PROVE  /\ mem \in Mems /\ ~mem.panic /\ g \in Pages /\ SpaceOk(mem.as[g], g)
         /\ mem.as[g] \in AsRecs /\ mem.as[g].ktab \in 0 .. NPAGES
         /\ mem.as[g].tabs \in [Ts -> 0 .. NPAGES] /\ mem.as[g].pte \in [Vs -> 0 .. NPAGES]
         /\ In(mem.as[g], g, g) /\ Mine(mem, G, X, g, g)
         /\ G \cup {g} = G
         /\ \A b \in Pages : b \in 0 .. NPAGES /\ b # 0
BY VmAssumption DEF MemOk, SpaceOk, AsRecs, In, TabIn, Mine, Pages

\* Writing an entry of the directory, and one of a page table.
TabOf(a, t, b) == [a EXCEPT !.tabs[t] = b]
PteOf(a, v, b) == [a EXCEPT !.pte[v] = b]
TabSet(mem, mem2, g, t, b) == mem2 = [mem EXCEPT !.as[g].tabs[t] = b]
PteSet(mem, mem2, g, v, b, e) == mem2 = [mem EXCEPT !.as[g].pte[v] = b, !.panic = @ \/ e # 0]

LEMMA SetTab ==
  ASSUME NEW mem \in Mems, NEW g \in Pages, mem.as[g] \in AsRecs, NEW t \in Ts, NEW b \in 0 .. NPAGES,
         NEW mem2, TabSet(mem, mem2, g, t, b)
  PROVE  /\ mem2 \in Mems /\ mem2.free = mem.free /\ mem2.panic = mem.panic
         /\ mem2.as = [mem.as EXCEPT ![g] = TabOf(mem.as[g], t, b)]
         /\ mem2.as[g] = TabOf(mem.as[g], t, b) /\ mem2.as[g] \in AsRecs
<1> DEFINE a == TabOf(mem.as[g], t, b)
<1>1. a \in AsRecs
  BY DEF AsRecs, TabOf
<1>2. mem2 = [mem EXCEPT !.as = [mem.as EXCEPT ![g] = a]]
  BY DEF Mems, TabSet, TabOf
<1> HIDE DEF a
<1>3. /\ mem2 \in Mems /\ mem2.free = mem.free /\ mem2.panic = mem.panic
      /\ mem2.as = [mem.as EXCEPT ![g] = a] /\ mem2.as[g] = a
  BY <1>1, <1>2 DEF Mems
<1> QED
  BY <1>1, <1>3 DEF a

LEMMA SetPte ==
  ASSUME NEW mem \in Mems, ~mem.panic, NEW g \in Pages, mem.as[g] \in AsRecs, NEW v \in Vs, NEW b \in 0 .. NPAGES,
         NEW e, e = 0, NEW mem2, PteSet(mem, mem2, g, v, b, e)
  PROVE  /\ mem2 \in Mems /\ mem2.free = mem.free /\ ~mem2.panic
         /\ mem2.as = [mem.as EXCEPT ![g] = PteOf(mem.as[g], v, b)]
<1> DEFINE a == PteOf(mem.as[g], v, b)
<1>1. a \in AsRecs
  BY DEF AsRecs, PteOf
<1>2. mem2 = [free |-> mem.free, as |-> [mem.as EXCEPT ![g] = a], panic |-> FALSE]
  BY DEF Mems, PteSet, PteOf
<1> HIDE DEF a
<1>3. mem2.free = mem.free /\ ~mem2.panic /\ mem2.as = [mem.as EXCEPT ![g] = a]
  BY <1>2
<1>4. [mem.as EXCEPT ![g] = a] \in [Pages -> AsRecs \cup {NULL}] /\ mem.free \in SUBSET Pages
  BY <1>1 DEF Mems
<1>5. mem2 \in Mems
  BY <1>2, <1>4 DEF Mems
<1> QED
  BY <1>3, <1>5 DEF a

\* mappages() and walkpgdir(), given the page in its hands.
MapsPage(mem, G, g, v, s) ==
  /\ s.ok \in BOOLEAN /\ (~s.ok => s.m = mem)
  /\ s.ok => /\ MemOk(s.m, G, {}) /\ Same(mem, s.m, G \ {g})
             /\ Has(s.m.as[g]) = Has(mem.as[g]) \cup {v}

LEMMA MappageOk ==
  ASSUME NEW mem, NEW G, NEW page \in Pages, MemOk(mem, G, {page}), NEW g \in G, NEW v \in Vs,
         v \notin Has(mem.as[g]), NEW s, s = Mappage(mem, g, v, page)
  PROVE  MapsPage(mem, G, g, v, s)
<1> USE DEF MapsPage
<1> DEFINE o == mem.as[g]
           t == v \div NPT
<1>1. /\ mem \in Mems /\ ~mem.panic /\ g \in Pages /\ SpaceOk(o, g)
      /\ o \in AsRecs /\ o.tabs \in [Ts -> 0 .. NPAGES] /\ o.pte \in [Vs -> 0 .. NPAGES] /\ o.ktab \in 0 .. NPAGES
      /\ Mine(mem, G, {page}, g, g) /\ G \cup {g} = G
  BY SpaceAt
<1>2. t \in Ts
  BY TableOf
<1>3. o.pte[v] = 0 /\ page \in 0 .. NPAGES /\ page # 0
  BY SpaceAt DEF Has
<1>4. page \notin mem.free /\ ~In(o, g, page)
  BY DEF MemOk
<1>5. \A b \in Pages : b # 0 /\ b \in 0 .. NPAGES
  BY SpaceAt
<1>6. \A b \in mem.free : b \in Pages /\ ~In(o, g, b)
  BY DEF MemOk, Mems
<1>7. \A b \in Pages : In(o, g, b) => b \notin mem.free /\ b # page
  BY <1>4, <1>6
<1>8. CASE o.tabs[t] # 0
  <2> DEFINE a == PteOf(o, v, page)
             mem2 == [mem EXCEPT !.as[g].pte[v] = page, !.panic = @ \/ mem.as[g].pte[v] # 0]
  <2>1. s = Ok(mem2)
    BY <1>8 DEF Mappage
  <2>2. /\ a \in AsRecs /\ a.ktab = o.ktab /\ a.tabs = o.tabs
        /\ a.pte = [o.pte EXCEPT ![v] = page]
    BY <1>1, <1>3 DEF AsRecs, PteOf
  <2>3. Becomes(mem, mem2, g, a, mem.free)
    <3>1. /\ mem2 \in Mems /\ mem2.free = mem.free /\ ~mem2.panic
          /\ mem2.as = [mem.as EXCEPT ![g] = a]
      <4>1. PteSet(mem, mem2, g, v, page, o.pte[v])
        BY DEF PteSet
      <4> HIDE DEF mem2, o, a
      <4> QED
        BY <1>1, <1>3, <4>1, SetPte DEF o, a
    <3> QED
      BY <3>1 DEF Becomes
  <2> HIDE DEF a, mem2
  <2>4. \A b \in Pages : /\ TabIn(a, g, b) <=> TabIn(o, g, b)
                         /\ UsrIn(a, b) <=> UsrIn(o, b) \/ b = page
    BY <1>1, <1>3, <1>5, <2>2 DEF TabIn, UsrIn
  <2>5. SpaceOk(a, g)
    <3>1. \A w \in Vs : o.pte[w] # page
      BY <1>4 DEF In, UsrIn
    <3>2. \A i, w \in Vs : a.pte[i] = a.pte[w] /\ a.pte[i] # 0 => i = w
      BY <1>1, <1>3, <2>2, <3>1 DEF SpaceOk
    <3>3. ~TabIn(o, g, page)
      BY <1>4 DEF In
    <3>4. \A b \in Pages : ~(TabIn(a, g, b) /\ UsrIn(a, b))
      BY <1>1, <2>4, <3>3 DEF SpaceOk
    <3> QED
      BY <2>2, <3>2, <3>4 DEF SpaceOk
  <2>6. \A b \in Pages : In(a, g, b) <=> In(o, g, b) \/ b = page
    BY <2>4 DEF In
  <2>7. \A b \in Pages : Mine(mem, G, {page}, g, b) <=> b \in mem.free \/ b \in {} \/ In(a, g, b)
    BY <2>6 DEF Mine
  <2>8. \A b \in mem.free : ~In(a, g, b)
    BY <1>4, <1>6, <2>6
  <2>9. MemOk(mem2, G, {}) /\ Same(mem, mem2, G \ {g}) /\ mem2.as[g] = a
    <3>1. mem.free \in SUBSET Pages /\ {} \in SUBSET Pages /\ \A b \in {} : b \notin mem.free /\ ~In(a, g, b)
      BY <1>1 DEF Mems
    <3>2. Shares(mem, G, {page}, g, a, mem.free, {})
      BY <2>7, <2>8, <3>1 DEF Shares
    <3> QED
      BY <2>3, <2>5, <3>2, Reshare
  <2>10. Has(mem2.as[g]) = Has(o) \cup {v}
    BY <1>1, <1>3, <2>2, <2>9 DEF Has
  <2>11. s.ok = TRUE /\ s.m = mem2
    BY <2>1 DEF Ok
  <2> QED
    BY <2>9, <2>10, <2>11
<1>9. CASE o.tabs[t] = 0 /\ mem.free = {}
  <2>1. s = Fail(mem)
    BY <1>9 DEF Mappage
  <2> QED
    BY <2>1 DEF Fail
<1>10. CASE o.tabs[t] = 0 /\ mem.free # {}
  <2> DEFINE n == First(mem)
             k == Kalloc(mem)
             a == PteOf(TabOf(o, t, n), v, page)
             mem1 == [k EXCEPT !.as[g].tabs[t] = n]
             mem2 == [mem1 EXCEPT !.as[g].pte[v] = page, !.panic = @ \/ mem.as[g].pte[v] # 0]
  <2>1. s = Ok(mem2)
    BY <1>10 DEF Mappage
  <2>2. n \in mem.free /\ n \in Pages /\ k \in Mems /\ k.free = mem.free \ {n} /\ k.as = mem.as /\ ~k.panic
    BY <1>10, KallocOk
  <2> HIDE DEF n, k
  <2>3. n \in 0 .. NPAGES /\ n # 0 /\ n # page /\ ~In(o, g, n)
    BY <1>4, <1>5, <1>6, <2>2
  <2>4. /\ a \in AsRecs /\ a.ktab = o.ktab /\ a.tabs = [o.tabs EXCEPT ![t] = n]
        /\ a.pte = [o.pte EXCEPT ![v] = page]
    BY <1>1, <1>3, <2>3 DEF AsRecs, PteOf, TabOf
  <2>5. Becomes(mem, mem2, g, a, mem.free \ {n})
    <3>1. /\ mem1 \in Mems /\ mem1.free = k.free /\ mem1.panic = k.panic
          /\ mem1.as = [mem.as EXCEPT ![g] = TabOf(o, t, n)]
          /\ mem1.as[g] = TabOf(o, t, n) /\ mem1.as[g] \in AsRecs
      <4>1. TabSet(k, mem1, g, t, n) /\ k.as[g] = o
        BY <2>2 DEF TabSet
      <4> HIDE DEF mem1, o, t
      <4> QED
        BY <1>1, <1>2, <2>2, <2>3, <4>1, SetTab DEF o
    <3> HIDE DEF mem1
    <3>2. /\ mem2 \in Mems /\ mem2.free = mem1.free /\ ~mem2.panic
          /\ mem2.as = [mem1.as EXCEPT ![g] = a]
      <4>1. PteSet(mem1, mem2, g, v, page, o.pte[v]) /\ a = PteOf(mem1.as[g], v, page) /\ ~mem1.panic
        BY <2>2, <3>1 DEF PteSet
      <4> HIDE DEF mem2, a
      <4>2. mem1 \in Mems /\ ~mem1.panic /\ mem1.as[g] \in AsRecs /\ g \in Pages /\ page \in 0 .. NPAGES /\ o.pte[v] = 0
        BY <1>1, <1>3, <3>1, <4>1
      <4>3. /\ mem2 \in Mems /\ mem2.free = mem1.free /\ ~mem2.panic
            /\ mem2.as = [mem1.as EXCEPT ![g] = PteOf(mem1.as[g], v, page)]
        BY <4>1, <4>2, SetPte
      <4> QED
        BY <4>1, <4>3
    <3> HIDE DEF a, mem2
    <3>4. mem2.as = [mem.as EXCEPT ![g] = a]
      BY <1>1, <3>1, <3>2 DEF Mems
    <3> QED
      BY <2>2, <3>1, <3>2, <3>4 DEF Becomes
  <2> HIDE DEF a, mem1, mem2
  <2>6. \A b \in Pages : /\ TabIn(a, g, b) <=> TabIn(o, g, b) \/ b = n
                         /\ UsrIn(a, b) <=> UsrIn(o, b) \/ b = page
    BY <1>1, <1>2, <1>3, <1>5, <1>10, <2>4 DEF TabIn, UsrIn
  <2>7. SpaceOk(a, g)
    <3>1. \A w \in Vs : o.pte[w] # page
      BY <1>4 DEF In, UsrIn
    <3>2. \A i, w \in Vs : a.pte[i] = a.pte[w] /\ a.pte[i] # 0 => i = w
      BY <1>1, <1>3, <2>4, <3>1 DEF SpaceOk
    <3>3. ~TabIn(o, g, page) /\ ~UsrIn(o, n)
      BY <1>4, <2>3 DEF In
    <3>4. \A b \in Pages : ~(TabIn(a, g, b) /\ UsrIn(a, b))
      BY <1>1, <2>3, <2>6, <3>3 DEF SpaceOk
    <3> QED
      BY <2>4, <3>2, <3>4 DEF SpaceOk
  <2>8. \A b \in Pages : In(a, g, b) <=> In(o, g, b) \/ b = page \/ b = n
    BY <2>6 DEF In
  <2>9. \A b \in Pages : Mine(mem, G, {page}, g, b) <=> b \in mem.free \ {n} \/ b \in {} \/ In(a, g, b)
    BY <2>2, <2>8 DEF Mine
  <2>10. \A b \in mem.free \ {n} : ~In(a, g, b)
    BY <1>4, <1>6, <2>8
  <2>11. MemOk(mem2, G, {}) /\ Same(mem, mem2, G \ {g}) /\ mem2.as[g] = a
    <3>1. mem.free \ {n} \in SUBSET Pages /\ {} \in SUBSET Pages /\ \A b \in {} : b \notin mem.free \ {n} /\ ~In(a, g, b)
      BY <1>1 DEF Mems
    <3>2. Shares(mem, G, {page}, g, a, mem.free \ {n}, {})
      BY <2>9, <2>10, <3>1 DEF Shares
    <3> QED
      BY <2>5, <2>7, <3>2, Reshare
  <2>12. Has(mem2.as[g]) = Has(o) \cup {v}
    BY <1>1, <1>3, <2>4, <2>11 DEF Has
  <2>13. s.ok = TRUE /\ s.m = mem2
    BY <2>1 DEF Ok
  <2> QED
    BY <2>11, <2>12, <2>13
<1> QED
  BY <1>8, <1>9, <1>10

\* kfree().
LEMMA KfreeIs ==
  ASSUME NEW mem \in Mems, ~mem.panic, NEW P \in SUBSET Pages, P \cap mem.free = {}, NEW k, k = Kfree(mem, P)
  PROVE  k \in Mems /\ ~k.panic /\ k.free = mem.free \cup P /\ k.as = mem.as
<1>1. k = [free |-> mem.free \cup P, as |-> mem.as, panic |-> FALSE]
  BY DEF Kfree, Mems
<1>2. mem.free \cup P \in SUBSET Pages /\ mem.as \in [Pages -> AsRecs \cup {NULL}]
  BY DEF Mems
<1> QED
  BY <1>1, <1>2 DEF Mems

\* A page that could not be used is given back.
LEMMA KfreeOk ==
  ASSUME NEW mem, NEW G, NEW page \in Pages, MemOk(mem, G, {page}), NEW k, k = Kfree(mem, {page})
  PROVE  MemOk(k, G, {}) /\ k.as = mem.as
<1>1. mem \in Mems /\ ~mem.panic /\ G \in SUBSET Pages /\ {page} \in SUBSET Pages /\ {page} \cap mem.free = {}
  BY DEF MemOk
<1>2. k \in Mems /\ ~k.panic /\ k.free = mem.free \cup {page} /\ k.as = mem.as
  BY <1>1, KfreeIs
<1>3. \A b \in Pages : b \in k.free <=> \A g \in G : ~In(k.as[g], g, b)
  BY <1>2 DEF MemOk
<1> QED
  BY <1>1, <1>2, <1>3 DEF MemOk

\* deallocuvm().
Cleared(new, old) == {v \in Vs : v >= PgRoundUp(new) /\ v * PGSIZE < old}
Without(a, vs) == [a EXCEPT !.pte = [v \in Vs |-> IF v \in vs THEN 0 ELSE a.pte[v]]]

Shrinks(old, new) == old \in Nat /\ new \in Nat /\ new < old
Drops(mem, G, X, g, vs, d) ==
  /\ MemOk(d, G, X) /\ Same(mem, d, G \ {g})
  /\ Has(d.as[g]) = Has(mem.as[g]) \ vs
  /\ d.as[g] = Without(mem.as[g], vs)

LEMMA DeallocOk ==
  ASSUME NEW mem, NEW G, NEW X, MemOk(mem, G, X), NEW g \in G, NEW old, NEW new, Shrinks(old, new),
         NEW d, d = Deallocuvm(mem, g, old, new)
  PROVE  Drops(mem, G, X, g, Cleared(new, old), d)
<1> DEFINE o == mem.as[g]
           vs == Cleared(new, old)
           P == {o.pte[v] : v \in vs} \ {0}
           a == Without(o, vs)
           k == Kfree(mem, P)
<1>0. old \in Nat /\ new \in Nat /\ new < old
  BY DEF Shrinks
<1>1. /\ mem \in Mems /\ ~mem.panic /\ g \in Pages /\ SpaceOk(o, g) /\ o \in AsRecs
      /\ o.tabs \in [Ts -> 0 .. NPAGES] /\ o.pte \in [Vs -> 0 .. NPAGES] /\ o.ktab \in 0 .. NPAGES
  BY SpaceAt
<1>2. vs \in SUBSET Vs
  BY DEF Cleared
<1>3. d = [k EXCEPT !.as[g].pte = [v \in Vs |-> IF v \in vs THEN 0 ELSE o.pte[v]]]
  BY <1>0 DEF Deallocuvm, Cleared, Vs
<1> HIDE DEF vs
<1>4. \A b \in Pages : b # 0 /\ b \in 0 .. NPAGES
  BY SpaceAt
<1>5. \A b \in mem.free : b \in Pages /\ ~In(o, g, b)
  BY DEF MemOk, Mems
<1>6. P \in SUBSET Pages /\ \A b \in Pages : b \in P <=> \E v \in vs : o.pte[v] = b
  <2>1. \A b \in 0 .. NPAGES : b # 0 => b \in Pages
    BY VmAssumption DEF Pages
  <2> QED
    BY <1>1, <1>2, <1>4, <2>1
<1> HIDE DEF P
<1>7. \A b \in P : UsrIn(o, b)
  BY <1>2, <1>6 DEF UsrIn
<1>8. P \cap mem.free = {}
  BY <1>5, <1>7 DEF In
<1>9. k \in Mems /\ ~k.panic /\ k.free = mem.free \cup P /\ k.as = mem.as
  BY <1>1, <1>6, <1>8, KfreeIs
<1> HIDE DEF k
<1>10. /\ a \in AsRecs /\ a.ktab = o.ktab /\ a.tabs = o.tabs
       /\ a.pte = [v \in Vs |-> IF v \in vs THEN 0 ELSE o.pte[v]]
  <2>1. [v \in Vs |-> IF v \in vs THEN 0 ELSE o.pte[v]] \in [Vs -> 0 .. NPAGES]
    BY <1>1, VmAssumption
  <2> QED
    BY <1>1, <2>1 DEF AsRecs, Without
<1>11. Becomes(mem, d, g, a, mem.free \cup P)
  <2>1. d = [free |-> k.free, as |-> [mem.as EXCEPT ![g] = a], panic |-> k.panic]
    BY <1>1, <1>3, <1>9 DEF Mems, Without
  <2> HIDE DEF a
  <2>2. [mem.as EXCEPT ![g] = a] \in [Pages -> AsRecs \cup {NULL}]
    BY <1>1, <1>10 DEF Mems
  <2>3. d \in Mems
    BY <1>9, <2>1, <2>2 DEF Mems
  <2>4. d.free = k.free /\ d.as = [mem.as EXCEPT ![g] = a] /\ d.panic = k.panic
    BY <2>1
  <2> QED
    BY <1>9, <2>3, <2>4 DEF Becomes
<1> HIDE DEF a
<1>12. \A b \in Pages : /\ TabIn(a, g, b) <=> TabIn(o, g, b)
                        /\ UsrIn(a, b) => UsrIn(o, b)
  BY <1>4, <1>10 DEF TabIn, UsrIn
<1>13. \A b \in P : ~UsrIn(a, b)
  <2> SUFFICES ASSUME NEW b \in P, NEW w \in Vs, a.pte[w] = b PROVE FALSE
    BY DEF UsrIn
  <2>1. b \in Pages /\ b # 0
    BY <1>4, <1>6
  <2>2. w \notin vs /\ o.pte[w] = b
    BY <1>10, <2>1
  <2>3. PICK v \in vs : o.pte[v] = b
    BY <1>6, <2>1
  <2>4. v = w
    BY <1>1, <1>2, <2>1, <2>2, <2>3 DEF SpaceOk
  <2> QED
    BY <2>2, <2>3, <2>4
<1>14. ASSUME NEW b \in Pages, UsrIn(o, b) PROVE b \in P \/ UsrIn(a, b)
  <2>1. PICK v \in Vs : o.pte[v] = b
    BY <1>14 DEF UsrIn
  <2> QED
    BY <1>6, <1>10, <2>1 DEF UsrIn
<1>15. SpaceOk(a, g)
  <2>1. \A v, w \in Vs : a.pte[v] = a.pte[w] /\ a.pte[v] # 0 => v = w
    BY <1>1, <1>10 DEF SpaceOk
  <2> QED
    BY <1>1, <1>10, <1>12, <2>1 DEF SpaceOk
<1>16. \A b \in P : ~In(a, g, b)
  BY <1>1, <1>6, <1>7, <1>12, <1>13 DEF In, SpaceOk
<1>17. Shares(mem, G, X, g, a, mem.free \cup P, X)
  <2>1. mem.free \cup P \in SUBSET Pages /\ X \in SUBSET Pages
    BY <1>5, <1>6 DEF MemOk
  <2>2. \A b \in Pages : In(o, g, b) <=> b \in P \/ In(a, g, b)
    BY <1>7, <1>12, <1>14 DEF In
  <2>3. \A b \in Pages : Mine(mem, G, X, g, b) <=> b \in mem.free \cup P \/ b \in X \/ In(a, g, b)
    BY <2>2 DEF Mine
  <2>4. \A b \in X : b \in Pages /\ b \notin mem.free /\ ~In(o, g, b)
    BY DEF MemOk
  <2>5. \A b \in X : b \notin mem.free \cup P /\ ~In(a, g, b)
    BY <2>2, <2>4
  <2>6. \A b \in mem.free \cup P : ~In(a, g, b)
    BY <1>5, <1>16, <2>2
  <2> QED
    BY <2>1, <2>3, <2>5, <2>6 DEF Shares
<1>18. MemOk(d, G, X) /\ Same(mem, d, G \ {g}) /\ d.as[g] = a
  BY <1>11, <1>15, <1>17, Reshare
<1>19. Has(a) = Has(o) \ vs
  BY <1>1, <1>2, <1>10 DEF Has
<1> QED
  BY <1>18, <1>19 DEF vs, a, Drops

\* freevm().
LEMMA FreevmOk ==
  ASSUME NEW mem, NEW G, NEW X, MemOk(mem, G, X), NEW g \in G, NEW e, e = Freevm(mem, g)
  PROVE  MemOk(e, G \ {g}, X) /\ Same(mem, e, G \ {g})
<1> DEFINE o == mem.as[g]
           d == Deallocuvm(mem, g, KERNBASE, 0)
           P == Tables(o) \cup {g}
           k == Kfree(d, P)
<1>1. KERNBASE \in Nat \ {0} /\ d = Deallocuvm(mem, g, KERNBASE, 0)
  BY KernbaseIs
<1>2. /\ MemOk(d, G, X) /\ Same(mem, d, G \ {g})
      /\ d.as[g] = Without(o, Cleared(0, KERNBASE))
  <2> HIDE DEF d
  <2>1. Shrinks(KERNBASE, 0)
    BY <1>1 DEF Shrinks
  <2>2. Drops(mem, G, X, g, Cleared(0, KERNBASE), d)
    BY <1>1, <2>1, DeallocOk
  <2> QED
    BY <2>2 DEF Drops
<1>3. e = [k EXCEPT !.as[g] = NULL]
  BY DEF Freevm
<1> HIDE DEF d, P, k
<1>4. /\ o \in AsRecs /\ o.tabs \in [Ts -> 0 .. NPAGES] /\ o.ktab \in 0 .. NPAGES /\ o.pte \in [Vs -> 0 .. NPAGES]
      /\ g \in Pages /\ \A b \in Pages : b # 0 /\ b \in 0 .. NPAGES
  BY SpaceAt
<1>5. Cleared(0, KERNBASE) = Vs
  <2>1. 0 \in Sizes /\ KERNBASE \in Sizes
    BY <1>1 DEF Sizes
  <2>2. PgRoundUp(0) \in 0 .. NV /\ Below(0) = 0 .. PgRoundUp(0) - 1
    BY <2>1, BelowIs
  <2>3. ~(0 * PGSIZE < 0)
    BY KernbaseIs
  <2>4. PgRoundUp(0) = 0
    BY <2>3, RoundUp
  <2>5. ASSUME NEW v \in Vs PROVE v >= 0 /\ v * PGSIZE < KERNBASE
    <3>1. v \in Nat /\ v < NV /\ NV \in Nat /\ PGSIZE \in Nat \ {0}
      BY KernbaseIs DEF Vs
    <3>2. v * PGSIZE + PGSIZE <= NV * PGSIZE /\ v * PGSIZE \in Nat /\ NV * PGSIZE \in Nat
      BY <3>1, Multiples
    <3> QED
      BY <3>1, <3>2 DEF KERNBASE
  <2> QED
    BY <2>4, <2>5 DEF Cleared
<1> DEFINE q == d.as[g]
<1>6. q.ktab = o.ktab /\ q.tabs = o.tabs /\ q.pte = [v \in Vs |-> 0]
  BY <1>2, <1>4, <1>5 DEF Without, AsRecs
<1> HIDE DEF q, o
<1>7. \A b \in Pages : In(q, g, b) <=> TabIn(o, g, b)
  BY <1>4, <1>6 DEF In, TabIn, UsrIn
<1>8. P \in SUBSET Pages /\ \A b \in Pages : b \in P <=> TabIn(o, g, b)
  <2>1. DOMAIN o.tabs = Ts
    BY <1>4
  <2>2. \A b \in 0 .. NPAGES : b # 0 => b \in Pages
    BY VmAssumption DEF Pages
  <2>3. \A b : b \in P <=> b = g \/ (b # 0 /\ (b = o.ktab \/ \E t \in Ts : o.tabs[t] = b))
    BY <1>4, <2>1 DEF P, Tables
  <2>4. \A b \in P : b \in Pages
    BY <1>4, <2>2, <2>3
  <2> QED
    BY <1>4, <2>3, <2>4 DEF TabIn
<1>9. d \in Mems /\ ~d.panic /\ \A b \in Pages : In(q, g, b) => b \notin d.free
  BY <1>2 DEF MemOk, q
<1>10. P \cap d.free = {}
  BY <1>7, <1>8, <1>9
<1>11. k \in Mems /\ ~k.panic /\ k.free = d.free \cup P /\ k.as = d.as
  BY <1>8, <1>9, <1>10, KfreeIs DEF k
<1>12. Becomes(d, e, g, NULL, d.free \cup P)
  <2>1. e = [free |-> k.free, as |-> [d.as EXCEPT ![g] = NULL], panic |-> k.panic]
    BY <1>3, <1>11 DEF Mems
  <2>2. [d.as EXCEPT ![g] = NULL] \in [Pages -> AsRecs \cup {NULL}]
    BY <1>9 DEF Mems
  <2>3. e \in Mems
    BY <1>11, <2>1, <2>2 DEF Mems
  <2>4. e.free = k.free /\ e.as = [d.as EXCEPT ![g] = NULL] /\ e.panic = k.panic
    BY <2>1
  <2> QED
    BY <1>11, <2>3, <2>4 DEF Becomes
<1>13. d.free \cup P \in SUBSET Pages /\ \A b \in Pages : b \in d.free \cup P <=> b \in d.free \/ In(d.as[g], g, b)
  BY <1>7, <1>8, <1>9 DEF Mems, q
<1>14. MemOk(e, G \ {g}, X) /\ Same(d, e, G \ {g})
  BY <1>2, <1>12, <1>13, Giveup
<1> QED
  BY <1>2, <1>14 DEF Same

\* setupkvm().
Bare(k) == [ktab |-> k, tabs |-> [t \in Ts |-> 0], pte |-> [v \in Vs |-> 0]]

LEMMA BareOk ==
  ASSUME NEW g \in Pages, NEW k \in 0 .. NPAGES
  PROVE  /\ SpaceOk(Bare(k), g) /\ Bare(k) \in AsRecs /\ Has(Bare(k)) = {}
         /\ \A b \in Pages : In(Bare(k), g, b) <=> b = g \/ b = k
<1> DEFINE a == Bare(k)
<1>1. a.ktab = k /\ a.tabs = [t \in Ts |-> 0] /\ a.pte = [v \in Vs |-> 0]
  BY DEF Bare
<1>2. 0 \in 0 .. NPAGES
  BY VmAssumption
<1>3. a \in AsRecs
  BY <1>2 DEF Bare, AsRecs
<1> HIDE DEF a
<1>4. \A b \in Pages : b # 0
  BY VmAssumption DEF Pages
<1>5. \A b \in Pages : ~UsrIn(a, b) /\ (TabIn(a, g, b) <=> b = g \/ b = k)
  BY <1>1, <1>4 DEF UsrIn, TabIn
<1>6. SpaceOk(a, g)
  BY <1>1, <1>3, <1>5 DEF SpaceOk
<1>7. Has(a) = {}
  BY <1>1 DEF Has
<1> QED
  BY <1>3, <1>5, <1>6, <1>7 DEF In, a

LEMMA SetupkvmOk ==
  ASSUME NEW mem, NEW G, MemOk(mem, G, {}), NEW g, g = First(mem), NEW r, r = Setupkvm(mem)
  PROVE  /\ r \in [ok : BOOLEAN, m : Mems] /\ Same(mem, r.m, G)
         /\ r.ok => g \in Pages \ G /\ MemOk(r.m, G \cup {g}, {}) /\ Has(r.m.as[g]) = {}
         /\ ~r.ok => MemOk(r.m, G, {})
<1> DEFINE k == Kalloc(mem)
           mem1 == [k EXCEPT !.as[g] = Bare(0)]
           e == Freevm(mem1, g)
           h == First(mem1)
           k1 == Kalloc(mem1)
           mem2 == [k1 EXCEPT !.as[g].ktab = h]
<1>1. r = IF mem.free = {} THEN Fail(mem) ELSE IF mem1.free = {} THEN Fail(e) ELSE Ok(mem2)
  BY DEF Setupkvm, Bare, Ts, Vs
<1>2. CASE mem.free = {}
  <2>1. r = Fail(mem) /\ mem \in Mems
    BY <1>1, <1>2 DEF MemOk
  <2> QED
    BY <2>1 DEF Fail, Same
<1>3. CASE mem.free # {}
  <2>1. /\ g \in mem.free /\ g \in Pages /\ k \in Mems /\ k.free = mem.free \ {g} /\ k.as = mem.as /\ ~k.panic
        /\ MemOk(k, G, {g})
    <3>1. {} \cup {First(mem)} = {g}
      OBVIOUS
    <3>2. /\ First(mem) \in mem.free /\ First(mem) \in Pages
          /\ Kalloc(mem) \in Mems /\ Kalloc(mem).free = mem.free \ {First(mem)}
          /\ Kalloc(mem).as = mem.as /\ ~Kalloc(mem).panic
          /\ MemOk(Kalloc(mem), G, {} \cup {First(mem)})
      BY <1>3, KallocOk, Zenon
    <3> QED
      BY <3>1, <3>2
  <2> HIDE DEF k
  <2>2. g \notin G /\ \A h1 \in G : h1 \in Pages
    BY <2>1 DEF MemOk, In, TabIn
  <2>3. 0 \in 0 .. NPAGES /\ \A b \in Pages : b # 0 /\ b \in 0 .. NPAGES
    BY VmAssumption DEF Pages
  <2>4. /\ SpaceOk(Bare(0), g) /\ Bare(0) \in AsRecs /\ Has(Bare(0)) = {}
        /\ \A b \in Pages : In(Bare(0), g, b) <=> b = g
    BY <2>1, <2>3, BareOk
  <2>5. Becomes(k, mem1, g, Bare(0), k.free)
    <3>1. mem1 = [free |-> k.free, as |-> [k.as EXCEPT ![g] = Bare(0)], panic |-> k.panic]
      BY <2>1 DEF Mems
    <3>2. [k.as EXCEPT ![g] = Bare(0)] \in [Pages -> AsRecs \cup {NULL}]
      BY <2>1, <2>4 DEF Mems
    <3>3. mem1 \in Mems
      BY <2>1, <3>1, <3>2 DEF Mems
    <3>4. mem1.free = k.free /\ mem1.as = [k.as EXCEPT ![g] = Bare(0)] /\ mem1.panic = k.panic
      BY <3>1
    <3> QED
      BY <2>1, <3>3, <3>4 DEF Becomes
  <2> HIDE DEF mem1
  <2>6. Shares(k, G, {g}, g, Bare(0), k.free, {})
    BY <2>1, <2>2, <2>4 DEF Shares, Mine, Mems
  <2>7. Mine(k, G, {g}, g, g)
    BY DEF Mine
  <2>8. MemOk(mem1, G \cup {g}, {}) /\ Same(k, mem1, G \ {g})
    BY <2>1, <2>4, <2>5, <2>6, <2>7, Repartition
  <2>9. Same(mem, mem1, G) /\ mem1 \in Mems /\ mem1.as[g] = Bare(0) /\ mem1.as \in [Pages -> AsRecs \cup {NULL}]
    BY <2>1, <2>2, <2>5, <2>8 DEF Same, Becomes, Mems
  <2>10. CASE mem1.free = {}
    <3>1. e = Freevm(mem1, g)
      OBVIOUS
    <3> HIDE DEF e
    <3>2. MemOk(e, (G \cup {g}) \ {g}, {}) /\ Same(mem1, e, (G \cup {g}) \ {g})
      BY <2>8, <3>1, FreevmOk
    <3>3. (G \cup {g}) \ {g} = G
      BY <2>2
    <3>4. MemOk(e, G, {}) /\ Same(mem1, e, G)
      BY <3>2, <3>3
    <3>5. Same(mem, e, G) /\ e \in Mems
      BY <2>9, <3>4 DEF Same, MemOk
    <3>6. r = Fail(e)
      BY <1>1, <1>3, <2>10
    <3> QED
      BY <3>4, <3>5, <3>6 DEF Fail
  <2>11. CASE mem1.free # {}
    <3> DEFINE H == G \cup {g}
    <3>1. /\ h \in mem1.free /\ h \in Pages /\ k1 \in Mems /\ k1.free = mem1.free \ {h} /\ k1.as = mem1.as /\ ~k1.panic
          /\ MemOk(k1, H, {h})
      <4>1. {} \cup {h} = {h}
        OBVIOUS
      <4> QED
        BY <2>8, <2>11, <4>1, KallocOk
    <3> HIDE DEF h, k1
    <3>2. h \in 0 .. NPAGES
      BY <2>3, <3>1
    <3>3. /\ SpaceOk(Bare(h), g) /\ Bare(h) \in AsRecs /\ Has(Bare(h)) = {}
          /\ \A b \in Pages : In(Bare(h), g, b) <=> b = g \/ b = h
      BY <2>1, <3>2, BareOk
    <3>4. Becomes(k1, mem2, g, Bare(h), k1.free)
      <4>1. mem2 = [free |-> k1.free, as |-> [k1.as EXCEPT ![g] = Bare(h)], panic |-> k1.panic]
        <5>1. [k1.as[g] EXCEPT !.ktab = h] = Bare(h)
          BY <2>9, <3>1 DEF Bare
        <5>2. mem2 = [k1 EXCEPT !.as = [k1.as EXCEPT ![g] = [k1.as[g] EXCEPT !.ktab = h]]]
          BY <3>1 DEF Mems
        <5>3. mem2 = [k1 EXCEPT !.as = [k1.as EXCEPT ![g] = Bare(h)]]
          BY <5>1, <5>2
        <5> HIDE DEF mem2
        <5> QED
          BY <3>1, <5>3 DEF Mems
      <4>2. [k1.as EXCEPT ![g] = Bare(h)] \in [Pages -> AsRecs \cup {NULL}]
        BY <3>1, <3>3 DEF Mems
      <4> HIDE DEF mem2
      <4>3. mem2 \in Mems
        BY <3>1, <4>1, <4>2 DEF Mems
      <4>4. mem2.free = k1.free /\ mem2.as = [k1.as EXCEPT ![g] = Bare(h)] /\ mem2.panic = k1.panic
        BY <4>1
      <4> QED
        BY <3>1, <4>3, <4>4 DEF Becomes
    <3> HIDE DEF mem2
    <3>5. \A b \in k1.free : b # g /\ b # h /\ b \in Pages
      BY <2>1, <2>5, <3>1 DEF Becomes, Mems
    <3>6. Shares(k1, H, {h}, g, Bare(h), k1.free, {})
      BY <2>4, <2>9, <3>1, <3>3, <3>5 DEF Shares, Mine
    <3>7. MemOk(mem2, H, {}) /\ Same(k1, mem2, H \ {g}) /\ mem2.as[g] = Bare(h)
      <4>1. g \in H
        OBVIOUS
      <4> HIDE DEF H
      <4> QED
        BY <3>1, <3>3, <3>4, <3>6, <4>1, Reshare
    <3>8. Same(mem, mem2, G) /\ mem2 \in Mems
      BY <2>2, <2>9, <3>1, <3>7 DEF Same, MemOk
    <3>9. r = Ok(mem2)
      BY <1>1, <1>3, <2>11
    <3> QED
      BY <2>1, <2>2, <3>3, <3>7, <3>8, <3>9 DEF Ok
  <2> QED
    BY <2>10, <2>11
<1> QED
  BY <1>2, <1>3

\* One round of allocuvm() or copyuvm().
Results == [ok : BOOLEAN, m : Mems]
FillsPage(r, G, g, v, s) ==
  /\ s \in Results /\ MemOk(s.m, G, {}) /\ Same(r.m, s.m, G \ {g})
  /\ s.ok => Has(s.m.as[g]) = Has(r.m.as[g]) \cup {v}
  /\ ~s.ok => Has(s.m.as[g]) = Has(r.m.as[g])

LEMMA NewPageOk ==
  ASSUME NEW r \in Results, r.ok, NEW G, MemOk(r.m, G, {}), NEW g \in G, NEW v \in Vs,
         v \notin Has(r.m.as[g]), NEW s, s = NewPage(g, r, v)
  PROVE  FillsPage(r, G, g, v, s)
<1> USE DEF FillsPage, Results
<1> DEFINE mem == r.m
           page == First(mem)
           k == Kalloc(mem)
           t == Mappage(k, g, v, page)
           e == Kfree(t.m, {page})
<1>1. s = IF mem.free = {} THEN Fail(mem) ELSE IF t.ok THEN t ELSE Fail(e)
  BY DEF NewPage
<1>2. CASE mem.free = {}
  BY <1>1, <1>2 DEF Fail, Same
<1>3. CASE mem.free # {}
  <2>1. page \in Pages /\ k.as = mem.as /\ MemOk(k, G, {page})
    <3>1. {} \cup {page} = {page}
      OBVIOUS
    <3> QED
      BY <1>3, <3>1, KallocOk
  <2>2. t \in [ok : BOOLEAN, m : {t.m}]
    BY DEF Mappage, Ok, Fail
  <2>3. t = Mappage(k, g, v, page) /\ v \notin Has(k.as[g])
    BY <2>1
  <2> HIDE DEF page, k, t
  <2>4. /\ t.ok \in BOOLEAN /\ (~t.ok => t.m = k)
        /\ t.ok => /\ MemOk(t.m, G, {}) /\ Same(k, t.m, G \ {g})
                   /\ Has(t.m.as[g]) = Has(k.as[g]) \cup {v}
    <3>1. MapsPage(k, G, g, v, t)
      BY <2>1, <2>3, MappageOk
    <3> QED
      BY <3>1 DEF MapsPage
  <2>5. CASE t.ok
    <3>1. t.m \in Mems /\ s = t
      BY <1>1, <1>3, <2>4, <2>5 DEF MemOk
    <3>2. s \in [ok : BOOLEAN, m : Mems]
      BY <2>2, <3>1
    <3> QED
      BY <2>1, <2>4, <2>5, <3>1, <3>2 DEF Same
  <2>6. CASE ~t.ok
    <3>1. e = Kfree(k, {page})
      BY <2>4, <2>6
    <3> HIDE DEF e
    <3>2. MemOk(e, G, {}) /\ e.as = mem.as
      BY <2>1, <3>1, KfreeOk
    <3>3. s = Fail(e) /\ e \in Mems
      BY <1>1, <1>3, <2>6, <3>2 DEF MemOk
    <3> QED
      BY <3>2, <3>3 DEF Fail, Same
  <2> QED
    BY <2>4, <2>5, <2>6
<1> QED
  BY <1>2, <1>3

-----------------------------------------------------------------------------
(* The loop of allocuvm() and copyuvm(), after x[1] rounds: the pages from *)
(* lo up are there, as far as it came.                                     *)
Filling(mem, G, g, lo, n, x) ==
  /\ x \in (0 .. n) \X Results
  /\ MemOk(x[2].m, G, {}) /\ Same(mem, x[2].m, G \ {g})
  /\ x[2].ok => Has(x[2].m.as[g]) = 0 .. lo + x[1] - 1
  /\ ~x[2].ok => /\ x[1] # 0
                 /\ 0 .. lo - 1 \subseteq Has(x[2].m.as[g])
                 /\ Has(x[2].m.as[g]) \subseteq 0 .. lo + n - 1
InVs(lo, n) == lo \in Nat /\ n \in Nat /\ lo + n <= NV

LEMMA FillStep ==
  ASSUME NEW mem, NEW G, NEW g \in G, NEW lo, NEW n, InVs(lo, n), NEW x, Filling(mem, G, g, lo, n, x),
         x[1] \in 0 .. n - 1, NEW s, s = NewPage(g, x[2], lo + x[1])
  PROVE  Filling(mem, G, g, lo, n, <<x[1] + 1, s>>)
<1> DEFINE i == x[1]
           r == x[2]
           v == lo + i
<1>1. i \in 0 .. n - 1 /\ i \in Nat /\ lo \in Nat /\ n \in Nat /\ lo + n <= NV /\ NV \in Nat
  BY KernbaseIs DEF InVs
<1>2. r \in Results /\ MemOk(r.m, G, {}) /\ Same(mem, r.m, G \ {g})
  BY DEF Filling
<1>3. v \in Vs /\ i + 1 \in 0 .. n /\ i + 1 # 0
  BY <1>1 DEF Vs
<1>4. CASE ~r.ok
  <2>1. s = r
    BY <1>4 DEF NewPage
  <2>2. /\ 0 .. lo - 1 \subseteq Has(r.m.as[g])
        /\ Has(r.m.as[g]) \subseteq 0 .. lo + n - 1
    BY <1>4 DEF Filling
  <2> HIDE DEF i, r
  <2>3. Filling(mem, G, g, lo, n, <<i + 1, r>>)
    BY <1>2, <1>3, <1>4, <2>2 DEF Filling
  <2> QED
    BY <2>1, <2>3 DEF i, r
<1>5. CASE r.ok
  <2>0. Has(r.m.as[g]) = 0 .. lo + i - 1
    BY <1>5, Zenon DEF Filling
  <2>1. Has(r.m.as[g]) = 0 .. v - 1
    BY <1>1, <2>0
  <2>2. v \notin Has(r.m.as[g]) /\ s = NewPage(g, r, v)
    BY <1>1, <2>1
  <2> HIDE DEF i, r, v
  <2>3. FillsPage(r, G, g, v, s)
    BY <1>2, <1>3, <1>5, <2>2, NewPageOk
  <2>4. /\ s \in Results /\ MemOk(s.m, G, {}) /\ Same(r.m, s.m, G \ {g})
        /\ s.ok => Has(s.m.as[g]) = Has(r.m.as[g]) \cup {v}
        /\ ~s.ok => Has(s.m.as[g]) = Has(r.m.as[g])
    BY <2>3 DEF FillsPage
  <2>5. Same(mem, s.m, G \ {g})
    BY <1>2, <2>4 DEF Same
  <2>6. /\ v = lo + i /\ v \in Nat
        /\ (0 .. v - 1) \cup {v} = 0 .. lo + (i + 1) - 1
        /\ 0 .. lo - 1 \subseteq 0 .. v - 1 /\ 0 .. v - 1 \subseteq 0 .. lo + n - 1
    BY <1>1 DEF v
  <2>7. s.ok => Has(s.m.as[g]) = 0 .. lo + (i + 1) - 1
    BY <2>1, <2>4, <2>6
  <2>8. ~s.ok => 0 .. lo - 1 \subseteq Has(s.m.as[g]) /\ Has(s.m.as[g]) \subseteq 0 .. lo + n - 1
    BY <2>1, <2>4, <2>6
  <2>9. <<i + 1, s>> \in (0 .. n) \X Results
    BY <1>3, <2>4
  <2>10. Filling(mem, G, g, lo, n, <<i + 1, s>>)
    BY <1>3, <2>4, <2>5, <2>7, <2>8, <2>9 DEF Filling
  <2> QED
    BY <2>10 DEF i
<1> QED
  BY <1>2, <1>4, <1>5 DEF Results

LEMMA FillStart ==
  ASSUME NEW G, NEW g \in G, NEW lo, NEW n, InVs(lo, n), NEW r \in Results, r.ok, MemOk(r.m, G, {}),
         Has(r.m.as[g]) = 0 .. lo - 1
  PROVE  Filling(r.m, G, g, lo, n, <<0, r>>)
<1>1. lo \in Nat /\ n \in Nat /\ 0 \in 0 .. n /\ lo + 0 - 1 = lo - 1
  BY DEF InVs
<1>2. Same(r.m, r.m, G \ {g})
  BY DEF Same
<1> QED
  BY <1>1, <1>2 DEF Filling

LEMMA UpsIs ==
  ASSUME NEW lo \in Nat, NEW hi \in Nat, lo <= hi
  PROVE  /\ hi - lo \in Nat /\ DOMAIN Ups(lo, hi) = 1 .. hi - lo
         /\ \A i \in 0 .. hi - lo - 1 : Ups(lo, hi)[i + 1] = lo + i
BY DEF Ups

\* allocuvm().
Asked(old, new) == old \in Sizes /\ new \in Nat
Grows(mem, G, g, old, a) ==
  /\ a.size \in Sizes /\ MemOk(a.m, G, {}) /\ Same(mem, a.m, G \ {g})
  /\ a.size # 0 => Has(a.m.as[g]) = Below(a.size)
  /\ a.size = 0 => Has(a.m.as[g]) = Below(old)

LEMMA AllocuvmOk ==
  ASSUME NEW mem, NEW G, MemOk(mem, G, {}), NEW g \in G, NEW old, NEW new, Asked(old, new),
         Has(mem.as[g]) = Below(old), NEW a, a = Allocuvm(mem, g, old, new)
  PROVE  Grows(mem, G, g, old, a)
<1>1. old \in Sizes /\ new \in Nat /\ KERNBASE \in Nat /\ old \in Nat /\ 0 \in Sizes
  BY KernbaseIs DEF Asked, Sizes
<1>2. Same(mem, mem, G \ {g})
  BY DEF Same
<1>3. CASE new >= KERNBASE
  <2>1. a = [size |-> 0, m |-> mem]
    BY <1>3 DEF Allocuvm
  <2> QED
    BY <1>1, <1>2, <2>1 DEF Grows
<1>4. CASE ~(new >= KERNBASE) /\ new < old
  <2>1. a = [size |-> old, m |-> mem]
    BY <1>4 DEF Allocuvm
  <2>2. old # 0
    BY <1>1, <1>4
  <2> QED
    BY <1>1, <1>2, <2>1, <2>2 DEF Grows
<1>5. CASE ~(new >= KERNBASE) /\ ~(new < old)
  <2> DEFINE lo == PgRoundUp(old)
             hi == PgRoundUp(new)
             n == hi - lo
             items == Ups(lo, hi)
             base == Ok(mem)
             r == AllocAll(g, base, items)
             e == Deallocuvm(r.m, g, new, old)
  <2>1. new \in Sizes /\ old <= new
    BY <1>1, <1>5 DEF Sizes
  <2>2. lo \in 0 .. NV /\ hi \in 0 .. NV /\ Below(old) = 0 .. lo - 1 /\ Below(new) = 0 .. hi - 1
    BY <1>1, <2>1, BelowIs
  <2>3. a = IF r.ok THEN [size |-> new, m |-> r.m] ELSE [size |-> 0, m |-> e]
    BY <1>5 DEF Allocuvm, AllocAll
  <2>4. lo <= hi
    <3> SUFFICES ASSUME hi < lo PROVE FALSE
      BY <2>2, KernbaseIs
    <3>1. hi \in Nat /\ (hi * PGSIZE < old <=> hi < lo) /\ (hi * PGSIZE < new <=> hi < hi) /\ hi * PGSIZE \in Nat
      BY <1>1, <2>2, RoundUp, Multiples, KernbaseIs
    <3> QED
      BY <1>1, <2>1, <3>1
  <2>5. e = Deallocuvm(r.m, g, new, old)
    OBVIOUS
  <2> HIDE DEF e
  <2>6. lo \in Nat /\ hi \in Nat /\ n \in Nat /\ lo + n = hi /\ InVs(lo, n)
    BY <2>2, <2>4, KernbaseIs DEF InVs
  <2>7. DOMAIN items = 1 .. n /\ \A i \in 0 .. n - 1 : items[i + 1] = lo + i
    BY <2>4, <2>6, UpsIs
  <2> DEFINE A == {x \in (0 .. n) \X Results : Filling(mem, G, g, lo, n, x)}
  <2>8. base \in Results /\ base.ok /\ base.m = mem
    BY DEF Ok, Results, MemOk
  <2> HIDE DEF base
  <2>9. <<0, base>> \in A
    <3>1. Filling(mem, G, g, lo, n, <<0, base>>)
      <4> HIDE DEF lo, n
      <4> QED
        BY <2>2, <2>6, <2>8, FillStart
    <3> QED
      BY <3>1 DEF Filling
  <2>10. ASSUME NEW x \in A, x[1] \in 0 .. n - 1
         PROVE  <<x[1] + 1, NewPage(g, x[2], items[x[1] + 1])>> \in A
    <3> DEFINE s == NewPage(g, x[2], items[x[1] + 1])
    <3>1. s = NewPage(g, x[2], lo + x[1])
      BY <2>7, <2>10
    <3>2. Filling(mem, G, g, lo, n, x)
      OBVIOUS
    <3> HIDE DEF s, lo, n, items, hi
    <3>3. Filling(mem, G, g, lo, n, <<x[1] + 1, s>>)
      BY <2>6, <2>10, <3>1, <3>2, FillStep
    <3>4. <<x[1] + 1, s>> \in A
      BY <3>3 DEF Filling
    <3> QED
      BY <3>4 DEF s
  <2> HIDE DEF A, items, n
  <2>11. <<n, r>> \in A
    BY <2>6, <2>7, <2>9, <2>10, AllocRounds
  <2> HIDE DEF r
  <2>12. Filling(mem, G, g, lo, n, <<n, r>>)
    BY <2>11 DEF A
  <2>13. r \in Results /\ MemOk(r.m, G, {}) /\ Same(mem, r.m, G \ {g})
    BY <2>12 DEF Filling
  <2>14. CASE r.ok
    <3>1. Has(r.m.as[g]) = Below(new)
      BY <2>2, <2>6, <2>12, <2>14 DEF Filling
    <3>2. new = 0 => old = 0
      BY <1>1, <2>1
    <3>3. a = [size |-> new, m |-> r.m]
      BY <2>3, <2>14
    <3> QED
      BY <2>1, <2>13, <3>1, <3>2, <3>3 DEF Grows
  <2>15. CASE ~r.ok
    <3>1. n # 0 /\ 0 .. lo - 1 \subseteq Has(r.m.as[g]) /\ Has(r.m.as[g]) \subseteq 0 .. hi - 1
      BY <2>6, <2>12, <2>15 DEF Filling
    <3>2. old # new
      BY <2>6, <3>1
    <3>3. Shrinks(new, old)
      BY <1>1, <2>1, <3>2 DEF Shrinks
    <3>4. Drops(r.m, G, {}, g, Cleared(old, new), e)
      BY <2>5, <2>13, <3>3, DeallocOk
    <3>5. Cleared(old, new) = Below(new) \ Below(old)
      <4>1. Cleared(old, new) = {v \in Vs : v >= lo} \cap Below(new)
        BY DEF Cleared, Below
      <4> HIDE DEF lo, hi
      <4>2. \A v \in Vs : v >= lo <=> v \notin 0 .. lo - 1
        BY <2>6 DEF Vs
      <4>3. \A v \in Below(new) : v \in Vs
        BY DEF Below
      <4> QED
        BY <2>2, <4>1, <4>2, <4>3
    <3>6. Has(e.as[g]) = Below(old) /\ MemOk(e, G, {}) /\ Same(r.m, e, G \ {g})
      BY <2>2, <3>1, <3>4, <3>5 DEF Drops
    <3>7. a = [size |-> 0, m |-> e]
      BY <2>3, <2>15
    <3>8. Same(mem, e, G \ {g})
      BY <2>13, <3>6 DEF Same
    <3> QED
      BY <1>1, <3>6, <3>7, <3>8 DEF Grows
  <2> QED
    BY <2>13, <2>14, <2>15 DEF Results
<1> QED
  BY <1>3, <1>4, <1>5

\* copyuvm().
LEMMA CopyPageIs ==
  ASSUME NEW pte, NEW g, NEW r, NEW v, NEW s, s = NewPage(g, r, v), s \in Results, r.ok => pte[v] # 0,
         r.ok \in BOOLEAN
  PROVE  CopyPage(pte, g, r, v) = s
<1>1. s.m \in Mems /\ s.m.panic \in BOOLEAN /\ s = [ok |-> s.ok, m |-> s.m]
  BY DEF Results, Mems
<1>2. (s.m.panic \/ (r.ok /\ pte[v] = 0)) = s.m.panic
  BY <1>1
<1>3. CopyPage(pte, g, r, v) = [s EXCEPT !.m = [s.m EXCEPT !.panic = s.m.panic \/ (r.ok /\ pte[v] = 0)]]
  BY DEF CopyPage
<1>4. [s.m EXCEPT !.panic = s.m.panic] = s.m
  BY <1>1 DEF Mems
<1> QED
  BY <1>1, <1>2, <1>3, <1>4

\* What fork() and exec() get: a new address space d, or nothing.
Creates(mem, G, d, ok, size, mem2) ==
  /\ mem2 \in Mems /\ Same(mem, mem2, G)
  /\ ok => d \in Pages \ G /\ MemOk(mem2, G \cup {d}, {}) /\ Has(mem2.as[d]) = Below(size)
  /\ ~ok => MemOk(mem2, G, {})

LEMMA CopyuvmOk ==
  ASSUME NEW mem, NEW G, MemOk(mem, G, {}), NEW g \in G, NEW size \in Sizes, Has(mem.as[g]) = Below(size),
         NEW r, r = Copyuvm(mem, g, size)
  PROVE  r.ok \in BOOLEAN /\ Creates(mem, G, First(mem), r.ok, size, r.m)
<1> DEFINE d == First(mem)
           k == Setupkvm(mem)
           pte == mem.as[g].pte
           n == PgRoundUp(size)
           items == Ups(0, n)
           c == CopyAll(pte, d, k, items)
           e == Freevm(c.m, d)
<1>1. r = IF k.ok /\ ~c.ok THEN Fail(e) ELSE c
  BY DEF Copyuvm, CopyAll
<1>2. d = First(mem) /\ k = Setupkvm(mem) /\ e = Freevm(c.m, d)
  OBVIOUS
<1>3. n \in 0 .. NV /\ n \in Nat /\ Below(size) = 0 .. n - 1 /\ NV \in Nat
  BY BelowIs, KernbaseIs
<1>4. 0 \in Nat /\ 0 <= n /\ n - 0 = n
  BY <1>3
<1> HIDE DEF d, k, e, n
<1>5. DOMAIN items = 1 .. n /\ \A i \in 0 .. n - 1 : items[i + 1] = i
  <2>1. n - 0 \in Nat /\ DOMAIN items = 1 .. n - 0 /\ \A i \in 0 .. n - 0 - 1 : items[i + 1] = 0 + i
    BY <1>3, <1>4, UpsIs
  <2> HIDE DEF items
  <2> QED
    BY <1>3, <2>1
<1> HIDE DEF items
<1>6. /\ k \in Results /\ Same(mem, k.m, G)
      /\ k.ok => d \in Pages \ G /\ MemOk(k.m, G \cup {d}, {}) /\ Has(k.m.as[d]) = {}
      /\ ~k.ok => MemOk(k.m, G, {})
  BY <1>2, SetupkvmOk DEF Results
<1>7. k.ok \in BOOLEAN /\ k.m \in Mems
  BY <1>6 DEF Results
<1>8. CASE ~k.ok
  <2> DEFINE A == {x \in Nat \X Results : x[2] = k}
  <2>1. <<0, k>> \in A
    BY <1>6
  <2>2. ASSUME NEW x \in A, x[1] \in 0 .. n - 1
        PROVE  <<x[1] + 1, CopyPage(pte, d, x[2], items[x[1] + 1])>> \in A
    <3>1. k = NewPage(d, k, items[x[1] + 1])
      BY <1>8 DEF NewPage
    <3>2. CopyPage(pte, d, k, items[x[1] + 1]) = k
      BY <1>6, <1>7, <1>8, <3>1, CopyPageIs
    <3>3. x[1] + 1 \in Nat /\ x[2] = k
      OBVIOUS
    <3> HIDE DEF pte
    <3>4. CopyPage(pte, d, x[2], items[x[1] + 1]) = k
      BY <3>2, <3>3
    <3> QED
      BY <1>6, <3>3, <3>4
  <2> HIDE DEF A, pte
  <2>3. <<n, c>> \in A
    BY <1>3, <1>5, <2>1, <2>2, CopyRounds
  <2> HIDE DEF c
  <2>4. c = k
    BY <2>3 DEF A
  <2>5. r = k
    BY <1>1, <1>8, <2>4
  <2> QED
    BY <1>6, <1>7, <1>8, <2>5 DEF Creates, d
<1>9. CASE k.ok
  <2> DEFINE H == G \cup {d}
             A == {x \in (0 .. n) \X Results : Filling(k.m, H, d, 0, n, x)}
  <2>1. InVs(0, n) /\ d \in H /\ H \ {d} = G /\ Has(k.m.as[d]) = 0 .. 0 - 1 /\ MemOk(k.m, H, {}) /\ d \in Pages \ G
    BY <1>3, <1>6, <1>9 DEF InVs
  <2>2. <<0, k>> \in A
    <3> HIDE DEF H
    <3>1. Filling(k.m, H, d, 0, n, <<0, k>>)
      BY <1>6, <1>9, <2>1, FillStart
    <3> QED
      BY <3>1 DEF Filling
  <2>3. ASSUME NEW x \in A, x[1] \in 0 .. n - 1
        PROVE  <<x[1] + 1, CopyPage(pte, d, x[2], items[x[1] + 1])>> \in A
    <3> DEFINE s == NewPage(d, x[2], 0 + x[1])
    <3>1. Filling(k.m, H, d, 0, n, x) /\ s = NewPage(d, x[2], 0 + x[1])
      OBVIOUS
    <3> HIDE DEF s, H
    <3>2. Filling(k.m, H, d, 0, n, <<x[1] + 1, s>>)
      BY <2>1, <2>3, <3>1, FillStep
    <3>3. s \in Results /\ <<x[1] + 1, s>> \in A
      BY <3>2 DEF Filling
    <3>4. items[x[1] + 1] = x[1] /\ 0 + x[1] = x[1] /\ x[1] \in 0 .. n - 1
      BY <1>5, <2>3
    <3>5. pte[x[1]] # 0
      BY <1>3, <3>4 DEF Has
    <3>6. x[2].ok \in BOOLEAN
      BY DEF Results
    <3> DEFINE v == items[x[1] + 1]
    <3> HIDE DEF A, v
    <3>7. s = NewPage(d, x[2], v) /\ pte[v] # 0
      BY <3>1, <3>4, <3>5 DEF v
    <3>8. CopyPage(pte, d, x[2], v) = s
      BY <3>3, <3>6, <3>7, CopyPageIs
    <3> QED
      BY <3>3, <3>8 DEF v
  <2> HIDE DEF A, pte
  <2>4. <<n, c>> \in A
    BY <1>3, <1>5, <2>2, <2>3, CopyRounds
  <2> HIDE DEF c
  <2>5. Filling(k.m, H, d, 0, n, <<n, c>>)
    BY <2>4 DEF A
  <2>6. c \in Results /\ c.ok \in BOOLEAN /\ c.m \in Mems /\ MemOk(c.m, H, {}) /\ Same(mem, c.m, G)
    BY <1>6, <2>1, <2>5 DEF Filling, Results, Same
  <2>7. CASE c.ok
    <3>1. Has(c.m.as[d]) = 0 .. 0 + n - 1
      BY <2>5, <2>7, Zenon DEF Filling
    <3>2. Has(c.m.as[d]) = Below(size)
      BY <1>3, <3>1
    <3>3. r = c
      BY <1>1, <2>7
    <3> QED
      BY <2>1, <2>6, <2>7, <3>2, <3>3 DEF Creates, d
  <2>8. CASE ~c.ok
    <3> HIDE DEF H
    <3>1. MemOk(e, H \ {d}, {}) /\ Same(c.m, e, H \ {d})
      BY <1>2, <2>1, <2>6, FreevmOk
    <3>2. MemOk(e, G, {}) /\ Same(c.m, e, G) /\ e \in Mems
      BY <2>1, <3>1 DEF MemOk
    <3>3. r = Fail(e)
      BY <1>1, <1>9, <2>8
    <3>4. r.ok = FALSE /\ r.m = e
      BY <3>3 DEF Fail
    <3>5. Same(mem, e, G)
      BY <2>6, <3>2 DEF Same
    <3> QED
      BY <3>2, <3>4, <3>5 DEF Creates
  <2> QED
    BY <2>6, <2>7, <2>8
<1> QED
  BY <1>7, <1>8, <1>9

\* The loop of exec() over the segments.
Loads == [size : Sizes, m : Mems, tried : BOOLEAN]
Loading(mem, G, g, r) ==
  /\ r \in Loads /\ MemOk(r.m, G, {}) /\ Same(mem, r.m, G \ {g})
  /\ ~r.tried => r.size = 0
  /\ ~r.tried \/ r.size # 0 => Has(r.m.as[g]) = Below(r.size)
Segs == [vaddr : Nat, memsz : Nat]

LEMMA LoadStep ==
  ASSUME NEW mem, NEW G, NEW g \in G, NEW r, Loading(mem, G, g, r), NEW seg \in Segs,
         NEW s, s = LoadSegment(g, r, seg)
  PROVE  Loading(mem, G, g, s)
<1> DEFINE end == Unsigned(seg.vaddr + seg.memsz)
           a == Allocuvm(r.m, g, r.size, end)
<1>1. /\ r \in Loads /\ MemOk(r.m, G, {}) /\ Same(mem, r.m, G \ {g})
      /\ r.size \in Sizes /\ r.m \in Mems /\ r.tried \in BOOLEAN
  BY DEF Loading, Loads
<1>2. 0 \in Sizes
  BY KernbaseIs DEF Sizes
<1>3. end \in Nat
  <2>1. seg.vaddr + seg.memsz \in Int
    BY DEF Segs
  <2> QED
    BY <2>1, UnsignedIs
<1>4. s = IF (r.size = 0 /\ r.tried) \/ end < seg.vaddr THEN [r EXCEPT !.size = 0, !.tried = TRUE]
          ELSE [size |-> a.size, m |-> a.m, tried |-> TRUE]
  BY DEF LoadSegment
<1>5. a = Allocuvm(r.m, g, r.size, end)
  OBVIOUS
<1> HIDE DEF end, a
<1>6. CASE (r.size = 0 /\ r.tried) \/ end < seg.vaddr
  <2>1. s = [r EXCEPT !.size = 0, !.tried = TRUE]
    BY <1>4, <1>6
  <2>2. s = [size |-> 0, m |-> r.m, tried |-> TRUE]
    BY <1>1, <2>1 DEF Loads
  <2> QED
    BY <1>1, <1>2, <2>2 DEF Loading, Loads
<1>7. CASE ~((r.size = 0 /\ r.tried) \/ end < seg.vaddr)
  <2>1. Has(r.m.as[g]) = Below(r.size)
    BY <1>7 DEF Loading
  <2>2. Asked(r.size, end)
    BY <1>1, <1>3 DEF Asked
  <2>3. Grows(r.m, G, g, r.size, a)
    BY <1>1, <1>5, <2>1, <2>2, AllocuvmOk
  <2>4. /\ a.size \in Sizes /\ MemOk(a.m, G, {}) /\ Same(r.m, a.m, G \ {g}) /\ a.m \in Mems
        /\ a.size # 0 => Has(a.m.as[g]) = Below(a.size)
    BY <2>3 DEF Grows, MemOk
  <2>5. Same(mem, a.m, G \ {g})
    BY <1>1, <2>4 DEF Same
  <2>6. s = [size |-> a.size, m |-> a.m, tried |-> TRUE]
    BY <1>4, <1>7
  <2>7. s \in Loads /\ s.size = a.size /\ s.m = a.m /\ s.tried
    BY <2>4, <2>6 DEF Loads
  <2> QED
    BY <2>4, <2>5, <2>7 DEF Loading
<1> QED
  BY <1>6, <1>7

LEMMA LoadOk ==
  ASSUME NEW mem, NEW G, MemOk(mem, G, {}), NEW g \in G, Has(mem.as[g]) = {}, NEW image \in Seq(Segs),
         NEW l, l = Load(mem, g, image)
  PROVE  Loading(mem, G, g, l)
<1> DEFINE base == [size |-> 0, m |-> mem, tried |-> FALSE]
           n == Len(image)
           A == {x \in Nat \X Loads : Loading(mem, G, g, x[2])}
<1>1. n \in Nat /\ DOMAIN image = 1 .. n /\ \A i \in 1 .. n : image[i] \in Segs
  OBVIOUS
<1> HIDE DEF n
<1>2. l = LoadAll(g, base, image)
  BY DEF Load, LoadAll
<1>3. Loading(mem, G, g, base)
  <2>1. 0 \in Sizes /\ PgRoundUp(0) \in Nat /\ \A v \in Nat : v * PGSIZE < 0 <=> v < PgRoundUp(0)
    BY RoundUp, KernbaseIs DEF Sizes
  <2>2. Below(0) = {}
    <3>1. \A v \in Vs : v \in Nat /\ v * PGSIZE \in Nat
      BY Multiples, KernbaseIs DEF Vs
    <3> QED
      BY <3>1 DEF Below
  <2>3. mem \in Mems /\ Same(mem, mem, G \ {g})
    BY DEF MemOk, Same
  <2> QED
    BY <2>1, <2>2, <2>3 DEF Loading, Loads
<1> HIDE DEF base
<1>4. <<0, base>> \in A
  BY <1>3 DEF Loading
<1>5. ASSUME NEW x \in A, x[1] \in 0 .. n - 1
      PROVE  <<x[1] + 1, LoadSegment(g, x[2], image[x[1] + 1])>> \in A
  <2> DEFINE s == LoadSegment(g, x[2], image[x[1] + 1])
  <2>1. x[1] + 1 \in 1 .. n /\ x[1] + 1 \in Nat /\ Loading(mem, G, g, x[2])
    BY <1>1, <1>5
  <2>2. image[x[1] + 1] \in Segs /\ s = LoadSegment(g, x[2], image[x[1] + 1])
    BY <1>1, <2>1
  <2> HIDE DEF s
  <2>3. Loading(mem, G, g, s)
    BY <2>1, <2>2, LoadStep
  <2>4. <<x[1] + 1, s>> \in A
    BY <2>1, <2>3 DEF Loading
  <2> QED
    BY <2>2, <2>4
<1> HIDE DEF A
<1>6. <<n, l>> \in A
  BY <1>1, <1>2, <1>4, <1>5, LoadRounds
<1> QED
  BY <1>6 DEF A

\* The new address space of exec().
LEMMA TopIs ==
  ASSUME NEW x \in Sizes
  PROVE  PgRoundUp(x) * PGSIZE \in Sizes /\ Below(PgRoundUp(x) * PGSIZE) = Below(x)
<1> DEFINE q == PgRoundUp(x)
           top == q * PGSIZE
<1>1. q \in 0 .. NV /\ Below(x) = 0 .. q - 1 /\ q \in Nat /\ NV \in Nat /\ PGSIZE \in Nat \ {0}
  BY BelowIs, KernbaseIs
<1> HIDE DEF q
<1>2. top \in Nat /\ top <= NV * PGSIZE /\ NV * PGSIZE \in Nat
  <2>1. q <= NV
    BY <1>1
  <2> QED
    BY <1>1, <2>1, Multiples
<1>3. top \in Sizes
  BY <1>2 DEF Sizes, KERNBASE
<1>4. ASSUME NEW v \in Vs PROVE v * PGSIZE < top <=> v < q
  <2>1. v \in Nat /\ v * PGSIZE \in Nat
    BY <1>1, Multiples DEF Vs
  <2>2. v < q => v * PGSIZE + PGSIZE <= top
    BY <1>1, <2>1, Multiples
  <2>3. q <= v => top <= v * PGSIZE
    BY <1>1, <2>1, Multiples
  <2> QED
    BY <1>1, <1>2, <2>1, <2>2, <2>3
<1>5. Below(top) = {v \in Vs : v < q}
  BY <1>4 DEF Below
<1>6. {v \in Vs : v < q} = 0 .. q - 1
  BY <1>1 DEF Vs
<1> QED
  BY <1>1, <1>3, <1>5, <1>6 DEF q

LEMMA BuildOk ==
  ASSUME NEW mem, NEW G, MemOk(mem, G, {}), NEW image \in Images, NEW b, b = Build(mem, image)
  PROVE  b.size \in Sizes /\ Creates(mem, G, First(mem), b.size # 0, b.size, b.m)
<1> DEFINE g == First(mem)
           k == Setupkvm(mem)
           l == Load(k.m, g, image)
           top == PgRoundUp(l.size) * PGSIZE
           end == Unsigned(top + 2 * PGSIZE)
           s == Allocuvm(l.m, g, top, end)
           el == Freevm(l.m, g)
           es == Freevm(s.m, g)
           H == G \cup {g}
<1>1. b = IF ~k.ok THEN [size |-> 0, m |-> k.m]
          ELSE IF l.tried /\ l.size = 0 THEN [size |-> 0, m |-> el]
          ELSE IF s.size = 0 THEN [size |-> 0, m |-> es]
          ELSE s
  BY DEF Build
<1>2. /\ g = First(mem) /\ k = Setupkvm(mem) /\ l = Load(k.m, g, image) /\ s = Allocuvm(l.m, g, top, end)
      /\ el = Freevm(l.m, g) /\ es = Freevm(s.m, g)
  OBVIOUS
<1>3. s = [size |-> s.size, m |-> s.m]
  BY DEF Allocuvm
<1> HIDE DEF g, k, l, s, el, es
<1>4. /\ k \in Results /\ Same(mem, k.m, G)
      /\ k.ok => g \in Pages \ G /\ MemOk(k.m, H, {}) /\ Has(k.m.as[g]) = {}
      /\ ~k.ok => MemOk(k.m, G, {})
  BY <1>2, SetupkvmOk DEF Results
<1>5. 0 \in Sizes
  BY KernbaseIs DEF Sizes
<1>6. CASE ~k.ok
  <2>1. b = [size |-> 0, m |-> k.m]
    BY <1>1, <1>6
  <2> QED
    BY <1>4, <1>5, <1>6, <2>1 DEF Creates, MemOk
<1>7. CASE k.ok
  <2>1. g \in Pages \ G /\ MemOk(k.m, H, {}) /\ Has(k.m.as[g]) = {} /\ g \in H /\ H \ {g} = G
    BY <1>4, <1>7
  <2> HIDE DEF H
  <2>2. image \in Seq(Segs)
    BY VmAssumption DEF Segs
  <2>3. Loading(k.m, H, g, l)
    BY <1>2, <2>1, <2>2, LoadOk
  <2>4. /\ l \in Loads /\ MemOk(l.m, H, {}) /\ Same(mem, l.m, G)
        /\ l.size \in Sizes /\ l.tried \in BOOLEAN
    BY <1>4, <2>1, <2>3 DEF Loading, Loads, Same
  <2>5. CASE l.tried /\ l.size = 0
    <3>1. MemOk(el, H \ {g}, {}) /\ Same(l.m, el, H \ {g})
      BY <1>2, <2>1, <2>4, FreevmOk
    <3>2. MemOk(el, G, {}) /\ Same(mem, el, G) /\ el \in Mems
      BY <2>1, <2>4, <3>1 DEF Same, MemOk
    <3>3. b = [size |-> 0, m |-> el]
      BY <1>1, <1>7, <2>5
    <3> QED
      BY <1>5, <3>2, <3>3 DEF Creates
  <2>6. CASE ~(l.tried /\ l.size = 0)
    <3>1. Has(l.m.as[g]) = Below(l.size)
      BY <2>3, <2>4, <2>6 DEF Loading
    <3>2. top \in Sizes /\ Below(top) = Below(l.size) /\ top \in Int /\ 2 * PGSIZE \in Int
      BY <2>4, TopIs, KernbaseIs DEF Sizes
    <3> HIDE DEF top
    <3>3. end \in Nat
      <4>1. top + 2 * PGSIZE \in Int
        BY <3>2
      <4> QED
        BY <4>1, UnsignedIs
    <3> HIDE DEF end
    <3>4. Asked(top, end) /\ Has(l.m.as[g]) = Below(top)
      BY <3>1, <3>2, <3>3 DEF Asked
    <3>5. Grows(l.m, H, g, top, s)
      BY <1>2, <2>1, <2>4, <3>4, AllocuvmOk
    <3>6. /\ s.size \in Sizes /\ MemOk(s.m, H, {}) /\ s.m \in Mems
          /\ s.size # 0 => Has(s.m.as[g]) = Below(s.size)
      BY <3>5 DEF Grows, MemOk
    <3>7. Same(mem, s.m, G)
      BY <2>1, <2>4, <3>5 DEF Grows, Same
    <3>8. CASE s.size = 0
      <4>1. MemOk(es, H \ {g}, {}) /\ Same(s.m, es, H \ {g})
        BY <1>2, <2>1, <3>6, FreevmOk
      <4>2. MemOk(es, G, {}) /\ Same(mem, es, G) /\ es \in Mems
        BY <2>1, <3>7, <4>1 DEF Same, MemOk
      <4>3. b = [size |-> 0, m |-> es]
        BY <1>1, <1>7, <2>6, <3>8
      <4> QED
        BY <1>5, <4>2, <4>3 DEF Creates
    <3>9. CASE s.size # 0
      <4>1. b = s
        BY <1>1, <1>7, <2>6, <3>9
      <4>2. Creates(mem, G, g, TRUE, b.size, b.m)
        BY <2>1, <3>6, <3>7, <3>9, <4>1 DEF Creates, H
      <4>3. (b.size # 0) = TRUE
        BY <3>9, <4>1
      <4> QED
        BY <3>6, <4>1, <4>2, <4>3 DEF g
    <3> QED
      BY <3>8, <3>9
  <2> QED
    BY <2>5, <2>6
<1> QED
  BY <1>4, <1>6, <1>7 DEF Results

-----------------------------------------------------------------------------
(* The invariant: every page is in one place; an address space has one     *)
(* process that is no thread, and the size of that process says what is    *)
(* mapped, unless it has given everything up.                              *)
Owner(p) == pgdir[p] # NULL /\ ~thread[p]

VmType ==
  /\ pgdir \in [Procs -> Pages \cup {NULL}]
  /\ sz \in [Procs -> Sizes]
  /\ thread \in [Procs -> BOOLEAN]
ThreadsHaveOwner ==
  \A p \in Procs : thread[p] => pgdir[p] # NULL /\ \E q \in Procs : ~thread[q] /\ pgdir[q] = pgdir[p]
OneOwner == \A p, q \in Procs : Owner(p) /\ Owner(q) /\ pgdir[p] = pgdir[q] => p = q
SizeOrNothing == \A p \in Procs : Owner(p) => Has(m.as[pgdir[p]]) \in {{}, Below(sz[p])}

VmInv ==
  /\ VmType
  /\ MemOk(m, Spaces, {})
  /\ ThreadsHaveOwner
  /\ OneOwner
  /\ SizeOrNothing

LEMMA ProcsAre == InitProc \in Procs /\ Procs \in SUBSET Nat
BY VmAssumption DEF Procs, InitProc

LEMMA UnusedIs ==
  ASSUME VmInv, Unused # {}
  PROVE  /\ Lowest(Unused) \in Procs /\ pgdir[Lowest(Unused)] = NULL
         /\ thread[Lowest(Unused)] = FALSE
<1>1. Unused \in SUBSET Nat
  BY ProcsAre DEF Unused
<1>2. Lowest(Unused) \in Unused
  BY <1>1, LowestIs
<1> QED
  BY <1>2 DEF Unused, VmInv, ThreadsHaveOwner, VmType

\* A process that runs and is no thread has the memory that its size says.
LEMMA MainHas ==
  ASSUME VmInv, NEW p \in Procs, Main(p)
  PROVE  /\ Owner(p) /\ pgdir[p] \in Spaces /\ sz[p] \in Sizes /\ ~thread[p]
         /\ Has(m.as[pgdir[p]]) = Below(sz[p])
<1>1. pgdir[p] # NULL /\ m.as[pgdir[p]].pte[0] # 0 /\ ~thread[p]
  BY DEF Main, Runs
<1>2. 0 \in Vs
  BY KernbaseIs DEF Vs
<1>3. Owner(p) /\ pgdir[p] \in Spaces /\ sz[p] \in Sizes
  BY <1>1 DEF Owner, Spaces, VmInv, VmType
<1>4. Has(m.as[pgdir[p]]) # {}
  BY <1>1, <1>2 DEF Has
<1> QED
  BY <1>1, <1>3, <1>4 DEF VmInv, SizeOrNothing

\* A step that only moved pages that no process has.
LEMMA MemoryOnly ==
  ASSUME VmInv, MemOk(m', Spaces, {}), Same(m, m', Spaces), UNCHANGED <<pgdir, sz, thread>>
  PROVE  VmInv'
<1>1. Spaces' = Spaces /\ VmType' /\ ThreadsHaveOwner' /\ OneOwner'
  BY DEF VmInv, Spaces, VmType, ThreadsHaveOwner, OneOwner, Owner
<1>2. ASSUME NEW p \in Procs, Owner(p)' PROVE Has(m'.as[pgdir'[p]]) \in {{}, Below(sz'[p])}
  <2>1. Owner(p) /\ pgdir[p] \in Spaces
    BY <1>2 DEF Owner, Spaces
  <2> QED
    BY <2>1 DEF VmInv, SizeOrNothing, Same
<1> QED
  BY <1>1, <1>2 DEF VmInv, SizeOrNothing

LEMMA VmInit == Init => VmInv
<1> SUFFICES ASSUME Init PROVE VmInv
  OBVIOUS
<1> DEFINE g == First(Empty)
<1>1. MemOk(Empty, {}, {})
  <2>1. Empty \in Mems /\ ~Empty.panic /\ Empty.free = Pages
    BY DEF Empty, Mems
  <2> QED
    BY <2>1 DEF MemOk
<1>2. Boot = Build(Empty, FirstImage) /\ FirstImage \in Images /\ Boot.size # 0
  BY BootAssumption DEF Boot
<1>3. Boot.size \in Sizes /\ Creates(Empty, {}, g, Boot.size # 0, Boot.size, Boot.m)
  BY <1>1, <1>2, BuildOk
<1>4. g \in Pages /\ MemOk(Boot.m, {} \cup {g}, {}) /\ Has(Boot.m.as[g]) = Below(Boot.size)
  BY <1>2, <1>3 DEF Creates
<1> HIDE DEF g
<1>5. /\ m = Boot.m /\ thread = [p \in Procs |-> FALSE]
      /\ pgdir = [p \in Procs |-> IF p = InitProc THEN g ELSE NULL]
      /\ sz = [p \in Procs |-> IF p = InitProc THEN Boot.size ELSE 0]
  BY DEF Init, g
<1>6. g # NULL /\ 0 \in Sizes
  BY <1>4, VmAssumption, KernbaseIs DEF Pages, Sizes
<1>7. Spaces = {} \cup {g}
  BY <1>5, <1>6, ProcsAre DEF Spaces
<1>8. \A p \in Procs : pgdir[p] # NULL => p = InitProc
  BY <1>5
<1>9. VmType
  BY <1>3, <1>4, <1>5, <1>6 DEF VmType
<1>10. ThreadsHaveOwner /\ OneOwner
  BY <1>5, <1>8 DEF ThreadsHaveOwner, OneOwner, Owner
<1>11. ASSUME NEW p \in Procs, Owner(p) PROVE Has(m.as[pgdir[p]]) \in {{}, Below(sz[p])}
  <2>1. p = InitProc
    BY <1>8, <1>11 DEF Owner
  <2> QED
    BY <1>4, <1>5, <2>1, ProcsAre
<1>12. MemOk(m, Spaces, {})
  BY <1>4, <1>5, <1>7
<1> QED
  BY <1>9, <1>10, <1>11, <1>12 DEF VmInv, SizeOrNothing

LEMMA VmFork ==
  ASSUME VmInv, NEW p \in Procs, Fork(p)
  PROVE  VmInv'
<1> DEFINE q == Lowest(Unused)
           d == First(m)
           g == pgdir[p]
           r == Copyuvm(m, g, sz[p])
<1>1. Main(p) /\ Unused # {} /\ m' = r.m /\ thread' = thread
  BY DEF Fork
<1>2. /\ pgdir' = IF r.ok THEN [pgdir EXCEPT ![q] = d] ELSE pgdir
      /\ sz' = IF r.ok THEN [sz EXCEPT ![q] = sz[p]] ELSE sz
  BY DEF Fork
<1>3. q \in Procs /\ pgdir[q] = NULL /\ thread[q] = FALSE
  BY <1>1, UnusedIs
<1>4. Owner(p) /\ g \in Spaces /\ sz[p] \in Sizes /\ Has(m.as[g]) = Below(sz[p])
  BY <1>1, MainHas
<1>5. MemOk(m, Spaces, {}) /\ r = Copyuvm(m, g, sz[p])
  BY DEF VmInv
<1> HIDE DEF r, q
<1>6. r.ok \in BOOLEAN /\ Creates(m, Spaces, d, r.ok, sz[p], r.m)
  <2> DEFINE n == sz[p]
  <2>1. n \in Sizes /\ Has(m.as[g]) = Below(n) /\ r = Copyuvm(m, g, n)
    BY <1>4, <1>5
  <2> HIDE DEF n, g
  <2>2. r.ok \in BOOLEAN /\ Creates(m, Spaces, First(m), r.ok, n, r.m)
    BY <1>4, <1>5, <2>1, CopyuvmOk
  <2> QED
    BY <2>2 DEF n
<1> HIDE DEF d
<1>7. CASE ~r.ok
  <2>1. MemOk(m', Spaces, {}) /\ Same(m, m', Spaces)
    BY <1>1, <1>6, <1>7 DEF Creates
  <2> QED
    BY <1>1, <1>2, <1>7, <2>1, MemoryOnly
<1>8. CASE r.ok
  <2>1. /\ Same(m, m', Spaces) /\ d \in Pages /\ d \notin Spaces /\ MemOk(m', Spaces \cup {d}, {})
        /\ Has(m'.as[d]) = Below(sz[p])
    BY <1>1, <1>6, <1>8 DEF Creates
  <2>2. pgdir' = [pgdir EXCEPT ![q] = d] /\ sz' = [sz EXCEPT ![q] = sz[p]] /\ thread' = thread
    BY <1>1, <1>2, <1>8
  <2>3. VmType /\ d # NULL /\ \A x \in Procs : pgdir[x] # NULL => pgdir[x] \in Spaces
    BY <2>1, VmAssumption DEF VmInv, Pages, Spaces
  <2>4. VmType'
    BY <1>4, <2>1, <2>2, <2>3 DEF VmType
  <2>5. pgdir'[q] = d /\ sz'[q] = sz[p] /\ \A x \in Procs : x # q => pgdir'[x] = pgdir[x] /\ sz'[x] = sz[x]
    BY <1>3, <2>2, <2>3 DEF VmType
  <2>6. Spaces' = Spaces \cup {d}
    BY <1>3, <2>3, <2>5 DEF Spaces
  <2>7. ThreadsHaveOwner'
    <3> SUFFICES ASSUME NEW x \in Procs, thread'[x]
                 PROVE  pgdir'[x] # NULL /\ \E y \in Procs : ~thread'[y] /\ pgdir'[y] = pgdir'[x]
      BY DEF ThreadsHaveOwner
    <3>1. x # q /\ thread[x]
      BY <1>3, <2>2
    <3>2. PICK y \in Procs : ~thread[y] /\ pgdir[y] = pgdir[x] /\ pgdir[x] # NULL
      BY <3>1 DEF VmInv, ThreadsHaveOwner
    <3>3. y # q
      BY <1>3, <3>2
    <3> QED
      BY <2>2, <2>5, <3>1, <3>2, <3>3
  <2>8. \A x \in Procs : Owner(x)' => x = q \/ (Owner(x) /\ pgdir[x] \in Spaces /\ x # q)
    BY <2>2, <2>3, <2>5 DEF Owner
  <2>9. OneOwner'
    <3> SUFFICES ASSUME NEW x \in Procs, NEW y \in Procs, Owner(x)', Owner(y)', pgdir'[x] = pgdir'[y], x # y PROVE FALSE
      BY DEF OneOwner
    <3>1. CASE x = q
      BY <2>1, <2>5, <2>8, <3>1
    <3>2. CASE y = q
      BY <2>1, <2>5, <2>8, <3>2
    <3>3. CASE x # q /\ y # q
      BY <2>5, <2>8, <3>3 DEF VmInv, OneOwner
    <3> QED
      BY <3>1, <3>2, <3>3
  <2>10. SizeOrNothing'
    <3> SUFFICES ASSUME NEW x \in Procs, Owner(x)' PROVE Has(m'.as[pgdir'[x]]) \in {{}, Below(sz'[x])}
      BY DEF SizeOrNothing
    <3>1. CASE x = q
      BY <2>1, <2>5, <3>1
    <3>2. CASE x # q
      <4>1. Owner(x) /\ pgdir[x] \in Spaces /\ m'.as[pgdir[x]] = m.as[pgdir[x]]
        BY <2>1, <2>8, <3>2 DEF Same
      <4> QED
        BY <2>5, <3>2, <4>1 DEF VmInv, SizeOrNothing
    <3> QED
      BY <3>1, <3>2
  <2> QED
    BY <2>1, <2>4, <2>6, <2>7, <2>9, <2>10 DEF VmInv
<1> QED
  BY <1>6, <1>7, <1>8

LEMMA VmClone ==
  ASSUME VmInv, NEW p \in Procs, Clone(p)
  PROVE  VmInv'
<1> DEFINE q == Lowest(Unused)
           g == pgdir[p]
<1>1. /\ Main(p) /\ Unused # {} /\ m' = m /\ pgdir' = [pgdir EXCEPT ![q] = g]
      /\ sz' = [sz EXCEPT ![q] = sz[p]] /\ thread' = [thread EXCEPT ![q] = TRUE]
  BY DEF Clone
<1>2. q \in Procs /\ pgdir[q] = NULL /\ thread[q] = FALSE
  BY <1>1, UnusedIs
<1>3. Owner(p) /\ g \in Spaces /\ sz[p] \in Sizes
  BY <1>1, MainHas
<1> HIDE DEF q
<1>4. VmType /\ g # NULL /\ ~thread[p] /\ p # q /\ g \in Pages
  BY <1>2, <1>3 DEF VmInv, VmType, Owner
<1>5. VmType'
  BY <1>1, <1>3, <1>4 DEF VmType
<1>6. /\ pgdir'[q] = g /\ thread'[q] = TRUE
      /\ \A x \in Procs : x # q => pgdir'[x] = pgdir[x] /\ sz'[x] = sz[x] /\ thread'[x] = thread[x]
  BY <1>1, <1>2, <1>4 DEF VmType
<1>7. Spaces' = Spaces
  BY <1>2, <1>3, <1>4, <1>6 DEF Spaces
<1>8. ThreadsHaveOwner'
  <2> SUFFICES ASSUME NEW x \in Procs, thread'[x]
               PROVE  pgdir'[x] # NULL /\ \E y \in Procs : ~thread'[y] /\ pgdir'[y] = pgdir'[x]
    BY DEF ThreadsHaveOwner
  <2>1. CASE x = q
    BY <1>4, <1>6, <2>1
  <2>2. CASE x # q
    <3>1. PICK y \in Procs : ~thread[y] /\ pgdir[y] = pgdir[x] /\ pgdir[x] # NULL
      BY <1>6, <2>2 DEF VmInv, ThreadsHaveOwner
    <3>2. y # q
      BY <1>2, <3>1
    <3> QED
      BY <1>6, <2>2, <3>1, <3>2
  <2> QED
    BY <2>1, <2>2
<1>9. \A x \in Procs : Owner(x)' => Owner(x) /\ x # q
  BY <1>6 DEF Owner
<1>10. OneOwner' /\ SizeOrNothing'
  BY <1>1, <1>6, <1>9 DEF VmInv, OneOwner, SizeOrNothing
<1> QED
  BY <1>1, <1>5, <1>7, <1>8, <1>10 DEF VmInv

LEMMA VmExec ==
  ASSUME VmInv, NEW p \in Procs, NEW image \in Images, Exec(p, image)
  PROVE  VmInv'
<1> DEFINE g == First(m)
           o == pgdir[p]
           b == Build(m, image)
           H == Spaces \cup {g}
<1>1. Main(p) /\ ~Shared(p) /\ thread' = thread
  BY DEF Exec
<1>2. \/ /\ b.size # 0 /\ m' = Freevm(b.m, o)
         /\ pgdir' = [pgdir EXCEPT ![p] = g] /\ sz' = [sz EXCEPT ![p] = b.size]
      \/ m' = (IF b.size # 0 THEN Freevm(b.m, g) ELSE b.m) /\ pgdir' = pgdir /\ sz' = sz
  BY DEF Exec
<1>3. Owner(p) /\ o \in Spaces
  BY <1>1, MainHas
<1>4. MemOk(m, Spaces, {}) /\ b = Build(m, image)
  BY DEF VmInv
<1> HIDE DEF b
<1>5. b.size \in Sizes /\ Creates(m, Spaces, g, b.size # 0, b.size, b.m)
  BY <1>4, BuildOk
<1> HIDE DEF g
<1>6. CASE b.size = 0
  <2>1. MemOk(m', Spaces, {}) /\ Same(m, m', Spaces) /\ pgdir' = pgdir /\ sz' = sz
    BY <1>2, <1>5, <1>6 DEF Creates
  <2> QED
    BY <1>1, <2>1, MemoryOnly
<1>7. CASE b.size # 0
  <2>1. /\ Same(m, b.m, Spaces) /\ g \in Pages /\ g \notin Spaces /\ MemOk(b.m, H, {})
        /\ Has(b.m.as[g]) = Below(b.size)
    BY <1>5, <1>7 DEF Creates
  <2>2. CASE m' = Freevm(b.m, g) /\ pgdir' = pgdir /\ sz' = sz
    <3>1. g \in H /\ H \ {g} = Spaces
      BY <2>1
    <3> HIDE DEF H
    <3>2. MemOk(m', H \ {g}, {}) /\ Same(b.m, m', H \ {g})
      BY <2>1, <2>2, <3>1, FreevmOk
    <3>3. MemOk(m', Spaces, {}) /\ Same(m, m', Spaces)
      BY <2>1, <3>1, <3>2 DEF Same
    <3> QED
      BY <1>1, <2>2, <3>3, MemoryOnly
  <2>3. CASE /\ m' = Freevm(b.m, o)
             /\ pgdir' = [pgdir EXCEPT ![p] = g] /\ sz' = [sz EXCEPT ![p] = b.size]
    <3>1. o \in H
      BY <1>3
    <3>2. MemOk(m', H \ {o}, {}) /\ Same(b.m, m', H \ {o})
      <4> HIDE DEF H
      <4> QED
        BY <2>1, <2>3, <3>1, FreevmOk
    <3>3. VmType /\ g # NULL /\ g # o /\ ~thread[p] /\ \A x \in Procs : pgdir[x] # NULL => pgdir[x] \in Spaces
      BY <1>3, <2>1, VmAssumption DEF VmInv, Pages, Spaces, Owner
    <3>4. VmType'
      BY <1>1, <1>5, <2>1, <2>3, <3>3 DEF VmType
    <3>5. pgdir'[p] = g /\ sz'[p] = b.size /\ \A x \in Procs : x # p => pgdir'[x] = pgdir[x] /\ sz'[x] = sz[x]
      BY <2>3, <3>3 DEF VmType
    <3>6. \A x \in Procs : x # p => pgdir[x] # o
      BY <1>1 DEF Shared
    <3>7. Spaces' = H \ {o}
      <4>1. \A h : h \in Spaces <=> h # NULL /\ \E x \in Procs : pgdir[x] = h
        BY DEF Spaces
      <4>2. \A h : h \in Spaces' <=> h # NULL /\ \E x \in Procs : pgdir'[x] = h
        BY DEF Spaces
      <4>3. \A h \in Spaces' : h \in H \ {o}
        BY <3>3, <3>5, <3>6, <4>1, <4>2
      <4>4. \A h \in H \ {o} : h \in Spaces'
        BY <3>3, <3>5, <4>1, <4>2
      <4> QED
        BY <4>3, <4>4
    <3>8. ThreadsHaveOwner'
      <4> SUFFICES ASSUME NEW x \in Procs, thread'[x]
                   PROVE  pgdir'[x] # NULL /\ \E y \in Procs : ~thread'[y] /\ pgdir'[y] = pgdir'[x]
        BY DEF ThreadsHaveOwner
      <4>1. x # p /\ thread[x]
        BY <1>1, <3>3
      <4>2. PICK y \in Procs : ~thread[y] /\ pgdir[y] = pgdir[x] /\ pgdir[x] # NULL
        BY <4>1 DEF VmInv, ThreadsHaveOwner
      <4>3. y # p
        BY <3>6, <4>1, <4>2
      <4> QED
        BY <1>1, <3>5, <4>1, <4>2, <4>3
    <3>9. \A x \in Procs : Owner(x)' => x = p \/ (Owner(x) /\ pgdir[x] \in Spaces /\ pgdir[x] # o)
      BY <1>1, <3>3, <3>5, <3>6 DEF Owner
    <3>10. OneOwner'
      <4> SUFFICES ASSUME NEW x \in Procs, NEW y \in Procs, Owner(x)', Owner(y)', pgdir'[x] = pgdir'[y], x # y
                   PROVE  FALSE
        BY DEF OneOwner
      <4>1. CASE x = p
        BY <2>1, <3>5, <3>9, <4>1
      <4>2. CASE y = p
        BY <2>1, <3>5, <3>9, <4>2
      <4>3. CASE x # p /\ y # p
        BY <3>5, <3>9, <4>3 DEF VmInv, OneOwner
      <4> QED
        BY <4>1, <4>2, <4>3
    <3>11. SizeOrNothing'
      <4> SUFFICES ASSUME NEW x \in Procs, Owner(x)' PROVE Has(m'.as[pgdir'[x]]) \in {{}, Below(sz'[x])}
        BY DEF SizeOrNothing
      <4>1. CASE x = p
        <5>1. m'.as[g] = b.m.as[g]
          BY <3>2, <3>3 DEF Same
        <5> QED
          BY <2>1, <3>5, <4>1, <5>1
      <4>2. CASE x # p
        <5>1. Owner(x) /\ pgdir[x] \in Spaces /\ pgdir[x] # o
          BY <3>9, <4>2
        <5>2. m'.as[pgdir[x]] = b.m.as[pgdir[x]] /\ b.m.as[pgdir[x]] = m.as[pgdir[x]]
          BY <2>1, <3>2, <5>1 DEF Same
        <5> QED
          BY <3>5, <4>2, <5>1, <5>2 DEF VmInv, SizeOrNothing
      <4> QED
        BY <4>1, <4>2
    <3> QED
      BY <3>2, <3>4, <3>7, <3>8, <3>10, <3>11 DEF VmInv
  <2> QED
    BY <1>2, <1>7, <2>2, <2>3
<1> QED
  BY <1>6, <1>7

LEMMA VmGrowproc ==
  ASSUME VmInv, NEW p \in Procs, Main(p), NEW n \in Int, Growproc(p, n)
  PROVE  VmInv'
<1> DEFINE g == pgdir[p]
           old == sz[p]
           new == Unsigned(old + n)
           a == Allocuvm(m, g, old, new)
           e == Deallocuvm(m, g, old, new)
           size == IF n > 0 THEN a.size ELSE DeallocSize(old, new)
<1>1. /\ m' = (IF n > 0 THEN a.m ELSE e) /\ pgdir' = pgdir /\ thread' = thread
      /\ sz' = (IF size = 0 THEN sz ELSE [sz EXCEPT ![p] = size])
  BY DEF Growproc
<1>2. Owner(p) /\ g \in Spaces /\ old \in Sizes /\ Has(m.as[g]) = Below(old)
  BY MainHas
<1>3. MemOk(m, Spaces, {}) /\ VmType /\ a = Allocuvm(m, g, old, new) /\ e = Deallocuvm(m, g, old, new)
  BY DEF VmInv
<1>4. old \in Nat /\ new \in Nat
  <2>1. old \in Nat
    BY <1>2, KernbaseIs DEF Sizes
  <2>2. old + n \in Int
    BY <2>1
  <2> QED
    BY <2>1, <2>2, UnsignedIs
<1> HIDE DEF a, e, new
\* What is mapped afterwards, and the size.
<1>5. /\ size \in Sizes /\ MemOk(m', Spaces, {}) /\ Same(m, m', Spaces \ {g})
      /\ Has(m'.as[g]) \in {{}, Below(IF size = 0 THEN old ELSE size)}
  <2>1. CASE n > 0
    <3>1. Asked(old, new)
      BY <1>2, <1>4 DEF Asked
    <3>2. Grows(m, Spaces, g, old, a)
      <4> HIDE DEF g, old
      <4> QED
        BY <1>2, <1>3, <3>1, AllocuvmOk
    <3>3. size = a.size /\ m' = a.m
      BY <1>1, <2>1
    <3> HIDE DEF size
    <3> QED
      BY <3>2, <3>3 DEF Grows
  <2>2. CASE ~(n > 0) /\ new >= old
    <3>1. size = old /\ m' = m
      BY <1>1, <1>3, <2>2 DEF DeallocSize, Deallocuvm
    <3> HIDE DEF size
    <3> QED
      BY <1>2, <1>3, <3>1 DEF Same
  <2>3. CASE ~(n > 0) /\ ~(new >= old)
    <3>1. size = new /\ m' = e
      BY <1>1, <2>3 DEF DeallocSize
    <3>2. Shrinks(old, new)
      BY <1>4, <2>3 DEF Shrinks
    <3>3. Drops(m, Spaces, {}, g, Cleared(new, old), e)
      <4> HIDE DEF g, old
      <4> QED
        BY <1>2, <1>3, <3>2, DeallocOk
    <3>4. new \in Sizes
      BY <1>2, <1>4, <2>3, KernbaseIs DEF Sizes
    <3>5. /\ PgRoundUp(new) \in 0 .. NV /\ Below(new) = 0 .. PgRoundUp(new) - 1
          /\ \A v \in Nat : v * PGSIZE < new <=> v < PgRoundUp(new)
      BY <1>4, <3>4, BelowIs, RoundUp
    <3>6. Below(old) \ Cleared(new, old) = Below(new)
      <4>1. ASSUME NEW v \in Vs PROVE /\ v >= PgRoundUp(new) <=> ~(v * PGSIZE < new)
                                      /\ v * PGSIZE < new => v * PGSIZE < old
        <5>1. v \in Nat /\ v * PGSIZE \in Nat /\ PgRoundUp(new) \in Nat
          BY <3>5, Multiples, KernbaseIs DEF Vs
        <5> HIDE DEF old
        <5> QED
          BY <1>4, <2>3, <3>5, <5>1
      <4> QED
        BY <4>1 DEF Below, Cleared
    <3>7. Has(e.as[g]) = Below(new) /\ MemOk(e, Spaces, {}) /\ Same(m, e, Spaces \ {g})
      BY <1>2, <3>3, <3>6 DEF Drops
    <3>8. CASE new = 0
      <4>1. \A v \in Vs : v \in Nat /\ v * PGSIZE \in Nat
        BY Multiples, KernbaseIs DEF Vs
      <4>2. Below(new) = {}
        BY <3>8, <4>1 DEF Below
      <4> HIDE DEF size
      <4> QED
        BY <3>1, <3>4, <3>7, <4>2
    <3>9. CASE new # 0
      <4> HIDE DEF size
      <4> QED
        BY <3>1, <3>4, <3>7, <3>9
    <3> QED
      BY <3>8, <3>9
  <2> QED
    BY <2>1, <2>2, <2>3
<1> HIDE DEF size
<1>6. Spaces' = Spaces /\ VmType'
  BY <1>1, <1>3, <1>5 DEF Spaces, VmType
<1>7. ThreadsHaveOwner' /\ OneOwner'
  BY <1>1 DEF VmInv, ThreadsHaveOwner, OneOwner, Owner
<1>8. /\ sz'[p] = IF size = 0 THEN old ELSE size
      /\ \A x \in Procs : x # p => sz'[x] = sz[x]
  BY <1>1, <1>3 DEF VmType
<1>9. SizeOrNothing'
  <2> SUFFICES ASSUME NEW x \in Procs, Owner(x)' PROVE Has(m'.as[pgdir'[x]]) \in {{}, Below(sz'[x])}
    BY DEF SizeOrNothing
  <2>1. Owner(x) /\ pgdir[x] \in Spaces
    BY <1>1 DEF Owner, Spaces
  <2>2. CASE x = p
    BY <1>1, <1>5, <1>8, <2>2
  <2>3. CASE x # p
    <3>1. pgdir[x] # g
      BY <1>2, <2>1, <2>3 DEF VmInv, OneOwner
    <3>2. m'.as[pgdir[x]] = m.as[pgdir[x]]
      BY <1>5, <2>1, <3>1 DEF Same
    <3> QED
      BY <1>1, <1>8, <2>1, <2>3, <3>2 DEF VmInv, SizeOrNothing
  <2> QED
    BY <2>2, <2>3
<1> QED
  BY <1>5, <1>6, <1>7, <1>9 DEF VmInv

LEMMA VmExit ==
  ASSUME VmInv, NEW p \in Procs, Exit(p)
  PROVE  VmInv'
<1> DEFINE g == pgdir[p]
<1>1. /\ g # NULL /\ (thread[p] \/ ~Shared(p)) /\ m' = (IF thread[p] THEN m ELSE Freevm(m, g))
      /\ pgdir' = [pgdir EXCEPT ![p] = NULL] /\ sz' = [sz EXCEPT ![p] = 0] /\ thread' = [thread EXCEPT ![p] = FALSE]
  BY DEF Exit
<1>2. VmType /\ MemOk(m, Spaces, {}) /\ g \in Spaces /\ thread[p] \in BOOLEAN
  BY <1>1 DEF VmInv, Spaces, VmType
<1>3. VmType'
  BY <1>1, <1>2, KernbaseIs DEF VmType, Sizes
<1>4. /\ pgdir'[p] = NULL
      /\ \A x \in Procs : x # p => pgdir'[x] = pgdir[x] /\ sz'[x] = sz[x] /\ thread'[x] = thread[x]
  BY <1>1, <1>2 DEF VmType
<1>5. thread'[p] = FALSE
  BY <1>1, <1>2 DEF VmType
<1>6. /\ \A h : h \in Spaces <=> h # NULL /\ \E x \in Procs : pgdir[x] = h
      /\ \A h : h \in Spaces' <=> h # NULL /\ \E x \in Procs : pgdir'[x] = h
  BY DEF Spaces
<1>7. ThreadsHaveOwner'
  <2> SUFFICES ASSUME NEW x \in Procs, thread'[x]
               PROVE  pgdir'[x] # NULL /\ \E y \in Procs : ~thread'[y] /\ pgdir'[y] = pgdir'[x]
    BY DEF ThreadsHaveOwner
  <2>1. x # p /\ thread[x]
    BY <1>4, <1>5
  <2>2. PICK y \in Procs : ~thread[y] /\ pgdir[y] = pgdir[x] /\ pgdir[x] # NULL
    BY <2>1 DEF VmInv, ThreadsHaveOwner
  <2>3. y # p
    BY <1>1, <2>1, <2>2 DEF Shared
  <2> QED
    BY <1>4, <2>1, <2>2, <2>3
<1>8. \A x \in Procs : Owner(x)' => Owner(x) /\ x # p
  BY <1>4 DEF Owner
<1>9. OneOwner'
  BY <1>4, <1>8 DEF VmInv, OneOwner
<1>10. CASE thread[p]
  <2>1. m' = m
    BY <1>1, <1>10
  <2>2. PICK q \in Procs : ~thread[q] /\ pgdir[q] = g
    BY <1>10 DEF VmInv, ThreadsHaveOwner
  <2>3. q # p /\ pgdir'[q] = g
    BY <1>4, <1>10, <2>2
  <2>4. Spaces' = Spaces
    <3>1. \A h \in Spaces' : h \in Spaces
      BY <1>4, <1>6
    <3>2. \A h \in Spaces : h \in Spaces'
      BY <1>4, <1>6, <2>3
    <3> QED
      BY <3>1, <3>2
  <2>5. SizeOrNothing'
    BY <1>4, <1>8, <2>1 DEF VmInv, SizeOrNothing
  <2> QED
    BY <1>2, <1>3, <1>7, <1>9, <2>1, <2>4, <2>5 DEF VmInv
<1>11. CASE ~thread[p]
  <2>1. m' = Freevm(m, g) /\ ~Shared(p)
    BY <1>1, <1>11
  <2>2. MemOk(m', Spaces \ {g}, {}) /\ Same(m, m', Spaces \ {g})
    <3> HIDE DEF g
    <3> QED
      BY <1>2, <2>1, FreevmOk
  <2>3. \A x \in Procs : x # p => pgdir[x] # g
    BY <2>1 DEF Shared
  <2>4. Spaces' = Spaces \ {g}
    <3>1. \A h \in Spaces' : h \in Spaces /\ h # g
      BY <1>4, <1>6, <2>3
    <3>2. \A h \in Spaces : h # g => h \in Spaces'
      BY <1>4, <1>6
    <3> QED
      BY <3>1, <3>2
  <2>5. SizeOrNothing'
    <3> SUFFICES ASSUME NEW x \in Procs, Owner(x)' PROVE Has(m'.as[pgdir'[x]]) \in {{}, Below(sz'[x])}
      BY DEF SizeOrNothing
    <3>1. Owner(x) /\ x # p /\ pgdir[x] \in Spaces \ {g}
      BY <1>6, <1>8, <2>3 DEF Owner
    <3>2. m'.as[pgdir[x]] = m.as[pgdir[x]]
      BY <2>2, <3>1 DEF Same
    <3> QED
      BY <1>4, <3>1, <3>2 DEF VmInv, SizeOrNothing
  <2> QED
    BY <1>3, <1>7, <1>9, <2>2, <2>4, <2>5 DEF VmInv
<1> QED
  BY <1>2, <1>10, <1>11

LEMMA VmNext ==
  ASSUME VmInv, [Next]_vars
  PROVE  VmInv'
<1>1. ASSUME UNCHANGED vmvars PROVE VmInv'
  <2>1. UNCHANGED <<pgdir, sz, thread>> /\ m' = m
    BY <1>1 DEF vmvars
  <2>2. MemOk(m', Spaces, {}) /\ Same(m, m', Spaces)
    BY <2>1 DEF VmInv, Same
  <2> QED
    BY <2>1, <2>2, MemoryOnly
<1>2. ASSUME NEW p \in Procs, VmStep(p) PROVE VmInv'
  BY <1>2, VmFork, VmClone, VmExit, VmExec DEF VmStep
<1>3. ASSUME NEW p \in Procs, NEW n \in Deltas, Sbrk(p, n) PROVE VmInv'
  <2>1. n \in Int
    BY VmAssumption
  <2> QED
    BY <1>3, <2>1, VmGrowproc DEF Sbrk
<1>4. ASSUME NEW nunits \in Requests, MallocCall(nunits) PROVE VmInv'
  <2> DEFINE nu == IF nunits < MinUnits THEN MinUnits ELSE nunits
  <2>1. nu \in Int /\ User \in Procs
    BY MallocAssumption
  <2>2. Main(User) /\ (UNCHANGED vmvars \/ Growproc(User, nu))
    BY <1>4 DEF MallocCall
  <2> HIDE DEF nu
  <2> QED
    BY <1>1, <2>1, <2>2, VmGrowproc
<1>5. ASSUME NEW bp \in live, Free(bp) PROVE VmInv'
  BY <1>1, <1>5 DEF Free
<1>6. UNCHANGED vars => UNCHANGED vmvars
  BY DEF vars
<1> QED
  BY <1>1, <1>2, <1>3, <1>4, <1>5, <1>6 DEF Next

\* What the properties say of memory that is in order.
LEMMA HeldIs ==
  ASSUME VmInv, NEW g \in Spaces
  PROVE  /\ Held(g) \in SUBSET Pages
         /\ \A b \in Pages : b \in Held(g) <=> In(m.as[g], g, b)
         /\ \A b \in Pages : b \in UserPages(g) <=> UsrIn(m.as[g], b)
         /\ \A b \in Tables(m.as[g]) : b \in Pages /\ TabIn(m.as[g], g, b)
         /\ UserPages(g) \in SUBSET Pages
<1> DEFINE a == m.as[g]
<1>1. MemOk(m, Spaces, {})
  BY DEF VmInv
<1>2. /\ a.ktab \in 0 .. NPAGES /\ a.tabs \in [Ts -> 0 .. NPAGES] /\ a.pte \in [Vs -> 0 .. NPAGES]
      /\ g \in Pages /\ \A b \in Pages : b \in 0 .. NPAGES /\ b # 0
  BY <1>1, SpaceAt
<1>3. \A b \in 0 .. NPAGES : b # 0 => b \in Pages
  BY VmAssumption DEF Pages
<1>4. /\ Tables(a) = ({a.tabs[t] : t \in Ts} \cup {a.ktab}) \ {0}
      /\ UserPages(g) = {a.pte[v] : v \in Vs} \ {0}
      /\ Held(g) = Tables(a) \cup UserPages(g) \cup {g}
  BY <1>2 DEF Tables, UserPages, Held, Vs
<1> HIDE DEF a
<1>5. Tables(a) \in SUBSET Pages /\ \A b \in Pages : b \in Tables(a) <=> b = a.ktab \/ \E t \in Ts : a.tabs[t] = b
  BY <1>2, <1>3, <1>4
<1>6. UserPages(g) \in SUBSET Pages /\ \A b \in Pages : b \in UserPages(g) <=> UsrIn(a, b)
  BY <1>2, <1>3, <1>4 DEF UsrIn
<1>7. Held(g) \in SUBSET Pages /\ \A b \in Pages : b \in Held(g) <=> In(a, g, b)
  BY <1>2, <1>4, <1>5, <1>6 DEF In, TabIn
<1> QED
  BY <1>5, <1>6, <1>7 DEF a, TabIn

LEMMA UserPagesCount ==
  ASSUME VmInv, NEW g \in Spaces
  PROVE  Cardinality(UserPages(g)) = Cardinality(Mapped(g))
<1> DEFINE a == m.as[g]
           f == [v \in Mapped(g) |-> a.pte[v]]
<1>1. MemOk(m, Spaces, {})
  BY DEF VmInv
<1>2. \A v, w \in Vs : a.pte[v] = a.pte[w] /\ a.pte[v] # 0 => v = w
  BY <1>1, SpaceAt DEF SpaceOk
<1>3. Mapped(g) = {v \in Vs : a.pte[v] # 0} /\ UserPages(g) = {a.pte[v] : v \in Vs} \ {0}
  BY DEF Mapped, UserPages, Vs
<1> HIDE DEF a
<1>4. IsFiniteSet(Vs)
  BY KernbaseIs, FS_Interval DEF Vs
<1>5. IsFiniteSet(Mapped(g))
  BY <1>3, <1>4, FS_Subset
<1>6. f \in Bijection(Mapped(g), UserPages(g))
  <2>1. f \in [Mapped(g) -> UserPages(g)]
    BY <1>3
  <2>2. \A v, w \in Mapped(g) : f[v] = f[w] => v = w
    BY <1>2, <1>3
  <2>3. \A b \in UserPages(g) : \E v \in Mapped(g) : f[v] = b
    BY <1>3
  <2> HIDE DEF f
  <2> QED
    BY <2>1, <2>2, <2>3 DEF Bijection, Injection, Surjection, IsInjective
<1>7. ExistsBijection(Mapped(g), UserPages(g))
  BY <1>6 DEF ExistsBijection
<1> QED
  BY <1>5, <1>7, FS_Bijection

LEMMA VmInvGives == VmInv => PagesAccounted /\ SizeMapped
<1> SUFFICES ASSUME VmInv PROVE PagesAccounted /\ SizeMapped
  OBVIOUS
<1>1. MemOk(m, Spaces, {})
  BY DEF VmInv
<1>2. ~m.panic /\ m.free \in SUBSET Pages
  BY <1>1 DEF MemOk, Mems
<1>3. m.free = Pages \ UNION {Held(g) : g \in Spaces}
  <2>1. \A b \in Pages : b \in m.free <=> \A g \in Spaces : ~In(m.as[g], g, b)
    BY <1>1 DEF MemOk
  <2>2. \A b \in Pages : \A g \in Spaces : b \in Held(g) <=> In(m.as[g], g, b)
    BY HeldIs
  <2>3. \A b \in Pages : b \in m.free <=> \A g \in Spaces : b \notin Held(g)
    BY <2>1, <2>2
  <2> QED
    BY <1>2, <2>3
<1>4. ASSUME NEW g \in Spaces, NEW h \in Spaces, g # h PROVE Held(g) \cap Held(h) = {}
  <2>1. \A b \in Pages : ~(In(m.as[g], g, b) /\ In(m.as[h], h, b))
    BY <1>1, <1>4 DEF MemOk
  <2>2. Held(g) \in SUBSET Pages /\ \A b \in Pages : b \in Held(g) <=> In(m.as[g], g, b)
    BY HeldIs
  <2>3. \A b \in Pages : b \in Held(h) <=> In(m.as[h], h, b)
    BY HeldIs
  <2> QED
    BY <2>1, <2>2, <2>3
<1>5. ASSUME NEW g \in Spaces PROVE UserPages(g) \cap Tables(m.as[g]) = {}
  <2>1. \A b \in Pages : ~(TabIn(m.as[g], g, b) /\ UsrIn(m.as[g], b))
    BY <1>1 DEF MemOk, SpaceOk
  <2>2. /\ \A b \in Pages : b \in UserPages(g) <=> UsrIn(m.as[g], b)
        /\ \A b \in Tables(m.as[g]) : b \in Pages /\ TabIn(m.as[g], g, b)
    BY HeldIs
  <2> QED
    BY <2>1, <2>2
<1>6. PagesAccounted
  BY <1>2, <1>3, <1>4, <1>5, UserPagesCount DEF PagesAccounted
<1>7. ASSUME NEW p \in Procs, Main(p) PROVE Mapped(pgdir[p]) = {v \in 0 .. NV - 1 : v * PGSIZE < sz[p]}
  <2>1. Has(m.as[pgdir[p]]) = Below(sz[p])
    BY <1>7, MainHas
  <2> QED
    BY <2>1 DEF Has, Below, Mapped, Vs
<1> QED
  BY <1>6, <1>7 DEF SizeMapped

\* In every behaviour of fork(), clone(), exec(), sbrk(), malloc() and exit(),
\* for every amount of memory, page size, program and argument of sbrk(): the
\* pages are in order, and an address space has one process that is no thread.
THEOREM VmInvariant == Spec => []VmInv
<1>1. MInit => VmInv
  BY VmInit DEF MInit
<1> QED
  BY <1>1, VmNext, PTL DEF Spec

\* No page is lost, freed twice or in two places, whichever allocation of
\* fork(), exec() or sbrk() fails, and vm.c never panics.
THEOREM PagesAreAccounted == Spec => []PagesAccounted
BY VmInvariant, VmInvGives, PTL

\* What p->sz says of a process that runs user code is what is mapped.
THEOREM SizeIsMapped == Spec => []SizeMapped
BY VmInvariant, VmInvGives, PTL

-----------------------------------------------------------------------------
(* The heap of malloc() lies below the size of the process: the size grows *)
(* by what morecore() asks for, and while there is a heap it never shrinks.*)
LEMMA GrowthIs ==
  ASSUME VmInv, NEW p \in Procs, Main(p), NEW n \in Int, n > 0, Growproc(p, n)
  PROVE  /\ sz[p] \in Nat /\ sz'[p] \in Nat /\ sz'[p] >= sz[p]
         /\ sz'[p] # sz[p] /\ n < KERNBASE => sz'[p] = sz[p] + n
         /\ \A x \in Procs : x # p => sz'[x] = sz[x]
<1> DEFINE g == pgdir[p]
           old == sz[p]
           new == Unsigned(old + n)
           a == Allocuvm(m, g, old, new)
<1>1. sz' = IF a.size = 0 THEN sz ELSE [sz EXCEPT ![p] = a.size]
  BY DEF Growproc
<1>2. old \in Nat /\ old <= KERNBASE /\ KERNBASE \in Nat \ {0} /\ old + n \in Nat
  BY MainHas, KernbaseIs DEF Sizes
<1>3. new \in Nat
  <2>1. old + n \in Int
    BY <1>2
  <2> QED
    BY <2>1, UnsignedIs
<1>4. n < KERNBASE => new = old + n
  BY <1>2 DEF Unsigned
<1>5. sz \in [Procs -> Sizes]
  BY DEF VmInv, VmType
<1> HIDE DEF new
<1>6. a.size = 0 \/ a.size = old \/ (a.size = new /\ ~(new < old))
  BY DEF Allocuvm
<1> HIDE DEF a
<1>7. sz'[p] = (IF a.size = 0 THEN old ELSE a.size) /\ \A x \in Procs : x # p => sz'[x] = sz[x]
  BY <1>1, <1>5
<1> QED
  BY <1>2, <1>3, <1>4, <1>6, <1>7

HeapInv == core \subseteq 0 .. sz[User] - 1

LEMMA HeapStep ==
  ASSUME VmInv, HeapInv, [Next]_vars
  PROVE  HeapInv'
<1> USE DEF HeapInv
<1>1. User \in Procs /\ VmType /\ sz[User] \in Nat
  BY MallocAssumption, KernbaseIs DEF VmInv, VmType, Sizes
<1>2. ASSUME core' = core, sz'[User] \in Nat, sz'[User] >= sz[User] PROVE HeapInv'
  BY <1>1, <1>2
<1>3. ASSUME NEW p \in Procs, VmStep(p), pgdir'[User] = pgdir[User], UNCHANGED mvars PROVE HeapInv'
  <2>1. core' = core
    BY <1>3 DEF mvars
  <2>2. sz'[User] = sz[User]
    <3>1. CASE Fork(p)
      <4> DEFINE q == Lowest(Unused)
                 r == Copyuvm(m, pgdir[p], sz[p])
                 d == First(m)
      <4>1. /\ Unused # {} /\ pgdir' = (IF r.ok THEN [pgdir EXCEPT ![q] = d] ELSE pgdir)
            /\ sz' = (IF r.ok THEN [sz EXCEPT ![q] = sz[p]] ELSE sz)
        BY <3>1 DEF Fork
      <4>2. q \in Procs /\ pgdir[q] = NULL
        BY <4>1, UnusedIs
      <4>3. r.ok => d # NULL
        <5>1. Main(p)
          BY <3>1 DEF Fork
        <5>2. Has(m.as[pgdir[p]]) = Below(sz[p]) /\ sz[p] \in Sizes /\ pgdir[p] \in Spaces /\ MemOk(m, Spaces, {})
          BY <5>1, MainHas DEF VmInv
        <5>3. r = Copyuvm(m, pgdir[p], sz[p]) /\ d = First(m)
          OBVIOUS
        <5> HIDE DEF r, d
        <5>4. Creates(m, Spaces, d, r.ok, sz[p], r.m)
          BY <5>2, <5>3, CopyuvmOk
        <5> QED
          BY <5>4, VmAssumption DEF Creates, Pages
      <4> HIDE DEF q, r, d
      <4> QED
        BY <1>1, <1>3, <4>1, <4>2, <4>3 DEF VmType
    <3>2. CASE Clone(p)
      <4> DEFINE q == Lowest(Unused)
      <4>1. /\ Unused # {} /\ Main(p) /\ pgdir' = [pgdir EXCEPT ![q] = pgdir[p]]
            /\ sz' = [sz EXCEPT ![q] = sz[p]]
        BY <3>2 DEF Clone
      <4>2. q \in Procs /\ pgdir[q] = NULL /\ pgdir[p] # NULL
        BY <4>1, UnusedIs DEF Main, Runs
      <4> HIDE DEF q
      <4> QED
        BY <1>1, <1>3, <4>1, <4>2 DEF VmType
    <3>3. CASE Exit(p)
      <4>1. /\ pgdir[p] # NULL /\ pgdir' = [pgdir EXCEPT ![p] = NULL]
            /\ sz' = [sz EXCEPT ![p] = 0]
        BY <3>3 DEF Exit
      <4> QED
        BY <1>1, <1>3, <4>1 DEF VmType
    <3>4. ASSUME NEW image \in Images, Exec(p, image) PROVE sz'[User] = sz[User]
      <4> DEFINE b == Build(m, image)
                 g == First(m)
      <4>1. /\ Main(p)
            /\ \/ b.size # 0 /\ pgdir' = [pgdir EXCEPT ![p] = g] /\ sz' = [sz EXCEPT ![p] = b.size]
               \/ sz' = sz
        BY <3>4 DEF Exec
      <4>2. MemOk(m, Spaces, {}) /\ b = Build(m, image) /\ pgdir[p] \in Spaces
        BY <4>1, MainHas DEF VmInv
      <4> HIDE DEF b
      <4>3. Creates(m, Spaces, g, b.size # 0, b.size, b.m)
        BY <4>2, BuildOk
      <4> HIDE DEF g
      <4>4. b.size # 0 => g # pgdir[p]
        BY <4>2, <4>3 DEF Creates
      <4> QED
        BY <1>1, <1>3, <4>1, <4>4 DEF VmType
    <3> QED
      BY <1>3, <3>1, <3>2, <3>3, <3>4 DEF VmStep
  <2> QED
    BY <2>1, <2>2
<1>4. ASSUME NoHeap PROVE HeapInv'
  BY <1>4 DEF NoHeap
<1>5. ASSUME NEW p \in Procs, NEW n \in Deltas, p = User => core = {} \/ n > 0, Sbrk(p, n), UNCHANGED mvars
      PROVE  HeapInv'
  <2>1. n \in Int /\ Main(p) /\ Growproc(p, n) /\ core' = core
    BY <1>5, VmAssumption DEF Sbrk, mvars
  <2>2. CASE core = {}
    BY <2>1, <2>2
  <2>3. CASE core # {} /\ p = User
    BY <1>2, <1>5, <2>1, <2>3, GrowthIs
  <2>4. CASE p # User
    <3>1. sz'[User] = sz[User]
      <4>1. \E size : sz' = sz \/ sz' = [sz EXCEPT ![p] = size]
        BY <2>1 DEF Growproc
      <4> QED
        BY <1>1, <2>4, <4>1 DEF VmType
    <3> QED
      BY <2>1, <3>1
  <2> QED
    BY <2>2, <2>3, <2>4
<1>6. ASSUME NEW nunits \in Requests, MallocCall(nunits) PROVE HeapInv'
  <2> DEFINE nu == IF nunits < MinUnits THEN MinUnits ELSE nunits
  <2>1. nu \in Nat \ {0} /\ nu < KERNBASE /\ nu \in Int /\ nu > 0
    BY MallocAssumption, KernbaseIs
  <2>2. /\ Main(User)
        /\ \/ UNCHANGED <<vmvars, core>>
           \/ /\ Growproc(User, nu)
              /\ \/ SbrkFails(sz[User]) /\ UNCHANGED mvars
                 \/ ~SbrkFails(sz[User]) /\ core' = core \cup (sz[User] .. sz[User] + nu - 1)
    BY <1>6 DEF MallocCall
  <2> HIDE DEF nu
  <2>3. CASE UNCHANGED <<vmvars, core>>
    BY <1>1, <1>2, <2>3 DEF vmvars
  <2>4. CASE Growproc(User, nu) /\ SbrkFails(sz[User]) /\ UNCHANGED mvars
    BY <1>1, <1>2, <2>4 DEF SbrkFails, mvars
  <2>5. CASE /\ Growproc(User, nu) /\ ~SbrkFails(sz[User])
             /\ core' = core \cup (sz[User] .. sz[User] + nu - 1)
    <3>1. sz'[User] = sz[User] + nu
      BY <1>1, <2>1, <2>2, <2>5, GrowthIs DEF SbrkFails
    <3> SUFFICES ASSUME NEW x \in core' PROVE x \in 0 .. sz'[User] - 1
      OBVIOUS
    <3>2. CASE x \in core
      BY <1>1, <2>1, <3>1, <3>2
    <3>3. CASE x \in sz[User] .. sz[User] + nu - 1
      BY <1>1, <2>1, <3>1, <3>3
    <3> QED
      BY <2>5, <3>2, <3>3
  <2> QED
    BY <2>2, <2>3, <2>4, <2>5
<1>7. ASSUME UNCHANGED <<vmvars, core>> PROVE HeapInv'
  BY <1>1, <1>2, <1>7 DEF vmvars
<1>8. ASSUME NEW bp \in live, Free(bp) PROVE HeapInv'
  BY <1>7, <1>8 DEF Free
<1>9. UNCHANGED vars => UNCHANGED <<vmvars, core>>
  BY DEF vars, mvars
<1> QED
  BY <1>3, <1>4, <1>5, <1>6, <1>7, <1>8, <1>9 DEF Next

LEMMA HeapInvGives == VmInv /\ HeapInv => HeapMapped
<1> SUFFICES ASSUME VmInv, HeapInv, Main(User), NEW a \in core PROVE a \div PGSIZE \in Mapped(pgdir[User])
  BY DEF HeapMapped
<1> DEFINE s == sz[User]
           q == a \div PGSIZE
<1>1. User \in Procs
  BY MallocAssumption
<1>2. s \in Sizes /\ Has(m.as[pgdir[User]]) = Below(s)
  BY <1>1, MainHas
<1>3. Mapped(pgdir[User]) = Below(s)
  BY <1>2 DEF Has, Mapped, Vs
<1>4. s \in Nat /\ a \in Nat /\ a < s /\ PGSIZE \in Nat \ {0}
  BY <1>2, KernbaseIs DEF HeapInv, Sizes
<1> HIDE DEF s
<1>5. q \in Nat /\ \A n \in Nat : n * PGSIZE \in Nat /\ (n * PGSIZE <= a <=> n <= q)
  BY <1>4, Quotient
<1> HIDE DEF q
<1>6. q * PGSIZE < s
  BY <1>4, <1>5
<1>7. PgRoundUp(s) \in Nat /\ q < PgRoundUp(s) /\ Below(s) = 0 .. PgRoundUp(s) - 1
  BY <1>2, <1>4, <1>5, <1>6, RoundUp, BelowIs
<1>8. q \in Below(s)
  BY <1>5, <1>7
<1> QED
  BY <1>3, <1>8 DEF q
-----------------------------------------------------------------------------
(* The free list of malloc(): a circle from Base upwards and back to Base. *)
Places == 0 .. KERNBASE - 1
PtrOf(h) == [a \in {Base} \cup (0 .. KERNBASE) |-> h[a].ptr]
SizeOf(h) == [a \in {Base} \cup (0 .. KERNBASE) |-> h[a].size]

\* The headers of the list y are F: each points to the next one above it, the
\* last one back to Base.
ListOk(y, F) ==
  /\ Base \in F /\ F \subseteq {Base} \cup Places
  /\ \A a \in F : /\ y[a] \in F
                  /\ \/ a < y[a] /\ \A b \in F : b <= a \/ y[a] <= b
                     \/ y[a] = Base /\ \A b \in F : b <= a

\* A set of addresses has a highest one.
LEMMA HighestIs ==
  ASSUME NEW F \in SUBSET ({Base} \cup Places), F # {}
  PROVE  \E a \in F : \A b \in F : b <= a
<1> DEFINE u == {KERNBASE - a : a \in F}
<1>1. KERNBASE \in Nat \ {0} /\ \A a \in F : a \in Int /\ a < KERNBASE
  BY KernbaseIs DEF Base, Places
<1>2. u \subseteq Nat /\ u # {}
  BY <1>1
<1>3. PICK d \in u : \A e \in u : d <= e
  BY <1>2, LowestIs
<1>4. PICK a \in F : d = KERNBASE - a
  BY <1>3
<1>5. ASSUME NEW b \in F PROVE b <= a
  <2>1. d <= KERNBASE - b
    BY <1>3
  <2> QED
    BY <1>1, <1>4, <2>1
<1> QED
  BY <1>5

\* The recursive definition has the value that it says.
LEMMA NthIs ==
  ASSUME NEW h, NEW from
  PROVE  /\ Nth(h, from)[0] = from
         /\ \A n \in 1 .. Around : Nth(h, from)[n] = h[Nth(h, from)[n - 1]].ptr
<1> DEFINE Is(f, k) == f = [n \in 0 .. k |-> IF n = 0 THEN from ELSE h[f[n - 1]].ptr]
           T == {k \in Nat : \E f : Is(f, k)}
<1>1. 0 \in T
  <2>1. Is([n \in 0 .. 0 |-> from], 0)
    OBVIOUS
  <2> QED
    BY <2>1
<1>2. ASSUME NEW k \in T PROVE k + 1 \in T
  <2>1. PICK f : Is(f, k)
    BY <1>2
  <2> DEFINE g == [n \in 0 .. k + 1 |-> IF n = k + 1 THEN h[f[k]].ptr ELSE f[n]]
  <2>2. k \in Nat
    BY <1>2
  <2>3. \A n \in 0 .. k : f[n] = IF n = 0 THEN from ELSE h[f[n - 1]].ptr
    BY <2>1
  <2>4. ASSUME NEW n \in 0 .. k + 1
        PROVE  g[n] = IF n = 0 THEN from ELSE h[g[n - 1]].ptr
    <3>1. CASE n = k + 1
      <4>1. g[n] = h[f[k]].ptr /\ n # 0 /\ n - 1 = k /\ k \in 0 .. k + 1 /\ k # k + 1
        BY <2>2, <3>1
      <4>2. g[k] = f[k]
        BY <4>1
      <4> QED
        BY <4>1, <4>2
    <3>2. CASE n \in 0 .. k /\ n # 0
      <4>1. n # k + 1 /\ n - 1 \in 0 .. k + 1 /\ n - 1 # k + 1
        BY <2>2, <3>2
      <4> QED
        BY <2>3, <3>2, <4>1
    <3>3. CASE n = 0
      <4>1. 0 # k + 1 /\ 0 \in 0 .. k /\ 0 \in 0 .. k + 1
        BY <2>2
      <4> QED
        BY <2>3, <3>3, <4>1
    <3> QED
      BY <2>2, <3>1, <3>2, <3>3
  <2>5. g = [n \in 0 .. k + 1 |-> g[n]]
    OBVIOUS
  <2> HIDE DEF g
  <2>6. Is(g, k + 1)
    BY <2>4, <2>5
  <2> QED
    BY <2>2, <2>6
<1>3. T = Nat
  BY <1>1, <1>2, Induction
<1>4. Around \in Nat
  BY KernbaseIs DEF Around
<1>5. \E f : Is(f, Around)
  BY <1>3, <1>4
<1>6. Nth(h, from) = CHOOSE f : Is(f, Around)
  BY DEF Nth
<1>7. Is(Nth(h, from), Around)
  BY <1>5, <1>6
<1>8. \A n \in 0 .. Around : Nth(h, from)[n] = IF n = 0 THEN from ELSE h[Nth(h, from)[n - 1]].ptr
  BY <1>7
<1>9. 0 \in 0 .. Around /\ \A n \in 1 .. Around : n \in 0 .. Around /\ n # 0
  BY <1>4
<1> QED
  BY <1>8, <1>9

\* The walk stays in the list.
LEMMA NthIn ==
  ASSUME NEW h, NEW F, ListOk(PtrOf(h), F), NEW from \in F
  PROVE  /\ Around \in Nat /\ Around = KERNBASE + 1
         /\ \A n \in 0 .. Around : Nth(h, from)[n] \in F
         /\ \A n \in 0 .. Around - 1 : Nth(h, from)[n + 1] = PtrOf(h)[Nth(h, from)[n]]
<1> DEFINE nth == Nth(h, from)
           T == {k \in Nat : k \in 0 .. Around => nth[k] \in F}
<1>0. Around \in Nat /\ Around = KERNBASE + 1
  BY KernbaseIs DEF Around
<1>1. nth[0] = from /\ \A n \in 1 .. Around : nth[n] = h[nth[n - 1]].ptr
  BY NthIs
<1> HIDE DEF nth
<1>2. ASSUME NEW a \in F PROVE h[a].ptr = PtrOf(h)[a] /\ h[a].ptr \in F
  <2>1. a \in {Base} \cup (0 .. KERNBASE)
    BY KernbaseIs DEF ListOk, Places
  <2>2. PtrOf(h)[a] = h[a].ptr
    BY <2>1 DEF PtrOf
  <2> QED
    BY <2>2 DEF ListOk
<1>3. 0 \in T
  BY <1>1
<1>4. ASSUME NEW k \in T PROVE k + 1 \in T
  <2> SUFFICES ASSUME k + 1 \in 0 .. Around PROVE nth[k + 1] \in F
    BY <1>4
  <2>1. k \in 0 .. Around /\ k + 1 \in 1 .. Around /\ (k + 1) - 1 = k
    BY <1>0, <1>4
  <2> QED
    BY <1>1, <1>2, <2>1
<1>5. T = Nat
  BY <1>3, <1>4, Induction
<1>6. \A n \in 0 .. Around : nth[n] \in F
  BY <1>0, <1>5
<1>7. ASSUME NEW n \in 0 .. Around - 1 PROVE nth[n + 1] = PtrOf(h)[nth[n]]
  <2>1. n + 1 \in 1 .. Around /\ (n + 1) - 1 = n /\ n \in 0 .. Around
    BY <1>0
  <2> QED
    BY <1>1, <1>2, <1>6, <2>1
<1> QED
  BY <1>0, <1>6, <1>7 DEF nth

\* Going up the list passes no header of it.
LEMMA Climb ==
  ASSUME NEW h, NEW F, ListOk(PtrOf(h), F), NEW from \in F,
         NEW k \in 0 .. Around, NEW b \in F,
         Nth(h, from)[k] <= b, k + (b - Nth(h, from)[k]) <= Around
  PROVE  \E n \in k .. Around :
           /\ n <= k + (b - Nth(h, from)[k])
           /\ Nth(h, from)[n] = b
           /\ \A j \in k + 1 .. n : Nth(h, from)[k] < Nth(h, from)[j] /\ Nth(h, from)[j] <= b
<1> DEFINE nth == Nth(h, from)
           y == PtrOf(h)
           a == nth[k]
           Found(n) == /\ n <= k + (b - a) /\ nth[n] = b
                       /\ \A j \in k + 1 .. n : a < nth[j] /\ nth[j] <= b
           OnTheWay(i) == /\ i < b - a /\ a + i <= nth[k + i] /\ nth[k + i] < b
                          /\ \A j \in k + 1 .. k + i : a < nth[j] /\ nth[j] <= b
           T == {i \in Nat : (\E n \in k .. Around : Found(n)) \/ OnTheWay(i)}
<1>1. /\ Around \in Nat
      /\ \A n \in 0 .. Around : nth[n] \in F
      /\ \A n \in 0 .. Around - 1 : nth[n + 1] = y[nth[n]]
  BY NthIn
<1>2. ListOk(y, F) /\ a <= b /\ k + (b - a) <= Around
  OBVIOUS
<1>3. F \subseteq Int
  BY KernbaseIs DEF ListOk, Places, Base
<1>4. a \in F
  BY <1>1
<1>5. a = nth[k]
  OBVIOUS
<1> HIDE DEF nth, y, a
<1>6. k \in Nat /\ k <= Around /\ a \in Int /\ b \in Int
  BY <1>1, <1>3, <1>4
<1>7. 0 \in T
  <2>1. CASE a = b
    <3>1. Found(k) /\ k \in k .. Around
      BY <1>1, <1>5, <1>6, <2>1
    <3> QED
      BY <3>1
  <2>2. CASE a < b
    <3>1. k + 0 = k /\ a + 0 = a
      BY <1>6
    <3>2. OnTheWay(0)
      BY <1>5, <1>6, <2>2, <3>1
    <3> QED
      BY <3>2
  <2> QED
    BY <1>2, <1>6, <2>1, <2>2
<1>8. ASSUME NEW i \in T PROVE i + 1 \in T
  <2>0. i \in Nat
    BY <1>8
  <2>1. CASE \E n \in k .. Around : Found(n)
    BY <2>0, <2>1
  <2>2. CASE OnTheWay(i)
    <3> DEFINE x == nth[k + i]
               w == nth[k + (i + 1)]
    <3>0. x = nth[k + i] /\ w = nth[k + (i + 1)]
      OBVIOUS
    <3>1. /\ i < b - a /\ a + i <= x /\ x < b
          /\ \A j \in k + 1 .. k + i : a < nth[j] /\ nth[j] <= b
      BY <2>2
    <3> HIDE DEF x, w
    <3>2. k + i \in 0 .. Around
      BY <1>1, <1>2, <1>6, <2>0, <3>1
    <3>4. x \in F
      BY <1>1, <3>0, <3>2
    <3>5. x \in Int
      BY <1>3, <3>4
    <3>6. k + i \in 0 .. Around - 1 /\ (k + i) + 1 = k + (i + 1) /\ i + 1 <= b - a
          /\ k + (i + 1) \in k .. Around
      BY <1>1, <1>2, <1>6, <2>0, <3>1
    <3>7. w = y[x]
      BY <1>1, <3>0, <3>6
    <3>8. w \in F /\ x < w /\ w <= b
      BY <1>2, <1>3, <1>6, <3>1, <3>4, <3>5, <3>7 DEF ListOk
    <3>9. w \in Int /\ a + (i + 1) <= w /\ a < w
      BY <1>3, <1>6, <2>0, <3>1, <3>5, <3>8
    <3>10. \A j \in k + 1 .. k + (i + 1) : a < nth[j] /\ nth[j] <= b
      <4> SUFFICES ASSUME NEW j \in k + 1 .. k + (i + 1) PROVE a < nth[j] /\ nth[j] <= b
        OBVIOUS
      <4>1. j = k + (i + 1) \/ j \in k + 1 .. k + i
        BY <1>6, <2>0
      <4> QED
        BY <3>0, <3>1, <3>8, <3>9, <4>1
    <3>11. CASE w = b
      <4>1. k + (i + 1) <= k + (b - a)
        BY <1>6, <2>0, <3>6
      <4>2. Found(k + (i + 1))
        BY <3>0, <3>10, <3>11, <4>1
      <4> QED
        BY <2>0, <3>6, <4>2
    <3>12. CASE w # b
      <4>1. OnTheWay(i + 1)
        BY <1>6, <3>0, <3>8, <3>9, <3>10, <3>12
      <4> QED
        BY <2>0, <4>1
    <3> QED
      BY <3>11, <3>12
  <2> QED
    BY <1>8, <2>1, <2>2
<1>9. T = Nat
  BY <1>7, <1>8, Induction
<1>10. b - a \in Nat /\ ~(b - a < b - a)
  BY <1>2, <1>6
<1>11. b - a \in T
  BY <1>9, <1>10
<1>12. \E n \in k .. Around : Found(n)
  BY <1>10, <1>11
<1> QED
  BY <1>5, <1>12 DEF nth

\* Every header of the list is found before the walk is around.
LEMMA Reach ==
  ASSUME NEW h, NEW F, ListOk(PtrOf(h), F), NEW from \in F, NEW b \in F
  PROVE  \E n \in 1 .. Around :
           /\ Nth(h, from)[n] = b
           /\ b # from => \A j \in 1 .. n : Nth(h, from)[j] # from
<1> DEFINE nth == Nth(h, from)
           y == PtrOf(h)
<1>1. /\ Around \in Nat /\ Around = KERNBASE + 1
      /\ \A n \in 0 .. Around : nth[n] \in F
      /\ \A n \in 0 .. Around - 1 : nth[n + 1] = y[nth[n]]
      /\ nth[0] = from
  BY NthIn, NthIs
<1>2. ListOk(y, F)
  OBVIOUS
<1>3. \A a \in F : a \in Int /\ -1 <= a /\ a < KERNBASE
  BY KernbaseIs DEF ListOk, Places, Base
<1>4. ASSUME NEW k \in 0 .. Around, NEW c \in F, nth[k] <= c, k + (c - nth[k]) <= Around
      PROVE  \E n \in k .. Around :
               /\ n <= k + (c - nth[k])
               /\ nth[n] = c
               /\ \A j \in k + 1 .. n : nth[k] < nth[j] /\ nth[j] <= c
  BY <1>4, Climb
<1> HIDE DEF nth, y
<1>5. KERNBASE \in Nat /\ from \in Int /\ b \in Int /\ -1 <= from /\ -1 <= b
      /\ from < KERNBASE /\ b < KERNBASE /\ 0 \in 0 .. Around /\ Around \in Int
  BY <1>1, <1>3, KernbaseIs
<1>6. ASSUME NEW c \in F, from <= c
      PROVE  \E n \in 0 .. Around :
               /\ n <= c - from
               /\ nth[n] = c
               /\ \A j \in 1 .. n : from < nth[j]
  <2>1. c \in Int /\ 0 + (c - from) = c - from /\ c - from <= Around
    BY <1>1, <1>3, <1>5
  <2>2. \E n \in 0 .. Around :
               /\ n <= 0 + (c - nth[0])
               /\ nth[n] = c
               /\ \A j \in 0 + 1 .. n : nth[0] < nth[j] /\ nth[j] <= c
    BY <1>1, <1>4, <1>5, <1>6, <2>1
  <2> QED
    BY <1>1, <2>1, <2>2
<1>7. CASE from < b
  <2>1. PICK n \in 0 .. Around : /\ nth[n] = b /\ \A j \in 1 .. n : from < nth[j]
    BY <1>5, <1>6, <1>7
  <2>2. n # 0
    BY <1>1, <1>5, <1>7, <2>1
  <2>3. n \in 1 .. Around /\ \A j \in 1 .. n : j \in 0 .. Around
    BY <1>1, <2>2
  <2>4. \A j \in 1 .. n : nth[j] # from
    BY <1>1, <1>3, <1>5, <2>1, <2>3
  <2> QED
    BY <2>1, <2>3, <2>4 DEF nth
<1>8. CASE b <= from
  <2>1. PICK top \in F : \A a \in F : a <= top
    BY HighestIs DEF ListOk
  <2>2. PICK n \in 0 .. Around : /\ n <= top - from /\ nth[n] = top
                                 /\ \A j \in 1 .. n : from < nth[j]
    BY <1>6, <2>1
  <2>3. top \in Int /\ -1 <= top /\ top < KERNBASE
    BY <1>3, <2>1
  <2>4. y[top] = Base
    <3>1. y[top] \in F /\ (top < y[top] \/ y[top] = Base)
      BY <1>2, <2>1 DEF ListOk
    <3>2. y[top] \in Int /\ y[top] <= top
      BY <1>3, <2>1, <3>1
    <3> QED
      BY <2>3, <3>1, <3>2
  <2> DEFINE k == n + 1
  <2>5. n \in 0 .. Around - 1 /\ k \in 0 .. Around
    BY <1>1, <1>5, <2>2, <2>3
  <2>6. nth[k] = Base
    BY <1>1, <2>2, <2>4, <2>5
  <2>7. n \in Nat /\ k = n + 1
    BY <2>5
  <2> HIDE DEF k
  <2>8. k + (b - Base) <= Around /\ Base <= b
    BY <1>1, <1>5, <1>8, <2>2, <2>3, <2>7 DEF Base
  <2>9. PICK i \in k .. Around : /\ nth[i] = b
                                 /\ \A j \in k + 1 .. i : nth[k] < nth[j] /\ nth[j] <= b
    BY <1>4, <2>5, <2>6, <2>8
  <2>10. i \in 1 .. Around
    BY <1>1, <2>5, <2>7
  <2>11. ASSUME b # from, NEW j \in 1 .. i PROVE nth[j] # from
    <3>0. b < from /\ j \in 0 .. Around
      BY <1>1, <1>5, <1>8, <2>10, <2>11
    <3>1. CASE j \in 1 .. n
      BY <1>1, <1>3, <1>5, <2>2, <3>0, <3>1
    <3>2. CASE j = k
      BY <1>5, <2>6, <3>0, <3>2 DEF Base
    <3>3. CASE j \in k + 1 .. i
      BY <1>1, <1>3, <1>5, <2>9, <3>0, <3>3
    <3> QED
      BY <1>1, <2>7, <3>1, <3>2, <3>3
  <2> QED
    BY <2>9, <2>10, <2>11 DEF nth
<1> QED
  BY <1>5, <1>7, <1>8

\* What the walk finds is the list.
LEMMA WalkIs ==
  ASSUME NEW h, NEW F, ListOk(PtrOf(h), F), NEW from \in F
  PROVE  {Nth(h, from)[n] : n \in 0 .. Around} = F
<1>1. Around \in Nat /\ \A n \in 0 .. Around : Nth(h, from)[n] \in F
  BY NthIn
<1>2. \A b \in F : \E n \in 0 .. Around : Nth(h, from)[n] = b
  BY <1>1, Reach
<1> QED
  BY <1>1, <1>2

\* free() finds where the block belongs.
LEMMA BeforeIs ==
  ASSUME NEW h, NEW F, ListOk(PtrOf(h), F), NEW from \in F,
         NEW bp \in Places, bp \notin F
  PROVE  LET p == Before(h, from, bp) IN
         /\ p \in F /\ p < bp
         /\ bp < PtrOf(h)[p] \/ (PtrOf(h)[p] = Base /\ \A b \in F : b <= p)
<1> DEFINE nth == Nth(h, from)
           y == PtrOf(h)
           between(p) == \/ bp > p /\ bp < h[p].ptr
                         \/ p >= h[p].ptr /\ (bp > p \/ bp < h[p].ptr)
           u == {n \in 0 .. Around : between(nth[n])}
<1>1. Around \in Nat /\ \A n \in 0 .. Around : nth[n] \in F
  BY NthIn
<1>2. {nth[n] : n \in 0 .. Around} = F
  BY WalkIs
<1>3. Before(h, from, bp) = nth[Lowest(u)]
  BY DEF Before
<1>4. \A a \in F : a \in Int /\ -1 <= a /\ y[a] = h[a].ptr /\ y[a] \in F
  <2> SUFFICES ASSUME NEW a \in F PROVE a \in Int /\ -1 <= a /\ y[a] = h[a].ptr /\ y[a] \in F
    OBVIOUS
  <2>1. a \in {Base} \cup (0 .. KERNBASE)
    BY KernbaseIs DEF ListOk, Places
  <2>2. a \in Int /\ -1 <= a
    BY <2>1, KernbaseIs DEF Base
  <2>3. y[a] = h[a].ptr
    BY <2>1 DEF PtrOf
  <2> QED
    BY <2>2, <2>3 DEF ListOk
<1>5. bp \in Nat
  BY KernbaseIs DEF Places
<1>6. PICK q \in F : q < bp /\ \A a \in F : a < bp => a <= q
  <2> DEFINE G == {a \in F : a < bp}
  <2>1. G \in SUBSET ({Base} \cup Places) /\ G # {}
    <3>1. Base < bp
      BY <1>5 DEF Base
    <3>2. Base \in F /\ F \subseteq {Base} \cup Places
      BY DEF ListOk
    <3> QED
      BY <3>1, <3>2
  <2>2. PICK q \in G : \A a \in G : a <= q
    BY <2>1, HighestIs
  <2> QED
    BY <2>2
<1>7. between(q)
  <2>1. y[q] \in F /\ y[q] = h[q].ptr /\ q \in Int /\ y[q] \in Int
    BY <1>4, <1>6
  <2>2. CASE q < y[q]
    <3>1. ~(y[q] < bp) /\ y[q] # bp
      BY <1>6, <2>1, <2>2
    <3> QED
      BY <1>5, <1>6, <2>1, <3>1
  <2>3. CASE y[q] = Base
    BY <1>4, <1>5, <1>6, <2>1, <2>3 DEF Base
  <2> QED
    BY <1>6, <2>2, <2>3 DEF ListOk
<1>8. PICK n \in 0 .. Around : nth[n] = q
  BY <1>2, <1>6
<1> HIDE DEF nth, y
<1>9. u \in SUBSET Nat /\ u # {}
  BY <1>1, <1>7, <1>8
<1>10. Lowest(u) \in u
  BY <1>9, LowestIs
<1> DEFINE p == nth[Lowest(u)]
<1>11. p \in F /\ between(p)
  BY <1>1, <1>10
<1> HIDE DEF p
<1>12. p \in Int /\ -1 <= p /\ y[p] = h[p].ptr /\ y[p] \in F /\ y[p] \in Int /\ -1 <= y[p]
  BY <1>4, <1>11
<1>13. (p < y[p]) \/ (y[p] = Base /\ \A b \in F : b <= p)
  BY <1>11 DEF ListOk, y
<1>14. p < bp
  BY <1>5, <1>11, <1>12, <1>13 DEF Base
<1>15. bp < y[p] \/ (y[p] = Base /\ \A b \in F : b <= p)
  BY <1>5, <1>11, <1>12, <1>13, <1>14
<1>16. Before(h, from, bp) = p
  BY <1>3 DEF p
<1> QED
  BY <1>11, <1>14, <1>15, <1>16 DEF y

-----------------------------------------------------------------------------
(* Changes of the list: a header more, a header less.                      *)
\* A header put between p and the one after it.
LEMMA ListMore ==
  ASSUME NEW y, NEW w, NEW F, ListOk(y, F), NEW p \in F, NEW bp \in Places, bp \notin F,
         p < bp, bp < y[p] \/ (y[p] = Base /\ \A b \in F : b <= p),
         w[p] = bp, w[bp] = y[p], \A a \in F : a # p => w[a] = y[a]
  PROVE  ListOk(w, F \cup {bp})
<1>1. F \subseteq Int /\ bp \in Int
  BY KernbaseIs DEF ListOk, Places, Base
<1>2. ASSUME NEW b \in F PROVE b <= p \/ bp < b
  <2>0. y[p] \in F
    BY DEF ListOk
  <2>1. b \in Int /\ p \in Int /\ y[p] \in Int /\ 0 <= bp
    <3>1. 0 <= bp
      BY KernbaseIs DEF Places
    <3> QED
      BY <1>1, <2>0, <3>1
  <2>2. CASE bp < y[p]
    <3>1. y[p] # Base
      BY <1>1, <2>1, <2>2 DEF Base
    <3>2. b <= p \/ y[p] <= b
      BY <3>1 DEF ListOk
    <3> QED
      BY <1>1, <2>1, <2>2, <3>2
  <2> QED
    BY <2>2
<1> SUFFICES ASSUME NEW a \in F \cup {bp}
             PROVE  /\ w[a] \in F \cup {bp}
                    /\ \/ a < w[a] /\ \A b \in F \cup {bp} : b <= a \/ w[a] <= b
                       \/ w[a] = Base /\ \A b \in F \cup {bp} : b <= a
  BY DEF ListOk
<1>3. CASE a = bp
  BY <1>1, <1>2, <1>3 DEF ListOk
<1>4. CASE a = p
  BY <1>1, <1>2, <1>4
<1>5. CASE a \in F /\ a # p
  <2>1. w[a] = y[a] /\ y[a] \in F /\ a \in Int /\ y[a] \in Int
    BY <1>1, <1>5 DEF ListOk
  <2>2. CASE a < y[a] /\ \A b \in F : b <= a \/ y[a] <= b
    <3>1. bp <= a \/ y[a] <= bp
      <4>1. p <= a \/ y[a] <= p
        BY <2>2
      <4>2. a <= p \/ bp < a
        BY <1>2, <1>5
      <4>3. p \in Int
        BY <1>1
      <4> QED
        BY <1>1, <1>5, <2>1, <4>1, <4>2, <4>3
    <3> QED
      BY <2>1, <2>2, <3>1
  <2>3. CASE y[a] = Base /\ \A b \in F : b <= a
    <3>1. p < a /\ p \in Int
      BY <1>1, <1>5, <2>1, <2>3
    <3>2. bp < a
      BY <1>1, <1>2, <1>5, <2>1, <3>1
    <3> QED
      BY <1>1, <2>1, <2>3, <3>2
  <2> QED
    BY <1>5, <2>2, <2>3 DEF ListOk
<1> QED
  BY <1>3, <1>4, <1>5

\* The header after r taken out.
LEMMA ListLess ==
  ASSUME NEW y, NEW w, NEW F, ListOk(y, F), NEW r \in F, NEW q \in F, q # Base, y[r] = q,
         w[r] = y[q], \A a \in F : a # r /\ a # q => w[a] = y[a]
  PROVE  ListOk(w, F \ {q}) /\ r # q
<1>1. F \subseteq Int
  BY KernbaseIs DEF ListOk, Places, Base
<1>2. r < q /\ \A b \in F : b <= r \/ q <= b
  BY DEF ListOk
<1>3. r \in Int /\ q \in Int /\ r # q
  BY <1>1, <1>2
<1> SUFFICES ASSUME NEW a \in F \ {q}
             PROVE  /\ w[a] \in F \ {q}
                    /\ \/ a < w[a] /\ \A b \in F \ {q} : b <= a \/ w[a] <= b
                       \/ w[a] = Base /\ \A b \in F \ {q} : b <= a
  BY <1>3 DEF ListOk
<1>4. CASE a = r
  <2>0. w[a] = y[q] /\ y[q] \in F /\ y[q] \in Int
    BY <1>1, <1>4 DEF ListOk
  <2>1. CASE q < y[q] /\ \A b \in F : b <= q \/ y[q] <= b
    <3>1. y[q] # q /\ r < y[q]
      BY <1>2, <1>3, <2>0, <2>1
    <3>2. ASSUME NEW b \in F, b # q PROVE b <= r \/ y[q] <= b
      <4>1. b \in Int /\ (b <= q \/ y[q] <= b) /\ (b <= r \/ q <= b)
        BY <1>1, <1>2, <2>1
      <4> QED
        BY <1>3, <2>0, <3>2, <4>1
    <3> QED
      BY <1>4, <2>0, <3>1, <3>2
  <2>2. CASE y[q] = Base /\ \A b \in F : b <= q
    <3>1. ASSUME NEW b \in F, b # q PROVE b <= r
      <4>1. b \in Int /\ b <= q /\ (b <= r \/ q <= b)
        BY <1>1, <1>2, <2>2
      <4> QED
        BY <1>3, <3>1, <4>1
    <3> QED
      BY <1>4, <2>0, <2>2, <3>1
  <2> QED
    BY <2>1, <2>2 DEF ListOk
<1>5. CASE a # r
  <2>1. w[a] = y[a] /\ y[a] \in F /\ a \in Int /\ y[a] \in Int
    BY <1>1, <1>5 DEF ListOk
  <2>2. y[a] # q
    <3> SUFFICES ASSUME y[a] = q PROVE FALSE
      OBVIOUS
    <3>1. a < q /\ (r <= a \/ q <= r) /\ (a <= r \/ q <= a)
      BY <1>2 DEF ListOk
    <3> QED
      BY <1>2, <1>3, <1>5, <2>1, <3>1
  <2> QED
    BY <2>1, <2>2 DEF ListOk
<1> QED
  BY <1>4, <1>5

-----------------------------------------------------------------------------
(* The blocks that start at S, of sizes z, cover C once.                   *)
Tiled(z, S, C) ==
  /\ \A a \in S : a \in Nat /\ z[a] \in Nat \ {0}
  /\ \A a \in S : \A x \in Int : a <= x /\ x < a + z[a] => x \in C
  /\ \A x \in C : x \in Int /\ \E a \in S : a <= x /\ x < a + z[a]
  /\ \A a, b \in S : a < b => a + z[a] <= b

\* Only the sizes of the blocks matter.
LEMMA TileSame ==
  ASSUME NEW z, NEW w, NEW S, NEW C, Tiled(z, S, C), \A a \in S : w[a] = z[a]
  PROVE  Tiled(w, S, C)
  BY DEF Tiled

\* Neighbours are joined.
LEMMA TileJoin ==
  ASSUME NEW z, NEW w, NEW S, NEW C, Tiled(z, S, C), NEW a \in S, NEW b \in S,
         a + z[a] = b, w[a] = z[a] + z[b], \A c \in S : c # a /\ c # b => w[c] = z[c]
  PROVE  Tiled(w, S \ {b}, C)
<1> DEFINE R == S \ {b}
<1>1. /\ a \in Nat /\ b \in Nat /\ z[a] \in Nat \ {0} /\ z[b] \in Nat \ {0}
      /\ a < b /\ w[a] \in Nat \ {0} /\ a + w[a] = b + z[b]
  BY DEF Tiled
<1>2. \A c \in R : c \in Nat /\ w[c] \in Nat \ {0}
  BY <1>1 DEF Tiled
<1>3. ASSUME NEW c \in R, NEW x \in Int, c <= x, x < c + w[c] PROVE x \in C
  <2>1. CASE c # a
    BY <1>3, <2>1 DEF Tiled
  <2>2. CASE c = a /\ x < b
    BY <1>3, <2>2 DEF Tiled
  <2>3. CASE c = a /\ b <= x
    <3>1. x < b + z[b]
      BY <1>1, <1>3, <2>3
    <3> QED
      BY <2>3, <3>1 DEF Tiled
  <2> QED
    BY <1>1, <2>1, <2>2, <2>3
<1>4. ASSUME NEW x \in C PROVE x \in Int /\ \E c \in R : c <= x /\ x < c + w[c]
  <2>1. PICK c \in S : c <= x /\ x < c + z[c]
    BY DEF Tiled
  <2>2. x \in Int
    BY DEF Tiled
  <2>3. CASE c # a /\ c # b
    BY <2>1, <2>2, <2>3
  <2>4. CASE c = a \/ c = b
    <3>1. a <= x /\ x < a + w[a]
      BY <1>1, <2>1, <2>2, <2>4
    <3>2. a \in R
      BY <1>1
    <3> QED
      BY <2>2, <3>1, <3>2
  <2> QED
    BY <2>3, <2>4
<1>5. ASSUME NEW c \in R, NEW d \in R, c < d PROVE c + w[c] <= d
  <2>1. c \in Nat /\ d \in Nat /\ c + z[c] <= d /\ z[c] \in Nat
    BY <1>5 DEF Tiled
  <2>2. CASE c # a
    BY <2>1, <2>2
  <2>3. CASE c = a
    <3>1. b <= d /\ d # b
      BY <2>1, <2>3
    <3>2. b + z[b] <= d
      BY <1>1, <2>1, <3>1 DEF Tiled
    <3> QED
      BY <1>1, <2>3, <3>2
  <2> QED
    BY <2>2, <2>3
<1> QED
  BY <1>2, <1>3, <1>4, <1>5 DEF Tiled

\* A block is cut in two.
LEMMA TileCut ==
  ASSUME NEW z, NEW w, NEW S, NEW C, Tiled(z, S, C), NEW a \in S, NEW k \in Nat \ {0},
         k < z[a], w[a] = k, w[a + k] = z[a] - k, \A c \in S : c # a => w[c] = z[c]
  PROVE  Tiled(w, S \cup {a + k}, C) /\ a + k \notin S
<1> DEFINE b == a + k
           R == S \cup {b}
<1>1. /\ a \in Nat /\ z[a] \in Nat \ {0} /\ w[b] \in Nat \ {0}
      /\ b \in Nat /\ a < b /\ a + w[a] = b /\ b + w[b] = a + z[a]
  BY DEF Tiled
<1>2. b \notin S
  <2> SUFFICES ASSUME b \in S PROVE FALSE
    OBVIOUS
  <2>1. a + z[a] <= b
    BY <1>1 DEF Tiled
  <2> QED
    BY <1>1, <2>1
<1> HIDE DEF b
<1>3. \A c \in R : c \in Nat /\ w[c] \in Nat \ {0}
  BY <1>1 DEF Tiled
<1>4. ASSUME NEW c \in R, NEW x \in Int, c <= x, x < c + w[c] PROVE x \in C
  <2>1. CASE c # a /\ c # b
    BY <1>4, <2>1 DEF Tiled
  <2>2. CASE c = a \/ c = b
    <3>1. a <= x /\ x < a + z[a]
      BY <1>1, <1>4, <2>2
    <3> QED
      BY <3>1 DEF Tiled
  <2> QED
    BY <2>1, <2>2
<1>5. ASSUME NEW x \in C PROVE x \in Int /\ \E c \in R : c <= x /\ x < c + w[c]
  <2>1. PICK c \in S : c <= x /\ x < c + z[c]
    BY DEF Tiled
  <2>2. x \in Int
    BY DEF Tiled
  <2>3. CASE c # a
    BY <2>1, <2>2, <2>3
  <2>4. CASE c = a /\ x < b
    BY <1>1, <2>1, <2>2, <2>4
  <2>5. CASE c = a /\ b <= x
    BY <1>1, <2>1, <2>2, <2>5
  <2> QED
    BY <1>1, <2>2, <2>3, <2>4, <2>5
<1>6. ASSUME NEW c \in R, NEW d \in R, c < d PROVE c + w[c] <= d
  <2>1. c \in Nat /\ d \in Nat /\ w[c] \in Nat
    BY <1>3
  <2>2. CASE c # a /\ c # b /\ d # b
    BY <1>6, <2>2 DEF Tiled
  <2>3. CASE c # a /\ c # b /\ d = b
    <3>1. c \in S /\ w[c] = z[c] /\ (c < a => c + z[c] <= a) /\ (a < c => a + z[a] <= c)
      BY <2>3 DEF Tiled
    <3> QED
      BY <1>1, <1>6, <2>1, <2>3, <3>1
  <2>4. CASE c = a /\ d = b
    BY <1>1, <2>1, <2>4
  <2>5. CASE (c = a \/ c = b) /\ d # b
    <3>1. d \in S /\ a < d
      BY <1>1, <1>6, <2>1, <2>5
    <3>2. a + z[a] <= d
      BY <3>1 DEF Tiled
    <3> QED
      BY <1>1, <2>1, <2>5, <3>2
  <2> QED
    BY <1>6, <2>1, <2>2, <2>3, <2>4, <2>5
<1> QED
  BY <1>2, <1>3, <1>4, <1>5, <1>6 DEF Tiled, b

-----------------------------------------------------------------------------
(* The heap: the list F and the blocks in use L cover C, and no two free   *)
(* blocks touch.                                                           *)
Headers == [{Base} \cup (0 .. KERNBASE) -> [ptr : Int, size : Nat]]

HeapOk(h, L, C, F) ==
  /\ h \in Headers
  /\ ListOk(PtrOf(h), F)
  /\ L \subseteq Places /\ F \cap L = {} /\ C \subseteq Places
  /\ Tiled(SizeOf(h), (F \ {Base}) \cup L, C)
  /\ h[Base].size = 0
  /\ \A a \in F : a # Base => a + h[a].size # h[a].ptr

\* What the heap says of single headers.
LEMMA HeapParts ==
  ASSUME NEW h, NEW L, NEW C, NEW F, HeapOk(h, L, C, F)
  PROVE  /\ Base = -1 /\ Base \in F
         /\ \A a \in {Base} \cup (0 .. KERNBASE) : /\ PtrOf(h)[a] = h[a].ptr /\ h[a].ptr \in Int
                                                   /\ SizeOf(h)[a] = h[a].size /\ h[a].size \in Nat
         /\ \A a \in F \cup L : a \in {Base} \cup (0 .. KERNBASE)
         /\ \A a \in F : a = Base \/ a \in Places
         /\ \A a \in F : h[a].ptr \in F
         /\ \A a \in Places : a \in Nat /\ a # Base
<1>1. Base = -1 /\ Base \in F /\ F \subseteq {Base} \cup Places /\ L \subseteq Places
  BY DEF HeapOk, ListOk, Base
<1>2. Places \subseteq 0 .. KERNBASE /\ \A a \in Places : a \in Nat /\ a # Base
  BY <1>1, KernbaseIs DEF Places
<1>3. \A a \in {Base} \cup (0 .. KERNBASE) : /\ PtrOf(h)[a] = h[a].ptr /\ h[a].ptr \in Int
                                             /\ SizeOf(h)[a] = h[a].size /\ h[a].size \in Nat
  BY DEF HeapOk, Headers, PtrOf, SizeOf
<1>4. \A a \in F \cup L : a \in {Base} \cup (0 .. KERNBASE)
  BY <1>1, <1>2
<1>5. ASSUME NEW a \in F PROVE h[a].ptr \in F
  BY <1>3, <1>4 DEF HeapOk, ListOk
<1> QED
  BY <1>1, <1>2, <1>3, <1>4, <1>5

\* free(): the block is in the list, or part of a block of the list.
LEMMA InsertOk ==
  ASSUME NEW h, NEW L, NEW C, NEW F, HeapOk(h, L, C, F), NEW bp \in L, NEW p \in F, p < bp,
         bp < PtrOf(h)[p] \/ (PtrOf(h)[p] = Base /\ \A b \in F : b <= p)
  PROVE  \E G : /\ HeapOk(Insert(h, p, bp), L \ {bp}, C, G)
                /\ p \in G
                /\ \E a \in G : Insert(h, p, bp)[a].size >= h[bp].size
<1> DEFINE g == Insert(h, p, bp)
           up == h[p].ptr
           y == PtrOf(h)
           z == SizeOf(h)
           S == (F \ {Base}) \cup L
           D == {Base} \cup (0 .. KERNBASE)
           M == L \ {bp}
<1>0. /\ Base = -1 /\ Base \in F
      /\ \A a \in D : y[a] = h[a].ptr /\ h[a].ptr \in Int /\ z[a] = h[a].size /\ h[a].size \in Nat
      /\ \A a \in F \cup L : a \in D
      /\ \A a \in F : a = Base \/ a \in Places
      /\ \A a \in F : h[a].ptr \in F
      /\ \A a \in Places : a \in Nat /\ a # Base
  BY HeapParts
<1>1. /\ h \in Headers /\ ListOk(y, F) /\ L \subseteq Places /\ F \cap L = {} /\ C \subseteq Places
      /\ Tiled(z, S, C) /\ h[Base].size = 0
      /\ \A a \in F : a # Base => a + h[a].size # h[a].ptr
  BY DEF HeapOk
<1>2. bp \in Places /\ bp \notin F /\ bp \in Nat /\ bp # Base /\ bp # p /\ bp \in D /\ p \in D
  BY <1>0, <1>1
<1>3. up \in F /\ up \in D /\ up \in Int /\ up = y[p] /\ up # bp
  BY <1>0, <1>2
<1>4. p # Base => p \in Nat
  BY <1>0
<1>5. bp \in S /\ (p # Base => p \in S) /\ (up # Base => up \in S)
  BY <1>2, <1>3
<1>6. h[bp].size \in Nat \ {0} /\ h[p].size \in Nat /\ h[up].size \in Nat
  <2>1. z[bp] \in Nat \ {0}
    BY <1>1, <1>5 DEF Tiled
  <2> QED
    BY <1>0, <1>2, <1>3, <2>1
<1>7. g = Insert(h, p, bp) /\ up = h[p].ptr
  OBVIOUS
<1>8. bp + h[bp].size = up => up # Base /\ up # p
  <2>1. p \in Int
    BY <1>0, <1>4
  <2> QED
    BY <1>0, <1>2, <1>3, <1>6, <2>1
<1>9. p + h[p].size = bp => p # Base
  BY <1>0, <1>1, <1>2
<1>10. h \in [D -> [ptr : Int, size : Nat]]
  BY <1>1 DEF Headers
<1>11. bp < y[p] \/ (y[p] = Base /\ \A b \in F : b <= p)
  OBVIOUS
<1> HIDE DEF g, up, y, z, S
<1>12. CASE bp + h[bp].size # up /\ p + h[p].size # bp
  <2>1. g = [h EXCEPT ![bp] = [ptr |-> up, size |-> h[bp].size], ![p].ptr = bp]
    BY <1>7, <1>12 DEF Insert, up
  <2>2. /\ g \in [D -> [ptr : Int, size : Nat]]
        /\ g[bp].ptr = up /\ g[bp].size = h[bp].size
        /\ g[p].ptr = bp /\ g[p].size = h[p].size
        /\ \A a \in D : a # p /\ a # bp => g[a] = h[a]
    BY <1>2, <1>3, <1>6, <1>10, <2>1
  <2>3. \A a \in D : PtrOf(g)[a] = g[a].ptr /\ SizeOf(g)[a] = g[a].size
    BY DEF PtrOf, SizeOf
  <2>4. g \in Headers /\ M \subseteq Places /\ g[Base].size = 0 /\ C \subseteq Places
    BY <1>0, <1>1, <1>2, <1>9, <2>2 DEF Headers
  <2> DEFINE G == F \cup {bp}
  <2>5. ListOk(PtrOf(g), G)
    <3>1. /\ PtrOf(g)[p] = bp /\ PtrOf(g)[bp] = y[p]
          /\ \A a \in F : a # p => PtrOf(g)[a] = y[a]
      BY <1>0, <1>2, <1>3, <2>2, <2>3
    <3> QED
      BY <1>1, <1>2, <1>11, <3>1, ListMore
  <2>6. Tiled(SizeOf(g), S, C)
    <3>1. \A a \in S : SizeOf(g)[a] = z[a]
      BY <1>0, <1>2, <2>2, <2>3 DEF S
    <3> QED
      BY <1>1, <3>1, TileSame
  <2>7. (G \ {Base}) \cup M = S /\ G \cap M = {}
    BY <1>1, <1>2 DEF S
  <2>8. \A a \in G : a # Base => a + g[a].size # g[a].ptr
    BY <1>0, <1>1, <1>2, <1>12, <2>2
  <2>9. HeapOk(g, M, C, G)
    BY <2>4, <2>5, <2>6, <2>7, <2>8 DEF HeapOk
  <2>10. p \in G /\ bp \in G /\ g[bp].size >= h[bp].size
    BY <1>6, <2>2
  <2> QED
    BY <2>9, <2>10 DEF g
<1>13. CASE bp + h[bp].size = up /\ p + h[p].size # bp
  <2>1. g = [h EXCEPT ![bp] = [ptr |-> h[up].ptr, size |-> h[bp].size + h[up].size], ![p].ptr = bp]
    BY <1>7, <1>13 DEF Insert, up
  <2>2. /\ g \in [D -> [ptr : Int, size : Nat]]
        /\ g[bp].ptr = h[up].ptr /\ g[bp].size = h[bp].size + h[up].size
        /\ g[p].ptr = bp /\ g[p].size = h[p].size
        /\ \A a \in D : a # p /\ a # bp => g[a] = h[a]
    BY <1>0, <1>2, <1>3, <1>6, <1>10, <2>1
  <2>3. \A a \in D : PtrOf(g)[a] = g[a].ptr /\ SizeOf(g)[a] = g[a].size
    BY DEF PtrOf, SizeOf
  <2>4. g \in Headers /\ M \subseteq Places /\ g[Base].size = 0 /\ C \subseteq Places
    BY <1>0, <1>1, <1>2, <1>9, <2>2 DEF Headers
  <2> DEFINE y1 == [y EXCEPT ![p] = bp, ![bp] = up]
             G == (F \cup {bp}) \ {up}
  <2>5. ListOk(PtrOf(g), G)
    <3>1. /\ y1[p] = bp /\ y1[bp] = up /\ \A a \in F : a # p => y1[a] = y[a]
      BY <1>0, <1>2 DEF y, PtrOf
    <3> HIDE DEF y1
    <3>2. ListOk(y1, F \cup {bp})
      <4>1. y1[bp] = y[p] /\ y1[p] = bp /\ \A a \in F : a # p => y1[a] = y[a]
        BY <1>3, <3>1
      <4> QED
        BY <1>1, <1>2, <1>11, <4>1, ListMore
    <3>3. PtrOf(g)[bp] = y1[up] /\ \A a \in F \cup {bp} : a # bp /\ a # up => PtrOf(g)[a] = y1[a]
      BY <1>0, <1>2, <1>3, <1>8, <1>13, <2>2, <2>3, <3>1
    <3>4. up # Base /\ up \in F \cup {bp} /\ bp \in F \cup {bp} /\ y1[bp] = up
      BY <1>3, <1>8, <1>13, <3>1
    <3> QED
      BY <3>2, <3>3, <3>4, ListLess
  <2>6. Tiled(SizeOf(g), S \ {up}, C)
    <3>1. up \in S /\ bp \in S /\ bp + z[bp] = up
      BY <1>0, <1>2, <1>5, <1>8, <1>13
    <3>2. SizeOf(g)[bp] = z[bp] + z[up] /\ \A a \in S : a # bp /\ a # up => SizeOf(g)[a] = z[a]
      BY <1>0, <1>2, <1>3, <2>2, <2>3 DEF S
    <3> QED
      BY <1>1, <3>1, <3>2, TileJoin
  <2>7. (G \ {Base}) \cup M = S \ {up} /\ G \cap M = {}
    BY <1>1, <1>2, <1>3 DEF S
  <2>8. ASSUME NEW a \in G, a # Base PROVE a + g[a].size # g[a].ptr
    <3>1. CASE a = bp
      <4>1. up + h[up].size # h[up].ptr /\ bp + (h[bp].size + h[up].size) = up + h[up].size
        BY <1>1, <1>2, <1>3, <1>6, <1>8, <1>13
      <4> QED
        BY <2>2, <3>1, <4>1
    <3>2. CASE a # bp
      BY <1>0, <1>1, <1>2, <1>13, <2>2, <2>8, <3>2
    <3> QED
      BY <3>1, <3>2
  <2>9. HeapOk(g, M, C, G)
    BY <2>4, <2>5, <2>6, <2>7, <2>8 DEF HeapOk
  <2>10. p \in G /\ bp \in G /\ g[bp].size >= h[bp].size
    BY <1>2, <1>3, <1>6, <1>8, <1>13, <2>2
  <2> QED
    BY <2>9, <2>10 DEF g
<1>14. CASE bp + h[bp].size # up /\ p + h[p].size = bp
  <2>1. g = [h EXCEPT ![bp] = [ptr |-> up, size |-> h[bp].size],
                      ![p] = [ptr |-> up, size |-> h[p].size + h[bp].size]]
    BY <1>2, <1>7, <1>14 DEF Insert, up
  <2>2. /\ g \in [D -> [ptr : Int, size : Nat]]
        /\ g[p].ptr = up /\ g[p].size = h[p].size + h[bp].size
        /\ \A a \in D : a # p /\ a # bp => g[a] = h[a]
    BY <1>2, <1>3, <1>6, <1>10, <2>1
  <2>3. \A a \in D : PtrOf(g)[a] = g[a].ptr /\ SizeOf(g)[a] = g[a].size
    BY DEF PtrOf, SizeOf
  <2>4. g \in Headers /\ M \subseteq Places /\ g[Base].size = 0 /\ C \subseteq Places
    BY <1>0, <1>1, <1>2, <1>9, <1>14, <2>2 DEF Headers
  <2>5. ListOk(PtrOf(g), F)
    <3>1. \A a \in F : PtrOf(g)[a] = y[a]
      BY <1>0, <1>2, <1>3, <2>2, <2>3
    <3> QED
      BY <1>1, <3>1 DEF ListOk
  <2>6. Tiled(SizeOf(g), S \ {bp}, C)
    <3>1. p \in S /\ bp \in S /\ p + z[p] = bp
      BY <1>0, <1>2, <1>5, <1>9, <1>14
    <3>2. SizeOf(g)[p] = z[p] + z[bp] /\ \A a \in S : a # p /\ a # bp => SizeOf(g)[a] = z[a]
      BY <1>0, <1>2, <2>2, <2>3 DEF S
    <3> QED
      BY <1>1, <3>1, <3>2, TileJoin
  <2>7. (F \ {Base}) \cup M = S \ {bp} /\ F \cap M = {}
    BY <1>1, <1>2 DEF S
  <2>8. ASSUME NEW a \in F, a # Base PROVE a + g[a].size # g[a].ptr
    <3>1. CASE a = p
      <4>1. p + (h[p].size + h[bp].size) = bp + h[bp].size
        BY <1>2, <1>4, <1>6, <1>9, <1>14
      <4> QED
        BY <1>14, <2>2, <3>1, <4>1
    <3>2. CASE a # p
      BY <1>0, <1>1, <1>2, <2>2, <2>8, <3>2
    <3> QED
      BY <3>1, <3>2
  <2>9. HeapOk(g, M, C, F)
    BY <2>4, <2>5, <2>6, <2>7, <2>8 DEF HeapOk
  <2>10. p \in F /\ g[p].size >= h[bp].size
    BY <1>6, <2>2
  <2> QED
    BY <2>9, <2>10 DEF g
<1>15. CASE bp + h[bp].size = up /\ p + h[p].size = bp
  <2>1. g = [h EXCEPT ![bp] = [ptr |-> h[up].ptr, size |-> h[bp].size + h[up].size],
                      ![p] = [ptr |-> h[up].ptr, size |-> h[p].size + (h[bp].size + h[up].size)]]
    BY <1>2, <1>7, <1>15 DEF Insert, up
  <2>2. /\ g \in [D -> [ptr : Int, size : Nat]]
        /\ g[p].ptr = h[up].ptr /\ g[p].size = h[p].size + (h[bp].size + h[up].size)
        /\ \A a \in D : a # p /\ a # bp => g[a] = h[a]
    BY <1>0, <1>2, <1>3, <1>6, <1>10, <2>1
  <2>3. \A a \in D : PtrOf(g)[a] = g[a].ptr /\ SizeOf(g)[a] = g[a].size
    BY DEF PtrOf, SizeOf
  <2>4. g \in Headers /\ M \subseteq Places /\ g[Base].size = 0 /\ C \subseteq Places
    BY <1>0, <1>1, <1>2, <1>9, <1>15, <2>2 DEF Headers
  <2> DEFINE z1 == [z EXCEPT ![bp] = z[bp] + z[up]]
             G == F \ {up}
  <2>5. ListOk(PtrOf(g), G)
    <3>1. PtrOf(g)[p] = y[up] /\ \A a \in F : a # p /\ a # up => PtrOf(g)[a] = y[a]
      BY <1>0, <1>2, <1>3, <2>2, <2>3
    <3> QED
      <4>1. up \in F /\ up # Base /\ y[p] = up
        BY <1>3, <1>8, <1>15
      <4> QED
        BY <1>1, <3>1, <4>1, ListLess
  <2>6. Tiled(SizeOf(g), (S \ {up}) \ {bp}, C)
    <3>0. up \in S /\ bp \in S /\ p \in S /\ bp + z[bp] = up /\ p + z[p] = bp /\ p # up
      BY <1>0, <1>2, <1>5, <1>8, <1>9, <1>15
    <3>1. z1[bp] = z[bp] + z[up] /\ \A a \in S : a # bp => z1[a] = z[a]
      BY <1>0, <1>2 DEF z, SizeOf, S
    <3> HIDE DEF z1
    <3>2. Tiled(z1, S \ {up}, C)
      BY <1>1, <3>0, <3>1, TileJoin
    <3>3. p \in S \ {up} /\ bp \in S \ {up} /\ p + z1[p] = bp
      BY <1>2, <1>3, <3>0, <3>1
    <3>4. SizeOf(g)[p] = z1[p] + z1[bp]
          /\ \A a \in S \ {up} : a # p /\ a # bp => SizeOf(g)[a] = z1[a]
      BY <1>0, <1>2, <1>3, <2>2, <2>3, <3>0, <3>1 DEF S
    <3> QED
      BY <3>2, <3>3, <3>4, TileJoin
  <2>7. (G \ {Base}) \cup M = (S \ {up}) \ {bp} /\ G \cap M = {}
    BY <1>1, <1>2, <1>3 DEF S
  <2>8. ASSUME NEW a \in G, a # Base PROVE a + g[a].size # g[a].ptr
    <3>1. CASE a = p
      <4>1. p + (h[p].size + (h[bp].size + h[up].size)) = up + h[up].size
        BY <1>2, <1>3, <1>4, <1>6, <1>9, <1>15
      <4>2. up + h[up].size # h[up].ptr
        BY <1>1, <1>3, <1>8, <1>15
      <4> QED
        BY <2>2, <3>1, <4>1, <4>2
    <3>2. CASE a # p
      BY <1>0, <1>1, <1>2, <2>2, <2>8, <3>2
    <3> QED
      BY <3>1, <3>2
  <2>9. HeapOk(g, M, C, G)
    BY <2>4, <2>5, <2>6, <2>7, <2>8 DEF HeapOk
  <2>10. p \in G /\ g[p].size >= h[bp].size
    BY <1>6, <1>8, <1>15, <2>2
  <2> QED
    BY <2>9, <2>10 DEF g
<1> QED
  BY <1>12, <1>13, <1>14, <1>15 DEF g

\* morecore(): what sbrk() returned is a block above the others.
LEMMA CoreOk ==
  ASSUME NEW h, NEW L, NEW C, NEW F, HeapOk(h, L, C, F), NEW new \in Nat, NEW nu \in Nat \ {0},
         \A x \in C : x < new, new + nu <= KERNBASE,
         NEW g, g = [h EXCEPT ![new].size = nu],
         NEW E, E = C \cup (new .. new + nu - 1)
  PROVE  HeapOk(g, L \cup {new}, E, F)
<1> DEFINE S == (F \ {Base}) \cup L
           D == {Base} \cup (0 .. KERNBASE)
           z == SizeOf(h)
<1>0. /\ Base = -1 /\ Base \in F
      /\ \A a \in D : PtrOf(h)[a] = h[a].ptr /\ z[a] = h[a].size
      /\ \A a \in F \cup L : a \in D
  BY HeapParts
<1>1. new \in Places /\ new \in D /\ new # Base
  BY <1>0, KernbaseIs DEF Places
<1>2. h \in [D -> [ptr : Int, size : Nat]] /\ ListOk(PtrOf(h), F) /\ Tiled(z, S, C)
      /\ L \subseteq Places /\ F \cap L = {} /\ C \subseteq Places /\ h[Base].size = 0
      /\ \A a \in F : a # Base => a + h[a].size # h[a].ptr
  BY DEF HeapOk, Headers
<1>3. /\ g \in [D -> [ptr : Int, size : Nat]]
      /\ \A a \in D : g[a].ptr = h[a].ptr
      /\ g[new].size = nu /\ \A a \in D : a # new => g[a] = h[a]
  BY <1>1, <1>2
<1> HIDE DEF z
<1>4. \A a \in D : PtrOf(g)[a] = g[a].ptr /\ SizeOf(g)[a] = g[a].size
  BY DEF PtrOf, SizeOf
<1>5. SizeOf(g)[new] = nu /\ \A a \in S : a # new => SizeOf(g)[a] = z[a]
  BY <1>0, <1>1, <1>3, <1>4
<1> HIDE DEF S
<1> DEFINE w == SizeOf(g)
<1>6. Tiled(z, S, C) /\ w[new] = nu /\ \A a \in S : a # new => w[a] = z[a]
  BY <1>2, <1>5
<1>7. Tiled(w, S \cup {new}, E) /\ new \notin S
  <2> HIDE DEF w
  <2>1. ASSUME NEW c \in S PROVE c \in Nat /\ z[c] \in Nat \ {0} /\ c + z[c] <= new
    <3>1. c \in Nat /\ z[c] \in Nat \ {0}
      BY <1>6 DEF Tiled
    <3>2. c + z[c] - 1 \in C
      <4>1. c + z[c] - 1 \in Int /\ c <= c + z[c] - 1 /\ c + z[c] - 1 < c + z[c]
        BY <3>1
      <4> QED
        BY <1>6, <4>1 DEF Tiled
    <3>3. c + z[c] - 1 < new
      BY <3>1, <3>2
    <3> QED
      BY <3>1, <3>3
  <2>2. new \notin S
    BY <2>1
  <2>3. \A c \in S : w[c] = z[c]
    BY <1>6, <2>2
  <2>4. \A c \in S \cup {new} : c \in Nat /\ w[c] \in Nat \ {0}
    BY <1>6, <2>1, <2>3
  <2>5. ASSUME NEW c \in S \cup {new}, NEW x \in Int, c <= x, x < c + w[c]
        PROVE  x \in E
    <3>1. CASE c = new
      BY <1>6, <2>5, <3>1
    <3>2. CASE c \in S
      BY <1>6, <2>3, <2>5, <3>2 DEF Tiled
    <3> QED
      BY <3>1, <3>2
  <2>6. ASSUME NEW x \in E
        PROVE  x \in Int /\ \E c \in S \cup {new} : c <= x /\ x < c + w[c]
    <3>1. CASE x \in C
      BY <1>6, <2>3, <3>1 DEF Tiled
    <3>2. CASE x \in new .. new + nu - 1
      BY <1>6, <3>2
    <3> QED
      BY <3>1, <3>2
  <2>7. ASSUME NEW c \in S \cup {new}, NEW d \in S \cup {new}, c < d PROVE c + w[c] <= d
    <3>1. c # new
      BY <2>1, <2>7
    <3>2. CASE d = new
      BY <2>1, <2>3, <3>1, <3>2
    <3>3. CASE d # new
      BY <1>6, <2>3, <2>7, <3>1, <3>3 DEF Tiled
    <3> QED
      BY <3>2, <3>3
  <2> QED
    BY <2>2, <2>4, <2>5, <2>6, <2>7 DEF Tiled
<1>8. ListOk(PtrOf(g), F)
  <2>1. \A a \in F : PtrOf(g)[a] = PtrOf(h)[a]
    BY <1>0, <1>3, <1>4
  <2> QED
    BY <1>2, <2>1 DEF ListOk
<1>9. \A a \in F : a # Base => a + g[a].size # g[a].ptr
  BY <1>0, <1>2, <1>3, <1>7 DEF S
<1>10. (F \ {Base}) \cup (L \cup {new}) = S \cup {new} /\ F \cap (L \cup {new}) = {}
  BY <1>1, <1>2, <1>7 DEF S
<1>11. g \in Headers /\ g[Base].size = 0 /\ L \cup {new} \subseteq Places
  BY <1>0, <1>1, <1>2, <1>3 DEF Headers
<1>12. E \subseteq Places
  BY <1>2, KernbaseIs DEF Places
<1>13. HeapOk(g, L \cup {new}, E, F)
  BY <1>7, <1>8, <1>9, <1>10, <1>11, <1>12 DEF HeapOk
<1> QED
  BY <1>13

\* The search of malloc() finds a block when there is one.
LEMMA FittingIs ==
  ASSUME NEW h, NEW L, NEW C, NEW F, HeapOk(h, L, C, F), NEW from \in F, NEW nunits
  PROVE  /\ \A n \in Fitting(h, from, nunits) : n \in 1 .. Around /\ h[Nth(h, from)[n]].size >= nunits
         /\ \A a \in F : h[a].size >= nunits => Fitting(h, from, nunits) # {}
<1> DEFINE nth == Nth(h, from)
           u == {n \in 1 .. Around : nth[n] = from}
           round == Lowest(u)
<1>1. ListOk(PtrOf(h), F)
  BY DEF HeapOk
<1>2. Around \in Nat
  BY <1>1, NthIn
<1>3. \A b \in F : \E n \in 1 .. Around : nth[n] = b /\ (b # from => \A j \in 1 .. n : nth[j] # from)
  BY <1>1, Reach
<1>4. Fitting(h, from, nunits) = {n \in 1 .. round : h[nth[n]].size >= nunits}
  BY DEF Fitting
<1> HIDE DEF nth
<1>5. u \in SUBSET Nat /\ u # {}
  BY <1>2, <1>3
<1>6. round \in u
  BY <1>5, LowestIs
<1> HIDE DEF round
<1>7. round \in 1 .. Around /\ nth[round] = from
  BY <1>6
<1>8. \A n \in Fitting(h, from, nunits) : n \in 1 .. Around /\ h[nth[n]].size >= nunits
  BY <1>2, <1>4, <1>7
<1>9. ASSUME NEW a \in F, h[a].size >= nunits PROVE Fitting(h, from, nunits) # {}
  <2>1. CASE a = from
    <3>1. round \in 1 .. round
      BY <1>2, <1>7
    <3> QED
      BY <1>4, <1>7, <1>9, <2>1, <3>1
  <2>2. CASE a # from
    <3>1. PICK n \in 1 .. Around : nth[n] = a /\ \A j \in 1 .. n : nth[j] # from
      BY <1>3, <2>2
    <3>2. ~(round <= n)
      BY <1>2, <1>7, <3>1
    <3>3. n \in 1 .. round
      BY <1>2, <1>7, <3>2
    <3> QED
      BY <1>4, <1>9, <3>1, <3>3
  <2> QED
    BY <2>1, <2>2
<1> QED
  BY <1>8, <1>9 DEF nth

\* What malloc() hands out is a block of its own.
LEMMA CarveOk ==
  ASSUME NEW h, NEW L, NEW C, NEW F, HeapOk(h, L, C, F), NEW from \in F, NEW nunits \in Nat \ {0},
         Fitting(h, from, nunits) # {}
  PROVE  LET c == Carve(h, from, nunits) IN
         \E G : HeapOk(c.h, L \cup {c.at}, C, G) /\ c.freep \in G
<1> DEFINE c == Carve(h, from, nunits)
           nth == Nth(h, from)
           n == Lowest(Fitting(h, from, nunits))
           prevp == nth[n - 1]
           p == nth[n]
           rest == h[p].size - nunits
           S == (F \ {Base}) \cup L
           D == {Base} \cup (0 .. KERNBASE)
           y == PtrOf(h)
           z == SizeOf(h)
<1>0. /\ Base = -1 /\ Base \in F
      /\ \A a \in D : y[a] = h[a].ptr /\ h[a].ptr \in Int /\ z[a] = h[a].size /\ h[a].size \in Nat
      /\ \A a \in F \cup L : a \in D
      /\ \A a \in F : a = Base \/ a \in Places
      /\ \A a \in F : h[a].ptr \in F
      /\ \A a \in Places : a \in Nat /\ a # Base
  BY HeapParts
<1>1. /\ h \in [D -> [ptr : Int, size : Nat]] /\ ListOk(y, F) /\ Tiled(z, S, C)
      /\ L \subseteq Places /\ F \cap L = {} /\ C \subseteq Places /\ h[Base].size = 0
      /\ \A a \in F : a # Base => a + h[a].size # h[a].ptr
  BY DEF HeapOk, Headers
<1>2. \A i \in Fitting(h, from, nunits) : i \in 1 .. Around /\ h[nth[i]].size >= nunits
  BY FittingIs
<1>3. Around \in Nat /\ (\A i \in 0 .. Around : nth[i] \in F)
      /\ \A i \in 0 .. Around - 1 : nth[i + 1] = y[nth[i]]
  BY <1>1, NthIn
<1>4. n \in Fitting(h, from, nunits)
  <2>1. Fitting(h, from, nunits) \in SUBSET Nat
    BY <1>2, <1>3
  <2> QED
    BY <2>1, LowestIs
<1>5. c = [at |-> p + rest, freep |-> prevp,
           h |-> IF rest = 0 THEN [h EXCEPT ![prevp].ptr = h[p].ptr]
                 ELSE [h EXCEPT ![p].size = rest, ![p + rest].size = nunits]]
  BY DEF Carve
<1> HIDE DEF nth, n, y, z, c
<1>6. n \in 1 .. Around /\ h[p].size >= nunits
  BY <1>2, <1>4
<1>7. n \in 0 .. Around /\ n - 1 \in 0 .. Around /\ n - 1 \in 0 .. Around - 1 /\ (n - 1) + 1 = n
  BY <1>3, <1>6
<1>8. p \in F /\ prevp \in F /\ p = y[prevp]
  BY <1>3, <1>7
<1> HIDE DEF p, prevp
<1>9. p # Base /\ p \in Places /\ p \in Nat /\ p \in S
  <2>1. p # Base
    BY <1>1, <1>6
  <2> QED
    BY <1>0, <1>8, <2>1
<1> HIDE DEF S
<1>10. p \in D /\ prevp \in D /\ prevp \in Int /\ rest \in Nat /\ h[p].size \in Nat \ {0}
  BY <1>0, <1>6, <1>8, <1>9
<1>11. prevp < p /\ \A b \in F : b <= prevp \/ p <= b
  BY <1>1, <1>8, <1>9 DEF ListOk
<1>12. h[p].size = rest + nunits
  BY <1>10
<1> HIDE DEF rest
<1>13. CASE rest = 0
  <2> DEFINE g == [h EXCEPT ![prevp].ptr = h[p].ptr]
             G == F \ {p}
  <2>1. c.h = g /\ c.at = p /\ c.freep = prevp
    BY <1>5, <1>9, <1>13
  <2>2. /\ g \in [D -> [ptr : Int, size : Nat]]
        /\ g[prevp].ptr = h[p].ptr /\ \A a \in D : g[a].size = h[a].size
        /\ \A a \in D : a # prevp => g[a] = h[a]
    BY <1>0, <1>1, <1>10
  <2> HIDE DEF g
  <2>3. \A a \in D : PtrOf(g)[a] = g[a].ptr /\ SizeOf(g)[a] = g[a].size
    BY DEF PtrOf, SizeOf
  <2>4. ListOk(PtrOf(g), G)
    <3>1. PtrOf(g)[prevp] = y[p] /\ \A a \in F : a # prevp /\ a # p => PtrOf(g)[a] = y[a]
      BY <1>0, <1>10, <2>2, <2>3
    <3>2. y[prevp] = p
      BY <1>8
    <3> QED
      <4>1. ListOk(y, F) /\ p \in F /\ prevp \in F /\ p # Base
        BY <1>1, <1>8, <1>9
      <4> QED
        BY <3>1, <3>2, <4>1, ListLess
  <2>5. Tiled(SizeOf(g), S, C)
    <3>1. \A a \in S : SizeOf(g)[a] = z[a]
      BY <1>0, <2>2, <2>3 DEF S
    <3> QED
      BY <1>1, <3>1, TileSame
  <2>6. (G \ {Base}) \cup (L \cup {p}) = S /\ G \cap (L \cup {p}) = {}
    BY <1>1, <1>8, <1>9 DEF S
  <2>7. ASSUME NEW a \in G, a # Base PROVE a + g[a].size # g[a].ptr
    <3>1. CASE a # prevp
      BY <1>0, <1>1, <2>2, <2>7, <3>1
    <3>2. CASE a = prevp
      <4>1. a \in S /\ a \in Nat /\ z[a] = h[a].size /\ h[a].size \in Nat /\ g[a].ptr = h[p].ptr
        BY <1>0, <1>8, <1>10, <2>2, <2>7, <3>2 DEF S
      <4>2. a + z[a] <= p
        BY <1>1, <1>9, <1>11, <3>2, <4>1 DEF Tiled
      <4>3. h[p].ptr = Base \/ p < h[p].ptr
        BY <1>0, <1>1, <1>8, <1>10 DEF ListOk
      <4>4. h[p].ptr \in Int
        BY <1>0, <1>10
      <4> QED
        BY <1>0, <1>9, <2>2, <3>2, <4>1, <4>2, <4>3, <4>4
    <3> QED
      BY <3>1, <3>2
  <2>8. g \in Headers /\ g[Base].size = 0 /\ L \cup {p} \subseteq Places /\ C \subseteq Places
    BY <1>0, <1>1, <1>9, <2>2 DEF Headers
  <2>9. HeapOk(g, L \cup {p}, C, G)
    BY <2>4, <2>5, <2>6, <2>7, <2>8 DEF HeapOk
  <2>10. prevp \in G
    BY <1>8, <1>9, <1>10, <1>11
  <2> QED
    BY <2>1, <2>9, <2>10 DEF c
<1>14. CASE rest # 0
  <2> DEFINE b == p + rest
             g == [h EXCEPT ![p].size = rest, ![b].size = nunits]
  <2>1. c.h = g /\ c.at = b /\ c.freep = prevp
    BY <1>5, <1>14
  <2>2. b \in Nat /\ b # p /\ p < b /\ b < p + h[p].size
    BY <1>9, <1>10, <1>12, <1>14
  <2>3. b \in Places /\ b \in D /\ b \in C
    <3>1. b \in C
      BY <1>0, <1>1, <1>9, <1>10, <2>2 DEF Tiled
    <3>2. b \in Places
      BY <1>1, <3>1
    <3> QED
      BY <2>2, <3>1, <3>2, KernbaseIs DEF Places
  <2>4. b \in Int /\ b # Base
    BY <1>0, <2>2
  <2> HIDE DEF b
  <2>5. /\ g \in [D -> [ptr : Int, size : Nat]]
        /\ g[p].size = rest /\ g[b].size = nunits
        /\ \A a \in D : g[a].ptr = h[a].ptr
        /\ \A a \in D : a # p /\ a # b => g[a] = h[a]
    BY <1>1, <1>10, <2>2, <2>3
  <2> HIDE DEF g
  <2>6. \A a \in D : PtrOf(g)[a] = g[a].ptr /\ SizeOf(g)[a] = g[a].size
    BY DEF PtrOf, SizeOf
  <2>7. Tiled(SizeOf(g), S \cup {b}, C) /\ b \notin S
    <3>1. rest \in Nat \ {0} /\ rest < z[p] /\ b = p + rest
      BY <1>0, <1>10, <1>12, <1>14 DEF b
    <3>2. SizeOf(g)[p] = rest /\ SizeOf(g)[b] = z[p] - rest
      BY <1>0, <1>10, <1>12, <2>3, <2>5, <2>6
    <3>3. \A a \in S : a # p => SizeOf(g)[a] = z[a]
      <4>1. b \notin S
        <5> SUFFICES ASSUME b \in S PROVE FALSE
          OBVIOUS
        <5>1. p + z[p] <= b
          BY <1>1, <1>9, <2>2 DEF Tiled
        <5> QED
          BY <1>0, <1>9, <1>10, <2>2, <5>1
      <4>2. \A a \in S : a \in D
        BY <1>0 DEF S
      <4> QED
        BY <1>0, <2>5, <2>6, <4>1, <4>2
    <3>4. Tiled(z, S, C) /\ p \in S
      BY <1>1, <1>9
    <3>5. Tiled(SizeOf(g), S \cup {p + rest}, C) /\ p + rest \notin S
      BY <3>1, <3>2, <3>3, <3>4, TileCut
    <3> QED
      BY <3>1, <3>5
  <2>8. ListOk(PtrOf(g), F)
    <3>1. \A a \in F : PtrOf(g)[a] = y[a]
      BY <1>0, <2>5, <2>6
    <3> QED
      BY <1>1, <3>1 DEF ListOk
  <2>9. (F \ {Base}) \cup (L \cup {b}) = S \cup {b} /\ F \cap (L \cup {b}) = {}
    BY <1>1, <2>4, <2>7 DEF S
  <2>10. ASSUME NEW a \in F, a # Base PROVE a + g[a].size # g[a].ptr
    <3>1. CASE a # p
      <4>1. a # b /\ a \in D
        BY <1>0, <2>7, <2>10 DEF S
      <4> QED
        BY <1>1, <2>5, <2>10, <3>1, <4>1
    <3>2. CASE a = p
      <4>1. h[p].ptr \in F /\ h[p].ptr \in Int /\ z[p] = h[p].size
        BY <1>0, <1>8, <1>10
      <4>2. h[p].ptr = Base \/ p < h[p].ptr
        BY <1>0, <1>1, <1>8, <1>10 DEF ListOk
      <4>3. h[p].ptr # Base => p + z[p] <= h[p].ptr
        BY <1>1, <1>9, <4>1, <4>2 DEF Tiled, S
      <4>4. g[p].ptr = h[p].ptr /\ g[p].size = rest
        BY <1>10, <2>5
      <4>5. p + rest < p + h[p].size /\ p + rest \in Nat
        BY <2>2 DEF b
      <4> QED
        BY <1>0, <1>9, <1>10, <3>2, <4>1, <4>2, <4>3, <4>4, <4>5
    <3> QED
      BY <3>1, <3>2
  <2>11. g \in Headers /\ g[Base].size = 0 /\ L \cup {b} \subseteq Places /\ C \subseteq Places
    BY <1>0, <1>1, <1>9, <2>3, <2>4, <2>5 DEF Headers
  <2>12. HeapOk(g, L \cup {b}, C, F)
    BY <2>7, <2>8, <2>9, <2>10, <2>11 DEF HeapOk
  <2> QED
    BY <1>8, <2>1, <2>12 DEF c
<1> QED
  BY <1>13, <1>14

-----------------------------------------------------------------------------
(* The heap is in order after every malloc() and free().                   *)
ListInv ==
  /\ freep \in FreeList \cup {Base}
  /\ HeapOk(hdr, live, core, FreeList \cup {Base})

\* Whatever set of headers the list has, it is the one that the walk finds.
LEMMA ListIs ==
  /\ (\E F : freep \in F /\ HeapOk(hdr, live, core, F)) => ListInv
  /\ (\E F : freep' \in F /\ HeapOk(hdr', live', core', F)) => ListInv'
<1>1. ASSUME NEW h, NEW from, NEW L, NEW C, NEW F, from \in F, HeapOk(h, L, C, F)
      PROVE  ({Nth(h, from)[n] : n \in 0 .. Around} \ {Base}) \cup {Base} = F
  <2>1. ListOk(PtrOf(h), F)
    BY <1>1 DEF HeapOk
  <2>2. {Nth(h, from)[n] : n \in 0 .. Around} = F /\ Base \in F
    BY <1>1, <2>1, WalkIs DEF ListOk
  <2> QED
    BY <2>2
<1>2. ASSUME NEW F, freep \in F, HeapOk(hdr, live, core, F) PROVE ListInv
  <2>1. FreeList \cup {Base} = F
    BY <1>1, <1>2 DEF FreeList
  <2> QED
    BY <1>2, <2>1 DEF ListInv
<1>3. ASSUME NEW F, freep' \in F, HeapOk(hdr', live', core', F) PROVE ListInv'
  <2>1. FreeList' \cup {Base} = F
    BY <1>1, <1>3 DEF FreeList
  <2> QED
    BY <1>3, <2>1 DEF ListInv
<1> QED
  BY <1>2, <1>3

\* A program that has not called malloc() yet.
LEMMA NoHeapOk ==
  ASSUME NEW h, h = [a \in {Base} \cup (0 .. KERNBASE) |-> [ptr |-> Base, size |-> 0]]
  PROVE  HeapOk(h, {}, {}, {Base})
<1>1. Base \in Int /\ Base = -1
  BY DEF Base
<1>2. h \in Headers /\ h[Base].size = 0 /\ h[Base].ptr = Base
  BY <1>1 DEF Headers
<1>3. PtrOf(h)[Base] = Base
  BY <1>2 DEF PtrOf
<1>4. ListOk(PtrOf(h), {Base})
  BY <1>1, <1>3 DEF ListOk
<1>5. Tiled(SizeOf(h), ({Base} \ {Base}) \cup {}, {})
  BY DEF Tiled
<1> QED
  BY <1>2, <1>4, <1>5 DEF HeapOk

\* malloc() when a block fits.
LEMMA HandOutOk ==
  ASSUME NEW h, NEW C, NEW F, HeapOk(h, live, C, F), NEW from \in F, NEW nunits \in Nat \ {0},
         Fitting(h, from, nunits) # {}, HandOut(h, from, nunits), core' = C
  PROVE  ListInv'
<1> DEFINE c == Carve(h, from, nunits)
<1>1. PICK G : HeapOk(c.h, live \cup {c.at}, C, G) /\ c.freep \in G
  BY CarveOk
<1>2. hdr' = c.h /\ freep' = c.freep /\ live' = live \cup {c.at}
  BY DEF HandOut
<1> HIDE DEF c
<1>3. freep' \in G /\ HeapOk(hdr', live', core', G)
  BY <1>1, <1>2
<1> QED
  BY <1>3, ListIs

\* free() keeps the heap in order.
LEMMA FreeOk ==
  ASSUME ListInv, NEW bp \in live, Free(bp)
  PROVE  ListInv'
<1> DEFINE F == FreeList \cup {Base}
           p == Before(hdr, freep, bp)
<1>1. freep \in F /\ HeapOk(hdr, live, core, F)
  BY DEF ListInv
<1>2. hdr' = Insert(hdr, p, bp) /\ freep' = p /\ live' = live \ {bp} /\ core' = core
  BY DEF Free
<1> HIDE DEF F
<1>3. ListOk(PtrOf(hdr), F) /\ bp \in Places /\ bp \notin F
  BY <1>1 DEF HeapOk
<1>4. /\ p \in F /\ p < bp
      /\ bp < PtrOf(hdr)[p] \/ (PtrOf(hdr)[p] = Base /\ \A b \in F : b <= p)
  BY <1>1, <1>3, BeforeIs
<1> HIDE DEF p
<1>5. PICK G : HeapOk(Insert(hdr, p, bp), live \ {bp}, core, G) /\ p \in G
  BY <1>1, <1>4, InsertOk
<1>6. freep' \in G /\ HeapOk(hdr', live', core', G)
  BY <1>2, <1>5
<1> QED
  BY <1>6, ListIs

\* malloc() does too, with or without morecore().
LEMMA MallocOk ==
  ASSUME VmInv, VmInv', HeapInv, ListInv, NEW nunits \in Requests, MallocCall(nunits)
  PROVE  ListInv'
<1> DEFINE F == FreeList \cup {Base}
           nu == IF nunits < MinUnits THEN MinUnits ELSE nunits
           new == sz[User]
           h == [hdr EXCEPT ![new].size = nu]
           p == Before(h, freep, new)
           C == core \cup (new .. new + nu - 1)
<1>1. freep \in F /\ HeapOk(hdr, live, core, F)
  BY DEF ListInv
<1>2. /\ nunits \in Nat \ {0} /\ nu \in Nat \ {0} /\ nu < KERNBASE /\ nu \in Int /\ nu > 0
      /\ nu >= nunits
  BY MallocAssumption, KernbaseIs
<1>3. CASE Fitting(hdr, freep, nunits) # {}
  <2>1. HandOut(hdr, freep, nunits) /\ core' = core
    BY <1>3 DEF MallocCall
  <2> HIDE DEF F
  <2> QED
    BY <1>1, <1>2, <1>3, <2>1, HandOutOk
<1>4. CASE Fitting(hdr, freep, nunits) = {}
  <2>1. /\ Main(User) /\ Growproc(User, nu)
        /\ \/ SbrkFails(new) /\ UNCHANGED mvars
           \/ ~SbrkFails(new) /\ HandOut(Insert(h, p, new), p, nunits) /\ core' = C
    BY <1>4 DEF MallocCall
  <2>2. CASE UNCHANGED mvars
    BY <2>2 DEF mvars, ListInv, FreeList
  <2>3. CASE ~SbrkFails(new) /\ HandOut(Insert(h, p, new), p, nunits) /\ core' = C
    <3>1. User \in Procs /\ new \in Nat /\ sz'[User] = new + nu
      BY <1>2, <2>1, <2>3, GrowthIs, MallocAssumption DEF SbrkFails
    <3>2. new + nu <= KERNBASE
      <4>1. sz'[User] \in Sizes
        BY <3>1 DEF VmInv, VmType
      <4> QED
        BY <3>1, <4>1, KernbaseIs DEF Sizes
    <3>3. core \subseteq 0 .. new - 1
      BY DEF HeapInv
    <3>4. h = [hdr EXCEPT ![new].size = nu] /\ C = core \cup (new .. new + nu - 1)
          /\ p = Before(h, freep, new)
      OBVIOUS
    <3> HIDE DEF F, nu, new, h, p, C
    <3>5. HeapOk(h, live \cup {new}, C, F) /\ h[new].size = nu
      <4>1. HeapOk(hdr, live, core, F) /\ new \in Nat /\ nu \in Nat \ {0}
        BY <1>1, <1>2, <3>1
      <4>2. \A x \in core : x < new
        BY <3>1, <3>3
      <4>3. h = [hdr EXCEPT ![new].size = nu]
        BY <3>4
      <4>4. C = core \cup (new .. new + nu - 1)
        BY <3>4
      <4>5. HeapOk(h, live \cup {new}, C, F)
        BY <3>2, <4>1, <4>2, <4>3, <4>4, CoreOk
      <4>6. hdr \in Headers /\ new \in 0 .. KERNBASE
        BY <1>1, <3>1, <3>2, <4>1, KernbaseIs DEF HeapOk
      <4>7. h[new].size = nu
        BY <4>3, <4>6 DEF Headers
      <4> QED
        BY <4>5, <4>7
    <3>6. ListOk(PtrOf(h), F) /\ new \in Places /\ new \notin F
      BY <3>5 DEF HeapOk
    <3>7. new \notin live
      <4>1. ASSUME new \in live PROVE new \in core
        <5>1. Tiled(SizeOf(hdr), (F \ {Base}) \cup live, core)
          BY <1>1 DEF HeapOk
        <5>2. SizeOf(hdr)[new] \in Nat \ {0}
          BY <4>1, <5>1 DEF Tiled
        <5>3. new \in Int /\ new <= new /\ new < new + SizeOf(hdr)[new]
          BY <3>1, <5>2
        <5> QED
          BY <4>1, <5>1, <5>3 DEF Tiled
      <4> QED
        BY <3>1, <3>3, <4>1
    <3>8. /\ p \in F /\ p < new
          /\ new < PtrOf(h)[p] \/ (PtrOf(h)[p] = Base /\ \A b \in F : b <= p)
      BY <1>1, <3>4, <3>6, BeforeIs
    <3> DEFINE g == Insert(h, p, new)
    <3>9. PICK G : /\ HeapOk(g, (live \cup {new}) \ {new}, C, G) /\ p \in G
                   /\ \E a \in G : g[a].size >= h[new].size
      BY <3>5, <3>8, InsertOk
    <3>10. HandOut(g, p, nunits) /\ core' = C
      BY <2>3
    <3> HIDE DEF g
    <3>11. (live \cup {new}) \ {new} = live
      BY <3>7
    <3>12. HeapOk(g, live, C, G)
      BY <3>9, <3>11
    <3>13. PICK a \in G : g[a].size >= nunits
      <4>1. PICK a \in G : g[a].size >= nu
        BY <3>5, <3>9
      <4>2. g[a].size \in Nat
        BY <3>12, HeapParts
      <4> QED
        BY <1>2, <4>1, <4>2
    <3>14. Fitting(g, p, nunits) # {}
      BY <3>9, <3>12, <3>13, FittingIs
    <3> QED
      BY <1>2, <3>9, <3>10, <3>12, <3>14, HandOutOk
  <2> QED
    BY <2>1, <2>2, <2>3
<1> QED
  BY <1>3, <1>4

\* So does every step.
LEMMA ListStep ==
  ASSUME VmInv, VmInv', HeapInv, ListInv, [Next]_vars
  PROVE  ListInv'
<1>1. ASSUME UNCHANGED mvars PROVE ListInv'
  BY <1>1 DEF mvars, ListInv, FreeList
<1>2. ASSUME NoHeap PROVE ListInv'
  <2>1. freep' \in {Base} /\ HeapOk(hdr', live', core', {Base})
    BY <1>2, NoHeapOk DEF NoHeap
  <2> QED
    BY <2>1, ListIs
<1>3. UNCHANGED vars => UNCHANGED mvars
  BY DEF vars
<1> QED
  BY <1>1, <1>2, <1>3, MallocOk, FreeOk DEF Next

\* In a heap that is in order blocks do not overlap, and free ones do not touch:
\* between a block and one that touches it there is no other.
LEMMA ListGives == ListInv => HeapTiled /\ Coalesced
<1> SUFFICES ASSUME ListInv PROVE HeapTiled /\ Coalesced
  OBVIOUS
<1> DEFINE F == FreeList \cup {Base}
           S == FreeList \cup live
           z == SizeOf(hdr)
<1>1. HeapOk(hdr, live, core, F)
  BY DEF ListInv
<1>2. /\ Base = -1 /\ \A a \in F \cup live : PtrOf(hdr)[a] = hdr[a].ptr /\ z[a] = hdr[a].size
      /\ live \subseteq Places /\ \A a \in F : a = Base \/ a \in Places
      /\ \A a \in Places : a # Base
      /\ \A a \in F : hdr[a].ptr \in F
      /\ F \cap live = {} /\ ListOk(PtrOf(hdr), F)
      /\ \A a \in F : a # Base => a + hdr[a].size # hdr[a].ptr
  <2> HIDE DEF F
  <2>1. /\ Base = -1
        /\ \A a \in {Base} \cup (0 .. KERNBASE) : /\ PtrOf(hdr)[a] = hdr[a].ptr /\ hdr[a].ptr \in Int
                                                  /\ z[a] = hdr[a].size /\ hdr[a].size \in Nat
        /\ \A a \in F \cup live : a \in {Base} \cup (0 .. KERNBASE)
        /\ \A a \in F : a = Base \/ a \in Places
        /\ \A a \in F : hdr[a].ptr \in F
        /\ \A a \in Places : a \in Nat /\ a # Base
    BY <1>1, HeapParts
  <2>2. /\ live \subseteq Places /\ F \cap live = {} /\ ListOk(PtrOf(hdr), F)
        /\ \A a \in F : a # Base => a + hdr[a].size # hdr[a].ptr
    BY <1>1 DEF HeapOk
  <2>3. \A a \in F \cup live : PtrOf(hdr)[a] = hdr[a].ptr /\ z[a] = hdr[a].size
    BY <2>1
  <2> QED
    BY <2>1, <2>2, <2>3
<1>3. Base \notin FreeList
  BY DEF FreeList
<1>4. Tiled(z, S, core)
  <2>1. (F \ {Base}) \cup live = S
    BY <1>3
  <2> QED
    BY <1>1, <2>1 DEF HeapOk
<1> HIDE DEF z
<1>5. ASSUME NEW a \in S PROVE a \in Nat /\ z[a] \in Nat \ {0} /\ hdr[a].size = z[a]
  BY <1>2, <1>4 DEF Tiled
<1>6. UNION {Block(a) : a \in S} = core
  <2>1. ASSUME NEW a \in S, NEW x \in Block(a) PROVE x \in core
    <3>1. x \in Int /\ a <= x /\ x < a + z[a]
      BY <1>5 DEF Block
    <3> QED
      BY <1>4, <3>1 DEF Tiled
  <2>2. ASSUME NEW x \in core PROVE \E a \in S : x \in Block(a)
    <3>1. PICK a \in S : x \in Int /\ a <= x /\ x < a + z[a]
      BY <1>4 DEF Tiled
    <3> QED
      BY <1>5, <3>1 DEF Block
  <2> QED
    BY <2>1, <2>2
<1>7. ASSUME NEW a \in S, NEW b \in S, a # b PROVE Block(a) \cap Block(b) = {}
  <2> SUFFICES ASSUME NEW x \in Block(a) \cap Block(b) PROVE FALSE
    OBVIOUS
  <2>1. /\ x \in Int /\ a <= x /\ x < a + z[a] /\ b <= x /\ x < b + z[b]
        /\ a \in Nat /\ b \in Nat /\ z[a] \in Nat /\ z[b] \in Nat
    BY <1>5 DEF Block
  <2>2. (a < b => a + z[a] <= b) /\ (b < a => b + z[b] <= a)
    BY <1>4 DEF Tiled
  <2> QED
    BY <1>7, <2>1, <2>2
<1>8. FreeList \cap live = {}
  BY <1>2
<1>9. ASSUME NEW a \in FreeList, NEW b \in FreeList PROVE a + hdr[a].size # b
  <2> SUFFICES ASSUME a + hdr[a].size = b PROVE FALSE
    OBVIOUS
  <2> DEFINE q == hdr[a].ptr
  <2>1. a \in Nat /\ b \in Nat /\ z[a] \in Nat \ {0} /\ hdr[a].size = z[a] /\ a < b /\ a # Base
    BY <1>3, <1>5
  <2>2. q # b /\ q \in F
    BY <1>2, <2>1
  <2>3. \/ a < q /\ \A c \in F : c <= a \/ q <= c
        \/ q = Base /\ \A c \in F : c <= a
    BY <1>2 DEF ListOk
  <2> HIDE DEF q
  <2>4. a < q /\ q <= b
    BY <2>1, <2>3
  <2>5. q # Base
    BY <1>2, <2>1, <2>4
  <2>6. q \in S /\ q \in Nat
    BY <1>5, <2>2, <2>5
  <2>7. a + z[a] <= q
    BY <1>4, <2>4, <2>6 DEF Tiled
  <2> QED
    BY <2>1, <2>2, <2>4, <2>6, <2>7
<1> QED
  BY <1>6, <1>7, <1>8, <1>9 DEF HeapTiled, Coalesced

\* The free list and the blocks in use cover what came from sbrk() once, no
\* two free blocks touch, and all of it is mapped: whatever malloc() and
\* free() a program calls, in any order, also when sbrk() fails.
THEOREM HeapIsRight == Spec => []HeapRight
<1>1. MInit => HeapInv /\ ListInv
  <2> SUFFICES ASSUME MInit PROVE HeapInv /\ ListInv
    OBVIOUS
  <2>1. freep \in {Base} /\ HeapOk(hdr, live, core, {Base})
    BY NoHeapOk DEF MInit
  <2>2. ListInv
    BY <2>1, ListIs
  <2> QED
    BY <2>2 DEF MInit, HeapInv
<1>2. VmInv /\ VmInv' /\ HeapInv /\ ListInv /\ [Next]_vars => HeapInv' /\ ListInv'
  BY HeapStep, ListStep
<1>3. Spec => [](VmInv /\ HeapInv /\ ListInv)
  BY <1>1, <1>2, VmInvariant, PTL DEF Spec
<1>4. VmInv /\ HeapInv /\ ListInv => HeapRight
  BY HeapInvGives, ListGives DEF HeapRight
<1> QED
  BY <1>3, <1>4, PTL
=============================================================================
