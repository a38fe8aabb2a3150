------------------------------- MODULE Malloc -------------------------------
(***************************************************************************)
(* The allocator of user programs, umalloc.c, of one process, on the       *)
(* memory that sbrk() gives it.  Addresses count headers; hdr[a] is the    *)
(* header at a, and Base the static one, below the heap.  The free list is *)
(* circular, from freep, in the order of addresses.                        *)
(***************************************************************************)
EXTENDS Vm

CONSTANTS User,       \* the process
          Requests,   \* the nunits of its calls of malloc()
          MinUnits    \* the least that morecore() asks for

\* The argument of sbrk() is an int: what malloc() asks for fits in one.
ASSUME MallocAssumption ==
  /\ User \in Procs
  /\ Requests \subseteq 1 .. KERNBASE - 1 /\ MinUnits \in 1 .. KERNBASE - 1

Base == -1

VARIABLES hdr, freep,
          live,       \* the blocks handed out and not freed
          core        \* the addresses that came from sbrk()

mvars == <<hdr, freep, live, core>>
vars == <<vmvars, mvars>>

\* How many steps it can take at most to come around the free list.
Around == KERNBASE + 1

\* The nth header of the free list.
Nth(h, from) ==
  LET nth[n \in 0 .. Around] == IF n = 0 THEN from ELSE h[nth[n - 1]].ptr IN nth

\* free(): the header before bp in the list, found from freep.
Before(h, from, bp) ==
  LET nth == Nth(h, from)
      between(p) == \/ bp > p /\ bp < h[p].ptr
                    \/ p >= h[p].ptr /\ (bp > p \/ bp < h[p].ptr)
  IN  nth[Lowest({n \in 0 .. Around : between(nth[n])})]

\* ... and bp joined with the blocks that it touches.
Insert(h, p, bp) ==
  LET up == h[p].ptr
      b == IF bp + h[bp].size = up THEN [ptr |-> h[up].ptr, size |-> h[bp].size + h[up].size]
           ELSE [ptr |-> up, size |-> h[bp].size]
  IN  IF p + h[p].size = bp THEN [h EXCEPT ![bp] = b, ![p] = [ptr |-> b.ptr, size |-> @.size + b.size]]
      ELSE [h EXCEPT ![bp] = b, ![p].ptr = bp]

\* The search of malloc() from freep: the first block that is large enough,
\* with freep itself as the last one, and the header before it.
Fitting(h, from, nunits) ==
  LET nth == Nth(h, from)
      round == Lowest({n \in 1 .. Around : nth[n] = from})
  IN  {n \in 1 .. round : h[nth[n]].size >= nunits}

CarveHead(h, from, nunits) ==
  LET n == Lowest(Fitting(h, from, nunits))
      p == Nth(h, from)[n]
  IN  [at |-> p, freep |-> Nth(h, from)[n - 1],
       h |-> IF h[p].size = nunits THEN [h EXCEPT ![Nth(h, from)[n - 1]].ptr = h[p].ptr]
             ELSE [h EXCEPT ![p].size = nunits]]

\* What malloc() makes of the list: the tail of a larger block is handed out.
Carve(h, from, nunits) ==
  LET n == Lowest(Fitting(h, from, nunits))
      prevp == Nth(h, from)[n - 1]
      p == Nth(h, from)[n]
      rest == h[p].size - nunits
  IN  [at |-> p + rest, freep |-> prevp,
       h |-> IF rest = 0 THEN [h EXCEPT ![prevp].ptr = h[p].ptr]
             ELSE [h EXCEPT ![p].size = rest, ![p + rest].size = nunits]]

HandOut(h, from, nunits) ==
  LET c == Carve(h, from, nunits) IN
  /\ hdr' = c.h
  /\ freep' = c.freep
  /\ live' = live \cup {c.at}

\* What sbrk() returned was -1.
SbrkFails(old) == sz'[User] = old

\* malloc(), with morecore() when nothing fits: sbrk() and free() of what it
\* returns.
MallocCall(nunits) ==
  LET nu == IF nunits < MinUnits THEN MinUnits ELSE nunits
      new == sz[User]
      h == [hdr EXCEPT ![new].size = nu]
      p == Before(h, freep, new)
  IN
  /\ Main(User)
  /\ IF Fitting(hdr, freep, nunits) # {}
     THEN HandOut(hdr, freep, nunits) /\ UNCHANGED <<vmvars, core>>
     ELSE /\ Growproc(User, nu)
          /\ IF SbrkFails(sz[User])
             THEN UNCHANGED mvars
             ELSE HandOut(Insert(h, p, new), p, nunits) /\ core' = core \cup (new .. new + nu - 1)

Free(bp) ==
  LET p == Before(hdr, freep, bp) IN
  /\ Main(User) /\ bp \in live
  /\ hdr' = Insert(hdr, p, bp)
  /\ freep' = p
  /\ live' = live \ {bp}
  /\ UNCHANGED <<vmvars, core>>

-----------------------------------------------------------------------------
NoHeap ==
  /\ hdr' = [a \in {Base} \cup (0 .. KERNBASE) |-> [ptr |-> Base, size |-> 0]]
  /\ freep' = Base
  /\ live' = {}
  /\ core' = {}

MInit ==
  /\ Init
  /\ hdr = [a \in {Base} \cup (0 .. KERNBASE) |-> [ptr |-> Base, size |-> 0]]
  /\ freep = Base
  /\ live = {} /\ core = {}

\* A new program, or a new process in the slot, has no heap; a program does
\* not shrink the memory that malloc() is using.
Next ==
  \/ \E p \in Procs : VmStep(p) /\ IF pgdir'[User] # pgdir[User] THEN NoHeap ELSE UNCHANGED mvars
  \/ \E p \in Procs, n \in Deltas :
       /\ p = User => core = {} \/ n > 0
       /\ Sbrk(p, n) /\ UNCHANGED mvars
  \/ \E nunits \in Requests : MallocCall(nunits)
  \/ \E bp \in live : Free(bp)

Spec == MInit /\ [][Next]_vars

-----------------------------------------------------------------------------
\* The free list and the blocks in use cover the memory that came from sbrk()
\* once: no header is overwritten, lost or handed out twice.
FreeList == {Nth(hdr, freep)[n] : n \in 0 .. Around} \ {Base}
Block(a) == a .. a + hdr[a].size - 1

HeapTiled ==
  /\ UNION {Block(a) : a \in FreeList \cup live} = core
  /\ \A a, b \in FreeList \cup live : a # b => Block(a) \cap Block(b) = {}
  /\ FreeList \cap live = {}

\* free() joins neighbours: no two free blocks touch.
Coalesced == \A a, b \in FreeList : a + hdr[a].size # b

\* The heap is memory that the process has: every header that malloc() may
\* touch is in a mapped page.
HeapMapped == Main(User) => \A a \in core : a \div PGSIZE \in Mapped(pgdir[User])

\* malloc(), free() and morecore() in any order, also when sbrk() fails.
HeapRight == HeapTiled /\ Coalesced /\ HeapMapped
=============================================================================
