--------------------------------- MODULE Vm ---------------------------------
(***************************************************************************)
(* Address spaces: kalloc.c, vm.c, exec.c and growproc().                  *)
(*                                                                         *)
(* m is the physical memory: the free pages and, for a page that is a page *)
(* directory, its kernel page table, its user page tables and the pages    *)
(* that are mapped.  The functions of vm.c are operators from one m to the *)
(* next.  A call is one step: address spaces that are not shared meet only *)
(* in the free list, and every number of free pages is tried.  Addresses   *)
(* and sizes are unsigned and wrap at 2 * KERNBASE.                        *)
(***************************************************************************)
EXTENDS Integers, Sequences, FiniteSets, SequencesExt

CONSTANTS NPROC, NPAGES,
          NV,       \* user pages below KERNBASE
          NPT,      \* entries of a page table
          PGSIZE,
          Images,   \* programs: sequences of segments [vaddr, memsz]
          Deltas,   \* arguments of sbrk()
          NULL

ASSUME VmAssumption ==
  /\ NPAGES \in Nat \ {0} /\ NV \in Nat \ {0} /\ NPT \in Nat \ {0} /\ PGSIZE \in Nat \ {0}
  /\ NPROC \in Nat \ {0} /\ NULL \notin 1 .. NPAGES
  /\ Images \subseteq Seq([vaddr : Nat, memsz : Nat]) /\ Deltas \subseteq Int

Procs == 1 .. NPROC
Pages == 1 .. NPAGES
KERNBASE == NV * PGSIZE
Unsigned(x) == x % (2 * KERNBASE)
PgRoundUp(x) == (x + PGSIZE - 1) \div PGSIZE
InitProc == 1

VARIABLES m,
          pgdir,    \* p->pgdir, or NULL
          sz,       \* p->sz
          thread    \* p shares the address space of its parent

vmvars == <<m, pgdir, sz, thread>>

Lowest(S) == CHOOSE x \in S : \A y \in S : x <= y
Ups(from, to) == [k \in 1 .. (IF to > from THEN to - from ELSE 0) |-> from + k - 1]

\* What a function returns: success or failure, and the memory.
Ok(mem) == [ok |-> TRUE, m |-> mem]
Fail(mem) == [ok |-> FALSE, m |-> mem]

-----------------------------------------------------------------------------
\* kalloc(), kfree().
First(mem) == Lowest(mem.free)
Kalloc(mem) == [mem EXCEPT !.free = @ \ {First(mem)}]
Kfree(mem, pages) ==
  [mem EXCEPT !.free = @ \cup pages, !.panic = @ \/ pages \cap mem.free # {}]

\* mappages() of one user page, with walkpgdir() making the page table.
Mappage(mem, g, v, page) ==
  LET t == v \div NPT
      new == mem.as[g].tabs[t] = 0
      mem1 == IF new THEN [Kalloc(mem) EXCEPT !.as[g].tabs[t] = First(mem)] ELSE mem
  IN  IF new /\ mem.free = {} THEN Fail(mem)
      ELSE Ok([mem1 EXCEPT !.as[g].pte[v] = page, !.panic = @ \/ mem.as[g].pte[v] # 0])

\* deallocuvm(), and the size that it returns.
DeallocSize(old, new) == IF new >= old THEN old ELSE new
Deallocuvm(mem, g, old, new) ==
  LET vs == {v \in 0 .. NV - 1 : v >= PgRoundUp(new) /\ v * PGSIZE < old}
      pte == mem.as[g].pte
  IN  IF new >= old THEN mem
      ELSE [Kfree(mem, {pte[v] : v \in vs} \ {0}) EXCEPT
              !.as[g].pte = [v \in 0 .. NV - 1 |-> IF v \in vs THEN 0 ELSE pte[v]]]

\* freevm(): the user pages, the page tables and the directory.
Tables(a) == ({a.tabs[t] : t \in DOMAIN a.tabs} \cup {a.ktab}) \ {0}
FreevmUser(mem, g) ==
  [Kfree(Deallocuvm(mem, g, KERNBASE, 0), {g}) EXCEPT !.as[g] = NULL]

Freevm(mem, g) ==
  [Kfree(Deallocuvm(mem, g, KERNBASE, 0), Tables(mem.as[g]) \cup {g}) EXCEPT !.as[g] = NULL]

\* setupkvm(): the directory is First(mem).
Setupkvm(mem) ==
  LET g == First(mem)
      mem1 == [Kalloc(mem) EXCEPT !.as[g] = [ktab |-> 0, tabs |-> [t \in 0 .. (NV - 1) \div NPT |-> 0],
                                            pte |-> [v \in 0 .. NV - 1 |-> 0]]]
  IN  IF mem.free = {} THEN Fail(mem)
      ELSE IF mem1.free = {} THEN Fail(Freevm(mem1, g))
      ELSE Ok([Kalloc(mem1) EXCEPT !.as[g].ktab = First(mem1)])

\* One round of the loops of allocuvm() and copyuvm(): a page for v.
NewPage(g, r, v) ==
  LET page == First(r.m)
      s == Mappage(Kalloc(r.m), g, v, page)
  IN  IF ~r.ok THEN r
      ELSE IF r.m.free = {} THEN Fail(r.m)
      ELSE IF s.ok THEN s ELSE Fail(Kfree(s.m, {page}))

AllocuvmLeaks(mem, g, old, new) ==
  IF new >= KERNBASE THEN [size |-> 0, m |-> mem]
  ELSE LET r == FoldLeft(LAMBDA x, v : NewPage(g, x, v), Ok(mem), Ups(PgRoundUp(old), PgRoundUp(new)))
       IN  [size |-> IF r.ok THEN new ELSE 0, m |-> r.m]

\* allocuvm(), with the size that it returns, 0 for failure.
Allocuvm(mem, g, old, new) ==
  IF new >= KERNBASE THEN [size |-> 0, m |-> mem]
  ELSE IF new < old THEN [size |-> old, m |-> mem]
  ELSE LET r == FoldLeft(LAMBDA x, v : NewPage(g, x, v), Ok(mem), Ups(PgRoundUp(old), PgRoundUp(new)))
       IN  IF r.ok THEN [size |-> new, m |-> r.m]
           ELSE [size |-> 0, m |-> Deallocuvm(r.m, g, new, old)]

\* copyuvm(): every page below size must be there.
CopyPage(pte, d, r, v) ==
  [NewPage(d, r, v) EXCEPT !.m.panic = @ \/ (r.ok /\ pte[v] = 0)]

Copyuvm(mem, g, size) ==
  LET d == First(mem)
      k == Setupkvm(mem)
      r == FoldLeft(LAMBDA x, v : CopyPage(mem.as[g].pte, d, x, v), k, Ups(0, PgRoundUp(size)))
  IN  IF k.ok /\ ~r.ok THEN Fail(Freevm(r.m, d)) ELSE r

-----------------------------------------------------------------------------
\* The segments of a program, loaded into g; bad if one wraps around.
LoadSegment(g, r, seg) ==
  LET end == Unsigned(seg.vaddr + seg.memsz) IN
  IF (r.size = 0 /\ r.tried) \/ end < seg.vaddr THEN [r EXCEPT !.size = 0, !.tried = TRUE]
  ELSE LET a == Allocuvm(r.m, g, r.size, end) IN [size |-> a.size, m |-> a.m, tried |-> TRUE]

Load(mem, g, image) ==
  FoldLeft(LAMBDA r, seg : LoadSegment(g, r, seg), [size |-> 0, m |-> mem, tried |-> FALSE], image)

\* The new address space of exec(), First(mem): program, guard page, stack.
Build(mem, image) ==
  LET g == First(mem)
      k == Setupkvm(mem)
      l == Load(k.m, g, image)
      top == PgRoundUp(l.size) * PGSIZE
      s == Allocuvm(l.m, g, top, Unsigned(top + 2 * PGSIZE))
  IN  IF ~k.ok THEN [size |-> 0, m |-> k.m]
      ELSE IF l.tried /\ l.size = 0 THEN [size |-> 0, m |-> Freevm(l.m, g)]
      ELSE IF s.size = 0 THEN [size |-> 0, m |-> Freevm(s.m, g)]
      ELSE s

\* After userinit() and the exec() of initcode.S: init has the shortest program,
\* and there is memory for it.
FirstImage == CHOOSE i \in Images : \A j \in Images : Len(i) <= Len(j)
Empty == [free |-> Pages, as |-> [x \in Pages |-> NULL], panic |-> FALSE]
Boot == Build(Empty, FirstImage)

ASSUME BootAssumption == FirstImage \in Images /\ Boot.size # 0

Init ==
  /\ m = Boot.m
  /\ pgdir = [p \in Procs |-> IF p = InitProc THEN First(Empty) ELSE NULL]
  /\ sz = [p \in Procs |-> IF p = InitProc THEN Boot.size ELSE 0]
  /\ thread = [p \in Procs |-> FALSE]

\* A process runs user code, which is at address 0.
Runs(p) == pgdir[p] # NULL /\ m.as[pgdir[p]].pte[0] # 0
Main(p) == Runs(p) /\ ~thread[p]
Shared(p) == \E q \in Procs \ {p} : pgdir[q] = pgdir[p]
Unused == {p \in Procs : pgdir[p] = NULL}

Fork(p) ==
  LET q == Lowest(Unused)
      r == Copyuvm(m, pgdir[p], sz[p])
  IN
  /\ Main(p) /\ Unused # {}
  /\ m' = r.m
  /\ pgdir' = IF r.ok THEN [pgdir EXCEPT ![q] = First(m)] ELSE pgdir
  /\ sz' = IF r.ok THEN [sz EXCEPT ![q] = sz[p]] ELSE sz
  /\ UNCHANGED thread

\* clone(): a thread, with the size its parent has now.  Threads make no
\* call that changes the address space: p->sz is not shared.
Clone(p) ==
  LET q == Lowest(Unused) IN
  /\ Main(p) /\ p # InitProc /\ Unused # {}
  /\ pgdir' = [pgdir EXCEPT ![q] = pgdir[p]]
  /\ sz' = [sz EXCEPT ![q] = sz[p]]
  /\ thread' = [thread EXCEPT ![q] = TRUE]
  /\ UNCHANGED m

\* exec(); the file may be bad, and the arguments may not fit the stack.
Exec(p, image) ==
  LET b == Build(m, image) IN
  /\ Main(p) /\ p # InitProc /\ ~Shared(p)
  /\ \/ /\ b.size # 0
        /\ m' = Freevm(b.m, pgdir[p])
        /\ pgdir' = [pgdir EXCEPT ![p] = First(m)]
        /\ sz' = [sz EXCEPT ![p] = b.size]
     \/ /\ m' = IF b.size # 0 THEN Freevm(b.m, First(m)) ELSE b.m
        /\ UNCHANGED <<pgdir, sz>>
  /\ UNCHANGED thread

\* growproc(): a size of 0 counts as failure, also where deallocuvm() has
\* just freed everything.
Growproc(p, n) ==
  LET new == Unsigned(sz[p] + n)
      a == Allocuvm(m, pgdir[p], sz[p], new)
      d == DeallocSize(sz[p], new)
      size == IF n > 0 THEN a.size ELSE d
  IN
  /\ m' = IF n > 0 THEN a.m ELSE Deallocuvm(m, pgdir[p], sz[p], new)
  /\ sz' = IF size = 0 THEN sz ELSE [sz EXCEPT ![p] = size]
  /\ UNCHANGED <<pgdir, thread>>

Sbrk(p, n) == Main(p) /\ p # InitProc /\ Growproc(p, n)

\* exit() and wait() or join(): a thread leaves its address space to others.
Exit(p) ==
  /\ pgdir[p] # NULL /\ p # InitProc
  /\ thread[p] \/ ~Shared(p)
  /\ m' = IF thread[p] THEN m ELSE Freevm(m, pgdir[p])
  /\ pgdir' = [pgdir EXCEPT ![p] = NULL]
  /\ sz' = [sz EXCEPT ![p] = 0]
  /\ thread' = [thread EXCEPT ![p] = FALSE]

VmStep(p) ==
  \/ Fork(p) \/ Clone(p) \/ Exit(p)
  \/ \E image \in Images : Exec(p, image)

-----------------------------------------------------------------------------
\* The address spaces that processes have, and the pages of each.
Spaces == {pgdir[p] : p \in Procs} \ {NULL}
UserPages(g) == {m.as[g].pte[v] : v \in 0 .. NV - 1} \ {0}
Held(g) == Tables(m.as[g]) \cup UserPages(g) \cup {g}
Mapped(g) == {v \in 0 .. NV - 1 : m.as[g].pte[v] # 0}

\* Every page is free or in one place of one address space that a process
\* has, whichever step of fork(), exec() or sbrk() ran out of memory; nothing
\* panics ("remap", "copyuvm: page not present"), and no page is freed twice.
PagesAccounted ==
  /\ ~m.panic
  /\ m.free = Pages \ UNION {Held(g) : g \in Spaces}
  /\ \A g, h \in Spaces : g # h => Held(g) \cap Held(h) = {}
  /\ \A g \in Spaces :
       /\ Cardinality(UserPages(g)) = Cardinality(Mapped(g))
       /\ UserPages(g) \cap Tables(m.as[g]) = {}

\* p->sz says what is mapped, which fork(), sbrk() and exec() rely on.
SizeMapped ==
  \A p \in Procs : Main(p) => Mapped(pgdir[p]) = {v \in 0 .. NV - 1 : v * PGSIZE < sz[p]}
=============================================================================
