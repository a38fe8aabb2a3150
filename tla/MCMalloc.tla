------------------------------ MODULE MCMalloc ------------------------------
(* A small instance of Malloc and Vm for TLC.                              *)
EXTENDS Malloc

\* A program of half a page, a page of text and one of data, and one
\* whose segment wraps around.
Programs ==
  { <<[vaddr |-> 0, memsz |-> 1]>>,
    <<[vaddr |-> 0, memsz |-> 2], [vaddr |-> 2, memsz |-> 1]>>,
    <<[vaddr |-> 0, memsz |-> 1], [vaddr |-> 2 * KERNBASE - 2, memsz |-> 4]>> }

\* Arguments of sbrk(): within a page, across one, and back past the start.
Steps == {3, -1, -8}

\* Which page is where does not matter while every page is accounted for once,
\* nor what is left in memory that is no header: states that differ in this
\* only are the same up to a renaming of the pages.
Form(p) ==
  IF pgdir[p] = NULL THEN NULL
  ELSE [mapped |-> Mapped(pgdir[p]), with |-> {q \in Procs : pgdir[q] = pgdir[p]},
        tabs |-> {t \in DOMAIN m.as[pgdir[p]].tabs : m.as[pgdir[p]].tabs[t] # 0}]

View ==
  <<IF PagesAccounted THEN <<Cardinality(m.free), [p \in Procs |-> Form(p)], m.panic>> ELSE <<m, pgdir>>,
    sz, thread, freep, core,
    [a \in FreeList \cup {Base} |-> hdr[a]], [a \in live |-> hdr[a].size]>>
=============================================================================
