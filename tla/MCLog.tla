------------------------------- MODULE MCLog -------------------------------
(* Small instances of Log for TLC.                                         *)
EXTENDS Log, TLC

\* Blocks outside the log are interchangeable.
Symmetry == Permutations(Data)

\* What a state is but for names.  A buffer is known by its place in the list.
\* The code never looks at contents, so that with two values a content of a
\* block is known by whether it is what the disk holds.  A block of the log
\* goes with the block that the header on the disk, or else the transaction,
\* names for it; without one, what it holds is overwritten before it is read.
Place(k) == IF k = NULL THEN 0 ELSE CHOOSE i \in 1..NBUF : lru[i] = k

Home(b) ==
  CASE b \in Data -> b
    [] b \in DOMAIN disk[0] -> disk[0][b]
    [] disk[0] = <<>> /\ phase # NULL /\ b \in DOMAIN lh -> lh[b]
    [] OTHER -> NULL

Changed(b, v) ==
  IF b \in {0, NULL} \/ v = Empty THEN v ELSE Home(b) # NULL /\ v # disk[Home(b)]

View ==
  <<[b \in 0 .. LogBlocks - 1 |-> Changed(b, disk[b])],
    [i \in 1..NBUF |-> [buf[lru[i]] EXCEPT !.data = Changed(buf[lru[i]].block, @)]],
    [i \in DOMAIN idequeue |-> Place(idequeue[i])],
    [p \in Procs |-> <<IF asleep[p] = NULL THEN 0 ELSE <<asleep[p][1], Place(asleep[p][2])>>,
                       pc[p], ret[p], want[p], Place(cb[p]), wrote[p]>>],
    panic, lh, outstanding, committing, up, phase, tail, Place(lbuf), Place(dbuf)>>
=============================================================================
