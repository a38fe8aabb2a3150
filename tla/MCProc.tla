------------------------------ MODULE MCProc ------------------------------
(* Small instances of Proc for TLC.                                        *)
EXTENDS Proc, TLC

\* CPUs are interchangeable.  So are the free pages: kalloc() may as well
\* hand out the lowest one.
Symmetry == Permutations(CPUs)
LowestPage(S) == {g \in S : \A h \in S : g <= h}

=============================================================================
