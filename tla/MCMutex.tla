------------------------------ MODULE MCMutex ------------------------------
(* Small instances of Mutex for TLC.                                       *)
EXTENDS Mutex, TLC

\* CPUs are interchangeable.
Symmetry == Permutations(CPUs)

=============================================================================
