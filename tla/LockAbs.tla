------------------------------ MODULE LockAbs ------------------------------
(***************************************************************************)
(* What a lock promises, whatever it is made of: a thread becomes an owner *)
(* of a lock only when the lock has none, and stays the owner until it     *)
(* releases it.                                                            *)
(***************************************************************************)
CONSTANTS Locks, Threads

VARIABLE owners     \* the set of threads that own each lock

Init == owners = [l \in Locks |-> {}]

Acquire(l, t) ==
  /\ owners[l] = {}
  /\ owners' = [owners EXCEPT ![l] = {t}]

Release(l, t) ==
  /\ owners[l] = {t}
  /\ owners' = [owners EXCEPT ![l] = {}]

Next == \E l \in Locks, t \in Threads : Acquire(l, t) \/ Release(l, t)

Spec == Init /\ [][Next]_owners

=============================================================================
