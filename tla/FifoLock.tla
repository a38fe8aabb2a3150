------------------------------ MODULE FifoLock -----------------------------
(***************************************************************************)
(* What a fair lock promises: threads enter one at a time, in the order in *)
(* which they asked.                                                       *)
(***************************************************************************)
EXTENDS Sequences

CONSTANT Threads

VARIABLES queue,    \* the threads that have asked and not yet left
          inside    \* the threads inside

Init == queue = <<>> /\ inside = {}

Ask(t) ==
  /\ \A i \in DOMAIN queue : queue[i] # t
  /\ queue' = Append(queue, t)
  /\ UNCHANGED inside

Enter(t) ==
  /\ queue # <<>> /\ Head(queue) = t
  /\ inside = {}
  /\ inside' = {t}
  /\ UNCHANGED queue

Leave(t) ==
  /\ inside = {t}
  /\ inside' = {}
  /\ queue' = Tail(queue)

Next == \E t \in Threads : Ask(t) \/ Enter(t) \/ Leave(t)

Spec == Init /\ [][Next]_<<queue, inside>>

=============================================================================
