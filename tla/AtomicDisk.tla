----------------------------- MODULE AtomicDisk -----------------------------
(***************************************************************************)
(* What the log promises: a disk whose updates by file system operations   *)
(* survive a crash all together or not at all.  cur is what operations     *)
(* see, durable what a crash leaves.                                       *)
(***************************************************************************)
CONSTANTS Procs, Blocks, Values

VARIABLES cur, durable, ops   \* ops: the processes inside an operation

Init == cur = durable /\ ops = {}

Begin(p) == p \notin ops /\ ops' = ops \cup {p} /\ UNCHANGED <<cur, durable>>

Update(p, b, v) ==
  /\ p \in ops
  /\ cur' = [cur EXCEPT ![b] = v]
  /\ UNCHANGED <<durable, ops>>

End(p) == p \in ops /\ ops' = ops \ {p} /\ UNCHANGED <<cur, durable>>

Commit == ops = {} /\ durable' = cur /\ UNCHANGED <<cur, ops>>

Crash == cur' = durable /\ ops' = {} /\ UNCHANGED durable

Next ==
  \/ \E p \in Procs : Begin(p) \/ End(p) \/ \E b \in Blocks, v \in Values : Update(p, b, v)
  \/ Commit \/ Crash

Spec == Init /\ [][Next]_<<cur, durable, ops>>
=============================================================================
