-------------------------------- MODULE Bio --------------------------------
(***************************************************************************)
(* The buffer cache (bio.c), the sleep lock of a buffer (sleeplock.c) and  *)
(* the queue of the disk driver (ide.c).                                   *)
(*                                                                         *)
(* bread(), bwrite() and brelse() run in the process that calls them: a    *)
(* caller sets pc to the first label of the call and ret to the label to   *)
(* continue at.  A section under bcache.lock, under the spin lock inside a *)
(* sleep lock, or under idelock is one step.  sleep() under such a lock    *)
(* and the wakeup() under it are kept: asleep[p] is the channel.           *)
(*                                                                         *)
(*   bget          look the block up, or recycle a buffer                  *)
(*   acquiresleep  lock the buffer; read it if it is not valid             *)
(*   iderw         append to idequeue and sleep                            *)
(*   iowait        the loop of iderw()                                     *)
(*   brelse        releasesleep(), then unref: refcnt-- and the LRU list   *)
(*                                                                         *)
(* The disk works on the head of idequeue, whose process waits with the    *)
(* buffer locked, so the transfer is taken to happen at the interrupt.     *)
(***************************************************************************)
EXTENDS Integers, Sequences, FiniteSets

CONSTANTS Procs,    \* the processes
          Bufs,     \* bcache.buf[]
          Blocks,   \* block numbers of the file system
          Empty,    \* what a buffer holds before it is first used
          NULL

\* What a process sleeps on: the lock or the transfer of a buffer, &log.
Channels == ({"lock", "io"} \X Bufs) \cup {<<"log", NULL>>}

ASSUME BioAssumption ==
  /\ IsFiniteSet(Bufs) /\ IsFiniteSet(Procs)
  /\ NULL \notin Procs /\ NULL \notin Blocks /\ NULL \notin Bufs /\ NULL \notin Channels

NBUF == Cardinality(Bufs)

VARIABLES disk,      \* the blocks on the disk
          buf,       \* the fields of the buffers
          lru,       \* the list from bcache.head.next, most recently used first
          idequeue,
          asleep,    \* the channel the process sleeps on, or NULL
          pc, ret,   \* where the process is, and where it returns to
          want,      \* the blockno it has passed to bread()
          cb,        \* the buffer of its call
          panic

cvars == <<buf, lru, idequeue>>
bvars == <<disk, cvars, asleep, pc, ret, want, cb, panic>>

\* After binit(): the list holds every buffer, in an order that is only a
\* matter of their names, and no buffer has the file system's device number.
FreshBuf == [k \in Bufs |-> [block |-> NULL, valid |-> FALSE, dirty |-> FALSE,
                             refcnt |-> 0, owner |-> NULL, data |-> Empty]]
Orders == {f \in [1..NBUF -> Bufs] : \A k \in Bufs : \E i \in 1..NBUF : f[i] = k}

At(p, label) == pc[p] = label /\ asleep[p] = NULL /\ ~panic
Goto(p, label) == pc' = [pc EXCEPT ![p] = label]
Return(p) == Goto(p, ret[p]) /\ ret' = [ret EXCEPT ![p] = NULL]
Sleep(p, ch) == asleep' = [asleep EXCEPT ![p] = ch]
Wakeup(ch) == asleep' = [p \in Procs |-> IF asleep[p] = ch THEN NULL ELSE asleep[p]]

\* The calls.
Bread(p, b, r) ==
  /\ Goto(p, "bget")
  /\ want' = [want EXCEPT ![p] = b]
  /\ ret' = [ret EXCEPT ![p] = r]

Bwrite(p, k, data, r) ==
  /\ Goto(p, "iderw")
  /\ buf' = [buf EXCEPT ![k].data = data, ![k].dirty = TRUE]
  /\ cb' = [cb EXCEPT ![p] = k]
  /\ ret' = [ret EXCEPT ![p] = r]

Brelse(p, k, r) ==
  /\ Goto(p, "brelse")
  /\ cb' = [cb EXCEPT ![p] = k]
  /\ ret' = [ret EXCEPT ![p] = r]

-----------------------------------------------------------------------------
\* A buffer that holds the block, whether or not it has been read yet.
\* (Operators like the first are plausible mistakes; the runs must notice
\* them in place of the definition they precede.)
CachedIfValid(b, k) == buf[k].block = b /\ buf[k].valid

Cached(b, k) == buf[k].block = b

BgetHit(p) ==
  /\ At(p, "bget")
  /\ \E k \in Bufs :
       /\ Cached(want[p], k)
       /\ buf' = [buf EXCEPT ![k].refcnt = @ + 1]
       /\ cb' = [cb EXCEPT ![p] = k]
  /\ want' = [want EXCEPT ![p] = NULL]
  /\ Goto(p, "acquiresleep")
  /\ UNCHANGED <<disk, lru, idequeue, asleep, ret, panic>>

\* Buffers that bget() may take for another block: not in use, and not
\* modified by log.c.
Unused(k) == buf[k].refcnt = 0 /\ ~buf[k].dirty

\* The least recently used buffer that is unused, or a panic.  (The old data
\* stays in the buffer; nobody looks at it before iderw() overwrites it.)
BgetMiss(p) ==
  /\ At(p, "bget")
  /\ \A k \in Bufs : ~Cached(want[p], k)
  /\ IF \E k \in Bufs : Unused(k)
     THEN \E i \in 1..NBUF :
            /\ Unused(lru[i]) /\ \A j \in i + 1 .. NBUF : ~Unused(lru[j])
            /\ buf' = [buf EXCEPT ![lru[i]] = [@ EXCEPT !.block = want[p], !.valid = FALSE,
                                                        !.dirty = FALSE, !.refcnt = 1, !.data = Empty]]
            /\ cb' = [cb EXCEPT ![p] = lru[i]]
            /\ want' = [want EXCEPT ![p] = NULL]
            /\ Goto(p, "acquiresleep")
            /\ UNCHANGED panic
     ELSE panic' = TRUE /\ UNCHANGED <<buf, cb, want, pc>>
  /\ UNCHANGED <<disk, lru, idequeue, asleep, ret>>

\* acquiresleep(), and bread()'s test of B_VALID.
AcquireSleep(p) ==
  LET k == cb[p] IN
  /\ At(p, "acquiresleep")
  /\ \/ /\ buf[k].owner # NULL
        /\ Sleep(p, <<"lock", k>>)
        /\ UNCHANGED <<buf, pc, ret>>
     \/ /\ buf[k].owner = NULL
        /\ buf' = [buf EXCEPT ![k].owner = p]
        /\ IF buf[k].valid THEN Return(p) ELSE Goto(p, "iderw") /\ UNCHANGED ret
        /\ UNCHANGED asleep
  /\ UNCHANGED <<disk, lru, idequeue, want, cb, panic>>

Iderw(p) ==
  /\ At(p, "iderw")
  /\ idequeue' = Append(idequeue, cb[p])
  /\ Sleep(p, <<"io", cb[p]>>)
  /\ Goto(p, "iowait")
  /\ UNCHANGED <<disk, buf, lru, ret, want, cb, panic>>

IdeWait(p) ==
  LET k == cb[p] IN
  /\ At(p, "iowait")
  /\ IF buf[k].valid /\ ~buf[k].dirty
     THEN Return(p) /\ UNCHANGED asleep
     ELSE Sleep(p, <<"io", k>>) /\ UNCHANGED <<pc, ret>>
  /\ UNCHANGED <<disk, cvars, want, cb, panic>>

\* ideintr(): the request at the head of the queue is done.
IdeIntr ==
  LET k == Head(idequeue) IN
  /\ idequeue # <<>> /\ ~panic
  /\ idequeue' = Tail(idequeue)
  /\ IF buf[k].dirty
     THEN /\ disk' = [disk EXCEPT ![buf[k].block] = buf[k].data]
          /\ buf' = [buf EXCEPT ![k].valid = TRUE, ![k].dirty = FALSE]
     ELSE /\ buf' = [buf EXCEPT ![k].valid = TRUE, ![k].data = disk[buf[k].block]]
          /\ UNCHANGED disk
  /\ Wakeup(<<"io", k>>)
  /\ UNCHANGED <<lru, pc, ret, want, cb, panic>>

ReleaseSleepSilently(p) ==
  /\ At(p, "brelse")
  /\ buf' = [buf EXCEPT ![cb[p]].owner = NULL]
  /\ Goto(p, "unref")
  /\ UNCHANGED <<disk, lru, idequeue, asleep, ret, want, cb, panic>>

ReleaseSleep(p) ==
  /\ At(p, "brelse")
  /\ buf' = [buf EXCEPT ![cb[p]].owner = NULL]
  /\ Wakeup(<<"lock", cb[p]>>)
  /\ Goto(p, "unref")
  /\ UNCHANGED <<disk, lru, idequeue, ret, want, cb, panic>>

\* The list with buffer k taken out and put in front.
MoveToFront(k) ==
  LET at == CHOOSE i \in 1..NBUF : lru[i] = k
  IN  [i \in 1..NBUF |-> IF i = 1 THEN k ELSE IF i <= at THEN lru[i - 1] ELSE lru[i]]

Unref(p) ==
  LET k == cb[p] IN
  /\ At(p, "unref")
  /\ buf' = [buf EXCEPT ![k].refcnt = @ - 1]
  /\ lru' = IF buf[k].refcnt = 1 THEN MoveToFront(k) ELSE lru
  /\ cb' = [cb EXCEPT ![p] = NULL]
  /\ Return(p)
  /\ UNCHANGED <<disk, idequeue, asleep, want, panic>>

BioStep(p) ==
  \/ BgetHit(p) \/ BgetMiss(p) \/ AcquireSleep(p)
  \/ Iderw(p) \/ IdeWait(p) \/ ReleaseSleep(p) \/ Unref(p)
=============================================================================
