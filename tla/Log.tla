-------------------------------- MODULE Log --------------------------------
(***************************************************************************)
(* The write-ahead log (log.c) over the buffer cache: group commit, log    *)
(* space, and recovery after a crash at any moment.                        *)
(*                                                                         *)
(* Block 0 is the header of the log, blocks 1, 2, ... its blocks.  The     *)
(* loops of write_log() and install_trans() copy block by block between    *)
(* the log and the home location and differ in the direction; phase says   *)
(* which one runs, and, in write_head(), which of commit()'s two calls.    *)
(* A process is a program that reads blocks, and that makes file system    *)
(* operations: begin_op(), for some blocks bread(), a change, log_write()  *)
(* and brelse(), then end_op().  InitProc runs initlog() after boot.       *)
(***************************************************************************)
EXTENDS Bio

CONSTANTS InitProc,
          Data,          \* the blocks outside the log
          Values,        \* contents of a block
          MAXOPBLOCKS, LOGSIZE,
          OPBLOCKS       \* blocks that an operation writes at most

\* log.size, the header included: mkfs makes a log of LOGSIZE blocks.
LogBlocks == LOGSIZE

\* The largest operation, a filewrite() of three blocks' bytes at any offset,
\* writes four blocks, the indirect block, the bitmap and the inode: OPBLOCKS
\* is 7, MAXOPBLOCKS 10, LOGSIZE 30.
ASSUME LogAssumption ==
  /\ InitProc \in Procs
  /\ OPBLOCKS \in Nat /\ MAXOPBLOCKS \in Nat /\ LOGSIZE \in Nat
  /\ OPBLOCKS < MAXOPBLOCKS /\ MAXOPBLOCKS < LOGSIZE
  /\ Blocks = (0 .. LogBlocks - 1) \cup Data
  /\ Data \cap (0 .. LogBlocks - 1) = {}
  /\ (\A S \in SUBSET Data : S # NULL) /\ NULL \notin {"write_log", "install"}

VARIABLES lh,                       \* log.lh as a sequence of block numbers
          outstanding, committing,  \* log.outstanding, log.committing
          up,                       \* initlog() is done
          phase, tail, lbuf, dbuf,  \* locals of commit() and what it calls
          wrote                     \* the blocks of p's operation, NULL outside

lvars == <<lh, outstanding, committing, up, phase, tail, lbuf, dbuf, wrote>>
vars == <<bvars, lvars>>

\* After main() the first process runs initlog(); the others come later.
Start == [p \in Procs |-> IF p = InitProc THEN "boot" ELSE "off"]
Nothing == [p \in Procs |-> NULL]

\* mkfs leaves an empty log.
Init ==
  /\ \E v \in Values : disk = [b \in Blocks |-> IF b = 0 THEN <<>> ELSE v]
  /\ buf = FreshBuf /\ lru \in Orders /\ idequeue = <<>>
  /\ pc = Start /\ asleep = Nothing /\ ret = Nothing /\ want = Nothing /\ cb = Nothing
  /\ panic = FALSE
  /\ lh = <<>> /\ outstanding = 0 /\ committing = FALSE /\ up = FALSE
  /\ phase = NULL /\ tail = 0 /\ lbuf = NULL /\ dbuf = NULL /\ wrote = Nothing

\* The machine stops and boots again: only the disk is left
\* (and the names of the buffers).
Crash ==
  /\ buf' = FreshBuf /\ lru' = lru /\ idequeue' = <<>>
  /\ pc' = Start /\ asleep' = Nothing /\ ret' = Nothing /\ want' = Nothing /\ cb' = Nothing
  /\ panic' = FALSE
  /\ lh' = <<>> /\ outstanding' = 0 /\ committing' = FALSE /\ up' = FALSE
  /\ phase' = NULL /\ tail' = 0 /\ lbuf' = NULL /\ dbuf' = NULL /\ wrote' = Nothing
  /\ UNCHANGED disk

-----------------------------------------------------------------------------
\* A read outside an operation: bread(), look at the data, brelse().
Read(p, b) ==
  /\ At(p, "user")
  /\ Bread(p, b, "read")
  /\ UNCHANGED <<disk, cvars, asleep, cb, panic, lvars>>

ReadDone(p) ==
  /\ At(p, "read")
  /\ Brelse(p, cb[p], "user")
  /\ UNCHANGED <<disk, cvars, asleep, want, panic, lvars>>

\* begin_op() does not let an operation in that might not fit into the log.
NoSpaceUnlogged == (outstanding + 1) * MAXOPBLOCKS > LOGSIZE

NoSpace == Len(lh) + (outstanding + 1) * MAXOPBLOCKS > LOGSIZE

BeginOp(p) ==
  /\ At(p, "user") \/ At(p, "begin_op")
  /\ IF committing \/ NoSpace
     THEN /\ Sleep(p, <<"log", NULL>>)
          /\ Goto(p, "begin_op")
          /\ UNCHANGED <<outstanding, wrote>>
     ELSE /\ outstanding' = outstanding + 1
          /\ wrote' = [wrote EXCEPT ![p] = {}]
          /\ Goto(p, "op")
          /\ UNCHANGED asleep
  /\ UNCHANGED <<disk, cvars, ret, want, cb, panic, lh, committing, up, phase, tail, lbuf, dbuf>>

\* The operation turns to one more block, or again to one that it has written.
OpBlock(p, b) ==
  /\ At(p, "op")
  /\ b \in wrote[p] \/ Cardinality(wrote[p]) < OPBLOCKS
  /\ Bread(p, b, "log_write")
  /\ UNCHANGED <<disk, cvars, asleep, cb, panic, lvars>>

\* log_write() tests the size before it takes log.lock.
LogTest(p) ==
  /\ At(p, "log_write")
  /\ IF Len(lh) >= LOGSIZE \/ Len(lh) >= LogBlocks - 1 \/ outstanding < 1
     THEN panic' = TRUE /\ UNCHANGED pc
     ELSE Goto(p, "log_append") /\ UNCHANGED panic
  /\ UNCHANGED <<disk, cvars, asleep, ret, want, cb, lvars>>

LogWrite(p, v) ==
  LET b == buf[cb[p]].block IN
  /\ At(p, "log_append")
  /\ lh' = IF \E i \in DOMAIN lh : lh[i] = b THEN lh ELSE Append(lh, b)
  /\ buf' = [buf EXCEPT ![cb[p]].data = v, ![cb[p]].dirty = TRUE]
  /\ wrote' = [wrote EXCEPT ![p] = @ \cup {b}]
  /\ Brelse(p, cb[p], "op")
  /\ UNCHANGED <<disk, lru, idequeue, asleep, want, panic,
                 outstanding, committing, up, phase, tail, lbuf, dbuf>>

EndOp(p) ==
  /\ At(p, "op")
  /\ outstanding' = outstanding - 1
  /\ wrote' = [wrote EXCEPT ![p] = NULL]
  /\ panic' = committing
  /\ IF outstanding = 1
     THEN committing' = TRUE /\ Goto(p, "commit") /\ UNCHANGED asleep
     ELSE Wakeup(<<"log", NULL>>) /\ Goto(p, "user") /\ UNCHANGED committing
  /\ UNCHANGED <<disk, cvars, ret, want, cb, lh, up, phase, tail, lbuf, dbuf>>

-----------------------------------------------------------------------------
\* commit() does nothing when the operations wrote nothing.
Commit(p) ==
  /\ At(p, "commit")
  /\ IF lh # <<>>
     THEN phase' = "write_log" /\ Goto(p, "copy")
     ELSE Goto(p, "committed") /\ UNCHANGED phase
  /\ UNCHANGED <<disk, cvars, asleep, ret, want, cb, panic,
                 lh, outstanding, committing, up, tail, lbuf, dbuf, wrote>>

\* The head of the loops of write_log() and install_trans().
CopyNext(p) ==
  /\ At(p, "copy")
  /\ tail < Len(lh)
  /\ Bread(p, tail + 1, "copy.log")
  /\ UNCHANGED <<disk, cvars, asleep, cb, panic, lvars>>

CopyLog(p) ==
  /\ At(p, "copy.log")
  /\ lbuf' = cb[p]
  /\ Bread(p, lh[tail + 1], "copy.home")
  /\ UNCHANGED <<disk, cvars, asleep, cb, panic,
                 lh, outstanding, committing, up, phase, tail, dbuf, wrote>>

CopyHome(p) ==
  /\ At(p, "copy.home")
  /\ dbuf' = cb[p]
  /\ IF phase = "write_log"
     THEN Bwrite(p, lbuf, buf[cb[p]].data, "copy.done")
     ELSE Bwrite(p, cb[p], buf[lbuf].data, "copy.done")
  /\ UNCHANGED <<disk, lru, idequeue, asleep, want, panic,
                 lh, outstanding, committing, up, phase, tail, lbuf, wrote>>

\* brelse() of the source, then of the destination.
CopyDone(p) ==
  /\ At(p, "copy.done")
  /\ Brelse(p, IF phase = "write_log" THEN dbuf ELSE lbuf, "copy.brelse")
  /\ UNCHANGED <<disk, cvars, asleep, want, panic, lvars>>

CopyBrelse(p) ==
  /\ At(p, "copy.brelse")
  /\ Brelse(p, IF phase = "write_log" THEN lbuf ELSE dbuf, "copy")
  /\ tail' = tail + 1 /\ lbuf' = NULL /\ dbuf' = NULL
  /\ UNCHANGED <<disk, cvars, asleep, want, panic,
                 lh, outstanding, committing, up, phase, wrote>>

WriteHeadOnce(p) ==
  /\ At(p, "copy")
  /\ tail = Len(lh)
  /\ tail' = 0
  /\ IF phase = "write_log"
     THEN phase' = "install" /\ UNCHANGED <<lh, pc, want, ret>>
     ELSE lh' = <<>> /\ Bread(p, 0, "head") /\ UNCHANGED phase
  /\ UNCHANGED <<disk, cvars, asleep, cb, panic,
                 outstanding, committing, up, lbuf, dbuf, wrote>>

\* The end of a loop: write_head(), after install_trans() with lh.n = 0.
WriteHead(p) ==
  /\ At(p, "copy")
  /\ tail = Len(lh)
  /\ lh' = IF phase = "write_log" THEN lh ELSE <<>>
  /\ tail' = 0
  /\ Bread(p, 0, "head")
  /\ UNCHANGED <<disk, cvars, asleep, cb, panic,
                 outstanding, committing, up, phase, lbuf, dbuf, wrote>>

HeadData(p) ==
  /\ At(p, "head")
  /\ Bwrite(p, cb[p], lh, "head.done")
  /\ UNCHANGED <<disk, lru, idequeue, asleep, want, panic, lvars>>

HeadDone(p) ==
  /\ At(p, "head.done")
  /\ IF phase = "write_log"
     THEN phase' = "install" /\ Brelse(p, cb[p], "copy")
     ELSE phase' = NULL /\ Brelse(p, cb[p], "committed")
  /\ UNCHANGED <<disk, cvars, asleep, want, panic,
                 lh, outstanding, committing, up, tail, lbuf, dbuf, wrote>>

\* The end of end_op(), or of recover_from_log(); then other processes start.
Committed(p) ==
  /\ At(p, "committed")
  /\ committing' = FALSE /\ up' = TRUE
  /\ pc' = [q \in Procs |-> IF q = p \/ ~up THEN "user" ELSE pc[q]]
  /\ Wakeup(<<"log", NULL>>)
  /\ UNCHANGED <<disk, cvars, ret, want, cb, panic,
                 lh, outstanding, phase, tail, lbuf, dbuf, wrote>>

\* recover_from_log(): read_head(), then install_trans() and write_head().
ReadHead(p) ==
  /\ At(p, "boot")
  /\ Bread(p, 0, "read_head")
  /\ UNCHANGED <<disk, cvars, asleep, cb, panic, lvars>>

HeadRead(p) ==
  /\ At(p, "read_head")
  /\ lh' = buf[cb[p]].data
  /\ phase' = "install"
  /\ Brelse(p, cb[p], "copy")
  /\ UNCHANGED <<disk, cvars, asleep, want, panic,
                 outstanding, committing, up, tail, lbuf, dbuf, wrote>>

-----------------------------------------------------------------------------
\* The steps of a process that has work to do, and the choices of its program.
Kernel(p) ==
  \/ BioStep(p) /\ UNCHANGED lvars
  \/ ReadDone(p) \/ LogTest(p) \/ \E v \in Values : LogWrite(p, v)
  \/ Commit(p) \/ CopyNext(p) \/ CopyLog(p) \/ CopyHome(p) \/ CopyDone(p) \/ CopyBrelse(p)
  \/ WriteHead(p) \/ HeadData(p) \/ HeadDone(p) \/ Committed(p)
  \/ ReadHead(p) \/ HeadRead(p)

Program(p) ==
  \/ \E b \in Data : Read(p, b) \/ OpBlock(p, b)
  \/ BeginOp(p) \/ EndOp(p)

Disk == IdeIntr /\ UNCHANGED lvars

Next == (\E p \in Procs : Kernel(p) \/ Program(p)) \/ Disk \/ Crash

Spec == Init /\ [][Next]_vars

-----------------------------------------------------------------------------
Buffer ==
  [block : Blocks \cup {NULL}, valid : BOOLEAN, dirty : BOOLEAN, refcnt : Nat,
   owner : Procs \cup {NULL}, data : Values \cup {Empty} \cup Seq(Data)]

\* The cache, the queue and the log header keep their types; the list of
\* buffers loses none; a sector is only ever a block or a log header.
TypeOK ==
  /\ DOMAIN disk = Blocks /\ disk[0] \in Seq(Data)
  /\ \A b \in Blocks \ {0} : disk[b] \in Values
  /\ buf \in [Bufs -> Buffer]
  /\ lru \in Orders
  /\ idequeue \in Seq(Bufs)
  /\ lh \in Seq(Data) /\ outstanding \in 0 .. Cardinality(Procs)
  /\ cb \in [Procs -> Bufs \cup {NULL}]

\* bget(): at most one buffer holds a block, so that everybody sees one copy.
OneCopy ==
  \A j, k \in Bufs : buf[j].block = buf[k].block /\ buf[j].block # NULL => j = k

\* The buffer cache, across bget(), brelse() and the interrupts of the disk.
CacheRight == TypeOK /\ OneCopy

\* The processes that have a buffer or ask for one.
Busy == {p \in Procs : pc[p] \notin {"off", "boot", "user", "begin_op", "op", "commit", "copy", "committed"}}

\* The cache has a buffer for each block of the transaction, which stays in it
\* until it is installed, and one for each of these processes.
Room == Cardinality(Busy) + Len(lh) <= NBUF

\* The panics of bget(), iderw(), bwrite(), brelse(), log_write() and end_op()
\* are not reached while there is room in the cache, however full the log is:
\* begin_op() lets in what fits ("too big a transaction"), a buffer is locked
\* by who uses it, and the disk is only asked when there is something to do.
NoPanic ==
  /\ panic => ~Room
  /\ \A p \in Procs :
       /\ pc[p] \in {"iderw", "brelse"} => buf[cb[p]].owner = p
       /\ pc[p] = "iderw" => ~buf[cb[p]].valid \/ buf[cb[p]].dirty

\* What a crash leaves: the home blocks, overwritten by the log if its header
\* on the disk says so.
Recovered ==
  [b \in Data |-> IF \E i \in DOMAIN disk[0] : disk[0][i] = b
                  THEN disk[CHOOSE i \in DOMAIN disk[0] : disk[0][i] = b]
                  ELSE disk[b]]

\* What bread() returns.
Current ==
  [b \in Data |-> IF up /\ \E k \in Bufs : buf[k].block = b /\ buf[k].valid
                  THEN buf[CHOOSE k \in Bufs : buf[k].block = b /\ buf[k].valid].data
                  ELSE IF up THEN disk[b] ELSE Recovered[b]]

\* "write_head(): the true point at which the current transaction commits":
\* whenever the machine stops, recovery finds all updates of an operation or
\* none, and nothing that was committed is lost.
Abs == INSTANCE AtomicDisk WITH
         Blocks <- Data, cur <- Current, durable <- Recovered,
         ops <- {p \in Procs : wrote[p] # NULL}

ImplementsAtomicDisk == Abs!Spec

\* sleep() and wakeup() of begin_op(), acquiresleep() and iderw(): nobody
\* sleeps when what it waits for has happened, or has nobody left to do it.
NoMissedWakeup ==
  \A p \in Procs :
    /\ asleep[p] = <<"log", NULL>> => committing \/ (NoSpace /\ outstanding > 0)
    /\ \A k \in Bufs :
         /\ asleep[p] = <<"lock", k>> => buf[k].owner \notin {NULL, p}
         /\ asleep[p] = <<"io", k>> => \E i \in DOMAIN idequeue : idequeue[i] = k
=============================================================================
