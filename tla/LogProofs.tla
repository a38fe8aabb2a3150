----------------------------- MODULE LogProofs -----------------------------
(***************************************************************************)
(* Proofs about Log, and Bio below it, for every number of processes,      *)
(* buffers and blocks: the buffer cache, the space in the log, sleep() and *)
(* wakeup(), and that the log makes operations atomic over crashes.        *)
(*                                                                         *)
(* LogInv is inductive.  Its parts say, from the bottom up: where a        *)
(* process is and what it may do there (Control); what the operations may  *)
(* still add to the log (LogSpace); which buffers a process uses and owns  *)
(* (Holding); which block each of these holds (Naming); what is waiting    *)
(* for the disk (Queue); how cache and disk differ (Content); and how far  *)
(* commit() or the recovery has come (Progress, Header).                   *)
(***************************************************************************)
EXTENDS Log, FiniteSetTheorems, TLAPS

USE DEF LogBlocks

-----------------------------------------------------------------------------
(* The log.                                                                *)

\* The transaction has no more blocks than the log on the disk.
LogFits == Len(lh) < LogBlocks

\* What the operations in progress may still add to the log: of the OPBLOCKS
\* blocks of each, those that it has not yet written.
Reserved ==
  {x \in Procs \X (1 .. OPBLOCKS) : wrote[x[1]] # NULL /\ Cardinality(wrote[x[1]]) < x[2]}

\* begin_op() sets MAXOPBLOCKS aside for an operation that writes OPBLOCKS at
\* most.  A transaction of one operation has OPBLOCKS blocks; before another
\* entered, there was room for what both of them do not use.
MostLogged ==
  LET two == LOGSIZE - 2 * (MAXOPBLOCKS - OPBLOCKS)
  IN  IF two < OPBLOCKS THEN OPBLOCKS ELSE two

\* "this op might exhaust log space; wait for commit": the log has room for
\* all that the operations in progress may still write.
LogSpace == Len(lh) + Cardinality(Reserved) <= MostLogged

-----------------------------------------------------------------------------
(* Control.                                                                *)

\* Inside bread(), bwrite() or brelse(), a process is on behalf of ret.
GetRets == {"read", "log_write", "copy.log", "copy.home", "head", "read_head"}
PutRets == {"copy.done", "head.done"}
RelRets == {"user", "op", "copy", "copy.brelse", "committed"}
BioLabels == {"bget", "acquiresleep", "iderw", "iowait", "brelse", "unref"}
LogLabels == GetRets \cup PutRets \cup RelRets \cup {"off", "boot", "begin_op", "log_append", "commit"}

Loc(p) == IF pc[p] \in BioLabels THEN ret[p] ELSE pc[p]

OpLocs == {"op", "log_write", "log_append"}
CopyLocs == {"copy", "copy.log", "copy.home", "copy.done", "copy.brelse", "head", "head.done"}
CommitLocs == CopyLocs \cup {"commit", "committed"}
BootLocs == CopyLocs \cup {"boot", "read_head", "committed"}

Ops == {p \in Procs : wrote[p] # NULL}

Types ==
  /\ disk \in [Blocks -> Values \cup Seq(Data)]
  /\ buf \in [Bufs -> Buffer]
  /\ lru \in Orders
  /\ idequeue \in Seq(Bufs)
  /\ asleep \in [Procs -> Channels \cup {NULL}]
  /\ pc \in [Procs -> BioLabels \cup LogLabels]
  /\ ret \in [Procs -> LogLabels \cup {NULL}]
  /\ want \in [Procs -> Blocks \cup {NULL}]
  /\ cb \in [Procs -> Bufs \cup {NULL}]
  /\ panic \in BOOLEAN /\ committing \in BOOLEAN /\ up \in BOOLEAN
  /\ lh \in Seq(Data) /\ outstanding \in Nat /\ tail \in Nat
  /\ phase \in {NULL, "write_log", "install"}
  /\ lbuf \in Bufs \cup {NULL} /\ dbuf \in Bufs \cup {NULL}
  /\ wrote \in [Procs -> (SUBSET Data) \cup {NULL}]

\* Which calls are made on behalf of which labels.
Calls(p) ==
  /\ pc[p] \in {"bget", "acquiresleep"} => ret[p] \in GetRets
  /\ pc[p] \in {"iderw", "iowait"} => ret[p] \in GetRets \cup PutRets
  /\ pc[p] \in {"brelse", "unref"} => ret[p] \in RelRets

\* Recovery runs alone; a commit runs alone, when no operation does.
Modes ==
  /\ ~up => /\ \A p \in Procs : p # InitProc => Loc(p) = "off"
            /\ Loc(InitProc) \in BootLocs
            /\ ~committing /\ phase # "write_log"
  /\ up => \A p \in Procs : Loc(p) \in {"user", "begin_op", "read"} \cup OpLocs \cup CommitLocs
  /\ \A p \in Procs : up /\ Loc(p) \in CommitLocs => committing
  /\ \A p, q \in Procs : Loc(p) \in CommitLocs \cup BootLocs /\ Loc(q) \in CommitLocs \cup BootLocs => p = q

Operations ==
  /\ \A p \in Procs :
       /\ wrote[p] # NULL <=> Loc(p) \in OpLocs
       /\ wrote[p] # NULL => IsFiniteSet(wrote[p]) /\ Cardinality(wrote[p]) <= OPBLOCKS
       /\ wrote[p] # NULL => \A b \in wrote[p] : \E i \in DOMAIN lh : lh[i] = b
  /\ outstanding = Cardinality(Ops)
  /\ committing => outstanding = 0

\* The variables of commit(), as the process in it finds them ...
Phase(p) ==
  /\ Loc(p) \in CopyLocs => phase \in {"write_log", "install"}
  /\ Loc(p) = "copy" => tail <= Len(lh)
  /\ Loc(p) \in {"copy.log", "copy.home", "copy.done", "copy.brelse"} => tail < Len(lh)
  /\ Loc(p) \in {"head", "head.done"} => tail = 0 /\ (phase = "install" => lh = <<>>)
  /\ Loc(p) = "committed" => lh = <<>>

\* ... and when there is none.
Phases ==
  /\ phase # NULL => \E p \in Procs : Loc(p) \in CopyLocs
  /\ phase = NULL => tail = 0
  /\ ~committing /\ outstanding = 0 /\ phase = NULL => lh = <<>>

-----------------------------------------------------------------------------
(* Buffers.                                                                *)

\* cb is a buffer that the process has a reference to.
HasCb(p) ==
  pc[p] \in {"acquiresleep", "iderw", "iowait", "brelse", "unref", "read", "log_write", "log_append",
             "copy.log", "copy.home", "copy.done", "head", "head.done", "read_head"}

\* The buffer that write_log() or install_trans() writes.
Dest == IF phase = "write_log" THEN lbuf ELSE dbuf

Uses(p, k) ==
  \/ HasCb(p) /\ k = cb[p]
  \/ Loc(p) \in {"copy.home", "copy.done"} /\ k = lbuf
  \/ Loc(p) = "copy.done" /\ k = dbuf
  \/ Loc(p) = "copy.brelse" /\ k = Dest

Owns(p, k) == Uses(p, k) /\ ~(pc[p] \in {"acquiresleep", "unref"} /\ k = cb[p])

Users(k) == {p \in Procs : Uses(p, k)}

Holding(p) ==
  /\ HasCb(p) => cb[p] \in Bufs
  /\ Loc(p) \in {"copy.home", "copy.done", "copy.brelse"} => lbuf \in Bufs
  /\ Loc(p) \in {"copy.done", "copy.brelse"} => dbuf \in Bufs

Owners == \A p \in Procs, k \in Bufs : buf[k].owner = p <=> Owns(p, k)

\* refcnt counts the users of a buffer.
Counts == \A k \in Bufs : buf[k].refcnt = Cardinality(Users(k))

\* The block that bread() is to look up, or has found.
Right(p, b) ==
  /\ Loc(p) \in {"read", "log_write", "log_append"} => b \in Data
  /\ Loc(p) \in {"log_write", "log_append"} => b \in wrote[p] \/ Cardinality(wrote[p]) < OPBLOCKS
  /\ Loc(p) = "copy.log" => b = tail + 1
  /\ Loc(p) = "copy.home" => b = lh[tail + 1]
  /\ Loc(p) \in {"head", "head.done", "read_head"} => b = 0

Naming(p) ==
  /\ pc[p] = "bget" => want[p] \in Blocks /\ Right(p, want[p])
  /\ \A k \in Bufs : Uses(p, k) => buf[k].block \in Blocks
  /\ HasCb(p) => Right(p, buf[cb[p]].block)
  /\ Loc(p) \in {"copy.home", "copy.done"} => buf[lbuf].block = tail + 1
  /\ Loc(p) = "copy.done" => buf[dbuf].block = lh[tail + 1] /\ cb[p] = Dest
  /\ Loc(p) = "copy.brelse" =>
       /\ buf[Dest].block = IF phase = "write_log" THEN tail + 1 ELSE lh[tail + 1]
       /\ HasCb(p) => /\ cb[p] # Dest
                      /\ buf[cb[p]].block = IF phase = "write_log" THEN lh[tail + 1] ELSE tail + 1

\* There is something to read, or to write.
Asked(p) ==
  /\ ret[p] \in GetRets => ~buf[cb[p]].valid
  /\ ret[p] \in PutRets => buf[cb[p]].dirty

\* Every request in the queue has its process, and every process at iowait
\* whose request has left the queue finds it done.
Queue ==
  /\ \A i \in DOMAIN idequeue :
       \E p \in Procs : Owns(p, idequeue[i]) /\ pc[p] = "iowait" /\ cb[p] = idequeue[i]
  /\ \A i, j \in DOMAIN idequeue : idequeue[i] = idequeue[j] => i = j
  /\ \A p \in Procs :
       /\ pc[p] = "iderw" => Asked(p)
       /\ pc[p] = "iowait" => IF \E i \in DOMAIN idequeue : idequeue[i] = cb[p]
                              THEN Asked(p) ELSE buf[cb[p]].valid /\ ~buf[cb[p]].dirty

\* Sleepers are where their wakeup() looks for them.
Sleepers ==
  \A p \in Procs :
    /\ asleep[p] = <<"log", NULL>> => pc[p] = "begin_op"
    /\ \A k \in Bufs :
         /\ asleep[p] = <<"lock", k>> => pc[p] = "acquiresleep" /\ cb[p] = k /\ buf[k].owner # NULL
         /\ asleep[p] = <<"io", k>> => pc[p] = "iowait" /\ cb[p] = k /\ (\E i \in DOMAIN idequeue : idequeue[i] = k)

-----------------------------------------------------------------------------
(* Contents.                                                               *)

InLog(b) == \E i \in DOMAIN lh : lh[i] = b

\* A clean buffer is what is on the disk; a dirty one is a block of the
\* transaction that is not installed, or on its way to the disk.
Content(k) ==
  /\ buf[k].dirty => buf[k].valid
  /\ buf[k].valid => /\ buf[k].block \in Blocks
                     /\ IF buf[k].block = 0 THEN buf[k].data \in Seq(Data) ELSE buf[k].data \in Values
  /\ buf[k].valid /\ ~buf[k].dirty => buf[k].data = disk[buf[k].block]
  /\ buf[k].dirty /\ buf[k].block \in Data =>
       \E i \in DOMAIN lh : lh[i] = buf[k].block /\ (phase = "install" => i > tail)
  /\ buf[k].dirty /\ buf[k].block \notin Data =>
       \E p \in Procs : Owns(p, k) /\ cb[p] = k /\ pc[p] \in {"iderw", "iowait"} /\ ret[p] \in PutRets

Contents ==
  /\ disk[0] \in Seq(Data)
  /\ \A b \in Blocks : b # 0 => disk[b] \in Values
  /\ \A k \in Bufs : Content(k)

\* What a process knows of the buffers it uses.
Finding(p) ==
  /\ HasCb(p) /\ pc[p] \notin {"acquiresleep", "iderw", "iowait"} => buf[cb[p]].valid
  /\ Loc(p) \in {"copy.home", "copy.done"} => buf[lbuf].valid
  /\ Loc(p) = "copy.done" => buf[dbuf].valid /\ buf[lbuf].data = buf[dbuf].data
  /\ pc[p] \in {"copy.done", "head.done"} => ~buf[cb[p]].dirty
  /\ Loc(p) = "copy.brelse" => buf[Dest].valid /\ ~buf[Dest].dirty
  /\ Loc(p) = "head.done" => buf[cb[p]].data = lh

\* The blocks of the transaction are in the cache until they are installed.
Pinned ==
  \A i \in DOMAIN lh : phase # "install" \/ up =>
    \/ \E k \in Bufs : buf[k].block = lh[i] /\ buf[k].dirty
    \/ phase = "install" /\ disk[lh[i]] = disk[i]

\* How many blocks of lh the running loop has copied.
Upto(p) ==
  IF Loc(p) \in {"head", "head.done"} THEN Len(lh)
  ELSE IF Loc(p) = "copy.brelse" \/ pc[p] = "copy.done" THEN tail + 1 ELSE tail

Progress ==
  /\ \A p \in Procs : Loc(p) \in CopyLocs => \A i \in 1 .. Upto(p) :
       /\ phase = "write_log" => \A k \in Bufs : buf[k].block = lh[i] => buf[k].data = disk[i]
       /\ phase = "install" => disk[lh[i]] = disk[i]
  /\ up /\ phase = "install" =>
       \A i \in DOMAIN lh, k \in Bufs : buf[k].valid /\ buf[k].block = lh[i] => buf[k].data = disk[i]

\* The header on the disk has been written.
HeadOut(p) == Loc(p) = "head.done" /\ ~buf[cb[p]].dirty

OnceEach(s) == \A i, j \in DOMAIN s : s[i] = s[j] => i = j

Header ==
  /\ OnceEach(lh) /\ OnceEach(disk[0])
  /\ Len(disk[0]) <= MostLogged
  /\ up /\ phase = NULL => disk[0] = <<>>
  /\ \A p \in Procs :
       /\ Loc(p) = "committed" => disk[0] = <<>>
       /\ Loc(p) \in CopyLocs /\ phase = "write_log" => disk[0] = IF HeadOut(p) THEN lh ELSE <<>>
       /\ Loc(p) \in CopyLocs \ {"head", "head.done"} /\ phase = "install" => disk[0] = lh
       /\ Loc(p) \in {"head", "head.done"} /\ phase = "install" =>
            /\ \A i \in DOMAIN disk[0] : disk[disk[0][i]] = disk[i]
            /\ HeadOut(p) => disk[0] = <<>>

-----------------------------------------------------------------------------
Process(p) == Calls(p) /\ Phase(p) /\ Holding(p) /\ Naming(p) /\ Finding(p)

LogInv ==
  /\ Types /\ Modes /\ Operations /\ Phases /\ LogSpace
  /\ \A p \in Procs : Process(p)
  /\ Owners /\ Counts /\ OneCopy /\ Queue /\ Sleepers
  /\ Contents /\ Pinned /\ Progress /\ Header

\* The only panics are for want of a buffer: there is none for a block that is
\* in no buffer.
OnlyForRoom ==
  panic => \E p \in Procs : /\ pc[p] = "bget"
                            /\ \A k \in Bufs : ~Unused(k) /\ ~Cached(want[p], k)

-----------------------------------------------------------------------------
\* MostLogged is below the size at which log_write() panics.
LEMMA MostLemma ==
  /\ MostLogged \in Nat /\ OPBLOCKS <= MostLogged /\ MostLogged < LOGSIZE - 1
  /\ LOGSIZE - 2 * (MAXOPBLOCKS - OPBLOCKS) <= MostLogged
BY LogAssumption DEF MostLogged

-----------------------------------------------------------------------------
(* Proofs begin with what a step leaves alone.                             *)

\* What a step leaves alone of a process that does not take it.
Same(q) ==
  /\ pc'[q] = pc[q] /\ ret'[q] = ret[q] /\ want'[q] = want[q] /\ cb'[q] = cb[q] /\ wrote'[q] = wrote[q]
  /\ Loc(q) \in CommitLocs \cup BootLocs => UNCHANGED <<lh, tail, phase, lbuf, dbuf>>
  /\ \A k \in Bufs :
       /\ Uses(q, k) => buf'[k].block = buf[k].block /\ buf'[k].valid = buf[k].valid
       /\ Owns(q, k) => buf'[k].dirty = buf[k].dirty /\ buf'[k].data = buf[k].data

SameUse(q) == \A k \in Bufs : (Uses(q, k)' <=> Uses(q, k)) /\ (Owns(q, k)' <=> Owns(q, k))

\* A process keeps its place, its buffers and all that it knows of them.
LEMMA OthersKeep ==
  ASSUME NEW q \in Procs, Types, Process(q), Same(q)
  PROVE  Process(q)' /\ SameUse(q) /\ Loc(q)' = Loc(q) /\ (HasCb(q)' <=> HasCb(q))
<1>1. Loc(q)' = Loc(q) /\ (HasCb(q)' <=> HasCb(q))
  BY DEF Same, Loc, HasCb
<1>2. ASSUME NEW k \in Bufs
      PROVE  (Uses(q, k)' <=> Uses(q, k)) /\ (Owns(q, k)' <=> Owns(q, k))
  BY <1>1 DEF Same, Uses, Owns, Dest, CommitLocs, CopyLocs
<1>3. Calls(q)'
  BY DEF Same, Calls, Process
<1>4. Phase(q)'
  BY <1>1 DEF Same, Phase, Process, CommitLocs, CopyLocs
<1>5. Holding(q)'
  BY <1>1 DEF Same, Holding, Process, CommitLocs, CopyLocs
<1>6. /\ HasCb(q) => Uses(q, cb[q]) /\ (pc[q] \notin {"acquiresleep", "unref"} => Owns(q, cb[q]))
      /\ Loc(q) \in {"copy.home", "copy.done"} => Uses(q, lbuf)
      /\ Loc(q) = "copy.done" => Uses(q, dbuf) /\ Owns(q, lbuf) /\ Owns(q, dbuf)
      /\ Loc(q) = "copy.brelse" => Uses(q, Dest) /\ Owns(q, Dest)
      /\ Loc(q) = "head.done" \/ pc[q] \in {"copy.done", "head.done"} => HasCb(q) /\ Owns(q, cb[q])
  BY DEF Process, Calls, Naming, Uses, Owns, Loc, BioLabels, HasCb, GetRets, PutRets, RelRets
<1>7. Naming(q)'
  BY <1>1, <1>2, <1>6 DEF Same, Naming, Process, Holding, CommitLocs, CopyLocs, BootLocs, Right, Dest
<1>8. Finding(q)'
  BY <1>1, <1>2, <1>6 DEF Same, Finding, Process, Holding, CommitLocs, CopyLocs, BootLocs, Dest
<1>9. QED
  BY <1>1, <1>2, <1>3, <1>4, <1>5, <1>7, <1>8 DEF Process, SameUse

\* The users and the owner of a buffer are the same when everybody's are.
LEMMA UseFrame ==
  ASSUME Owners, Counts, \A q \in Procs : SameUse(q),
         \A k \in Bufs : buf'[k].owner = buf[k].owner /\ buf'[k].refcnt = buf[k].refcnt
  PROVE  Owners' /\ Counts'
<1>1. \A k \in Bufs : Users(k)' = Users(k)
  BY DEF Users, SameUse
<1>2. QED
  BY <1>1 DEF Owners, Counts, SameUse

\* A step of the log that leaves buffers, queue and disk alone.
Quiet(p) ==
  /\ pc[p] \notin BioLabels /\ pc'[p] \notin {"acquiresleep", "iderw", "iowait"} /\ asleep[p] = NULL
  /\ \A q \in Procs \ {p} : Same(q)
  /\ \A k \in Bufs : (Uses(p, k)' <=> Uses(p, k)) /\ (Owns(p, k)' <=> Owns(p, k))
  /\ UNCHANGED <<disk, buf, lru, idequeue>>
  /\ \A q \in Procs : asleep'[q] \in {asleep[q], NULL} \/ (asleep'[q] = <<"log", NULL>> /\ pc'[q] = "begin_op")

\* Then everybody keeps the buffers, and queue and sleepers are in order.
LEMMA QuietFrame ==
  ASSUME LogInv, NEW p \in Procs, Quiet(p)
  PROVE  /\ \A q \in Procs \ {p} : Process(q)' /\ SameUse(q) /\ Loc(q)' = Loc(q)
         /\ Owners' /\ Counts' /\ OneCopy' /\ Queue' /\ Sleepers'
<1>1. ASSUME NEW q \in Procs \ {p}
      PROVE  Process(q)' /\ SameUse(q) /\ Loc(q)' = Loc(q) /\ (HasCb(q)' <=> HasCb(q))
  BY OthersKeep DEF LogInv, Quiet
<1>2. \A q \in Procs : SameUse(q)
  BY <1>1 DEF Quiet, SameUse
<1>3. Owners' /\ Counts'
  BY <1>2, UseFrame DEF LogInv, Quiet
<1>4. OneCopy'
  BY DEF LogInv, OneCopy, Quiet
<1>5. Queue'
  <2>1. ASSUME NEW i \in DOMAIN idequeue
        PROVE  \E q \in Procs : Owns(q, idequeue[i])' /\ pc'[q] = "iowait" /\ cb'[q] = idequeue[i]
    <3>1. PICK q \in Procs : Owns(q, idequeue[i]) /\ pc[q] = "iowait" /\ cb[q] = idequeue[i]
      BY DEF LogInv, Queue
    <3>2. q # p /\ idequeue[i] \in Bufs
      BY <3>1 DEF Quiet, BioLabels, LogInv, Types
    <3>3. QED
      BY <1>1, <3>1, <3>2 DEF Quiet, Same, SameUse
  <2>2. ASSUME NEW q \in Procs
        PROVE  /\ pc'[q] = "iderw" => Asked(q)'
               /\ pc'[q] = "iowait" => IF \E i \in DOMAIN idequeue : idequeue[i] = cb'[q]
                                      THEN Asked(q)' ELSE buf[cb'[q]].valid /\ ~buf[cb'[q]].dirty
    <3>1. CASE q = p
      BY <3>1 DEF Quiet
    <3>2. CASE q # p
      BY <3>2 DEF Quiet, Same, Asked, LogInv, Queue
    <3>3. QED
      BY <3>1, <3>2
  <2>3. QED
    BY <2>1, <2>2 DEF Quiet, LogInv, Queue
<1>6. Sleepers'
  <2>1. ASSUME NEW q \in Procs, asleep'[q] # NULL, asleep'[q] # <<"log", NULL>>
        PROVE  q # p /\ asleep'[q] = asleep[q] /\ pc'[q] = pc[q] /\ cb'[q] = cb[q]
    BY <2>1 DEF Quiet, Same
  <2>2. ASSUME NEW q \in Procs, asleep'[q] = <<"log", NULL>>
        PROVE  pc'[q] = "begin_op"
    <3>1. NULL # <<"log", NULL>>
      BY BioAssumption DEF Channels
    <3>2. QED
      BY <2>2, <3>1 DEF Quiet, Same, LogInv, Sleepers
  <2>3. ASSUME NEW k \in Bufs
        PROVE  <<"lock", k>> # NULL /\ <<"io", k>> # NULL
    BY BioAssumption DEF Channels
  <2>4. ASSUME NEW q \in Procs, NEW k \in Bufs, asleep'[q] \in {<<"lock", k>>, <<"io", k>>}
        PROVE  asleep'[q] = asleep[q] /\ pc'[q] = pc[q] /\ cb'[q] = cb[q]
    <3>1. asleep'[q] # NULL /\ asleep'[q] # <<"log", NULL>>
      BY <2>3, <2>4
    <3>2. QED
      BY <2>1, <3>1
  <2>5. ASSUME NEW q \in Procs, NEW k \in Bufs
        PROVE  /\ asleep'[q] = <<"lock", k>> => pc'[q] = "acquiresleep" /\ cb'[q] = k /\ buf'[k].owner # NULL
               /\ asleep'[q] = <<"io", k>> => /\ pc'[q] = "iowait" /\ cb'[q] = k
                                             /\ \E i \in DOMAIN idequeue' : idequeue'[i] = k
    BY <2>4, ZenonT(40) DEF LogInv, Sleepers, Quiet
  <2>6. QED
    BY <2>2, <2>5 DEF Sleepers
<1>7. QED
  BY <1>1, <1>3, <1>4, <1>5, <1>6

\* The contents, when no dirty buffer loses its place in the log.
LEMMA QuietContents ==
  ASSUME LogInv, NEW p \in Procs, Quiet(p),
         \A k \in Bufs : buf[k].dirty /\ buf[k].block \in Data =>
           \E i \in DOMAIN lh' : lh'[i] = buf[k].block /\ (phase' = "install" => i > tail')
  PROVE  Contents'
<1>1. ASSUME NEW k \in Bufs
      PROVE  Content(k)'
  <2>1. ASSUME buf[k].dirty, buf[k].block \notin Data
        PROVE  \E q \in Procs : Owns(q, k)' /\ cb'[q] = k /\ pc'[q] \in {"iderw", "iowait"} /\ ret'[q] \in PutRets
    <3>1. PICK q \in Procs : Owns(q, k) /\ cb[q] = k /\ pc[q] \in {"iderw", "iowait"} /\ ret[q] \in PutRets
      BY <2>1 DEF LogInv, Contents, Content
    <3>2. q # p
      BY <3>1 DEF Quiet, BioLabels
    <3>3. QED
      BY <3>1, <3>2, QuietFrame DEF Quiet, Same, SameUse
  <2>2. QED
    BY <2>1 DEF LogInv, Contents, Content, Quiet
<1>2. QED
  BY <1>1 DEF LogInv, Contents, Quiet

\* A step that stays outside the loops of the commit and of the recovery.
LEMMA PlainStep ==
  ASSUME LogInv, NEW p \in Procs, Quiet(p), UNCHANGED <<lh, tail, phase, up>>,
         Loc(p)' \notin CopyLocs \cup {"committed"}
  PROVE  Contents' /\ Pinned' /\ Progress' /\ Header'
<1>1. Contents'
  BY QuietContents DEF LogInv, Contents, Content
<1>2. Pinned'
  BY DEF LogInv, Pinned, Quiet
<1>3. \A q \in Procs : Loc(q)' \in CopyLocs \cup {"committed"} =>
        q # p /\ Loc(q)' = Loc(q) /\ pc'[q] = pc[q] /\ cb'[q] = cb[q]
  BY QuietFrame DEF Quiet, Same
<1>4. Progress'
  BY <1>3 DEF LogInv, Progress, Upto, Quiet
<1>5. Header'
  BY <1>3 DEF LogInv, Header, HeadOut, Quiet, CopyLocs
<1>6. QED
  BY <1>1, <1>2, <1>4, <1>5

\* A step inside the loop of write_log() or install_trans().
LEMMA LoopStep ==
  ASSUME LogInv, NEW p \in Procs, Quiet(p), UNCHANGED <<lh, tail, phase, up>>,
         Loc(p) \in CopyLocs \ {"head", "head.done"}, Loc(p)' \in CopyLocs \ {"head", "head.done"},
         Upto(p)' = Upto(p)
  PROVE  Contents' /\ Pinned' /\ Progress' /\ Header'
<1>1. Contents'
  BY QuietContents DEF LogInv, Contents, Content
<1>2. Pinned'
  BY DEF LogInv, Pinned, Quiet
<1>3. \A q \in Procs \ {p} : Loc(q)' \notin CopyLocs \cup {"committed"}
  BY QuietFrame DEF LogInv, Modes, CommitLocs
<1>4. Progress'
  BY <1>3 DEF LogInv, Progress, Quiet
<1>5. Header'
  BY <1>3 DEF LogInv, Header, HeadOut, Quiet, CopyLocs
<1>6. QED
  BY <1>1, <1>2, <1>4, <1>5

\* A step that leaves the log's own variables alone, and the process inside
\* or outside of an operation and of a commit as it was.
LEMMA SameMode ==
  ASSUME LogInv, NEW p \in Procs, UNCHANGED <<lh, outstanding, committing, up, phase, tail, wrote>>,
         \A q \in Procs \ {p} : Loc(q)' = Loc(q),
         Loc(p)' = Loc(p)
           \/ (Loc(p) \in {"user", "begin_op", "read"} /\ Loc(p)' \in {"user", "begin_op", "read"})
           \/ (Loc(p) \in OpLocs /\ Loc(p)' \in OpLocs)
           \/ (Loc(p) \in CopyLocs /\ Loc(p)' \in CopyLocs)
           \/ (Loc(p) = "boot" /\ Loc(p)' = "read_head")
  PROVE  Modes' /\ Operations' /\ Phases' /\ LogSpace'
<1>1. Modes'
  BY LogAssumption DEF LogInv, Modes, CommitLocs, BootLocs, CopyLocs, OpLocs
<1>2. Operations'
  BY DEF LogInv, Operations, Ops, CopyLocs, OpLocs
<1>3. Phases'
  BY DEF LogInv, Phases, CopyLocs, OpLocs
<1>4. LogSpace'
  BY DEF LogInv, LogSpace, Reserved
<1>5. QED
  BY <1>1, <1>2, <1>3, <1>4

-----------------------------------------------------------------------------
(* The steps of the log that change no buffer.                             *)

\* bread() of a block outside an operation.
LEMMA ReadStep ==
  ASSUME LogInv, NEW p \in Procs, NEW b \in Data, Read(p, b)
  PROVE  LogInv'
<1> USE DEF Read, At, Bread, Goto, cvars, lvars
<1>1. Types'
  BY LogAssumption DEF LogInv, Types, BioLabels, LogLabels, GetRets
<1>2. /\ Loc(p) = "user" /\ Loc(p)' = "read"
      /\ pc[p] = "user" /\ pc'[p] = "bget" /\ ret'[p] = "read" /\ want'[p] = b
  BY DEF LogInv, Types, Loc, BioLabels
<1>3. Quiet(p)
  BY <1>2 DEF LogInv, Types, Quiet, Same, BioLabels, Uses, Owns, HasCb
<1>4. Process(p)'
  BY <1>2, LogAssumption DEF Process, Calls, GetRets, Phase, CopyLocs, Holding, Naming, Finding, HasCb, Uses, Right
<1>5. \A q \in Procs \ {p} : Process(q)' /\ Loc(q)' = Loc(q)
  BY <1>3, QuietFrame
<1>6. Modes' /\ Operations' /\ Phases' /\ LogSpace'
  BY <1>2, <1>5, SameMode
<1>7. Contents' /\ Pinned' /\ Progress' /\ Header'
  BY <1>2, <1>3, PlainStep DEF CopyLocs
<1>8. QED
  BY <1>1, <1>3, <1>4, <1>5, <1>6, <1>7, QuietFrame DEF LogInv

\* brelse() of that block.
LEMMA ReadDoneStep ==
  ASSUME LogInv, NEW p \in Procs, ReadDone(p)
  PROVE  LogInv'
<1> USE DEF ReadDone, At, Brelse, Goto, cvars, lvars
<1>1. Types'
  BY DEF LogInv, Types, BioLabels, LogLabels, RelRets
<1>2. /\ Loc(p) = "read" /\ Loc(p)' = "user"
      /\ pc[p] = "read" /\ pc'[p] = "brelse" /\ ret'[p] = "user" /\ cb'[p] = cb[p]
  BY DEF LogInv, Types, Loc, BioLabels
<1>3. Quiet(p)
  BY <1>2 DEF LogInv, Types, Quiet, Same, BioLabels, Uses, Owns, HasCb
<1>4. Process(p)'
  BY <1>2 DEF LogInv, Process, Calls, RelRets, Phase, CopyLocs, Holding, Naming, Finding, HasCb, Uses, Right
<1>5. \A q \in Procs \ {p} : Process(q)' /\ Loc(q)' = Loc(q)
  BY <1>3, QuietFrame
<1>6. Modes' /\ Operations' /\ Phases' /\ LogSpace'
  BY <1>2, <1>5, SameMode
<1>7. Contents' /\ Pinned' /\ Progress' /\ Header'
  BY <1>2, <1>3, PlainStep DEF CopyLocs
<1>8. QED
  BY <1>1, <1>3, <1>4, <1>5, <1>6, <1>7, QuietFrame DEF LogInv

\* n blocks for everybody in S.
LEMMA ProductCount ==
  ASSUME NEW S, IsFiniteSet(S), NEW n \in Nat
  PROVE  IsFiniteSet(S \X (1 .. n)) /\ Cardinality(S \X (1 .. n)) = Cardinality(S) * n
<1>1. IsFiniteSet(1 .. n) /\ Cardinality(1 .. n) = n
  BY FS_Interval
<1>2. QED
  BY <1>1, FS_Product

\* The operations in progress, and what they may still write, are finite.
LEMMA Finite ==
  ASSUME LogInv
  PROVE  /\ IsFiniteSet(Ops) /\ Cardinality(Ops) \in Nat
         /\ IsFiniteSet(Reserved) /\ Cardinality(Reserved) \in Nat
         /\ outstanding = 0 <=> \A p \in Procs : wrote[p] = NULL
<1>1. IsFiniteSet(Ops)
  BY BioAssumption, FS_Subset DEF Ops
<1>2. IsFiniteSet(Procs \X (1 .. OPBLOCKS))
  BY BioAssumption, LogAssumption, ProductCount
<1>3. IsFiniteSet(Reserved)
  BY <1>2, FS_Subset DEF Reserved
<1>4. outstanding = 0 <=> Ops = {}
  BY <1>1, FS_EmptySet DEF LogInv, Operations
<1>5. QED
  BY <1>1, <1>3, <1>4, FS_CardinalityType DEF Ops

\* Two operations or more leave twice the difference of m and o unused.
LEMMA RoomForTwo ==
  ASSUME NEW len \in Nat, NEW out \in Nat \ {0}, NEW m \in Nat, NEW o \in Nat, NEW size \in Nat,
         o < m, len + (out + 1) * m <= size
  PROVE  len + (out + 1) * o <= size - 2 * (m - o)
<1>1. PICK d \in Nat : m = o + d
  <2>1. m - o \in Nat /\ m = o + (m - o)
    OBVIOUS
  <2>2. QED
    BY <2>1
<1>2. PICK k \in Nat : out + 1 = k + 2
  <2>1. out - 1 \in Nat /\ out + 1 = (out - 1) + 2
    OBVIOUS
  <2>2. QED
    BY <2>1
<1>3. (k + 2) * (o + d) = (k + 2) * o + (k * d + 2 * d)
  OBVIOUS
<1>4. k * d \in Nat /\ (k + 2) * o \in Nat
  OBVIOUS
<1>5. m - o = d
  BY <1>1
<1>6. len + ((k + 2) * o + (k * d + 2 * d)) <= size
  BY <1>1, <1>2, <1>3
<1>7. QED
  BY ONLY <1>2, <1>4, <1>5, <1>6, len \in Nat, size \in Nat, d \in Nat

\* begin_op(): the operation waits, or enters.
LEMMA BeginOpStep ==
  ASSUME LogInv, NEW p \in Procs, BeginOp(p)
  PROVE  LogInv'
<1> USE DEF BeginOp, At, Goto, Sleep, cvars
<1>1. Types'
  <2>1. asleep' \in [Procs -> Channels \cup {NULL}]
    BY DEF LogInv, Types, Channels
  <2>2. wrote' \in [Procs -> (SUBSET Data) \cup {NULL}] /\ outstanding' \in Nat
    <3>1. {} \in (SUBSET Data) \cup {NULL}
      OBVIOUS
    <3>2. \/ wrote' = wrote /\ outstanding' = outstanding
          \/ wrote' = [wrote EXCEPT ![p] = {}] /\ outstanding' = outstanding + 1
      OBVIOUS
    <3>3. wrote \in [Procs -> (SUBSET Data) \cup {NULL}] /\ outstanding \in Nat
      BY DEF LogInv, Types
    <3>4. QED
      BY ONLY <3>1, <3>2, <3>3
  <2>3. pc' \in [Procs -> BioLabels \cup LogLabels]
    BY DEF LogInv, Types, LogLabels, RelRets
  <2>4. QED
    BY <2>1, <2>2, <2>3 DEF LogInv, Types
<1>2. /\ Loc(p) \in {"user", "begin_op"} /\ Loc(p)' = pc'[p]
      /\ pc[p] \in {"user", "begin_op"} /\ pc'[p] \in {"begin_op", "op"}
      /\ pc'[p] = "begin_op" => asleep' = [asleep EXCEPT ![p] = <<"log", NULL>>]
      /\ pc'[p] = "op" => asleep' = asleep
  BY DEF LogInv, Types, Loc, BioLabels
<1>3. Quiet(p)
  BY <1>2 DEF LogInv, Types, Quiet, Same, BioLabels, Uses, Owns, HasCb
<1>4. Process(p)'
  BY <1>2 DEF Process, Calls, Phase, CopyLocs, Holding, Naming, Finding, HasCb, Uses, Right
<1>5. \A q \in Procs \ {p} : Process(q)' /\ Loc(q)' = Loc(q)
  BY <1>3, QuietFrame
<1>6. Modes' /\ Operations' /\ Phases' /\ LogSpace'
  <2>1. CASE committing \/ NoSpace
    <3>1. Loc(p)' = "begin_op" /\ UNCHANGED <<lh, outstanding, committing, up, phase, tail, wrote>>
      BY <1>2, <2>1 DEF LogInv, Types
    <3>2. QED
      BY <1>2, <1>5, <3>1, SameMode
  <2>2. CASE ~(committing \/ NoSpace)
    <3>1. pc'[p] = "op" /\ Loc(p)' = "op" /\ outstanding' = outstanding + 1 /\ wrote' = [wrote EXCEPT ![p] = {}]
      BY <1>2, <2>2 DEF LogInv, Types
    <3>2. wrote[p] = NULL /\ wrote'[p] = {} /\ {} # NULL
      BY <1>2, <3>1, LogAssumption DEF LogInv, Operations, OpLocs, Types
    <3>3. Ops' = Ops \cup {p} /\ p \notin Ops
      BY <3>1, <3>2 DEF Ops, LogInv, Types
    <3>4. Cardinality(Ops') = outstanding + 1 /\ IsFiniteSet(Ops')
      BY <3>3, Finite, FS_AddElement DEF LogInv, Operations
    <3>5. Modes'
      BY <1>2, <1>5, <2>2, <3>1 DEF LogInv, Modes, CommitLocs, BootLocs, CopyLocs, OpLocs
    <3>6. Operations'
      BY <1>2, <1>5, <2>2, <3>1, <3>2, <3>4, FS_EmptySet, LogAssumption DEF LogInv, Operations, OpLocs, Types
    <3>7. Phases'
      BY <1>2, <1>5, <2>2, <3>1 DEF LogInv, Phases, CopyLocs, Types
    <3>8. LogSpace'
      <4>1. Reserved' \subseteq Ops' \X (1 .. OPBLOCKS)
        BY DEF Reserved, Ops
      <4>2. IsFiniteSet(Ops' \X (1 .. OPBLOCKS))
            /\ Cardinality(Ops' \X (1 .. OPBLOCKS)) = (outstanding + 1) * OPBLOCKS
        <5>1. OPBLOCKS \in Nat
          BY LogAssumption
        <5>2. QED
          BY ONLY <3>4, <5>1, ProductCount
      <4>3. Cardinality(Reserved') <= (outstanding + 1) * OPBLOCKS /\ Cardinality(Reserved') \in Nat
        BY <4>1, <4>2, FS_Subset, FS_CardinalityType
      <4>4. Len(lh) \in Nat /\ outstanding \in Nat /\ Len(lh) + (outstanding + 1) * MAXOPBLOCKS <= LOGSIZE
        BY <2>2, LogAssumption DEF NoSpace, LogInv, Types
      <4>5. CASE outstanding = 0
        <5>1. up
          BY <1>2 DEF LogInv, Modes, BootLocs, CopyLocs
        <5>2. phase = NULL
          BY <2>2, <5>1 DEF LogInv, Modes, Phases, CommitLocs
        <5>3. lh = <<>>
          BY <2>2, <4>5, <5>2 DEF LogInv, Phases
        <5>4. QED
          BY <4>3, <4>5, <5>3, MostLemma, LogAssumption DEF LogSpace
      <4>6. CASE outstanding # 0
        <5>1. Len(lh) + (outstanding + 1) * OPBLOCKS <= LOGSIZE - 2 * (MAXOPBLOCKS - OPBLOCKS)
          BY <4>4, <4>6, RoomForTwo, LogAssumption
        <5>2. PICK n \in Nat : n = (outstanding + 1) * OPBLOCKS
          BY <4>4, LogAssumption
        <5>3. QED
          BY <4>3, <4>4, <5>1, <5>2, MostLemma, LogAssumption DEF LogSpace
      <4>7. QED
        BY <4>5, <4>6
    <3>9. QED
      BY <3>5, <3>6, <3>7, <3>8
  <2>3. QED
    BY <2>1, <2>2
<1>7. Contents' /\ Pinned' /\ Progress' /\ Header'
  BY <1>2, <1>3, PlainStep DEF CopyLocs
<1>8. QED
  BY <1>1, <1>3, <1>4, <1>5, <1>6, <1>7, QuietFrame DEF LogInv

\* The next bread() of an operation.
LEMMA OpBlockStep ==
  ASSUME LogInv, NEW p \in Procs, NEW b \in Data, OpBlock(p, b)
  PROVE  LogInv'
<1> USE DEF OpBlock, At, Bread, Goto, cvars, lvars
<1>1. Types'
  BY LogAssumption DEF LogInv, Types, BioLabels, LogLabels, GetRets
<1>2. /\ Loc(p) = "op" /\ Loc(p)' = "log_write"
      /\ pc[p] = "op" /\ pc'[p] = "bget" /\ ret'[p] = "log_write" /\ want'[p] = b
  BY DEF LogInv, Types, Loc, BioLabels
<1>3. Quiet(p)
  BY <1>2 DEF LogInv, Types, Quiet, Same, BioLabels, Uses, Owns, HasCb
<1>4. Process(p)'
  BY <1>2, LogAssumption DEF Process, Calls, GetRets, Phase, CopyLocs, Holding, Naming, Finding, HasCb, Uses, Right
<1>5. \A q \in Procs \ {p} : Process(q)' /\ Loc(q)' = Loc(q)
  BY <1>3, QuietFrame
<1>6. Modes' /\ Operations' /\ Phases' /\ LogSpace'
  BY <1>2, <1>5, SameMode DEF OpLocs
<1>7. Contents' /\ Pinned' /\ Progress' /\ Header'
  BY <1>2, <1>3, PlainStep DEF CopyLocs
<1>8. QED
  BY <1>1, <1>3, <1>4, <1>5, <1>6, <1>7, QuietFrame DEF LogInv

\* The tests of log_write().
LEMMA LogTestStep ==
  ASSUME LogInv, NEW p \in Procs, LogTest(p)
  PROVE  LogInv'
<1> USE DEF LogTest, At, Goto, cvars, lvars
<1>1. Types'
  BY DEF LogInv, Types, BioLabels, LogLabels
<1>2. /\ Loc(p) = "log_write" /\ Loc(p)' \in {"log_write", "log_append"}
      /\ pc[p] = "log_write" /\ pc'[p] \in {"log_write", "log_append"} /\ cb'[p] = cb[p]
  BY DEF LogInv, Types, Loc, BioLabels
<1>3. Quiet(p)
  BY <1>2 DEF LogInv, Types, Quiet, Same, BioLabels, Uses, Owns, HasCb
<1>4. Process(p)'
  BY <1>2 DEF LogInv, Process, Calls, Phase, CopyLocs, Holding, Naming, Finding, HasCb, Uses, Right
<1>5. \A q \in Procs \ {p} : Process(q)' /\ Loc(q)' = Loc(q)
  BY <1>3, QuietFrame
<1>6. Modes' /\ Operations' /\ Phases' /\ LogSpace'
  BY <1>2, <1>5, SameMode DEF OpLocs, LogInv, Operations
<1>7. Contents' /\ Pinned' /\ Progress' /\ Header'
  BY <1>2, <1>3, PlainStep DEF CopyLocs
<1>8. QED
  BY <1>1, <1>3, <1>4, <1>5, <1>6, <1>7, QuietFrame DEF LogInv

\* end_op(): the last operation starts the commit.
LEMMA EndOpStep ==
  ASSUME LogInv, NEW p \in Procs, EndOp(p)
  PROVE  LogInv'
<1> USE DEF EndOp, At, Goto, Wakeup, cvars
<1>1. wrote[p] # NULL /\ outstanding > 0 /\ ~committing
  BY Finite DEF LogInv, Operations, OpLocs, Loc, BioLabels, Types
<1>2. Types'
  <2>1. asleep' \in [Procs -> Channels \cup {NULL}]
    BY DEF LogInv, Types
  <2>2. wrote' \in [Procs -> (SUBSET Data) \cup {NULL}]
    BY DEF LogInv, Types
  <2>3. outstanding' \in Nat
    BY <1>1 DEF LogInv, Types
  <2>4. pc' \in [Procs -> BioLabels \cup LogLabels]
    BY DEF LogInv, Types, LogLabels, RelRets
  <2>5. QED
    BY <1>1, <2>1, <2>2, <2>3, <2>4 DEF LogInv, Types
<1>3. /\ Loc(p) = "op" /\ Loc(p)' = pc'[p] /\ pc[p] = "op"
      /\ IF outstanding = 1 THEN pc'[p] = "commit" /\ committing' ELSE pc'[p] = "user" /\ ~committing'
      /\ wrote'[p] = NULL /\ \A q \in Procs \ {p} : wrote'[q] = wrote[q]
  BY <1>1 DEF LogInv, Types, Loc, BioLabels
<1>4. Quiet(p)
  BY <1>3 DEF LogInv, Types, Quiet, Same, BioLabels, Uses, Owns, HasCb
<1>5. Process(p)'
  BY <1>3 DEF Process, Calls, Phase, CopyLocs, Holding, Naming, Finding, HasCb, Uses, Right
<1>6. \A q \in Procs \ {p} : Process(q)' /\ Loc(q)' = Loc(q)
  BY <1>4, QuietFrame
<1>7. Ops' = Ops \ {p} /\ p \in Ops
  BY <1>1, <1>3 DEF Ops, LogInv, Types
<1>8. Cardinality(Ops') = outstanding - 1 /\ IsFiniteSet(Ops')
  BY <1>7, Finite, FS_RemoveElement DEF LogInv, Operations
<1>9. Modes'
  BY <1>1, <1>3, <1>6 DEF LogInv, Modes, CommitLocs, BootLocs, CopyLocs, OpLocs
<1>10. Operations'
  BY <1>1, <1>3, <1>6, <1>8 DEF LogInv, Operations, OpLocs, Types
<1>11. Phases'
  <2>1. phase = NULL
    BY <1>1, <1>3 DEF LogInv, Phases, Modes, CommitLocs, BootLocs, CopyLocs
  <2>2. QED
    BY <1>1, <1>3, <2>1 DEF LogInv, Phases, Types
<1>12. LogSpace'
  <2>1. Reserved' \subseteq Reserved
    BY <1>3 DEF Reserved
  <2>2. Cardinality(Reserved') <= Cardinality(Reserved) /\ Cardinality(Reserved') \in Nat
    BY <2>1, Finite, FS_Subset, FS_CardinalityType
  <2>3. QED
    BY <2>2, Finite, MostLemma DEF LogInv, LogSpace, Types
<1>13. Contents' /\ Pinned' /\ Progress' /\ Header'
  BY <1>3, <1>4, PlainStep DEF CopyLocs
<1>14. QED
  BY <1>2, <1>4, <1>5, <1>6, <1>9, <1>10, <1>11, <1>12, <1>13, QuietFrame DEF LogInv

-----------------------------------------------------------------------------
(* The steps of commit() and of the recovery that change no buffer.        *)

\* Only one process is in the commit or the recovery.
LEMMA Alone ==
  ASSUME LogInv, NEW p \in Procs, Loc(p) \in CommitLocs \cup BootLocs
  PROVE  /\ \A q \in Procs \ {p} : Loc(q) \notin CommitLocs \cup BootLocs
         /\ \A q \in Procs : wrote[q] = NULL
         /\ Loc(p) \notin CopyLocs => phase = NULL /\ tail = 0
         /\ phase = "write_log" => up
<1>1. \A q \in Procs \ {p} : Loc(q) \notin CommitLocs \cup BootLocs
  BY DEF LogInv, Modes
<1>2. Loc(p) \notin CopyLocs => phase = NULL /\ tail = 0
  BY <1>1 DEF LogInv, Phases, CommitLocs
<1>3. \A q \in Procs : wrote[q] = NULL
  <2>1. CASE up
    <3>1. Loc(p) \in CommitLocs
      BY <2>1 DEF LogInv, Modes, CommitLocs, BootLocs, OpLocs
    <3>2. QED
      BY <2>1, <3>1, Finite DEF LogInv, Modes, Operations
  <2>2. CASE ~up
    BY <2>2, LogAssumption DEF LogInv, Modes, Operations, OpLocs, BootLocs, CopyLocs
  <2>3. QED
    BY <2>1, <2>2 DEF LogInv, Types
<1>4. QED
  BY <1>1, <1>2, <1>3 DEF LogInv, Modes

\* The numbers of the blocks of the log on the disk.
LEMMA Numbers ==
  ASSUME LogInv, LogFits, tail < Len(lh)
  PROVE  /\ tail + 1 \in Blocks /\ tail + 1 \notin Data /\ tail + 1 # 0
         /\ lh[tail + 1] \in Data /\ lh[tail + 1] \in Blocks /\ lh[tail + 1] # 0
         /\ tail + 1 \in DOMAIN lh
<1>1. tail \in Nat /\ lh \in Seq(Data) /\ Len(lh) \in Nat
  BY DEF LogInv, Types
<1>2. tail + 1 \in 0 .. LogBlocks - 1 /\ 0 \in 0 .. LogBlocks - 1
  BY <1>1, LogAssumption DEF LogFits
<1>3. tail + 1 \in DOMAIN lh
  BY <1>1
<1>4. QED
  BY <1>1, <1>2, <1>3, LogAssumption

\* commit() starts to write the log, if there is something to write.
LEMMA CommitStep ==
  ASSUME LogInv, NEW p \in Procs, Commit(p)
  PROVE  LogInv'
<1> USE DEF Commit, At, Goto, cvars
<1>1. Types'
  BY DEF LogInv, Types, BioLabels, LogLabels, RelRets
<1>2. /\ Loc(p) = "commit" /\ Loc(p)' = pc'[p] /\ pc[p] = "commit"
      /\ IF lh # <<>> THEN phase' = "write_log" /\ pc'[p] = "copy" ELSE pc'[p] = "committed" /\ phase' = phase
  BY DEF LogInv, Types, Loc, BioLabels
<1>3. /\ \A q \in Procs \ {p} : Loc(q) \notin CommitLocs \cup BootLocs
      /\ phase = NULL /\ tail = 0
      /\ up /\ disk[0] = <<>>
  <2>1. up
    BY <1>2, LogAssumption DEF LogInv, Modes, BootLocs, CopyLocs
  <2>2. QED
    BY <1>2, <2>1, Alone DEF CommitLocs, BootLocs, CopyLocs, LogInv, Header
<1>4. Quiet(p)
  BY <1>2, <1>3 DEF LogInv, Types, Quiet, Same, BioLabels, Uses, Owns, HasCb
<1>5. Process(p)'
  BY <1>2, <1>3 DEF LogInv, Types, Process, Calls, Phase, CopyLocs, Holding, Naming, Finding, HasCb, Uses, Right
<1>6. \A q \in Procs \ {p} : Process(q)' /\ Loc(q)' = Loc(q)
  BY <1>4, QuietFrame
<1>7. Modes'
  BY <1>2, <1>3, <1>6 DEF LogInv, Modes, CommitLocs, BootLocs, CopyLocs, OpLocs
<1>8. Operations' /\ LogSpace'
  BY <1>2, <1>6 DEF LogInv, Operations, OpLocs, Ops, LogSpace, Reserved
<1>9. Phases'
  BY <1>2, <1>3 DEF LogInv, Phases, CopyLocs
<1>10. Contents'
  BY <1>2, <1>3, <1>4, QuietContents DEF LogInv, Contents, Content
<1>11. Pinned'
  BY <1>2, <1>3, LogAssumption DEF LogInv, Pinned
<1>12. Progress' /\ Header'
  <2>1. \A q \in Procs \ {p} : Loc(q)' \notin CopyLocs \cup {"committed"}
    BY <1>3, <1>6 DEF CommitLocs
  <2>2. Progress'
    BY <1>2, <1>3, <2>1, LogAssumption DEF Progress, Upto
  <2>3. Header'
    BY <1>2, <1>3, <2>1, LogAssumption DEF LogInv, Header, HeadOut, CopyLocs
  <2>4. QED
    BY <2>2, <2>3
<1>13. QED
  BY <1>1, <1>4, <1>5, <1>6, <1>7, <1>8, <1>9, <1>10, <1>11, <1>12, QuietFrame DEF LogInv

\* bread() of the log block in write_log() and install_trans().
LEMMA CopyNextStep ==
  ASSUME LogInv, LogFits, NEW p \in Procs, CopyNext(p)
  PROVE  LogInv'
<1> USE DEF CopyNext, At, Bread, Goto, cvars, lvars
<1>1. Types'
  BY Numbers DEF LogInv, Types, BioLabels, LogLabels, GetRets
<1>2. /\ Loc(p) = "copy" /\ Loc(p)' = "copy.log"
      /\ pc[p] = "copy" /\ pc'[p] = "bget" /\ ret'[p] = "copy.log" /\ want'[p] = tail + 1
  BY DEF LogInv, Types, Loc, BioLabels
<1>3. Quiet(p)
  BY <1>2 DEF LogInv, Types, Quiet, Same, BioLabels, Uses, Owns, HasCb
<1>4. Process(p)'
  BY <1>2, Numbers DEF LogInv, Process, Calls, GetRets, Phase, CopyLocs, Holding, Naming, Finding, HasCb, Uses, Right
<1>5. \A q \in Procs \ {p} : Process(q)' /\ Loc(q)' = Loc(q)
  BY <1>3, QuietFrame
<1>6. Modes' /\ Operations' /\ Phases' /\ LogSpace'
  BY <1>2, <1>5, SameMode DEF CopyLocs
<1>7. Contents' /\ Pinned' /\ Progress' /\ Header'
  BY <1>2, <1>3, LoopStep DEF CopyLocs, Upto
<1>8. QED
  BY <1>1, <1>3, <1>4, <1>5, <1>6, <1>7, QuietFrame DEF LogInv

\* bread() of the home block.
LEMMA CopyLogStep ==
  ASSUME LogInv, LogFits, NEW p \in Procs, CopyLog(p)
  PROVE  LogInv'
<1> USE DEF CopyLog, At, Bread, Goto, cvars
<1>1. Loc(p) = "copy.log" /\ pc[p] = "copy.log" /\ HasCb(p) /\ cb[p] \in Bufs /\ tail < Len(lh)
  BY DEF LogInv, Loc, BioLabels, HasCb, Process, Holding, Phase
<1>2. Types'
  BY <1>1, Numbers DEF LogInv, Types, BioLabels, LogLabels, GetRets
<1>3. /\ Loc(p)' = "copy.home"
      /\ pc'[p] = "bget" /\ ret'[p] = "copy.home" /\ want'[p] = lh[tail + 1] /\ lbuf' = cb[p]
  BY DEF LogInv, Types, Loc, BioLabels
<1>4. \A q \in Procs \ {p} : Loc(q) \notin CommitLocs \cup BootLocs
  BY <1>1, Alone DEF CommitLocs, CopyLocs
<1>5. Quiet(p)
  BY <1>1, <1>3, <1>4 DEF LogInv, Types, Quiet, Same, BioLabels, Uses, Owns, HasCb
<1>6. Process(p)'
  <2>1. buf[cb[p]].block = tail + 1 /\ buf[cb[p]].valid
    BY <1>1 DEF LogInv, Process, Naming, Right, Finding
  <2>2. Calls(p)' /\ Phase(p)' /\ Holding(p)' /\ Finding(p)'
    BY <1>1, <1>3, <2>1 DEF LogInv, Process, Calls, Phase, Holding, Finding, GetRets, CopyLocs, HasCb
  <2>3. Naming(p)'
    BY <1>1, <1>3, <2>1, Numbers DEF Naming, HasCb, Uses, Right
  <2>4. QED
    BY <2>2, <2>3 DEF Process
<1>7. \A q \in Procs \ {p} : Process(q)' /\ Loc(q)' = Loc(q)
  BY <1>5, QuietFrame
<1>8. Modes' /\ Operations' /\ Phases' /\ LogSpace'
  BY <1>1, <1>3, <1>7, SameMode DEF CopyLocs
<1>9. Contents' /\ Pinned' /\ Progress' /\ Header'
  BY <1>1, <1>3, <1>5, LoopStep DEF CopyLocs, Upto
<1>10. QED
  BY <1>2, <1>5, <1>6, <1>7, <1>8, <1>9, QuietFrame DEF LogInv

\* brelse() of the buffer copied from.
LEMMA CopyDoneStep ==
  ASSUME LogInv, LogFits, NEW p \in Procs, CopyDone(p)
  PROVE  LogInv'
<1> USE DEF CopyDone, At, Brelse, Goto, cvars, lvars
<1> DEFINE Source == IF phase = "write_log" THEN dbuf ELSE lbuf
<1>1. Loc(p) = "copy.done" /\ pc[p] = "copy.done" /\ HasCb(p) /\ tail < Len(lh)
  BY DEF LogInv, Loc, BioLabels, HasCb, Process, Phase
<1>2. /\ lbuf \in Bufs /\ dbuf \in Bufs /\ cb[p] = Dest
      /\ buf[lbuf].block = tail + 1 /\ buf[dbuf].block = lh[tail + 1]
      /\ buf[lbuf].valid /\ buf[dbuf].valid /\ buf[Dest].valid /\ ~buf[Dest].dirty
  BY <1>1 DEF LogInv, Process, Holding, Naming, Finding, Dest
<1>3. Dest # Source
  BY <1>1, <1>2, Numbers DEF Dest
<1>4. Types'
  BY <1>2 DEF LogInv, Types, BioLabels, LogLabels, RelRets
<1>5. /\ Loc(p)' = "copy.brelse"
      /\ pc'[p] = "brelse" /\ ret'[p] = "copy.brelse" /\ cb'[p] = Source
  BY DEF LogInv, Types, Loc, BioLabels
<1>6. Dest' = Dest
  BY DEF Dest
<1>7. Quiet(p)
  <2>1. ASSUME NEW k \in Bufs
        PROVE  (Uses(p, k)' <=> Uses(p, k)) /\ (Owns(p, k)' <=> Owns(p, k))
    BY <1>1, <1>2, <1>5, <1>6 DEF Uses, Owns, HasCb, Dest
  <2>2. QED
    BY <1>1, <1>5, <2>1 DEF LogInv, Types, Quiet, Same, BioLabels
<1>8. Process(p)'
  <2>1. Calls(p)' /\ Phase(p)' /\ Holding(p)'
    BY <1>1, <1>2, <1>5 DEF LogInv, Process, Calls, Phase, Holding, RelRets, CopyLocs, HasCb
  <2>2. Finding(p)'
    BY <1>1, <1>2, <1>5, <1>6 DEF Finding
  <2>3. Naming(p)'
    BY <1>1, <1>2, <1>3, <1>5, <1>6, <1>7, Numbers DEF LogInv, Process, Naming, Right, Dest, Quiet
  <2>4. QED
    BY <2>1, <2>2, <2>3 DEF Process
<1>9. \A q \in Procs \ {p} : Process(q)' /\ Loc(q)' = Loc(q)
  BY <1>7, QuietFrame
<1>10. Modes' /\ Operations' /\ Phases' /\ LogSpace'
  BY <1>1, <1>5, <1>9, SameMode DEF CopyLocs
<1>11. Contents' /\ Pinned' /\ Progress' /\ Header'
  BY <1>1, <1>5, <1>7, LoopStep DEF CopyLocs, Upto
<1>12. QED
  BY <1>4, <1>7, <1>8, <1>9, <1>10, <1>11, QuietFrame DEF LogInv

\* brelse() of the buffer copied to, and the end of the loop's body.
LEMMA CopyBrelseStep ==
  ASSUME LogInv, LogFits, NEW p \in Procs, CopyBrelse(p)
  PROVE  LogInv'
<1> USE DEF CopyBrelse, At, Brelse, Goto, cvars
<1>1. Loc(p) = "copy.brelse" /\ pc[p] = "copy.brelse" /\ ~HasCb(p) /\ tail < Len(lh) /\ tail \in Nat
  BY DEF LogInv, Loc, BioLabels, HasCb, Process, Phase, Types
<1>2. /\ lbuf \in Bufs /\ dbuf \in Bufs /\ Dest \in Bufs /\ ~buf[Dest].dirty
      /\ buf[Dest].block = IF phase = "write_log" THEN tail + 1 ELSE lh[tail + 1]
  BY <1>1 DEF LogInv, Process, Holding, Naming, Finding, Dest
<1>3. Types'
  BY <1>2 DEF LogInv, Types, BioLabels, LogLabels, RelRets
<1>4. /\ Loc(p)' = "copy"
      /\ pc'[p] = "brelse" /\ ret'[p] = "copy" /\ cb'[p] = Dest /\ tail' = tail + 1
  BY DEF LogInv, Types, Loc, BioLabels, Dest
<1>5. \A q \in Procs \ {p} : Loc(q) \notin CommitLocs \cup BootLocs
  BY <1>1, Alone DEF CommitLocs, CopyLocs
<1>6. Quiet(p)
  <2>1. ASSUME NEW k \in Bufs
        PROVE  (Uses(p, k)' <=> Uses(p, k)) /\ (Owns(p, k)' <=> Owns(p, k))
    BY <1>1, <1>4 DEF Uses, Owns, HasCb
  <2>2. QED
    BY <1>1, <1>4, <1>5, <2>1 DEF LogInv, Types, Quiet, Same, BioLabels
<1>7. Process(p)'
  <2>1. buf[Dest].block \in Blocks /\ buf[Dest].valid
    <3>1. Uses(p, Dest)
      BY <1>1 DEF Uses
    <3>2. buf[Dest].block \in Blocks
      BY <1>2, <3>1 DEF LogInv, Process, Naming
    <3>3. QED
      BY <1>1, <1>2, <3>2 DEF LogInv, Process, Finding
  <2>2. Calls(p)' /\ Phase(p)' /\ Holding(p)'
    BY <1>1, <1>2, <1>4 DEF LogInv, Types, Process, Calls, Phase, Holding, RelRets, CopyLocs, HasCb
  <2>3. Finding(p)' /\ Naming(p)'
    BY <1>1, <1>2, <1>4, <2>1 DEF Finding, HasCb, Naming, Uses, Right
  <2>4. QED
    BY <2>2, <2>3 DEF Process
<1>8. \A q \in Procs \ {p} : Process(q)' /\ Loc(q)' = Loc(q)
  BY <1>6, QuietFrame
<1>9. Modes' /\ Operations' /\ Phases' /\ LogSpace'
  <2>1. Modes'
    BY <1>1, <1>4, <1>8 DEF LogInv, Modes, CommitLocs, BootLocs, CopyLocs, OpLocs
  <2>2. Operations' /\ LogSpace'
    BY <1>1, <1>4, <1>8 DEF LogInv, Operations, OpLocs, Ops, LogSpace, Reserved
  <2>3. Phases'
    BY <1>1, <1>4, LogAssumption DEF LogInv, Phases, Process, Phase, CopyLocs
  <2>4. QED
    BY <2>1, <2>2, <2>3
<1>10. Contents'
  <2>1. ASSUME NEW k \in Bufs, buf[k].dirty, buf[k].block \in Data
        PROVE  \E i \in DOMAIN lh' : lh'[i] = buf[k].block /\ (phase' = "install" => i > tail')
    <3>1. PICK i \in DOMAIN lh : lh[i] = buf[k].block /\ (phase = "install" => i > tail)
      BY <2>1 DEF LogInv, Contents, Content
    <3>2. phase = "install" => i # tail + 1
      BY <1>1, <1>2, <2>1, <3>1, Numbers, BioAssumption DEF LogInv, OneCopy
    <3>3. i \in Nat
      BY <3>1 DEF LogInv, Types
    <3>4. QED
      BY <1>1, <1>4, <3>1, <3>2, <3>3
  <2>2. QED
    BY <1>6, <2>1, QuietContents
<1>11. Pinned'
  BY DEF LogInv, Pinned
<1>12. Progress' /\ Header'
  <2>1. \A q \in Procs \ {p} : Loc(q)' \notin CopyLocs \cup {"committed"}
    BY <1>5, <1>8 DEF CommitLocs
  <2>2. Progress'
    BY <1>1, <1>4, <2>1 DEF LogInv, Progress, Upto, CopyLocs
  <2>3. Header'
    BY <1>1, <1>4, <2>1 DEF LogInv, Header, HeadOut, CopyLocs
  <2>4. QED
    BY <2>2, <2>3
<1>13. QED
  BY <1>3, <1>6, <1>7, <1>8, <1>9, <1>10, <1>11, <1>12, QuietFrame DEF LogInv

\* bread() of the header in write_head().
LEMMA WriteHeadStep ==
  ASSUME LogInv, LogFits, NEW p \in Procs, WriteHead(p)
  PROVE  LogInv'
<1> USE DEF WriteHead, At, Bread, Goto, cvars
<1>1. Loc(p) = "copy" /\ pc[p] = "copy" /\ phase \in {"write_log", "install"} /\ lh \in Seq(Data) /\ Len(lh) \in Nat
  BY DEF LogInv, Loc, BioLabels, Process, Phase, CopyLocs, Types
<1>2. 0 \in Blocks /\ lh' \in Seq(Data) /\ Len(lh') \in 0 .. Len(lh)
      /\ IF phase = "write_log" THEN lh' = lh ELSE lh' = <<>> /\ phase = "install"
  BY <1>1, LogAssumption
<1>3. Types'
  BY <1>2 DEF LogInv, Types, BioLabels, LogLabels, GetRets
<1>4. /\ Loc(p)' = "head"
      /\ pc'[p] = "bget" /\ ret'[p] = "head" /\ want'[p] = 0
  BY DEF LogInv, Types, Loc, BioLabels
<1>5. \A q \in Procs \ {p} : Loc(q) \notin CommitLocs \cup BootLocs
  BY <1>1, Alone DEF CommitLocs, CopyLocs
<1>6. Quiet(p)
  BY <1>1, <1>4, <1>5 DEF LogInv, Types, Quiet, Same, BioLabels, Uses, Owns, HasCb
<1>7. Process(p)'
  BY <1>1, <1>2, <1>4 DEF Process, Calls, GetRets, Phase, CopyLocs, Holding, Naming, Finding, HasCb, Uses, Right
<1>8. \A q \in Procs \ {p} : Process(q)' /\ Loc(q)' = Loc(q)
  BY <1>6, QuietFrame
<1>9. Modes' /\ Operations' /\ Phases' /\ LogSpace'
  <2>1. Modes'
    BY <1>1, <1>4, <1>8 DEF LogInv, Modes, CommitLocs, BootLocs, CopyLocs, OpLocs
  <2>2. Operations'
    <3>1. \A q \in Procs : wrote[q] = NULL
      BY <1>1, Alone DEF CommitLocs, CopyLocs
    <3>2. QED
      BY <1>1, <1>4, <1>8, <3>1 DEF LogInv, Operations, OpLocs, Ops
  <2>3. LogSpace'
    BY <1>1, <1>2, Finite, MostLemma DEF LogInv, LogSpace, Reserved
  <2>4. Phases'
    BY <1>1, <1>2, <1>4, LogAssumption DEF LogInv, Phases, CopyLocs
  <2>5. QED
    BY <2>1, <2>2, <2>3, <2>4
<1>10. Contents'
  <2>1. ASSUME NEW k \in Bufs, buf[k].dirty, buf[k].block \in Data
        PROVE  phase = "write_log" /\ \E i \in DOMAIN lh : lh[i] = buf[k].block
    <3>1. PICK i \in DOMAIN lh : lh[i] = buf[k].block /\ (phase = "install" => i > tail)
      BY <2>1 DEF LogInv, Contents, Content
    <3>2. QED
      BY <1>1, <3>1
  <2>2. QED
    BY <1>2, <1>6, <2>1, QuietContents
<1>11. Pinned'
  BY <1>2 DEF LogInv, Pinned
<1>12. Progress' /\ Header'
  <2>1. \A q \in Procs \ {p} : Loc(q)' \notin CopyLocs \cup {"committed"}
    BY <1>5, <1>8 DEF CommitLocs
  <2>2. Upto(p) = Len(lh) /\ Upto(p)' = Len(lh')
    BY <1>1, <1>4 DEF Upto
  <2>3. Progress'
    BY <1>1, <1>2, <1>4, <2>1, <2>2 DEF LogInv, Progress, CopyLocs
  <2>4. phase = "install" => disk[0] = lh /\ \A i \in DOMAIN disk[0] : disk[disk[0][i]] = disk[i]
    BY <1>1, <2>2 DEF LogInv, Header, Progress, CopyLocs
  <2>5. Header'
    BY <1>1, <1>2, <1>4, <2>1, <2>4 DEF LogInv, Header, HeadOut, CopyLocs, OnceEach
  <2>6. QED
    BY <2>3, <2>5
<1>13. QED
  BY <1>3, <1>6, <1>7, <1>8, <1>9, <1>10, <1>11, <1>12, QuietFrame DEF LogInv

\* brelse() of the header: the transaction is committed, or forgotten.
LEMMA HeadDoneStep ==
  ASSUME LogInv, NEW p \in Procs, HeadDone(p)
  PROVE  LogInv'
<1> USE DEF HeadDone, At, Brelse, Goto, cvars
<1>1. /\ Loc(p) = "head.done" /\ pc[p] = "head.done" /\ HasCb(p) /\ tail = 0
      /\ phase = "write_log" \/ (phase = "install" /\ lh = <<>>)
      /\ phase = "write_log" => up
  BY Alone DEF LogInv, Loc, BioLabels, HasCb, Process, Phase, CopyLocs, CommitLocs
<1>2. cb[p] \in Bufs /\ buf[cb[p]].block \in Blocks /\ buf[cb[p]].valid /\ ~buf[cb[p]].dirty
  BY <1>1 DEF LogInv, Process, Holding, Naming, Finding, Uses
<1>3. Types'
  BY <1>2, ZenonT(40) DEF LogInv, Types, BioLabels, LogLabels, RelRets
<1>4. /\ Loc(p)' = ret'[p] /\ pc'[p] = "brelse" /\ cb'[p] = cb[p]
      /\ IF phase = "write_log" THEN phase' = "install" /\ ret'[p] = "copy" ELSE phase' = NULL /\ ret'[p] = "committed"
  BY <1>1 DEF LogInv, Types, Loc, BioLabels
<1>5. \A q \in Procs \ {p} : Loc(q) \notin CommitLocs \cup BootLocs
  BY <1>1, Alone DEF CommitLocs, CopyLocs
<1>6. disk[0] = IF phase = "write_log" THEN lh ELSE <<>>
  BY <1>1, <1>2 DEF LogInv, Header, HeadOut, CopyLocs
<1>7. Quiet(p)
  <2>1. ASSUME NEW k \in Bufs
        PROVE  (Uses(p, k)' <=> Uses(p, k)) /\ (Owns(p, k)' <=> Owns(p, k))
    BY <1>1, <1>4 DEF Uses, Owns, HasCb
  <2>2. QED
    BY <1>1, <1>4, <1>5, <2>1 DEF LogInv, Types, Quiet, Same, BioLabels
<1>8. Process(p)'
  <2>1. Calls(p)' /\ Phase(p)' /\ Holding(p)'
    BY <1>1, <1>2, <1>4 DEF LogInv, Types, Process, Calls, Phase, Holding, RelRets, CopyLocs, HasCb
  <2>2. Finding(p)' /\ Naming(p)'
    BY <1>1, <1>2, <1>4 DEF Finding, HasCb, Naming, Uses, Right
  <2>3. QED
    BY <2>1, <2>2 DEF Process
<1>9. \A q \in Procs \ {p} : Process(q)' /\ Loc(q)' = Loc(q)
  BY <1>7, QuietFrame
<1>10. Modes' /\ Operations' /\ Phases' /\ LogSpace'
  <2>1. Modes'
    BY <1>1, <1>4, <1>9, LogAssumption DEF LogInv, Modes, CommitLocs, BootLocs, CopyLocs, OpLocs
  <2>2. Operations' /\ LogSpace'
    BY <1>1, <1>4, <1>9 DEF LogInv, Operations, OpLocs, Ops, LogSpace, Reserved
  <2>3. Phases'
    BY <1>1, <1>4, LogAssumption DEF LogInv, Phases, CopyLocs
  <2>4. QED
    BY <2>1, <2>2, <2>3
<1>11. Contents'
  <2>1. ASSUME NEW k \in Bufs, buf[k].dirty, buf[k].block \in Data
        PROVE  \E i \in DOMAIN lh' : lh'[i] = buf[k].block /\ (phase' = "install" => i > tail')
    <3>1. PICK i \in DOMAIN lh : lh[i] = buf[k].block
      BY <2>1 DEF LogInv, Contents, Content
    <3>2. i \in Nat /\ i > 0
      BY <3>1 DEF LogInv, Types
    <3>3. QED
      BY <1>1, <3>1, <3>2
  <2>2. QED
    BY <1>7, <2>1, QuietContents
<1>12. Pinned'
  BY <1>1, <1>4 DEF LogInv, Pinned
<1>13. Progress' /\ Header'
  <2>1. \A q \in Procs \ {p} : Loc(q)' \notin CopyLocs \cup {"committed"}
    BY <1>5, <1>9 DEF CommitLocs
  <2>2. Upto(p) = Len(lh) /\ (phase = "write_log" => Upto(p)' = 0)
    BY <1>1, <1>4 DEF Upto
  <2>3. Progress'
    <3>1. Loc(p)' \in CopyLocs => phase = "write_log"
      BY <1>1, <1>4 DEF CopyLocs
    <3>2. phase = "write_log" => \A i \in DOMAIN lh, k \in Bufs : buf[k].block = lh[i] => buf[k].data = disk[i]
      <4>1. Loc(p) \in CopyLocs /\ \A i \in DOMAIN lh : i \in 1 .. Upto(p)
        BY <1>1, <2>2 DEF LogInv, CopyLocs, Types
      <4>2. QED
        BY <4>1 DEF LogInv, Progress
    <3>3. QED
      <4>1. \A q \in Procs : Loc(q)' \in CopyLocs => q = p /\ phase' = "install" /\ Upto(q)' = 0
        BY <1>1, <1>4, <2>1, <2>2, <3>1
      <4>2. phase' # "write_log" /\ (phase' = "install" => phase = "write_log")
        BY <1>1, <1>4, LogAssumption
      <4>3. \A i \in 1 .. 0 : FALSE
        OBVIOUS
      <4>4. QED
        BY <3>2, <4>1, <4>2, <4>3 DEF Progress
  <2>4. Header'
    BY <1>1, <1>4, <1>6, <2>1, LogAssumption DEF LogInv, Header, HeadOut, CopyLocs, OnceEach
  <2>5. QED
    BY <2>3, <2>4
<1>14. QED
  BY <1>3, <1>7, <1>8, <1>9, <1>10, <1>11, <1>12, <1>13, QuietFrame DEF LogInv

\* The recovery reads the header.
LEMMA ReadHeadStep ==
  ASSUME LogInv, NEW p \in Procs, ReadHead(p)
  PROVE  LogInv'
<1> USE DEF ReadHead, At, Bread, Goto, cvars, lvars
<1>1. 0 \in Blocks
  BY LogAssumption
<1>2. Types'
  BY <1>1 DEF LogInv, Types, BioLabels, LogLabels, GetRets
<1>3. /\ Loc(p) = "boot" /\ Loc(p)' = "read_head"
      /\ pc[p] = "boot" /\ pc'[p] = "bget" /\ ret'[p] = "read_head" /\ want'[p] = 0
  BY DEF LogInv, Types, Loc, BioLabels
<1>4. Quiet(p)
  BY <1>3 DEF LogInv, Types, Quiet, Same, BioLabels, Uses, Owns, HasCb
<1>5. Process(p)'
  BY <1>1, <1>3 DEF Process, Calls, GetRets, Phase, CopyLocs, Holding, Naming, Finding, HasCb, Uses, Right
<1>6. \A q \in Procs \ {p} : Process(q)' /\ Loc(q)' = Loc(q)
  BY <1>4, QuietFrame
<1>7. Modes' /\ Operations' /\ Phases' /\ LogSpace'
  BY <1>3, <1>6, SameMode
<1>8. Contents' /\ Pinned' /\ Progress' /\ Header'
  BY <1>3, <1>4, PlainStep DEF CopyLocs
<1>9. QED
  BY <1>2, <1>4, <1>5, <1>6, <1>7, <1>8, QuietFrame DEF LogInv

\* The recovery takes over the transaction in the header.
LEMMA HeadReadStep ==
  ASSUME LogInv, NEW p \in Procs, HeadRead(p)
  PROVE  LogInv'
<1> USE DEF HeadRead, At, Brelse, Goto, cvars
<1>1. Loc(p) = "read_head" /\ pc[p] = "read_head" /\ HasCb(p)
  BY DEF LogInv, Loc, BioLabels, HasCb
<1>2. cb[p] \in Bufs /\ buf[cb[p]].block = 0 /\ buf[cb[p]].valid /\ 0 \in Blocks /\ 0 \notin Data
  BY <1>1, LogAssumption DEF LogInv, Process, Holding, Naming, Finding, Right
<1>3. /\ \A q \in Procs \ {p} : Loc(q) \notin CommitLocs \cup BootLocs
      /\ \A q \in Procs : wrote[q] = NULL
      /\ phase = NULL /\ tail = 0 /\ ~up /\ lh = <<>>
  <2>1. /\ \A q \in Procs \ {p} : Loc(q) \notin CommitLocs \cup BootLocs
        /\ \A q \in Procs : wrote[q] = NULL
        /\ phase = NULL /\ tail = 0
    BY <1>1, Alone DEF BootLocs, CopyLocs
  <2>2. ~up
    BY <1>1 DEF LogInv, Modes, CommitLocs, CopyLocs, OpLocs
  <2>3. QED
    BY <2>1, <2>2, Finite DEF LogInv, Phases, Modes
<1>4. ~buf[cb[p]].dirty
  <2>1. ASSUME buf[cb[p]].dirty PROVE FALSE
    <3>1. PICK q \in Procs : Owns(q, cb[p]) /\ pc[q] \in {"iderw", "iowait"}
      BY <1>2, <2>1 DEF LogInv, Contents, Content
    <3>2. Owns(p, cb[p])
      BY <1>1 DEF Owns, Uses
    <3>3. q = p
      BY <1>2, <3>1, <3>2 DEF LogInv, Owners
    <3>4. QED
      BY <1>1, <3>1, <3>3
  <2>2. QED
    BY <2>1
<1>5. lh' = disk[0] /\ lh' \in Seq(Data)
  BY <1>2, <1>4 DEF LogInv, Contents, Content
<1>6. Types'
  BY <1>2, <1>5 DEF LogInv, Types, BioLabels, LogLabels, RelRets
<1>7. Loc(p)' = "copy" /\ pc'[p] = "brelse" /\ ret'[p] = "copy" /\ cb'[p] = cb[p]
  BY DEF LogInv, Types, Loc, BioLabels
<1>8. Quiet(p)
  <2>1. ASSUME NEW k \in Bufs
        PROVE  (Uses(p, k)' <=> Uses(p, k)) /\ (Owns(p, k)' <=> Owns(p, k))
    BY <1>1, <1>7 DEF Uses, Owns, HasCb
  <2>2. QED
    BY <1>1, <1>3, <1>7, <2>1 DEF LogInv, Types, Quiet, Same, BioLabels
<1>9. Process(p)'
  <2>1. Calls(p)' /\ Phase(p)' /\ Holding(p)'
    BY <1>2, <1>3, <1>5, <1>7 DEF LogInv, Types, Process, Calls, Phase, Holding, RelRets, CopyLocs, HasCb
  <2>2. Finding(p)' /\ Naming(p)'
    BY <1>2, <1>7 DEF Finding, HasCb, Naming, Uses, Right
  <2>3. QED
    BY <2>1, <2>2 DEF Process
<1>10. \A q \in Procs \ {p} : Process(q)' /\ Loc(q)' = Loc(q)
  BY <1>8, QuietFrame
<1>11. Modes' /\ Operations' /\ Phases' /\ LogSpace'
  <2>1. Modes'
    BY <1>1, <1>3, <1>7, <1>10 DEF LogInv, Modes, CommitLocs, BootLocs, CopyLocs, OpLocs
  <2>2. Operations'
    BY <1>1, <1>3, <1>7, <1>10 DEF LogInv, Operations, OpLocs, Ops
  <2>3. LogSpace'
    <3>1. Reserved' = {}
      BY <1>3 DEF Reserved
    <3>2. QED
      BY <1>5, <3>1, FS_EmptySet, MostLemma DEF LogSpace, LogInv, Header
  <2>4. Phases'
    BY <1>7, LogAssumption DEF Phases, CopyLocs
  <2>5. QED
    BY <2>1, <2>2, <2>3, <2>4
<1>12. Contents'
  BY <1>3, <1>8, QuietContents DEF LogInv, Contents, Content
<1>13. Pinned'
  BY <1>3 DEF Pinned
<1>14. Progress' /\ Header'
  <2>1. \A q \in Procs \ {p} : Loc(q)' \notin CopyLocs \cup {"committed"}
    BY <1>3, <1>10 DEF CommitLocs
  <2>2. Upto(p)' = 0
    BY <1>3, <1>7 DEF Upto
  <2>3. Progress'
    BY <1>3, <2>1, <2>2 DEF Progress
  <2>4. Header'
    BY <1>3, <1>5, <1>7, <2>1, LogAssumption DEF LogInv, Header, HeadOut, CopyLocs
  <2>5. QED
    BY <2>3, <2>4
<1>15. QED
  BY <1>6, <1>8, <1>9, <1>10, <1>11, <1>12, <1>13, <1>14, QuietFrame DEF LogInv

\* The end of the commit; after the recovery, the other processes start.
LEMMA CommittedStep ==
  ASSUME LogInv, NEW p \in Procs, Committed(p)
  PROVE  LogInv'
<1> USE DEF Committed, At, Wakeup, cvars
<1>1. Loc(p) = "committed" /\ pc[p] = "committed" /\ lh = <<>>
  BY DEF LogInv, Loc, BioLabels, Process, Phase
<1>2. /\ \A q \in Procs \ {p} : Loc(q) \notin CommitLocs \cup BootLocs
      /\ \A q \in Procs : wrote[q] = NULL
      /\ phase = NULL /\ tail = 0
  BY <1>1, Alone DEF CommitLocs, CopyLocs
<1>3. outstanding = 0
  BY <1>2, Finite
<1>4. disk[0] = <<>>
  BY <1>1 DEF LogInv, Header
<1>5. ASSUME NEW q \in Procs, q # p, ~up
      PROVE  pc[q] = "off" /\ Loc(q) = "off"
  <2>1. Loc(q) = "off"
    BY <1>1, <1>5, LogAssumption DEF LogInv, Modes, BootLocs, CopyLocs
  <2>2. QED
    BY <2>1 DEF LogInv, Process, Calls, Loc, BioLabels, GetRets, PutRets, RelRets
<1>6. Types'
  <2>1. asleep' \in [Procs -> Channels \cup {NULL}]
    BY DEF LogInv, Types
  <2>2. pc' \in [Procs -> BioLabels \cup LogLabels]
    BY DEF LogInv, Types, LogLabels, RelRets
  <2>3. QED
    BY <2>1, <2>2 DEF LogInv, Types
<1>7. ASSUME NEW q \in Procs
      PROVE  /\ Process(q)' /\ SameUse(q)
             /\ IF pc'[q] = pc[q] THEN Loc(q)' = Loc(q)
                ELSE pc[q] \in {"committed", "off"} /\ pc'[q] = "user" /\ Loc(q)' = "user"
  <2>1. CASE q # p /\ up
    <3>1. Same(q)
      BY <1>2, <2>1 DEF Same
    <3>2. QED
      BY <3>1, <2>1, OthersKeep DEF LogInv
  <2>2. CASE q = p \/ ~up
    <3>1. pc[q] \in {"committed", "off"} /\ pc'[q] = "user" /\ Loc(q)' = "user" /\ Loc(q) = pc[q]
      BY <1>1, <1>5, <2>2 DEF Loc, BioLabels
    <3>2. SameUse(q)
      BY <3>1 DEF SameUse, Uses, Owns, HasCb
    <3>3. Process(q)'
      BY <3>1 DEF Process, Calls, Phase, Holding, Naming, Finding, CopyLocs, HasCb, Uses, Right
    <3>4. QED
      BY <3>1, <3>2, <3>3
  <2>3. QED
    BY <2>1, <2>2
<1>8. \A q \in Procs : Loc(q)' \notin CommitLocs \cup BootLocs \cup OpLocs
  <2>1. \A q \in Procs : Loc(q)' = "user" \/ (q # p /\ Loc(q)' = Loc(q))
    BY <1>1, <1>7 DEF LogInv, Types
  <2>2. QED
    BY <1>2, <2>1 DEF LogInv, Operations, CommitLocs, BootLocs, OpLocs, CopyLocs
<1>9. Modes' /\ Operations' /\ Phases' /\ LogSpace'
  <2>1. Modes'
    <3>1. ASSUME NEW q \in Procs
          PROVE  Loc(q)' \in {"user", "begin_op", "read"} \cup OpLocs \cup CommitLocs
      BY <1>1, <1>5, <1>7 DEF LogInv, Modes
    <3>2. QED
      BY <1>8, <3>1 DEF Modes
  <2>2. Operations'
    BY <1>2, <1>3, <1>8 DEF LogInv, Operations, OpLocs, Ops
  <2>3. Phases' /\ LogSpace'
    BY <1>1, <1>2 DEF LogInv, Phases, LogSpace, Reserved
  <2>4. QED
    BY <2>1, <2>2, <2>3
<1>10. Owners' /\ Counts' /\ OneCopy'
  BY <1>7, UseFrame DEF LogInv, OneCopy
<1>11. \A q \in Procs : pc[q] \in {"iderw", "iowait"} \/ pc'[q] \in {"iderw", "iowait", "acquiresleep"} => pc'[q] = pc[q]
  BY <1>7
<1>12. Queue'
  <2>1. ASSUME NEW i \in DOMAIN idequeue
        PROVE  \E q \in Procs : Owns(q, idequeue[i])' /\ pc'[q] = "iowait" /\ cb'[q] = idequeue[i]
    <3>1. idequeue[i] \in Bufs
      BY DEF LogInv, Types
    <3>2. QED
      BY <1>7, <1>11, <3>1 DEF LogInv, Queue, SameUse
  <2>2. ASSUME NEW q \in Procs
        PROVE  Asked(q)' <=> Asked(q)
    BY DEF Asked
  <2>3. QED
    BY <1>11, <2>1, <2>2 DEF LogInv, Queue
<1>13. Sleepers'
  <2>1. ASSUME NEW q \in Procs, asleep'[q] # NULL
        PROVE  asleep'[q] = asleep[q] /\ asleep[q] # <<"log", NULL>>
    BY <2>1
  <2>2. NULL # <<"log", NULL>> /\ \A k \in Bufs : <<"lock", k>> # NULL /\ <<"io", k>> # NULL
    BY BioAssumption DEF Channels
  <2>3. \A q \in Procs : pc[q] \in {"acquiresleep", "iowait"} => pc'[q] = pc[q]
    BY <1>7
  <2>4. QED
    BY <2>1, <2>2, <2>3 DEF LogInv, Sleepers
<1>14. Contents'
  <2>1. ASSUME NEW k \in Bufs
        PROVE  Content(k)'
    BY <1>7, <1>11 DEF LogInv, Contents, Content, SameUse
  <2>2. QED
    BY <2>1 DEF LogInv, Contents
<1>15. Pinned' /\ Progress' /\ Header'
  BY <1>1, <1>2, <1>4, <1>8, LogAssumption DEF LogInv, Pinned, Progress, Header, CommitLocs
<1>16. QED
  BY <1>6, <1>7, <1>9, <1>10, <1>12, <1>13, <1>14, <1>15 DEF LogInv

-----------------------------------------------------------------------------
(* The steps of the buffer cache.                                          *)

\* The step changes no block, neither on the disk nor in a buffer.
SameData ==
  /\ UNCHANGED <<disk, lvars>>
  /\ \A k \in Bufs : /\ buf'[k].block = buf[k].block /\ buf'[k].valid = buf[k].valid
                     /\ buf'[k].dirty = buf[k].dirty /\ buf'[k].data = buf[k].data

\* Then most of what is said of the blocks stays.
LEMMA SameDataParts ==
  ASSUME LogInv, SameData, \A q \in Procs : Loc(q)' = Loc(q),
         \A q \in Procs : Loc(q) = "head.done" => cb'[q] = cb[q] /\ cb[q] \in Bufs,
         \A q \in Procs, k \in Bufs :
           buf[k].dirty /\ Owns(q, k) /\ cb[q] = k /\ pc[q] \in {"iderw", "iowait"} /\ ret[q] \in PutRets =>
             Owns(q, k)' /\ cb'[q] = k /\ pc'[q] \in {"iderw", "iowait"} /\ ret'[q] \in PutRets
  PROVE  OneCopy' /\ Contents' /\ Pinned' /\ Header'
<1> USE DEF SameData, lvars
<1>1. OneCopy'
  BY DEF LogInv, OneCopy
<1>2. Contents'
  <2>1. ASSUME NEW k \in Bufs
        PROVE  Content(k)'
    BY DEF LogInv, Contents, Content
  <2>2. QED
    BY <2>1 DEF LogInv, Contents
<1>3. Pinned'
  BY DEF LogInv, Pinned
<1>4. \A q \in Procs : HeadOut(q)' <=> HeadOut(q)
  BY DEF HeadOut
<1>5. Header'
  BY <1>4 DEF LogInv, Header
<1>6. QED
  BY <1>1, <1>2, <1>3, <1>5

\* The same, when no loop has copied more.
LEMMA SameDataFrame ==
  ASSUME LogInv, SameData,
         \A q \in Procs : Loc(q)' = Loc(q) /\ (Loc(q) \in CopyLocs => Upto(q)' = Upto(q)),
         \A q \in Procs : Loc(q) = "head.done" => cb'[q] = cb[q] /\ cb[q] \in Bufs,
         \A q \in Procs, k \in Bufs :
           buf[k].dirty /\ Owns(q, k) /\ cb[q] = k /\ pc[q] \in {"iderw", "iowait"} /\ ret[q] \in PutRets =>
             Owns(q, k)' /\ cb'[q] = k /\ pc'[q] \in {"iderw", "iowait"} /\ ret'[q] \in PutRets
  PROVE  OneCopy' /\ Contents' /\ Pinned' /\ Progress' /\ Header'
<1>1. OneCopy' /\ Contents' /\ Pinned' /\ Header'
  BY SameDataParts
<1>2. Progress'
  BY DEF LogInv, Progress, SameData, lvars
<1>3. QED
  BY <1>1, <1>2

\* bread(), bwrite() and brelse() do not change what the caller is doing.
LEMMA SameLog ==
  ASSUME LogInv, UNCHANGED lvars, \A q \in Procs : Loc(q)' = Loc(q)
  PROVE  Modes' /\ Operations' /\ Phases' /\ LogSpace'
<1>1. InitProc \in Procs
  BY LogAssumption
<1>2. QED
  BY <1>1, SameMode DEF LogInv, Operations, lvars

\* The queue, when the process that steps does not come or leave.
LEMMA QueueFrame ==
  ASSUME LogInv, NEW p \in Procs, \A q \in Procs \ {p} : Same(q), idequeue' = idequeue,
         pc[p] # "iowait", pc'[p] # "iowait", pc'[p] = "iderw" => Asked(p)'
  PROVE  Queue'
<1>1. ASSUME NEW q \in Procs \ {p}, pc[q] \in {"iderw", "iowait"}
      PROVE  /\ pc'[q] = pc[q] /\ cb'[q] = cb[q] /\ cb[q] \in Bufs /\ Owns(q, cb[q])' /\ (Asked(q)' <=> Asked(q))
             /\ buf'[cb[q]].valid = buf[cb[q]].valid /\ buf'[cb[q]].dirty = buf[cb[q]].dirty
  <2>1. HasCb(q) /\ cb[q] \in Bufs
    BY <1>1 DEF LogInv, Process, Holding, HasCb
  <2>2. Owns(q, cb[q]) /\ Uses(q, cb[q])
    BY <1>1, <2>1 DEF Owns, Uses
  <2>3. /\ pc'[q] = pc[q] /\ cb'[q] = cb[q] /\ ret'[q] = ret[q]
        /\ buf'[cb[q]].valid = buf[cb[q]].valid /\ buf'[cb[q]].dirty = buf[cb[q]].dirty
    BY <2>1, <2>2 DEF Same
  <2>4. Owns(q, cb[q])'
    BY <1>1, <2>1, <2>2, <2>3 DEF Owns, Uses, HasCb
  <2>5. QED
    BY <2>1, <2>3, <2>4 DEF Asked
<1>2. \A q \in Procs \ {p} : pc'[q] = pc[q]
  BY DEF Same
<1>3. QED
  BY <1>1, <1>2 DEF LogInv, Queue

\* The sleepers, when nobody falls asleep and nothing is released.
LEMMA SleepFrame ==
  ASSUME LogInv, NEW p \in Procs, \A q \in Procs \ {p} : Same(q), UNCHANGED <<asleep, idequeue>>, asleep[p] = NULL,
         \A k \in Bufs : buf[k].owner # NULL => buf'[k].owner # NULL
  PROVE  Sleepers'
<1>1. NULL # <<"log", NULL>> /\ \A k \in Bufs : <<"lock", k>> # NULL /\ <<"io", k>> # NULL
  BY BioAssumption DEF Channels
<1>2. ASSUME NEW q \in Procs, asleep'[q] # NULL
      PROVE  pc'[q] = pc[q] /\ cb'[q] = cb[q]
  BY <1>2 DEF Same
<1>3. QED
  BY <1>1, <1>2 DEF LogInv, Sleepers

\* The process that has written the header still has it.
LEMMA HeadCb ==
  ASSUME LogInv
  PROVE  \A q \in Procs : Loc(q) = "head.done" => HasCb(q) /\ cb[q] \in Bufs /\ Uses(q, cb[q])
BY DEF LogInv, Process, Calls, Holding, HasCb, Uses, Loc, BioLabels, RelRets, GetRets

\* A loop copies no more than there is.
LEMMA UptoRange ==
  ASSUME LogInv
  PROVE  \A q \in Procs : Loc(q) \in CopyLocs => Upto(q) \in 0 .. Len(lh)
BY DEF LogInv, Process, Phase, Upto, Types, CopyLocs, Loc, BioLabels

\* A set of processes is finite.
LEMMA UsersFinite ==
  ASSUME NEW k \in Bufs
  PROVE  IsFiniteSet(Users(k))
BY BioAssumption, FS_Subset DEF Users

\* What the caller uses besides the buffer it asks bread() for.
LEMMA AtBget ==
  ASSUME LogInv, LogFits, NEW p \in Procs, pc[p] = "bget"
  PROVE  /\ Loc(p) = ret[p] /\ ret[p] \in GetRets
         /\ want[p] \in Blocks /\ Right(p, want[p])
         /\ \A k \in Bufs : Uses(p, k) <=> Loc(p) = "copy.home" /\ k = lbuf
         /\ \A k \in Bufs : Uses(p, k) => buf[k].block # want[p]
<1>1. Loc(p) = ret[p] /\ ret[p] \in GetRets /\ want[p] \in Blocks /\ Right(p, want[p])
  BY DEF LogInv, Process, Calls, Naming, Loc, BioLabels
<1>2. \A k \in Bufs : Uses(p, k) <=> Loc(p) = "copy.home" /\ k = lbuf
  BY <1>1 DEF Uses, HasCb, GetRets
<1>3. ASSUME NEW k \in Bufs, Uses(p, k)
      PROVE  buf[k].block # want[p]
  BY <1>1, <1>2, <1>3, Numbers DEF LogInv, Process, Phase, Naming, Right
<1>4. QED
  BY <1>1, <1>2, <1>3

\* bget() finds the block in the cache.
LEMMA BgetHitStep ==
  ASSUME LogInv, LogFits, NEW p \in Procs, BgetHit(p), UNCHANGED lvars
  PROVE  LogInv'
<1> USE DEF BgetHit, At, Goto, Cached, lvars
<1>1. PICK k \in Bufs : /\ buf[k].block = want[p]
                        /\ buf' = [buf EXCEPT ![k].refcnt = @ + 1]
                        /\ cb' = [cb EXCEPT ![p] = k]
  OBVIOUS
<1>2. /\ Loc(p) = ret[p] /\ ret[p] \in GetRets /\ ret'[p] = ret[p]
      /\ pc[p] = "bget" /\ pc'[p] = "acquiresleep" /\ cb'[p] = k /\ Loc(p)' = Loc(p)
  BY <1>1, AtBget DEF LogInv, Types, Loc, BioLabels
<1>3. /\ buf' \in [Bufs -> Buffer]
      /\ buf'[k].refcnt = buf[k].refcnt + 1
      /\ \A j \in Bufs \ {k} : buf'[j].refcnt = buf[j].refcnt
      /\ \A j \in Bufs : buf'[j].owner = buf[j].owner
  <2>1. buf[k].refcnt + 1 \in Nat /\ [buf[k] EXCEPT !.refcnt = buf[k].refcnt + 1] \in Buffer
    <3>1. buf[k] \in Buffer
      BY DEF LogInv, Types
    <3>2. buf[k].refcnt + 1 \in Nat
      BY <3>1 DEF Buffer
    <3>3. QED
      BY ONLY <3>1, <3>2 DEF Buffer
  <2>2. buf' \in [Bufs -> Buffer]
    BY <1>1, <2>1 DEF LogInv, Types
  <2>3. QED
    BY <1>1, <2>2 DEF LogInv, Types, Buffer
<1>4. SameData
  BY <1>1 DEF LogInv, Types, Buffer, SameData
<1>5. Types'
  BY <1>1, <1>3 DEF LogInv, Types, BioLabels
<1>6. \A q \in Procs \ {p} : Same(q)
  BY <1>1, <1>4 DEF LogInv, Types, Same, SameData
<1>7. \A q \in Procs \ {p} : Process(q)' /\ SameUse(q) /\ Loc(q)' = Loc(q)
  BY <1>6, OthersKeep DEF LogInv
<1>8. /\ \A j \in Bufs : (Uses(p, j)' <=> Uses(p, j) \/ j = k) /\ (Owns(p, j)' <=> Owns(p, j))
      /\ ~Uses(p, k)
  BY <1>1, <1>2, AtBget DEF Uses, Owns, HasCb, GetRets
<1>9. Process(p)'
  <2>1. Calls(p)' /\ Phase(p)' /\ Holding(p)'
    BY <1>1, <1>2 DEF LogInv, Process, Calls, Phase, Holding, GetRets
  <2>2. Naming(p)'
    BY <1>1, <1>2, <1>4, <1>8, AtBget DEF LogInv, Process, Holding, Naming, Right, SameData, GetRets
  <2>3. Finding(p)'
    BY <1>1, <1>2, <1>4 DEF LogInv, Process, Holding, Finding, SameData, GetRets
  <2>4. QED
    BY <2>1, <2>2, <2>3 DEF Process
<1>10. Modes' /\ Operations' /\ Phases' /\ LogSpace'
  BY <1>2, <1>7, SameLog
<1>11. Owners'
  BY <1>3, <1>7, <1>8 DEF LogInv, Owners, SameUse
<1>12. Counts'
  <2>1. Users(k)' = Users(k) \cup {p} /\ p \notin Users(k)
    BY <1>7, <1>8 DEF Users, SameUse
  <2>2. \A j \in Bufs \ {k} : Users(j)' = Users(j)
    BY <1>7, <1>8 DEF Users, SameUse
  <2>3. Cardinality(Users(k)') = Cardinality(Users(k)) + 1
    BY <2>1, UsersFinite, FS_AddElement
  <2>4. QED
    BY <1>3, <2>2, <2>3 DEF LogInv, Counts
<1>13. Queue' /\ Sleepers'
  BY <1>2, <1>3, <1>6, QueueFrame, SleepFrame
<1>14. OneCopy' /\ Contents' /\ Pinned' /\ Progress' /\ Header'
  <2>1. \A q \in Procs : Loc(q)' = Loc(q) /\ (Loc(q) \in CopyLocs => Upto(q)' = Upto(q))
    BY <1>2, <1>6, <1>7 DEF Same, Upto
  <2>2. \A q \in Procs : Loc(q) = "head.done" => cb'[q] = cb[q] /\ cb[q] \in Bufs
    BY <1>2, <1>6, HeadCb DEF Same, GetRets
  <2>3. QED
    BY <1>2, <1>4, <1>6, <1>7, <2>1, <2>2, SameDataFrame DEF Same, SameUse
<1>15. QED
  BY <1>5, <1>7, <1>9, <1>10, <1>11, <1>12, <1>13, <1>14 DEF LogInv

\* bget() takes the least recently used buffer that is free.
LEMMA BgetMissStep ==
  ASSUME LogInv, LogFits, NEW p \in Procs, BgetMiss(p), UNCHANGED lvars
  PROVE  LogInv'
<1> USE DEF At, Goto, lvars
<1>1. CASE UNCHANGED <<buf, cb, want, pc>>
  <2>1. /\ UNCHANGED <<disk, buf, lru, idequeue, asleep, pc, ret, want, cb, lvars>>
        /\ panic' \in BOOLEAN
    BY <1>1 DEF BgetMiss, LogInv, Types
  <2>2. Types'
    BY <2>1 DEF LogInv, Types
  <2>3. \A q \in Procs : Process(q)' /\ SameUse(q) /\ Loc(q)' = Loc(q) /\ Same(q)
    BY <2>1, OthersKeep DEF LogInv, Same
  <2>4. Modes' /\ Operations' /\ Phases' /\ LogSpace'
    BY <2>1, <2>3, SameLog
  <2>5. Owners' /\ Counts'
    BY <2>1, <2>3, UseFrame DEF LogInv
  <2>6. Queue' /\ Sleepers' /\ pc[p] = "bget"
    BY <2>1, <2>3, QueueFrame, SleepFrame DEF BgetMiss
  <2>7. OneCopy' /\ Contents' /\ Pinned' /\ Progress' /\ Header'
    <3>1. SameData
      BY <2>1 DEF SameData
    <3>2. \A q \in Procs : Upto(q)' = Upto(q)
      BY <2>1 DEF Upto, Loc
    <3>3. QED
      BY <2>1, <2>3, <3>1, <3>2, HeadCb, SameDataFrame DEF SameUse
  <2>8. QED
    BY <2>2, <2>3, <2>4, <2>5, <2>6, <2>7 DEF LogInv
<1>2. CASE \E i \in 1..NBUF :
             /\ Unused(lru[i])
             /\ buf' = [buf EXCEPT ![lru[i]] = [@ EXCEPT !.block = want[p], !.valid = FALSE,
                                                         !.dirty = FALSE, !.refcnt = 1, !.data = Empty]]
             /\ cb' = [cb EXCEPT ![p] = lru[i]]
             /\ want' = [want EXCEPT ![p] = NULL]
             /\ pc' = [pc EXCEPT ![p] = "acquiresleep"] /\ UNCHANGED panic
  <2>1. PICK k \in Bufs :
             /\ Unused(k)
             /\ buf' = [buf EXCEPT ![k] = [@ EXCEPT !.block = want[p], !.valid = FALSE,
                                                    !.dirty = FALSE, !.refcnt = 1, !.data = Empty]]
             /\ cb' = [cb EXCEPT ![p] = k]
             /\ want' = [want EXCEPT ![p] = NULL]
             /\ pc' = [pc EXCEPT ![p] = "acquiresleep"] /\ UNCHANGED panic
    BY <1>2 DEF LogInv, Types, Orders
  <2>2. pc[p] = "bget" /\ UNCHANGED <<disk, lru, idequeue, asleep, ret>> /\ \A j \in Bufs : buf[j].block # want[p]
    BY DEF BgetMiss, Cached
  <2>3. /\ Loc(p) = ret[p] /\ ret[p] \in GetRets /\ ret'[p] = ret[p]
        /\ pc'[p] = "acquiresleep" /\ cb'[p] = k /\ Loc(p)' = Loc(p)
    BY <2>1, <2>2, AtBget DEF LogInv, Types, Loc, BioLabels
  <2>4. want[p] \in Blocks /\ Right(p, want[p])
    BY <2>2, AtBget
  <2>5. /\ buf' \in [Bufs -> Buffer]
        /\ buf'[k].block = want[p] /\ ~buf'[k].valid /\ ~buf'[k].dirty /\ buf'[k].refcnt = 1
        /\ buf'[k].owner = buf[k].owner
        /\ \A j \in Bufs \ {k} : buf'[j] = buf[j]
    <3>1. [buf[k] EXCEPT !.block = want[p], !.valid = FALSE, !.dirty = FALSE, !.refcnt = 1, !.data = Empty] \in Buffer
      BY <2>4, ZenonT(40) DEF LogInv, Types, Buffer
    <3>2. buf' \in [Bufs -> Buffer]
      BY <2>1, <3>1 DEF LogInv, Types
    <3>3. QED
      BY <2>1, <3>2 DEF LogInv, Types, Buffer
  <2>6. Types'
    BY <2>1, <2>2, <2>5 DEF LogInv, Types, BioLabels
  <2>7. \A q \in Procs : ~Uses(q, k)
    <3>1. Users(k) = {}
      BY <2>1, UsersFinite, FS_EmptySet DEF LogInv, Counts, Unused
    <3>2. QED
      BY <3>1 DEF Users
  <2>8. \A q \in Procs \ {p} : Same(q)
    BY <2>1, <2>2, <2>5, <2>7, ZenonT(40) DEF LogInv, Types, Same, Owns
  <2>9. \A q \in Procs \ {p} : Process(q)' /\ SameUse(q) /\ Loc(q)' = Loc(q)
    BY <2>8, OthersKeep DEF LogInv
  <2>10. \A j \in Bufs : (Uses(p, j)' <=> Uses(p, j) \/ j = k) /\ (Owns(p, j)' <=> Owns(p, j))
    BY <2>2, <2>3, <2>7, AtBget DEF Uses, Owns, HasCb, GetRets
  <2>11. Process(p)'
    <3>1. Calls(p)' /\ Phase(p)' /\ Holding(p)'
      BY <2>2, <2>3 DEF LogInv, Process, Calls, Phase, Holding, GetRets
    <3>2. Loc(p) = "copy.home" => lbuf \in Bufs \ {k} /\ Uses(p, lbuf)
      BY <2>7 DEF LogInv, Process, Holding, Uses
    <3>3. Naming(p)'
      BY <2>2, <2>3, <2>4, <2>5, <2>10, <3>2, AtBget DEF LogInv, Process, Holding, Naming, Right, GetRets
    <3>4. Finding(p)'
      BY <2>2, <2>3, <2>5, <3>2 DEF LogInv, Process, Holding, Finding, GetRets
    <3>5. QED
      BY <3>1, <3>3, <3>4 DEF Process
  <2>12. Modes' /\ Operations' /\ Phases' /\ LogSpace'
    BY <2>3, <2>9, SameLog
  <2>13. Owners'
    BY <2>5, <2>9, <2>10 DEF LogInv, Owners, SameUse
  <2>14. Counts'
    <3>1. Users(k)' = {p}
      BY <2>7, <2>9, <2>10 DEF Users, SameUse
    <3>2. \A j \in Bufs \ {k} : Users(j)' = Users(j)
      BY <2>9, <2>10 DEF Users, SameUse
    <3>3. QED
      BY <2>5, <3>1, <3>2, FS_Singleton, ZenonT(40) DEF LogInv, Counts
  <2>15. Queue' /\ Sleepers'
    <3>1. asleep[p] = NULL /\ \A j \in Bufs : buf'[j].owner = buf[j].owner
      BY <2>5 DEF BgetMiss
    <3>2. QED
      BY <2>2, <2>3, <2>8, <3>1, QueueFrame, SleepFrame
  <2>16. OneCopy'
    BY <2>2, <2>5 DEF LogInv, OneCopy
  <2>17. Contents'
    <3>1. ASSUME NEW j \in Bufs
          PROVE  Content(j)'
      <4>1. CASE j = k
        BY <2>5, <4>1 DEF Content
      <4>2. CASE j # k
        BY <2>2, <2>3, <2>5, <2>8, <2>9, <4>2 DEF LogInv, Contents, Content, Same, SameUse
      <4>3. QED
        BY <4>1, <4>2
    <3>2. QED
      BY <2>2, <3>1 DEF LogInv, Contents
  <2>18. Pinned'
    BY <2>1, <2>2, <2>5 DEF LogInv, Pinned, Unused
  <2>19. \A q \in Procs : Loc(q)' = Loc(q) /\ (Loc(q) \in CopyLocs => Upto(q)' = Upto(q) /\ Upto(q) \in 0 .. Len(lh))
    <3>1. \A q \in Procs : Loc(q)' = Loc(q) /\ (Loc(q) \in CopyLocs => Upto(q)' = Upto(q))
      BY <2>2, <2>3, <2>8, <2>9 DEF Same, Upto
    <3>2. QED
      BY <3>1, UptoRange
  <2>20. Progress'
    <3>1. ASSUME NEW i \in DOMAIN lh, phase = "write_log"
          PROVE  lh[i] # want[p]
      BY <2>2, <3>1 DEF LogInv, Pinned
    <3>2. ASSUME NEW q \in Procs, Loc(q) \in CopyLocs, NEW i \in 1 .. Upto(q), NEW j \in Bufs,
                 phase = "write_log", buf'[j].block = lh[i]
          PROVE  buf'[j].data = disk[i]
      <4>1. i \in DOMAIN lh
        BY <2>19, <3>2 DEF LogInv, Types
      <4>2. j # k
        BY <2>5, <3>1, <3>2, <4>1
      <4>3. QED
        BY <2>5, <3>2, <4>2 DEF LogInv, Progress
    <3>3. QED
      BY <2>2, <2>5, <2>19, <3>2 DEF LogInv, Progress
  <2>21. Header'
    <3>1. \A q \in Procs : HeadOut(q)' <=> HeadOut(q)
      <4>1. ASSUME NEW q \in Procs, Loc(q) = "head.done"
            PROVE  q # p /\ cb'[q] = cb[q] /\ cb[q] \in Bufs /\ cb[q] # k
        BY <2>3, <2>7, <2>8, <4>1, HeadCb DEF GetRets, Same
      <4>2. QED
        BY <2>5, <2>19, <4>1 DEF HeadOut
    <3>2. QED
      BY <2>2, <2>19, <3>1 DEF LogInv, Header
  <2>22. QED
    BY <2>6, <2>9, <2>11, <2>12, <2>13, <2>14, <2>15, <2>16, <2>17, <2>18, <2>20, <2>21 DEF LogInv
<1>3. QED
  BY <1>1, <1>2 DEF BgetMiss

\* acquiresleep(): the process waits for the buffer, or has it.
LEMMA AcquireSleepStep ==
  ASSUME LogInv, NEW p \in Procs, AcquireSleep(p), UNCHANGED lvars
  PROVE  LogInv'
<1> USE DEF AcquireSleep, At, Goto, Sleep, Return, lvars
<1> DEFINE k == cb[p]
<1>1. /\ pc[p] = "acquiresleep" /\ asleep[p] = NULL /\ HasCb(p) /\ k \in Bufs
      /\ Loc(p) = ret[p] /\ ret[p] \in GetRets /\ Uses(p, k) /\ ~Owns(p, k)
  BY DEF LogInv, Process, Calls, Holding, HasCb, Loc, BioLabels, Uses, Owns
<1>2. CASE buf[k].owner # NULL
  <2>1. UNCHANGED <<disk, buf, lru, idequeue, pc, ret, want, cb, panic>> /\ asleep' = [asleep EXCEPT ![p] = <<"lock", k>>]
    BY <1>2
  <2>2. Types'
    <3>1. asleep' \in [Procs -> Channels \cup {NULL}]
      BY <1>1, <2>1 DEF LogInv, Types, Channels
    <3>2. QED
      BY <2>1, <3>1 DEF LogInv, Types
  <2>3. \A q \in Procs : Process(q)' /\ SameUse(q) /\ Loc(q)' = Loc(q) /\ Same(q)
    BY <2>1, OthersKeep DEF LogInv, Same
  <2>4. Modes' /\ Operations' /\ Phases' /\ LogSpace'
    BY <2>3, SameLog
  <2>5. Owners' /\ Counts'
    BY <2>1, <2>3, UseFrame DEF LogInv
  <2>6. Queue'
    BY <1>1, <2>1, <2>3, QueueFrame
  <2>7. Sleepers'
    <3>1. asleep'[p] = <<"lock", k>> /\ \A q \in Procs \ {p} : asleep'[q] = asleep[q]
      BY <2>1 DEF LogInv, Types
    <3>2. QED
      BY <1>1, <1>2, <2>1, <3>1 DEF LogInv, Sleepers
  <2>8. OneCopy' /\ Contents' /\ Pinned' /\ Progress' /\ Header'
    <3>1. SameData
      BY <2>1 DEF SameData
    <3>2. \A q \in Procs : Upto(q)' = Upto(q)
      BY <2>1 DEF Upto, Loc
    <3>3. QED
      BY <2>1, <2>3, <3>1, <3>2, HeadCb, SameDataFrame DEF SameUse
  <2>9. QED
    BY <2>2, <2>3, <2>4, <2>5, <2>6, <2>7, <2>8 DEF LogInv
<1>3. CASE buf[k].owner = NULL
  <2>1. /\ UNCHANGED <<disk, lru, idequeue, want, cb, panic, asleep>>
        /\ buf' = [buf EXCEPT ![k].owner = p]
        /\ IF buf[k].valid THEN pc'[p] = ret[p] ELSE pc'[p] = "iderw" /\ ret'[p] = ret[p]
    BY <1>3 DEF LogInv, Types
  <2>2. /\ buf' \in [Bufs -> Buffer] /\ buf'[k].owner = p
        /\ \A j \in Bufs : buf'[j].refcnt = buf[j].refcnt
        /\ \A j \in Bufs \ {k} : buf'[j].owner = buf[j].owner
    <3>1. [buf[k] EXCEPT !.owner = p] \in Buffer
      <4>1. buf[k] \in Buffer /\ p \in Procs
        BY <1>1 DEF LogInv, Types
      <4>2. QED
        BY ONLY <4>1 DEF Buffer
    <3>2. buf' \in [Bufs -> Buffer]
      BY <2>1, <3>1 DEF LogInv, Types
    <3>3. QED
      BY <1>1, <2>1, <3>2 DEF LogInv, Types, Buffer
  <2>3. SameData
    BY <1>1, <2>1 DEF LogInv, Types, Buffer, SameData
  <2>4. Types'
    <3>1. pc' \in [Procs -> BioLabels \cup LogLabels]
      BY <1>1, <1>3 DEF LogInv, Types, BioLabels, LogLabels
    <3>2. ret' \in [Procs -> LogLabels \cup {NULL}]
      BY <1>1, <1>3 DEF LogInv, Types
    <3>3. QED
      BY <2>1, <2>2, <3>1, <3>2 DEF LogInv, Types
  <2>5. \A q \in Procs \ {p} : Same(q)
    BY <1>3, <2>1, <2>3 DEF LogInv, Types, Same, SameData
  <2>6. \A q \in Procs \ {p} : Process(q)' /\ SameUse(q) /\ Loc(q)' = Loc(q)
    BY <2>5, OthersKeep DEF LogInv
  <2>7. Loc(p)' = Loc(p) /\ pc'[p] \in GetRets \cup {"iderw"} /\ HasCb(p)'
    BY <1>1, <2>1 DEF Loc, BioLabels, GetRets, HasCb
  <2>8. \A j \in Bufs : (Uses(p, j)' <=> Uses(p, j)) /\ (Owns(p, j)' <=> Owns(p, j) \/ j = k)
    BY <1>1, <2>1, <2>7 DEF Uses, Owns, GetRets, Dest
  <2>9. Process(p)'
    <3>1. Calls(p)' /\ Phase(p)' /\ Holding(p)'
      BY <1>1, <2>1, <2>7 DEF LogInv, Process, Calls, Phase, Holding, GetRets
    <3>2. Naming(p)'
      BY <1>1, <2>1, <2>3, <2>7, <2>8 DEF LogInv, Process, Holding, Naming, Right, SameData, GetRets
    <3>3. Finding(p)'
      BY <1>1, <2>1, <2>3, <2>7 DEF LogInv, Process, Holding, Finding, SameData, GetRets
    <3>4. QED
      BY <3>1, <3>2, <3>3 DEF Process
  <2>10. Modes' /\ Operations' /\ Phases' /\ LogSpace'
    BY <2>6, <2>7, SameLog
  <2>11. Owners'
    BY <1>1, <1>3, <2>2, <2>6, <2>8, BioAssumption DEF LogInv, Owners, SameUse
  <2>12. Counts'
    <3>1. \A j \in Bufs : Users(j)' = Users(j)
      BY <2>6, <2>8 DEF Users, SameUse
    <3>2. QED
      BY <2>2, <3>1 DEF LogInv, Counts
  <2>13. Queue'
    <3>1. pc'[p] = "iderw" => Asked(p)'
      BY <1>1, <2>1, <2>3 DEF Asked, GetRets, PutRets, SameData
    <3>2. QED
      BY <1>1, <2>1, <2>5, <2>7, <3>1, QueueFrame DEF GetRets
  <2>14. Sleepers'
    <3>1. \A j \in Bufs : buf[j].owner # NULL => buf'[j].owner # NULL
      BY <2>2, BioAssumption
    <3>2. QED
      BY <1>1, <2>1, <2>5, <3>1, SleepFrame
  <2>15. OneCopy' /\ Contents' /\ Pinned' /\ Progress' /\ Header'
    <3>1. \A q \in Procs : Loc(q)' = Loc(q) /\ (Loc(q) \in CopyLocs => Upto(q)' = Upto(q))
      BY <1>1, <2>1, <2>5, <2>6, <2>7 DEF Same, Upto, GetRets
    <3>2. QED
      BY <1>1, <2>1, <2>3, <2>5, <2>6, <3>1, HeadCb, SameDataFrame DEF Same, SameUse
  <2>16. QED
    BY <2>4, <2>6, <2>9, <2>10, <2>11, <2>12, <2>13, <2>14, <2>15 DEF LogInv
<1>4. QED
  BY <1>2, <1>3

\* iderw(): the request joins the queue, and its process sleeps.
LEMMA IderwStep ==
  ASSUME LogInv, NEW p \in Procs, Iderw(p), UNCHANGED lvars
  PROVE  LogInv'
<1> USE DEF Iderw, At, Goto, Sleep, lvars
<1> DEFINE k == cb[p]
<1>1. /\ pc[p] = "iderw" /\ asleep[p] = NULL /\ HasCb(p) /\ k \in Bufs
      /\ Loc(p) = ret[p] /\ ret[p] \in GetRets \cup PutRets /\ Owns(p, k) /\ Asked(p)
  BY DEF LogInv, Process, Calls, Holding, HasCb, Loc, BioLabels, Uses, Owns, Queue
<1>2. Types'
  <2>1. asleep' \in [Procs -> Channels \cup {NULL}]
    BY <1>1 DEF LogInv, Types, Channels
  <2>2. idequeue' \in Seq(Bufs)
    BY <1>1 DEF LogInv, Types
  <2>3. QED
    BY <2>1, <2>2 DEF LogInv, Types, BioLabels
<1>3. pc'[p] = "iowait" /\ ret'[p] = ret[p] /\ cb'[p] = k /\ Loc(p)' = Loc(p) /\ HasCb(p)'
  BY <1>1 DEF LogInv, Types, Loc, BioLabels, HasCb
<1>4. \A q \in Procs \ {p} : Same(q)
  BY DEF LogInv, Types, Same
<1>5. \A q \in Procs \ {p} : Process(q)' /\ SameUse(q) /\ Loc(q)' = Loc(q)
  BY <1>4, OthersKeep DEF LogInv
<1>6. SameUse(p)
  BY <1>1, <1>3 DEF SameUse, Uses, Owns, Dest
<1>7. Process(p)'
  <2>1. Calls(p)' /\ Phase(p)' /\ Holding(p)'
    BY <1>1, <1>3 DEF LogInv, Process, Calls, Phase, Holding
  <2>2. Naming(p)'
    BY <1>1, <1>3, <1>6 DEF LogInv, Process, Naming, Right, SameUse, Dest
  <2>3. Finding(p)'
    BY <1>1, <1>3 DEF LogInv, Process, Finding, Dest
  <2>4. QED
    BY <2>1, <2>2, <2>3 DEF Process
<1>8. Modes' /\ Operations' /\ Phases' /\ LogSpace'
  BY <1>3, <1>5, SameLog
<1>9. Owners' /\ Counts'
  BY <1>5, <1>6, UseFrame DEF LogInv
<1>10. /\ \A i \in DOMAIN idequeue : i \in DOMAIN idequeue' /\ idequeue'[i] = idequeue[i] /\ idequeue[i] \in Bufs
       /\ Len(idequeue) + 1 \in DOMAIN idequeue' /\ idequeue'[Len(idequeue) + 1] = k
       /\ \A i \in DOMAIN idequeue' : i \in DOMAIN idequeue \/ i = Len(idequeue) + 1
  BY DEF LogInv, Types
<1>11. \A i \in DOMAIN idequeue : idequeue[i] # k
  <2>1. ASSUME NEW i \in DOMAIN idequeue, idequeue[i] = k PROVE FALSE
    <3>1. PICK q \in Procs : Owns(q, k) /\ pc[q] = "iowait"
      BY <2>1 DEF LogInv, Queue
    <3>2. QED
      BY <1>1, <3>1 DEF LogInv, Owners
  <2>2. QED
    BY <2>1
<1>12. Queue'
  <2>1. ASSUME NEW i \in DOMAIN idequeue'
        PROVE  (\E q \in Procs : Owns(q, idequeue[i]) /\ pc[q] = "iowait" /\ cb[q] = idequeue[i])'
    <3>1. CASE i = Len(idequeue) + 1
      <4>1. Owns(p, k)' /\ idequeue'[i] = k
        BY <1>1, <1>6, <1>10, <3>1 DEF SameUse
      <4>2. QED
        BY <1>3, <4>1
    <3>2. CASE i \in DOMAIN idequeue
      <4>1. PICK j \in Bufs : idequeue[i] = j /\ idequeue'[i] = j
        BY <1>10, <3>2
      <4>2. PICK q \in Procs : Owns(q, j) /\ pc[q] = "iowait" /\ cb[q] = j
        BY <3>2, <4>1 DEF LogInv, Queue
      <4>3. Owns(q, j)' /\ pc'[q] = "iowait" /\ cb'[q] = j
        BY <1>1, <1>4, <1>5, <4>2 DEF SameUse, Same
      <4>4. QED
        BY <4>1, <4>3
    <3>3. QED
      BY <1>10, <3>1, <3>2
  <2>2. ASSUME NEW i \in DOMAIN idequeue', NEW j \in DOMAIN idequeue', idequeue'[i] = idequeue'[j]
        PROVE  i = j
    BY <1>10, <1>11, <2>2 DEF LogInv, Queue
  <2>3. ASSUME NEW q \in Procs
        PROVE  /\ pc'[q] = "iderw" => Asked(q)'
               /\ pc'[q] = "iowait" => IF \E i \in DOMAIN idequeue' : idequeue'[i] = cb'[q]
                                      THEN Asked(q)' ELSE buf'[cb'[q]].valid /\ ~buf'[cb'[q]].dirty
    <3>1. Asked(q)' <=> Asked(q)
      BY DEF Asked
    <3>2. CASE q = p
      BY <1>1, <1>3, <1>10, <3>1, <3>2
    <3>3. CASE q # p
      <4>1. pc'[q] = pc[q] /\ cb'[q] = cb[q]
        BY <1>4, <3>3 DEF Same
      <4>2. pc[q] = "iowait" => cb[q] # k
        <5>1. pc[q] = "iowait" => Owns(q, cb[q])
          BY DEF Owns, Uses, HasCb
        <5>2. QED
          BY <1>1, <3>3, <5>1 DEF LogInv, Owners
      <4>3. QED
        BY <1>10, <3>1, <4>1, <4>2 DEF LogInv, Queue
    <3>4. QED
      BY <3>2, <3>3
  <2>4. QED
    BY <2>1, <2>2, <2>3 DEF Queue
<1>13. Sleepers'
  <2>1. asleep'[p] = <<"io", k>> /\ \A q \in Procs \ {p} : asleep'[q] = asleep[q] /\ pc'[q] = pc[q]
    BY DEF LogInv, Types
  <2>2. ASSUME NEW j \in Bufs
        PROVE  (j = k => \E i \in DOMAIN idequeue' : idequeue'[i] = j)
               /\ ((\E i \in DOMAIN idequeue : idequeue[i] = j) => \E i \in DOMAIN idequeue' : idequeue'[i] = j)
    BY <1>10
  <2>3. ASSUME NEW q \in Procs
        PROVE  /\ asleep'[q] = <<"log", NULL>> => pc'[q] = "begin_op"
               /\ \A j \in Bufs :
                    /\ asleep'[q] = <<"lock", j>> => pc'[q] = "acquiresleep" /\ cb'[q] = j /\ buf'[j].owner # NULL
                    /\ asleep'[q] = <<"io", j>> => pc'[q] = "iowait" /\ cb'[q] = j
                                                  /\ (\E i \in DOMAIN idequeue' : idequeue'[i] = j)
    <3>1. CASE q = p
      BY <1>3, <2>1, <2>2, <3>1
    <3>2. CASE q # p
      BY <2>1, <2>2, <3>2 DEF LogInv, Sleepers
    <3>3. QED
      BY <3>1, <3>2
  <2>4. QED
    BY <2>3 DEF Sleepers
<1>14. OneCopy' /\ Contents' /\ Pinned' /\ Progress' /\ Header'
  <2>1. SameData
    BY DEF SameData
  <2>2. \A q \in Procs : Loc(q)' = Loc(q) /\ (Loc(q) \in CopyLocs => Upto(q)' = Upto(q))
    BY <1>1, <1>3, <1>4, <1>5 DEF Same, Upto
  <2>3. \A q \in Procs : SameUse(q)
    BY <1>5, <1>6
  <2>4. QED
    BY <1>3, <1>4, <2>1, <2>2, <2>3, HeadCb, SameDataFrame DEF Same, SameUse
<1>15. QED
  BY <1>2, <1>5, <1>7, <1>8, <1>9, <1>12, <1>13, <1>14 DEF LogInv

\* The loop of iderw(): the request is done, or the process sleeps again.
LEMMA IdeWaitStep ==
  ASSUME LogInv, LogFits, NEW p \in Procs, IdeWait(p), UNCHANGED lvars
  PROVE  LogInv'
<1> USE DEF IdeWait, At, Goto, Sleep, Return, lvars, cvars
<1> DEFINE k == cb[p]
<1>1. /\ pc[p] = "iowait" /\ asleep[p] = NULL /\ HasCb(p) /\ k \in Bufs
      /\ Loc(p) = ret[p] /\ ret[p] \in GetRets \cup PutRets /\ Owns(p, k)
  BY DEF LogInv, Process, Calls, Holding, HasCb, Loc, BioLabels, Uses, Owns
<1>2. SameData
  BY DEF SameData
<1>3. \A q \in Procs \ {p} : Same(q)
  BY DEF LogInv, Types, Same
<1>4. \A q \in Procs \ {p} : Process(q)' /\ SameUse(q) /\ Loc(q)' = Loc(q)
  BY <1>3, OthersKeep DEF LogInv
<1>5. CASE ~(buf[k].valid /\ ~buf[k].dirty)
  <2>1. UNCHANGED <<disk, buf, lru, idequeue, pc, ret, want, cb, panic>> /\ asleep' = [asleep EXCEPT ![p] = <<"io", k>>]
    BY <1>5
  <2>2. Types'
    <3>1. asleep' \in [Procs -> Channels \cup {NULL}]
      BY <1>1, <2>1 DEF LogInv, Types, Channels
    <3>2. QED
      BY <2>1, <3>1 DEF LogInv, Types
  <2>3. \A q \in Procs : Process(q)' /\ SameUse(q) /\ Loc(q)' = Loc(q) /\ Same(q)
    BY <2>1, OthersKeep DEF LogInv, Same
  <2>4. Modes' /\ Operations' /\ Phases' /\ LogSpace'
    BY <2>3, SameLog
  <2>5. Owners' /\ Counts'
    BY <2>1, <2>3, UseFrame DEF LogInv
  <2>6. Queue'
    <3>1. \A q \in Procs, j \in Bufs : Owns(q, j)' <=> Owns(q, j)
      BY <2>3 DEF SameUse
    <3>2. \A i \in DOMAIN idequeue : idequeue[i] \in Bufs
      BY DEF LogInv, Types
    <3>3. \A q \in Procs : Asked(q)' <=> Asked(q)
      BY <2>1 DEF Asked
    <3>4. QED
      BY <2>1, <3>1, <3>2, <3>3 DEF LogInv, Queue
  <2>7. Sleepers'
    <3>1. asleep'[p] = <<"io", k>> /\ \A q \in Procs \ {p} : asleep'[q] = asleep[q]
      BY <2>1 DEF LogInv, Types
    <3>2. \E i \in DOMAIN idequeue : idequeue[i] = k
      BY <1>1, <1>5 DEF LogInv, Queue
    <3>3. QED
      BY <1>1, <2>1, <3>1, <3>2 DEF LogInv, Sleepers
  <2>8. OneCopy' /\ Contents' /\ Pinned' /\ Progress' /\ Header'
    <3>1. \A q \in Procs : Upto(q)' = Upto(q)
      BY <2>1 DEF Upto, Loc
    <3>2. QED
      BY <1>2, <2>1, <2>3, <3>1, HeadCb, SameDataFrame DEF SameUse
  <2>9. QED
    BY <2>2, <2>3, <2>4, <2>5, <2>6, <2>7, <2>8 DEF LogInv
<1>6. CASE buf[k].valid /\ ~buf[k].dirty
  <2>1. /\ UNCHANGED <<disk, buf, lru, idequeue, want, cb, panic, asleep>>
        /\ pc'[p] = ret[p]
    BY <1>6 DEF LogInv, Types
  <2>2. Types'
    <3>1. pc' \in [Procs -> BioLabels \cup LogLabels]
      BY <1>1, <1>6 DEF LogInv, Types, LogLabels
    <3>2. ret' \in [Procs -> LogLabels \cup {NULL}]
      BY <1>6 DEF LogInv, Types
    <3>3. QED
      BY <2>1, <3>1, <3>2 DEF LogInv, Types
  <2>3. Loc(p)' = Loc(p) /\ pc'[p] \in GetRets \cup PutRets /\ HasCb(p)'
    BY <1>1, <2>1 DEF Loc, BioLabels, GetRets, PutRets, HasCb
  <2>4. SameUse(p)
    BY <1>1, <2>1, <2>3 DEF SameUse, Uses, Owns, GetRets, PutRets, Dest
  <2>5. Process(p)'
    <3>1. Calls(p)' /\ Phase(p)' /\ Holding(p)'
      BY <1>1, <2>1, <2>3 DEF LogInv, Process, Calls, Phase, Holding, GetRets, PutRets
    <3>2. Naming(p)'
      BY <1>1, <2>1, <2>3, <2>4 DEF LogInv, Process, Naming, Right, GetRets, PutRets, SameUse, Dest
    <3>3. Finding(p)'
      BY <1>1, <1>6, <2>1, <2>3 DEF LogInv, Process, Finding, GetRets, PutRets, Dest
    <3>4. QED
      BY <3>1, <3>2, <3>3 DEF Process
  <2>6. Modes' /\ Operations' /\ Phases' /\ LogSpace'
    BY <1>4, <2>3, SameLog
  <2>7. Owners' /\ Counts'
    BY <1>4, <2>1, <2>4, UseFrame DEF LogInv
  <2>8. Queue'
    <3>1. \A i \in DOMAIN idequeue : idequeue[i] # k /\ idequeue[i] \in Bufs
      BY <1>1, <1>6 DEF LogInv, Queue, Asked, Types
    <3>2. ASSUME NEW i \in DOMAIN idequeue
          PROVE  \E q \in Procs : Owns(q, idequeue[i])' /\ pc'[q] = "iowait" /\ cb'[q] = idequeue[i]
      BY <1>3, <1>4, <3>1 DEF LogInv, Queue, SameUse, Same
    <3>3. ASSUME NEW q \in Procs, pc'[q] \in {"iderw", "iowait"}
          PROVE  pc'[q] = pc[q] /\ (Asked(q)' <=> Asked(q))
      BY <1>3, <2>1, <2>3, <3>3 DEF Same, Asked, GetRets, PutRets
    <3>4. QED
      BY <2>1, <3>2, <3>3 DEF LogInv, Queue
  <2>9. Sleepers'
    BY <1>1, <1>3, <2>1, SleepFrame
  <2>10. OneCopy' /\ Contents' /\ Pinned' /\ Header'
    BY <1>1, <1>2, <1>3, <1>4, <1>6, <2>1, <2>3, HeadCb, SameDataParts DEF Same, SameUse
  <2>11. Progress'
    <3>1. CASE Loc(p) # "copy.done"
      <4>1. \A q \in Procs : Loc(q)' = Loc(q) /\ (Loc(q) \in CopyLocs => Upto(q)' = Upto(q))
        BY <1>1, <1>3, <1>4, <2>1, <2>3, <3>1 DEF Same, Upto
      <4>2. QED
        BY <4>1, <2>1 DEF LogInv, Progress
    <3>2. CASE Loc(p) = "copy.done"
      <4>1. /\ \A q \in Procs \ {p} : Loc(q)' \notin CopyLocs
            /\ Upto(p) = tail /\ Upto(p)' = tail + 1 /\ tail \in Nat /\ tail < Len(lh)
            /\ phase \in {"write_log", "install"}
        BY <1>1, <1>4, <2>1, <2>3, <3>2, Alone DEF Upto, LogInv, Types, Process, Phase, CommitLocs, CopyLocs
      <4>2. /\ lbuf \in Bufs /\ dbuf \in Bufs /\ cb[p] = Dest
            /\ buf[lbuf].block = tail + 1 /\ buf[dbuf].block = lh[tail + 1]
            /\ buf[lbuf].valid /\ buf[dbuf].valid /\ buf[lbuf].data = buf[dbuf].data
        BY <3>2 DEF LogInv, Process, Holding, Naming, Finding
      <4>3. lbuf # dbuf /\ Owns(p, lbuf)
        BY <1>1, <3>2, <4>1, <4>2, Numbers DEF Owns, Uses
      <4>4. ~buf[lbuf].dirty
        <5>1. ASSUME buf[lbuf].dirty PROVE FALSE
          <6>1. PICK q \in Procs : Owns(q, lbuf) /\ cb[q] = lbuf
            BY <4>1, <4>2, <5>1, Numbers DEF LogInv, Contents, Content
          <6>2. q = p
            BY <4>2, <4>3, <6>1 DEF LogInv, Owners
          <6>3. QED
            BY <1>6, <5>1, <6>1, <6>2
        <5>2. QED
          BY <5>1
      <4>5. buf[lbuf].data = disk[tail + 1]
        BY <4>2, <4>4 DEF LogInv, Contents, Content
      <4>6. phase = "install" => disk[lh[tail + 1]] = disk[tail + 1]
        BY <1>6, <4>2, <4>5, LogAssumption DEF LogInv, Contents, Content, Dest
      <4>7. \A j \in Bufs : buf[j].block = lh[tail + 1] => buf[j].data = disk[tail + 1]
        BY <4>1, <4>2, <4>5, Numbers, BioAssumption DEF LogInv, OneCopy
      <4>8. \A i \in 1 .. Upto(p)' : i \in 1 .. Upto(p) \/ i = tail + 1
        BY <4>1
      <4>9. QED
        BY <2>1, <2>3, <3>2, <4>1, <4>6, <4>7, <4>8 DEF LogInv, Progress, CopyLocs
    <3>3. QED
      BY <3>1, <3>2
  <2>12. QED
    BY <1>4, <2>2, <2>5, <2>6, <2>7, <2>8, <2>9, <2>10, <2>11 DEF LogInv
<1>7. QED
  BY <1>5, <1>6

\* releasesleep() in brelse().
LEMMA ReleaseSleepStep ==
  ASSUME LogInv, NEW p \in Procs, ReleaseSleep(p), UNCHANGED lvars
  PROVE  LogInv'
<1> USE DEF ReleaseSleep, At, Goto, Wakeup, lvars
<1> DEFINE k == cb[p]
<1>1. /\ pc[p] = "brelse" /\ asleep[p] = NULL /\ HasCb(p) /\ k \in Bufs
      /\ Loc(p) = ret[p] /\ ret[p] \in RelRets /\ Owns(p, k) /\ Uses(p, k)
  BY DEF LogInv, Process, Calls, Holding, HasCb, Loc, BioLabels, Uses, Owns
<1>2. /\ buf' \in [Bufs -> Buffer] /\ buf'[k].owner = NULL
      /\ \A j \in Bufs : buf'[j].refcnt = buf[j].refcnt
      /\ \A j \in Bufs \ {k} : buf'[j].owner = buf[j].owner
  <2>1. [buf[k] EXCEPT !.owner = NULL] \in Buffer
    <3>1. buf[k] \in Buffer /\ NULL \in Procs \cup {NULL}
      BY <1>1 DEF LogInv, Types
    <3>2. QED
      BY ONLY <3>1 DEF Buffer
  <2>2. buf' \in [Bufs -> Buffer]
    BY <2>1 DEF LogInv, Types
  <2>3. QED
    BY <1>1, <2>2 DEF LogInv, Types, Buffer
<1>3. SameData
  BY <1>1 DEF LogInv, Types, Buffer, SameData
<1>4. Types'
  <2>1. asleep' \in [Procs -> Channels \cup {NULL}]
    BY DEF LogInv, Types
  <2>2. QED
    BY <1>2, <2>1 DEF LogInv, Types, BioLabels
<1>5. pc'[p] = "unref" /\ ret'[p] = ret[p] /\ cb'[p] = k /\ Loc(p)' = Loc(p) /\ HasCb(p)'
  BY <1>1 DEF LogInv, Types, Loc, BioLabels, HasCb
<1>6. \A q \in Procs \ {p} : Same(q)
  BY <1>3 DEF LogInv, Types, Same, SameData
<1>7. \A q \in Procs \ {p} : Process(q)' /\ SameUse(q) /\ Loc(q)' = Loc(q)
  BY <1>6, OthersKeep DEF LogInv
<1>8. \A j \in Bufs : (Uses(p, j)' <=> Uses(p, j)) /\ (Owns(p, j)' <=> Owns(p, j) /\ j # k)
  BY <1>1, <1>5 DEF Uses, Owns, RelRets, Dest
<1>9. Process(p)'
  <2>1. Calls(p)' /\ Phase(p)' /\ Holding(p)'
    BY <1>1, <1>5 DEF LogInv, Process, Calls, Phase, Holding
  <2>2. Naming(p)'
    BY <1>1, <1>3, <1>5, <1>8 DEF LogInv, Process, Holding, Naming, Right, SameData, RelRets, Dest
  <2>3. Finding(p)'
    BY <1>1, <1>3, <1>5 DEF LogInv, Process, Holding, Finding, SameData, RelRets, Dest
  <2>4. QED
    BY <2>1, <2>2, <2>3 DEF Process
<1>10. Modes' /\ Operations' /\ Phases' /\ LogSpace'
  BY <1>5, <1>7, SameLog
<1>11. Owners'
  BY <1>1, <1>2, <1>7, <1>8, BioAssumption DEF LogInv, Owners, SameUse
<1>12. Counts'
  <2>1. \A j \in Bufs : Users(j)' = Users(j)
    BY <1>7, <1>8 DEF Users, SameUse
  <2>2. QED
    BY <1>2, <2>1 DEF LogInv, Counts
<1>13. Queue'
  BY <1>1, <1>5, <1>6, QueueFrame
<1>14. Sleepers'
  <2>1. NULL # <<"log", NULL>> /\ \A j \in Bufs : <<"lock", j>> # NULL /\ <<"io", j>> # NULL
    BY BioAssumption DEF Channels
  <2>2. ASSUME NEW q \in Procs, asleep'[q] # NULL
        PROVE  q # p /\ asleep'[q] = asleep[q] /\ asleep[q] # <<"lock", k>> /\ pc'[q] = pc[q] /\ cb'[q] = cb[q]
    BY <1>1, <1>6, <2>2 DEF Same
  <2>3. QED
    BY <1>2, <2>1, <2>2 DEF LogInv, Sleepers
<1>15. OneCopy' /\ Contents' /\ Pinned' /\ Progress' /\ Header'
  <2>1. \A q \in Procs : Loc(q)' = Loc(q) /\ (Loc(q) \in CopyLocs => Upto(q)' = Upto(q))
    BY <1>1, <1>5, <1>6, <1>7 DEF Same, Upto
  <2>2. QED
    BY <1>1, <1>3, <1>5, <1>6, <1>7, <2>1, HeadCb, SameDataFrame DEF Same, SameUse
<1>16. QED
  BY <1>4, <1>7, <1>9, <1>10, <1>11, <1>12, <1>13, <1>14, <1>15 DEF LogInv

\* brelse() loses no buffer from the list.
LEMMA MoveToFrontOrder ==
  ASSUME lru \in Orders, NEW k \in Bufs
  PROVE  MoveToFront(k) \in Orders
<1> DEFINE at == CHOOSE i \in 1..NBUF : lru[i] = k
           f == [i \in 1..NBUF |-> IF i = 1 THEN k ELSE IF i <= at THEN lru[i - 1] ELSE lru[i]]
<1>1. NBUF \in Nat
  BY BioAssumption, FS_CardinalityType DEF NBUF
<1>2. lru \in [1..NBUF -> Bufs] /\ \A j \in Bufs : \E i \in 1..NBUF : lru[i] = j
  BY DEF Orders
<1>3. at \in 1..NBUF /\ lru[at] = k
  BY <1>2
<1> HIDE DEF at
<1>4. \A i \in 1..NBUF : f[i] \in Bufs
  BY <1>1, <1>2, <1>3
<1>5. ASSUME NEW j \in Bufs
      PROVE  \E i \in 1..NBUF : f[i] = j
  <2>1. PICK i \in 1..NBUF : lru[i] = j
    BY <1>2
  <2>2. CASE j = k
    <3>1. 1 \in 1..NBUF /\ f[1] = k
      BY <1>1, <1>3
    <3>2. QED
      BY <2>2, <3>1
  <2>3. CASE i < at
    <3>1. i + 1 \in 1..NBUF /\ f[i + 1] = j
      BY <1>1, <1>3, <2>1, <2>3
    <3>2. QED
      BY <3>1
  <2>4. CASE i > at
    <3>1. f[i] = j
      BY <1>1, <1>3, <2>1, <2>4
    <3>2. QED
      BY <3>1
  <2>5. QED
    BY <1>1, <1>3, <2>1, <2>2, <2>3, <2>4
<1>6. f \in Orders
  BY <1>4, <1>5 DEF Orders
<1>7. QED
  BY <1>6 DEF MoveToFront, at

\* The end of brelse().
LEMMA UnrefStep ==
  ASSUME LogInv, NEW p \in Procs, Unref(p), UNCHANGED lvars
  PROVE  LogInv'
<1> USE DEF Unref, At, Goto, Return, lvars
<1>0. PICK k \in Bufs : k = cb[p]
  BY DEF LogInv, Process, Holding, HasCb
<1>1. /\ pc[p] = "unref" /\ asleep[p] = NULL /\ HasCb(p)
      /\ Loc(p) = ret[p] /\ ret[p] \in RelRets /\ ~Owns(p, k) /\ Uses(p, k)
  BY <1>0 DEF LogInv, Process, Calls, Holding, HasCb, Loc, BioLabels, Uses, Owns
<1>2. Cardinality(Users(k)) = buf[k].refcnt /\ Cardinality(Users(k) \ {p}) = buf[k].refcnt - 1
      /\ buf[k].refcnt - 1 \in Nat
  <2>1. p \in Users(k) /\ IsFiniteSet(Users(k)) /\ Cardinality(Users(k)) = buf[k].refcnt
    BY <1>0, <1>1, UsersFinite DEF Users, LogInv, Counts
  <2>2. IsFiniteSet(Users(k) \ {p}) /\ Cardinality(Users(k) \ {p}) = buf[k].refcnt - 1
    BY ONLY <2>1, FS_RemoveElement
  <2>3. Cardinality(Users(k) \ {p}) \in Nat
    BY ONLY <2>2, FS_CardinalityType
  <2>4. QED
    BY <2>1, <2>2, <2>3
<1>3. /\ buf' \in [Bufs -> Buffer] /\ buf'[k].refcnt = buf[k].refcnt - 1
      /\ \A j \in Bufs : buf'[j].owner = buf[j].owner
      /\ \A j \in Bufs \ {k} : buf'[j].refcnt = buf[j].refcnt
  <2>1. buf[k] \in Buffer
    BY <1>0, <1>1 DEF LogInv, Types
  <2>2. [buf[k] EXCEPT !.refcnt = buf[k].refcnt - 1] \in Buffer
    <3>1. buf[k].refcnt - 1 \in Nat
      BY <1>2
    <3>2. QED
      BY ONLY <2>1, <3>1 DEF Buffer
  <2>3. buf' \in [Bufs -> Buffer]
    BY <1>0, <2>2 DEF LogInv, Types
  <2>4. QED
    BY <1>0, <1>1, <2>3 DEF LogInv, Types, Buffer
<1>4. SameData
  BY <1>0, <1>1 DEF LogInv, Types, Buffer, SameData
<1>5. Types'
  <2>1. lru' \in Orders
    BY <1>0, <1>1, MoveToFrontOrder DEF LogInv, Types
  <2>2. pc' \in [Procs -> BioLabels \cup LogLabels]
    BY <1>0, <1>1 DEF LogInv, Types, LogLabels
  <2>3. ret' \in [Procs -> LogLabels \cup {NULL}]
    BY DEF LogInv, Types
  <2>4. QED
    BY <1>3, <2>1, <2>2, <2>3 DEF LogInv, Types
<1>6. pc'[p] = ret[p] /\ Loc(p)' = Loc(p) /\ ~HasCb(p)'
  BY <1>0, <1>1 DEF LogInv, Types, Loc, BioLabels, HasCb, RelRets
<1>7. \A q \in Procs \ {p} : Same(q)
  BY <1>4 DEF LogInv, Types, Same, SameData
<1>8. \A q \in Procs \ {p} : Process(q)' /\ SameUse(q) /\ Loc(q)' = Loc(q)
  BY <1>7, OthersKeep DEF LogInv
<1>9. \A j \in Bufs : (Uses(p, j)' <=> Uses(p, j) /\ j # k) /\ (Owns(p, j)' <=> Owns(p, j))
  <2>1. Loc(p) = "copy.brelse" => k # Dest
    BY <1>0, <1>1 DEF LogInv, Process, Naming
  <2>2. QED
    BY <1>0, <1>1, <1>6, <2>1 DEF Uses, Owns, RelRets, Dest
<1>10. Process(p)'
  <2>1. Calls(p)' /\ Phase(p)' /\ Holding(p)'
    BY <1>0, <1>1, <1>6 DEF LogInv, Process, Calls, Phase, Holding, RelRets
  <2>2. Naming(p)'
    BY <1>0, <1>1, <1>4, <1>6, <1>9 DEF LogInv, Process, Holding, Naming, Right, SameData, RelRets, Dest
  <2>3. Finding(p)'
    BY <1>0, <1>1, <1>4, <1>6 DEF LogInv, Process, Holding, Finding, SameData, RelRets, Dest
  <2>4. QED
    BY <2>1, <2>2, <2>3 DEF Process
<1>11. Modes' /\ Operations' /\ Phases' /\ LogSpace'
  BY <1>6, <1>8, SameLog
<1>12. Owners'
  BY <1>3, <1>8, <1>9 DEF LogInv, Owners, SameUse
<1>13. Counts'
  <2>1. Users(k)' = Users(k) \ {p}
    BY <1>8, <1>9 DEF Users, SameUse
  <2>2. \A j \in Bufs \ {k} : Users(j)' = Users(j)
    BY <1>8, <1>9 DEF Users, SameUse
  <2>3. buf'[k].refcnt = Cardinality(Users(k)')
    BY <1>2, <1>3, <2>1
  <2>4. QED
    BY <1>3, <2>2, <2>3 DEF LogInv, Counts
<1>14. Queue' /\ Sleepers'
  BY <1>0, <1>1, <1>3, <1>6, <1>7, QueueFrame, SleepFrame DEF RelRets
<1>15. OneCopy' /\ Contents' /\ Pinned' /\ Progress' /\ Header'
  <2>1. \A q \in Procs : Loc(q)' = Loc(q) /\ (Loc(q) \in CopyLocs => Upto(q)' = Upto(q))
    BY <1>0, <1>1, <1>6, <1>7, <1>8 DEF Same, Upto, RelRets
  <2>2. QED
    BY <1>0, <1>1, <1>4, <1>7, <1>8, <2>1, HeadCb, SameDataFrame DEF Same, SameUse, RelRets
<1>16. QED
  BY <1>5, <1>8, <1>10, <1>11, <1>12, <1>13, <1>14, <1>15 DEF LogInv

\* The request at the head of the queue, and what is written if it is a write.
LEMMA AtIntr ==
  ASSUME LogInv, LogFits, idequeue # <<>>
  PROVE  \E p \in Procs, k \in Bufs :
           /\ k = Head(idequeue) /\ Owns(p, k) /\ pc[p] = "iowait" /\ cb[p] = k /\ Loc(p) = ret[p]
           /\ buf[k].block \in Blocks
           /\ ~buf[k].dirty => ~buf[k].valid /\ ret[p] \in GetRets
           /\ buf[k].dirty =>
                /\ buf[k].valid /\ ret[p] \in PutRets
                /\ \/ /\ Loc(p) = "copy.done" /\ phase = "write_log" /\ tail < Len(lh) /\ buf[k].block = tail + 1
                      /\ buf[k].block \notin Data /\ buf[k].block # 0
                   \/ /\ Loc(p) = "copy.done" /\ phase = "install" /\ tail < Len(lh) /\ buf[k].block = lh[tail + 1]
                      /\ buf[k].block \in Data /\ buf[k].block # 0
                   \/ Loc(p) = "head.done" /\ buf[k].block = 0 /\ 0 \notin Data /\ buf[k].data = lh
           /\ \A i \in DOMAIN Tail(idequeue) : i + 1 \in DOMAIN idequeue /\ Tail(idequeue)[i] = idequeue[i + 1] /\ idequeue[i + 1] # k
           /\ \A i \in DOMAIN idequeue : idequeue[i] # k => i - 1 \in DOMAIN Tail(idequeue) /\ Tail(idequeue)[i - 1] = idequeue[i]
<1> DEFINE k == Head(idequeue)
<1>1. 1 \in DOMAIN idequeue /\ k = idequeue[1] /\ k \in Bufs
  BY DEF LogInv, Types
<1>2. PICK p \in Procs : Owns(p, k) /\ pc[p] = "iowait" /\ cb[p] = k
  BY <1>1 DEF LogInv, Queue
<1>3. /\ Asked(p) /\ Loc(p) = ret[p] /\ ret[p] \in GetRets \cup PutRets /\ HasCb(p)
      /\ buf[k].block \in Blocks
  <2>1. Asked(p)
    BY <1>1, <1>2 DEF LogInv, Queue
  <2>2. QED
    BY <1>1, <1>2, <2>1 DEF LogInv, Process, Calls, Naming, Loc, BioLabels, HasCb, Owns
<1>4. /\ ~buf[k].dirty => ~buf[k].valid /\ ret[p] \in GetRets
      /\ buf[k].dirty => buf[k].valid /\ ret[p] \in PutRets
  BY <1>1, <1>2, <1>3 DEF Asked, LogInv, Contents, Content, GetRets, PutRets
<1>5. ASSUME buf[k].dirty, Loc(p) = "copy.done"
      PROVE  \/ /\ phase = "write_log" /\ tail < Len(lh) /\ buf[k].block = tail + 1
                /\ buf[k].block \notin Data /\ buf[k].block # 0
             \/ /\ phase = "install" /\ tail < Len(lh) /\ buf[k].block = lh[tail + 1]
                /\ buf[k].block \in Data /\ buf[k].block # 0
  BY <1>2, <1>5, Numbers DEF LogInv, Process, Phase, Naming, Dest, CopyLocs
<1>6. ASSUME buf[k].dirty, Loc(p) = "head.done"
      PROVE  buf[k].block = 0 /\ 0 \notin Data /\ buf[k].data = lh
  BY <1>2, <1>3, <1>6, LogAssumption DEF LogInv, Process, Naming, Finding, Right
<1>7. /\ \A i \in DOMAIN Tail(idequeue) : i + 1 \in DOMAIN idequeue /\ Tail(idequeue)[i] = idequeue[i + 1] /\ i + 1 # 1
      /\ \A i \in DOMAIN idequeue : i # 1 => i - 1 \in DOMAIN Tail(idequeue) /\ Tail(idequeue)[i - 1] = idequeue[i]
  BY DEF LogInv, Types
<1>8. \A i \in DOMAIN Tail(idequeue) : idequeue[i + 1] # k
  BY <1>1, <1>7 DEF LogInv, Queue
<1>9. QED
  BY <1>1, <1>2, <1>3, <1>4, <1>5, <1>6, <1>7, <1>8 DEF PutRets

\* The interrupt of the disk: a buffer is read, or written.
LEMMA IdeIntrStep ==
  ASSUME LogInv, LogFits, IdeIntr, UNCHANGED lvars
  PROVE  LogInv'
<1> USE DEF lvars
<1>1. PICK p \in Procs, k \in Bufs :
           /\ k = Head(idequeue) /\ Owns(p, k) /\ pc[p] = "iowait" /\ cb[p] = k /\ Loc(p) = ret[p]
           /\ buf[k].block \in Blocks
           /\ ~buf[k].dirty => ~buf[k].valid /\ ret[p] \in GetRets
           /\ buf[k].dirty =>
                /\ buf[k].valid /\ ret[p] \in PutRets
                /\ \/ /\ Loc(p) = "copy.done" /\ phase = "write_log" /\ tail < Len(lh) /\ buf[k].block = tail + 1
                      /\ buf[k].block \notin Data /\ buf[k].block # 0
                   \/ /\ Loc(p) = "copy.done" /\ phase = "install" /\ tail < Len(lh) /\ buf[k].block = lh[tail + 1]
                      /\ buf[k].block \in Data /\ buf[k].block # 0
                   \/ Loc(p) = "head.done" /\ buf[k].block = 0 /\ 0 \notin Data /\ buf[k].data = lh
           /\ \A i \in DOMAIN Tail(idequeue) : i + 1 \in DOMAIN idequeue /\ Tail(idequeue)[i] = idequeue[i + 1] /\ idequeue[i + 1] # k
           /\ \A i \in DOMAIN idequeue : idequeue[i] # k => i - 1 \in DOMAIN Tail(idequeue) /\ Tail(idequeue)[i - 1] = idequeue[i]
  BY AtIntr DEF IdeIntr
<1> DEFINE b == buf[k].block
<1>2. /\ UNCHANGED <<lru, pc, ret, want, cb, panic>>
      /\ idequeue' = Tail(idequeue) /\ idequeue # <<>>
      /\ asleep' = [q \in Procs |-> IF asleep[q] = <<"io", k>> THEN NULL ELSE asleep[q]]
      /\ IF buf[k].dirty
         THEN /\ disk' = [disk EXCEPT ![b] = buf[k].data]
              /\ buf' = [buf EXCEPT ![k].valid = TRUE, ![k].dirty = FALSE]
         ELSE /\ buf' = [buf EXCEPT ![k].valid = TRUE, ![k].data = disk[b]]
              /\ UNCHANGED disk
  BY <1>1 DEF IdeIntr, Wakeup
<1>3. /\ buf' \in [Bufs -> Buffer]
      /\ \A j \in Bufs : buf'[j].block = buf[j].block /\ buf'[j].owner = buf[j].owner /\ buf'[j].refcnt = buf[j].refcnt
      /\ \A j \in Bufs \ {k} : buf'[j] = buf[j]
      /\ buf'[k].valid /\ ~buf'[k].dirty
      /\ buf'[k].data = IF buf[k].dirty THEN buf[k].data ELSE disk[b]
  <2>1. disk[b] \in Values \cup {Empty} \cup Seq(Data) /\ buf[k] \in Buffer
    BY <1>1 DEF LogInv, Types
  <2>2. CASE buf[k].dirty
    <3>1. [buf[k] EXCEPT !.valid = TRUE, !.dirty = FALSE] \in Buffer
      BY ONLY <2>1 DEF Buffer
    <3>2. buf' = [buf EXCEPT ![k] = [buf[k] EXCEPT !.valid = TRUE, !.dirty = FALSE]]
      BY <1>2, <2>2 DEF LogInv, Types
    <3>3. buf' \in [Bufs -> Buffer]
      BY <3>1, <3>2 DEF LogInv, Types
    <3>4. QED
      BY <2>2, <3>2, <3>3 DEF LogInv, Types, Buffer
  <2>3. CASE ~buf[k].dirty
    <3>1. [buf[k] EXCEPT !.valid = TRUE, !.data = disk[b]] \in Buffer
      BY ONLY <2>1 DEF Buffer
    <3>2. buf' = [buf EXCEPT ![k] = [buf[k] EXCEPT !.valid = TRUE, !.data = disk[b]]]
      BY <1>2, <2>3 DEF LogInv, Types
    <3>3. buf' \in [Bufs -> Buffer]
      BY <3>1, <3>2 DEF LogInv, Types
    <3>4. QED
      BY <2>3, <3>2, <3>3 DEF LogInv, Types, Buffer
  <2>4. QED
    BY <2>2, <2>3
<1>4. disk' \in [Blocks -> Values \cup Seq(Data)]
      /\ \A c \in Blocks : disk'[c] = IF buf[k].dirty /\ c = b THEN buf[k].data ELSE disk[c]
  <2>1. buf[k].dirty => buf[k].data \in Values \cup Seq(Data)
    BY <1>1 DEF LogInv, Contents, Content
  <2>2. disk \in [Blocks -> Values \cup Seq(Data)]
    BY DEF LogInv, Types
  <2>3. CASE buf[k].dirty
    <3>1. disk' = [disk EXCEPT ![b] = buf[k].data] /\ buf[k].data \in Values \cup Seq(Data) /\ b \in Blocks
      BY <1>1, <1>2, <2>1, <2>3
    <3>2. QED
      BY <2>2, <2>3, <3>1
  <2>4. CASE ~buf[k].dirty
    BY <1>2, <2>2, <2>4
  <2>5. QED
    BY <2>3, <2>4
<1>5. Types'
  <2>1. asleep' \in [Procs -> Channels \cup {NULL}]
    BY <1>2 DEF LogInv, Types
  <2>2. idequeue' \in Seq(Bufs)
    BY <1>2 DEF LogInv, Types
  <2>3. QED
    BY <1>2, <1>3, <1>4, <2>1, <2>2 DEF LogInv, Types
<1>6. \A q \in Procs : SameUse(q) /\ Loc(q)' = Loc(q) /\ (HasCb(q)' <=> HasCb(q)) /\ Upto(q)' = Upto(q)
  BY <1>2 DEF SameUse, Uses, Owns, HasCb, Loc, Dest, Upto
<1>7. \A q \in Procs \ {p} : ~Owns(q, k)
  BY <1>1 DEF LogInv, Owners
<1>8. ASSUME NEW q \in Procs
      PROVE  Process(q)'
  <2>1. Calls(q)' /\ Phase(q)' /\ Holding(q)'
    BY <1>2, <1>6 DEF LogInv, Process, Calls, Phase, Holding
  <2>2. Naming(q)'
    BY <1>2, <1>3, <1>6 DEF LogInv, Process, Holding, Naming, Right, SameUse, Dest
  <2>3. Finding(q)'
    <3>1. \A j \in Bufs : (buf[j].valid => buf'[j].valid /\ buf'[j].data = buf[j].data) /\ (~buf[j].dirty => ~buf'[j].dirty)
      BY <1>1, <1>3
    <3>2. ASSUME Loc(q) = "head.done" PROVE cb[q] \in Bufs /\ buf'[cb[q]].data = buf[cb[q]].data
      <4>1. cb[q] \in Bufs /\ HasCb(q) /\ pc[q] \notin {"acquiresleep", "unref"}
        BY <3>2, HeadCb DEF LogInv, Process, Calls, Loc, BioLabels, GetRets, RelRets
      <4>2. Owns(q, cb[q])
        BY <4>1 DEF Owns, Uses
      <4>3. cb[q] = k => q = p /\ buf[k].dirty
        BY <1>1, <1>7, <3>2, <4>2 DEF GetRets
      <4>4. QED
        BY <1>3, <4>1, <4>3
    <3>3. pc[q] \in {"copy.done", "head.done"} => HasCb(q)
      BY DEF HasCb
    <3>4. QED
      BY <1>2, <1>6, <3>1, <3>2, <3>3 DEF LogInv, Process, Holding, Finding, Dest
  <2>4. QED
    BY <2>1, <2>2, <2>3 DEF Process
<1>9. Modes' /\ Operations' /\ Phases' /\ LogSpace'
  BY <1>6, SameLog
<1>10. Owners' /\ Counts' /\ OneCopy'
  BY <1>3, <1>6, UseFrame DEF LogInv, OneCopy
<1>11. Queue'
  <2>1. ASSUME NEW i \in DOMAIN idequeue'
        PROVE  (\E q \in Procs : Owns(q, idequeue[i]) /\ pc[q] = "iowait" /\ cb[q] = idequeue[i])'
    <3>1. PICK j \in Bufs : idequeue[i + 1] = j /\ idequeue'[i] = j /\ i + 1 \in DOMAIN idequeue
      BY <1>1, <1>2 DEF LogInv, Types
    <3>2. PICK q \in Procs : Owns(q, j) /\ pc[q] = "iowait" /\ cb[q] = j
      BY <3>1 DEF LogInv, Queue
    <3>3. Owns(q, j)' /\ pc'[q] = "iowait" /\ cb'[q] = j
      BY <1>2, <1>6, <3>2 DEF SameUse
    <3>4. QED
      BY <3>1, <3>3
  <2>2. ASSUME NEW i \in DOMAIN idequeue', NEW j \in DOMAIN idequeue', idequeue'[i] = idequeue'[j]
        PROVE  i = j
    <3>1. i + 1 \in DOMAIN idequeue /\ j + 1 \in DOMAIN idequeue /\ idequeue[i + 1] = idequeue[j + 1] /\ i \in Nat /\ j \in Nat
      BY <1>1, <1>2, <1>5, <2>2 DEF Types
    <3>2. QED
      BY <3>1 DEF LogInv, Queue
  <2>3. ASSUME NEW q \in Procs
        PROVE  /\ pc'[q] = "iderw" => Asked(q)'
               /\ pc'[q] = "iowait" => IF \E i \in DOMAIN idequeue' : idequeue'[i] = cb'[q]
                                      THEN Asked(q)' ELSE buf'[cb'[q]].valid /\ ~buf'[cb'[q]].dirty
    <3>1. CASE q = p
      <4>1. \A i \in DOMAIN idequeue' : idequeue'[i] # k
        BY <1>1, <1>2
      <4>2. QED
        BY <1>1, <1>2, <1>3, <3>1, <4>1
    <3>2. CASE q # p /\ pc[q] \in {"iderw", "iowait"}
      <4>1. cb[q] \in Bufs \ {k}
        <5>1. HasCb(q) /\ Owns(q, cb[q])
          BY <3>2 DEF HasCb, Owns, Uses
        <5>2. QED
          BY <1>7, <3>2, <5>1 DEF LogInv, Process, Holding
      <4>2. Asked(q)' <=> Asked(q)
        BY <1>2, <1>3, <4>1 DEF Asked
      <4>3. (\E i \in DOMAIN idequeue' : idequeue'[i] = cb[q]) <=> \E i \in DOMAIN idequeue : idequeue[i] = cb[q]
        BY <1>1, <1>2, <4>1
      <4>4. QED
        BY <1>2, <1>3, <4>1, <4>2, <4>3 DEF LogInv, Queue
    <3>3. QED
      BY <1>2, <3>1, <3>2
  <2>4. QED
    BY <2>1, <2>2, <2>3 DEF Queue
<1>12. Sleepers'
  <2>1. NULL # <<"log", NULL>> /\ \A j \in Bufs : <<"lock", j>> # NULL /\ <<"io", j>> # NULL
    BY BioAssumption DEF Channels
  <2>2. ASSUME NEW q \in Procs, asleep'[q] # NULL
        PROVE  asleep'[q] = asleep[q] /\ asleep[q] # <<"io", k>>
    BY <1>2, <2>2
  <2>3. ASSUME NEW j \in Bufs, j # k, \E i \in DOMAIN idequeue : idequeue[i] = j
        PROVE  \E i \in DOMAIN idequeue' : idequeue'[i] = j
    BY <1>1, <1>2, <2>3
  <2>4. ASSUME NEW q \in Procs
        PROVE  /\ asleep'[q] = <<"log", NULL>> => pc[q] = "begin_op"
               /\ \A j \in Bufs :
                    /\ asleep'[q] = <<"lock", j>> => pc[q] = "acquiresleep" /\ cb[q] = j /\ buf[j].owner # NULL
                    /\ asleep'[q] = <<"io", j>> => pc[q] = "iowait" /\ cb[q] = j /\ j # k
                                                  /\ (\E i \in DOMAIN idequeue : idequeue[i] = j)
    BY <2>1, <2>2 DEF LogInv, Sleepers
  <2>5. QED
    BY <1>2, <1>3, <2>3, <2>4 DEF Sleepers
<1>13. Contents'
  <2>1. disk'[0] \in Seq(Data) /\ \A c \in Blocks : c # 0 => disk'[c] \in Values
    BY <1>1, <1>4, LogAssumption DEF LogInv, Contents, Content
  <2>2. ASSUME NEW j \in Bufs
        PROVE  Content(j)'
    <3>1. CASE j = k
      BY <1>1, <1>3, <1>4, <2>1, <3>1 DEF Content
    <3>2. CASE j # k
      <4>1. buf[j].valid => buf[j].block \in Blocks /\ disk'[buf[j].block] = disk[buf[j].block]
        BY <1>1, <1>4, <3>2, BioAssumption DEF LogInv, OneCopy, Contents, Content
      <4>2. QED
        BY <1>2, <1>3, <1>6, <3>2, <4>1 DEF LogInv, Contents, Content, SameUse
    <3>3. QED
      BY <3>1, <3>2
  <2>3. QED
    BY <2>1, <2>2 DEF Contents
<1>14. \A i \in DOMAIN lh : /\ i \in Blocks /\ i # 0 /\ i \notin Data /\ lh[i] \in Data /\ lh[i] \in Blocks /\ lh[i] # 0
                            /\ i \in 1 .. Len(lh)
  <2>1. lh \in Seq(Data) /\ Len(lh) < LOGSIZE
    BY DEF LogInv, Types, LogFits
  <2>2. \A i \in DOMAIN lh : i \in 1 .. Len(lh) /\ i \in 0 .. LOGSIZE - 1 /\ i # 0 /\ lh[i] \in Data
    BY <2>1, LogAssumption
  <2>3. 0 \in 0 .. LOGSIZE - 1
    BY LogAssumption
  <2>4. QED
    BY <2>2, <2>3, LogAssumption
<1>15. buf[k].dirty => Loc(p) \in CopyLocs /\ \A q \in Procs \ {p} : Loc(q) \notin CommitLocs \cup BootLocs
  BY <1>1, Alone DEF CommitLocs, CopyLocs
<1>16. Pinned'
  <2>1. ASSUME NEW i \in DOMAIN lh, phase # "install" \/ up
        PROVE  \/ \E j \in Bufs : buf'[j].block = lh[i] /\ buf'[j].dirty
               \/ phase = "install" /\ disk'[lh[i]] = disk'[i]
    <3>1. CASE buf[k].dirty /\ b = lh[i]
      <4>1. phase = "install" /\ up
        BY <1>1, <1>14, <2>1, <3>1
      <4>2. buf[k].data = disk[i]
        BY <1>1, <3>1, <4>1 DEF LogInv, Progress
      <4>3. QED
        BY <1>4, <1>14, <3>1, <4>1, <4>2
    <3>2. CASE buf[k].dirty /\ b # lh[i]
      <4>1. CASE \E j \in Bufs : buf[j].block = lh[i] /\ buf[j].dirty
        BY <1>3, <3>2, <4>1
      <4>2. CASE phase = "install" /\ disk[lh[i]] = disk[i]
        <5>1. i # b
          BY <1>1, <1>14, <3>2, <4>2
        <5>2. QED
          BY <1>4, <1>14, <3>2, <4>2, <5>1
      <4>3. QED
        BY <2>1, <4>1, <4>2 DEF LogInv, Pinned
    <3>3. CASE ~buf[k].dirty
      BY <1>2, <1>3, <2>1, <3>3 DEF LogInv, Pinned
    <3>4. QED
      BY <3>1, <3>2, <3>3
  <2>2. QED
    BY <2>1 DEF Pinned
<1>17. ASSUME ~buf[k].dirty
       PROVE  Progress' /\ Header'
  <2>1. disk' = disk
    BY <1>2, <1>17
  <2>2. ASSUME NEW i \in DOMAIN lh, b = lh[i], phase # "install" \/ up
        PROVE  phase = "install" /\ disk[lh[i]] = disk[i]
    BY <1>17, <1>1, <2>2, BioAssumption DEF LogInv, Pinned, OneCopy
  <2>3. ASSUME NEW q \in Procs, Loc(q) \in CopyLocs, NEW i \in 1 .. Upto(q), phase = "write_log"
        PROVE  \A j \in Bufs : buf'[j].block = lh[i] => buf'[j].data = disk[i]
    <3>1. i \in DOMAIN lh
      BY <2>3, UptoRange DEF LogInv, Types
    <3>2. b # lh[i]
      BY <2>2, <2>3, <3>1
    <3>3. QED
      BY <1>3, <2>3, <3>2 DEF LogInv, Progress
  <2>4. ASSUME NEW i \in DOMAIN lh, NEW j \in Bufs, up, phase = "install", buf'[j].valid, buf'[j].block = lh[i]
        PROVE  buf'[j].data = disk[i]
    <3>1. CASE j = k
      BY <1>3, <1>17, <2>2, <2>4, <3>1
    <3>2. CASE j # k
      BY <1>3, <2>4, <3>2 DEF LogInv, Progress
    <3>3. QED
      BY <3>1, <3>2
  <2>5. Progress'
    BY <1>6, <2>1, <2>3, <2>4 DEF LogInv, Progress
  <2>6. \A q \in Procs : HeadOut(q)' <=> HeadOut(q)
    BY <1>2, <1>3, <1>6, <1>17, HeadCb DEF HeadOut
  <2>7. Header'
    BY <1>6, <2>1, <2>6 DEF LogInv, Header
  <2>8. QED
    BY <2>5, <2>7
<1>18. ASSUME buf[k].dirty
       PROVE  Progress' /\ Header'
  <2>1. \A j \in Bufs : (buf'[j].valid <=> buf[j].valid) /\ buf'[j].data = buf[j].data
    BY <1>1, <1>3, <1>18 DEF LogInv, Types, Buffer
  <2>2. \A i \in DOMAIN lh : phase = "install" \/ i # tail + 1 => disk'[i] = disk[i]
    BY <1>1, <1>4, <1>14, <1>18
  <2>3. Upto(p) = tail \/ Loc(p) = "head.done"
    BY <1>1, <1>18 DEF Upto
  <2>4. ASSUME NEW i \in 1 .. Upto(p)
        PROVE  /\ phase = "write_log" => \A j \in Bufs : buf'[j].block = lh[i] => buf'[j].data = disk'[i]
               /\ phase = "install" => disk'[lh[i]] = disk'[i]
    <3>1. i \in DOMAIN lh /\ i \in Nat /\ tail \in Nat
      BY <1>15, <1>18, UptoRange DEF LogInv, Types
    <3>2. /\ phase = "write_log" => \A j \in Bufs : buf[j].block = lh[i] => buf[j].data = disk[i]
          /\ phase = "install" => disk[lh[i]] = disk[i]
      BY <1>15, <1>18 DEF LogInv, Progress
    <3>3. disk'[i] = disk[i]
      <4>1. b # i
        BY <1>1, <1>14, <1>18, <2>3, <3>1
      <4>2. QED
        BY <1>4, <1>14, <3>1, <4>1
    <3>4. phase = "install" => disk'[lh[i]] = disk[lh[i]]
      <4>1. ASSUME phase = "install" PROVE b # lh[i]
        <5>1. CASE Loc(p) = "head.done"
          BY <1>1, <1>14, <1>18, <3>1, <5>1
        <5>2. CASE Loc(p) = "copy.done"
          BY <1>1, <1>18, <2>3, <3>1, <4>1, <5>2, Numbers DEF LogInv, Header, OnceEach
        <5>3. QED
          BY <1>1, <1>18, <5>1, <5>2
      <4>2. QED
        BY <1>4, <1>14, <3>1, <4>1
    <3>5. QED
      BY <1>3, <2>1, <3>2, <3>3, <3>4
  <2>5. Progress'
    <3>1. ASSUME NEW q \in Procs, Loc(q)' \in CopyLocs, NEW i \in 1 .. Upto(q)'
          PROVE  /\ phase' = "write_log" => \A j \in Bufs : buf'[j].block = lh'[i] => buf'[j].data = disk'[i]
                 /\ phase' = "install" => disk'[lh'[i]] = disk'[i]
      <4>1. q = p
        BY <1>6, <1>15, <1>18, <3>1 DEF CommitLocs
      <4>2. QED
        BY <1>6, <2>4, <3>1, <4>1
    <3>2. ASSUME NEW i \in DOMAIN lh, NEW j \in Bufs, up, phase = "install", buf'[j].valid, buf'[j].block = lh[i]
          PROVE  buf'[j].data = disk'[i]
      BY <1>3, <2>1, <2>2, <3>2 DEF LogInv, Progress
    <3>3. QED
      BY <3>1, <3>2 DEF Progress
  <2>6. Header'
    <3>1. /\ \A q \in Procs : Loc(q)' \in CopyLocs => q = p
          /\ \A q \in Procs : Loc(q)' # "committed"
          /\ phase \in {"write_log", "install"}
      BY <1>6, <1>15, <1>18 DEF CommitLocs, CopyLocs, LogInv, Process, Phase
    <3>2. CASE Loc(p) = "head.done"
      <4>1. HeadOut(p)' /\ disk'[0] = lh
        BY <1>1, <1>2, <1>3, <1>4, <1>6, <1>18, <3>2 DEF HeadOut
      <4>2. Len(lh) <= MostLogged /\ OnceEach(lh) /\ (phase = "install" => lh = <<>>)
        <5>1. Len(lh) \in Nat
          BY DEF LogInv, Types
        <5>2. QED
          BY <3>2, <5>1, Finite, MostLemma DEF LogInv, LogSpace, Header, Process, Phase
      <4>3. QED
        BY <1>6, <3>1, <3>2, <4>1, <4>2, LogAssumption, MostLemma DEF Header, CopyLocs, OnceEach
    <3>3. CASE Loc(p) = "copy.done"
      <4>1. disk'[0] = disk[0] /\ 0 \in Blocks
        BY <1>1, <1>4, <1>18, <3>3, LogAssumption
      <4>2. ~HeadOut(p) /\ ~HeadOut(p)'
        BY <1>6, <3>3 DEF HeadOut
      <4>3. QED
        BY <1>6, <3>1, <3>3, <4>1, <4>2, LogAssumption DEF LogInv, Header, CopyLocs
    <3>4. QED
      BY <1>1, <1>18, <3>2, <3>3
  <2>7. QED
    BY <2>5, <2>6
<1>19. QED
  BY <1>5, <1>8, <1>9, <1>10, <1>11, <1>12, <1>13, <1>16, <1>17, <1>18 DEF LogInv

-----------------------------------------------------------------------------
(* The steps of the log that write to a buffer.                            *)

\* The step writes d to a buffer that the process owns, and to nothing else
\* in the cache.
Writing(p, k, d) ==
  /\ Owns(p, k) /\ pc[p] # "iowait" /\ pc'[p] # "iowait" /\ asleep[p] = NULL
  /\ buf' = [buf EXCEPT ![k].data = d, ![k].dirty = TRUE]
  /\ UNCHANGED <<disk, asleep, idequeue>>
  /\ pc'[p] = "iderw" => Asked(p)'
  /\ SameUse(p)
  /\ \A q \in Procs \ {p} :
       /\ pc'[q] = pc[q] /\ ret'[q] = ret[q] /\ want'[q] = want[q] /\ cb'[q] = cb[q] /\ wrote'[q] = wrote[q]
       /\ Loc(q) \in CommitLocs \cup BootLocs => UNCHANGED <<lh, tail, phase, lbuf, dbuf>>

\* What buf' is after that.
LEMMA WriteFields ==
  ASSUME Types, NEW k \in Bufs, NEW d \in Values \cup Seq(Data),
         buf' = [buf EXCEPT ![k].data = d, ![k].dirty = TRUE]
  PROVE  /\ buf' \in [Bufs -> Buffer]
         /\ \A j \in Bufs : /\ buf'[j].block = buf[j].block /\ buf'[j].valid = buf[j].valid
                            /\ buf'[j].owner = buf[j].owner /\ buf'[j].refcnt = buf[j].refcnt
         /\ \A j \in Bufs \ {k} : buf'[j].dirty = buf[j].dirty /\ buf'[j].data = buf[j].data
         /\ buf'[k].dirty /\ buf'[k].data = d
<1>1. buf \in [Bufs -> Buffer] /\ buf[k] \in Buffer
  BY DEF Types
<1>2. [buf[k] EXCEPT !.data = d, !.dirty = TRUE] \in Buffer
  BY ONLY <1>1 DEF Buffer
<1>3. buf' = [buf EXCEPT ![k] = [buf[k] EXCEPT !.data = d, !.dirty = TRUE]]
  BY <1>1
<1>4. buf' \in [Bufs -> Buffer]
  BY <1>1, <1>2, <1>3
<1>5. QED
  BY <1>1, <1>3, <1>4 DEF Buffer

\* The others do not notice: the buffer is locked.
LEMMA WriteFrame ==
  ASSUME LogInv, NEW p \in Procs, NEW k \in Bufs, NEW d \in Values \cup Seq(Data), Writing(p, k, d)
  PROVE  /\ \A q \in Procs \ {p} : Process(q)' /\ SameUse(q) /\ Loc(q)' = Loc(q)
         /\ Owners' /\ Counts' /\ OneCopy' /\ Queue' /\ Sleepers'
<1>1. /\ \A j \in Bufs : /\ buf'[j].block = buf[j].block /\ buf'[j].valid = buf[j].valid
                         /\ buf'[j].owner = buf[j].owner /\ buf'[j].refcnt = buf[j].refcnt
      /\ \A j \in Bufs \ {k} : buf'[j].dirty = buf[j].dirty /\ buf'[j].data = buf[j].data
  BY WriteFields DEF LogInv, Writing
<1>2. \A q \in Procs \ {p} : ~Owns(q, k)
  BY DEF LogInv, Owners, Writing
<1>3. \A q \in Procs \ {p} : Same(q)
  BY <1>1, <1>2 DEF Same, Writing
<1>4. \A q \in Procs \ {p} : Process(q)' /\ SameUse(q) /\ Loc(q)' = Loc(q)
  BY <1>3, OthersKeep DEF LogInv
<1>5. Owners' /\ Counts'
  BY <1>1, <1>4, UseFrame DEF LogInv, Writing
<1>6. OneCopy'
  BY <1>1 DEF LogInv, OneCopy
<1>7. Queue' /\ Sleepers'
  BY <1>1, <1>3, QueueFrame, SleepFrame DEF Writing
<1>8. QED
  BY <1>4, <1>5, <1>6, <1>7

\* The contents: the written buffer has its reason to be dirty.
LEMMA WriteContents ==
  ASSUME LogInv, NEW p \in Procs, NEW k \in Bufs, NEW d \in Values \cup Seq(Data), Writing(p, k, d),
         buf[k].valid, IF buf[k].block = 0 THEN d \in Seq(Data) ELSE d \in Values,
         pc[p] \notin {"iderw", "iowait"},
         \A j \in Bufs : buf'[j].dirty /\ buf[j].block \in Data =>
           \E i \in DOMAIN lh' : lh'[i] = buf[j].block /\ (phase' = "install" => i > tail'),
         buf[k].block \notin Data => Owns(p, k)' /\ cb'[p] = k /\ pc'[p] \in {"iderw", "iowait"} /\ ret'[p] \in PutRets
  PROVE  Contents'
<1>1. /\ \A j \in Bufs : buf'[j].block = buf[j].block /\ buf'[j].valid = buf[j].valid
      /\ \A j \in Bufs \ {k} : buf'[j].dirty = buf[j].dirty /\ buf'[j].data = buf[j].data
      /\ buf'[k].dirty /\ buf'[k].data = d
  BY WriteFields DEF LogInv, Writing
<1>2. ASSUME NEW j \in Bufs
      PROVE  Content(j)'
  <2>1. CASE j = k
    BY <1>1, <2>1 DEF LogInv, Contents, Content
  <2>2. CASE j # k
    <3>1. ASSUME buf[j].dirty, buf[j].block \notin Data
          PROVE  \E q \in Procs : Owns(q, j)' /\ cb'[q] = j /\ pc'[q] \in {"iderw", "iowait"} /\ ret'[q] \in PutRets
      <4>1. PICK q \in Procs : Owns(q, j) /\ cb[q] = j /\ pc[q] \in {"iderw", "iowait"} /\ ret[q] \in PutRets
        BY <3>1 DEF LogInv, Contents, Content
      <4>2. q \in Procs \ {p}
        BY <4>1
      <4>3. SameUse(q)
        BY <4>2, WriteFrame
      <4>4. pc'[q] = pc[q] /\ ret'[q] = ret[q] /\ cb'[q] = cb[q]
        BY <4>2 DEF Writing
      <4>5. QED
        BY <4>1, <4>3, <4>4 DEF SameUse
    <3>2. Content(j) /\ UNCHANGED disk
      BY DEF LogInv, Contents, Writing
    <3>3. /\ buf'[j].block = buf[j].block /\ buf'[j].valid = buf[j].valid
          /\ buf'[j].dirty = buf[j].dirty /\ buf'[j].data = buf[j].data
      BY <1>1, <2>2
    <3>4. buf'[j].dirty /\ buf[j].block \in Data =>
            \E i \in DOMAIN lh' : lh'[i] = buf[j].block /\ (phase' = "install" => i > tail')
      OBVIOUS
    <3>5. QED
      BY <3>1, <3>2, <3>3, <3>4 DEF Content
  <2>3. QED
    BY <2>1, <2>2
<1>3. QED
  BY <1>2 DEF LogInv, Contents, Writing

\* log_write(), and the change to the block that it records.
LEMMA LogWriteStep ==
  ASSUME LogInv, NEW p \in Procs, NEW v \in Values, LogWrite(p, v)
  PROVE  LogInv'
<1> USE DEF LogWrite, At, Brelse, Goto
<1>0. PICK k \in Bufs : k = cb[p]
  BY DEF LogInv, Process, Holding, HasCb
<1> DEFINE b == buf[k].block
           n == Cardinality(wrote[p])
<1>1. /\ pc[p] = "log_append" /\ Loc(p) = "log_append" /\ asleep[p] = NULL /\ HasCb(p)
      /\ Uses(p, k) /\ Owns(p, k) /\ buf[k].valid
      /\ b \in Data /\ b \in Blocks /\ b # 0 /\ (b \in wrote[p] \/ n < OPBLOCKS)
  <2>1. pc[p] = "log_append" /\ Loc(p) = "log_append" /\ asleep[p] = NULL /\ HasCb(p)
    BY DEF Loc, BioLabels, HasCb
  <2>2. Uses(p, k) /\ Owns(p, k)
    BY <1>0, <2>1 DEF Uses, Owns
  <2>3. buf[k].valid /\ b \in Data /\ (b \in wrote[p] \/ n < OPBLOCKS)
    BY <1>0, <2>1 DEF LogInv, Process, Finding, Naming, Right
  <2>4. b \in Blocks /\ b # 0
    BY <2>3, LogAssumption
  <2>5. QED
    BY <2>1, <2>2, <2>3, <2>4
<1>2. /\ wrote[p] # NULL /\ wrote[p] \in SUBSET Data /\ IsFiniteSet(wrote[p]) /\ n \in Nat /\ n <= OPBLOCKS
      /\ (b \in wrote[p] => InLog(b))
      /\ outstanding > 0 /\ ~committing /\ up /\ phase = NULL
      /\ \A q \in Procs : Loc(q) \notin CommitLocs \cup BootLocs
  <2>1. wrote[p] # NULL /\ IsFiniteSet(wrote[p]) /\ n <= OPBLOCKS /\ (b \in wrote[p] => InLog(b))
    BY <1>1 DEF LogInv, Operations, OpLocs, InLog
  <2>2. wrote[p] \in SUBSET Data /\ n \in Nat
    BY <2>1, FS_CardinalityType DEF LogInv, Types
  <2>3. outstanding > 0 /\ ~committing
    BY <2>1, Finite DEF LogInv, Operations, Types
  <2>4. \A q \in Procs : Loc(q) \notin CommitLocs \cup BootLocs
    BY <2>1, Alone
  <2>5. up
    BY <2>4, LogAssumption DEF LogInv, Modes
  <2>6. phase = NULL
    BY <2>4 DEF LogInv, Phases, CommitLocs
  <2>7. QED
    BY <2>1, <2>2, <2>3, <2>4, <2>5, <2>6
<1>3. /\ buf' = [buf EXCEPT ![k].data = v, ![k].dirty = TRUE]
      /\ buf' \in [Bufs -> Buffer]
      /\ \A j \in Bufs : buf'[j].block = buf[j].block /\ buf'[j].valid = buf[j].valid
      /\ \A j \in Bufs \ {k} : buf'[j].dirty = buf[j].dirty
      /\ buf'[k].dirty
  <2>1. buf' = [buf EXCEPT ![k].data = v, ![k].dirty = TRUE] /\ v \in Values \cup Seq(Data)
    BY <1>0
  <2>2. QED
    BY <2>1, WriteFields DEF LogInv
<1>4. /\ lh' \in Seq(Data) /\ Len(lh') \in Nat /\ Len(lh') <= Len(lh) + 1 /\ OnceEach(lh')
      /\ \A i \in DOMAIN lh : i \in DOMAIN lh' /\ lh'[i] = lh[i]
      /\ \A i \in DOMAIN lh' : (i \in DOMAIN lh /\ lh'[i] = lh[i]) \/ lh'[i] = b
      /\ \E i \in DOMAIN lh' : lh'[i] = b
  <2>1. lh \in Seq(Data) /\ OnceEach(lh) /\ Len(lh) \in Nat
    BY DEF LogInv, Types, Header
  <2>2. CASE \E i \in DOMAIN lh : lh[i] = b
    BY <1>0, <2>1, <2>2
  <2>3. CASE ~\E i \in DOMAIN lh : lh[i] = b
    <3>1. lh' = Append(lh, b)
      BY <1>0, <2>3
    <3>2. /\ lh' \in Seq(Data) /\ Len(lh') = Len(lh) + 1 /\ DOMAIN lh' = 1 .. Len(lh) + 1 /\ DOMAIN lh = 1 .. Len(lh)
          /\ \A i \in DOMAIN lh : lh'[i] = lh[i]
          /\ lh'[Len(lh) + 1] = b
      BY <1>1, <2>1, <3>1
    <3>3. OnceEach(lh')
      BY <2>1, <2>3, <3>2 DEF OnceEach
    <3>4. QED
      BY <2>1, <3>2, <3>3
  <2>4. QED
    BY <2>2, <2>3
<1>5. /\ wrote' \in [Procs -> (SUBSET Data) \cup {NULL}] /\ wrote'[p] = wrote[p] \cup {b} /\ wrote'[p] # NULL
      /\ \A q \in Procs \ {p} : wrote'[q] = wrote[q]
      /\ IsFiniteSet(wrote'[p]) /\ Cardinality(wrote'[p]) = IF b \in wrote[p] THEN n ELSE n + 1
  <2>1. wrote[p] \cup {b} \in SUBSET Data
    BY <1>1, <1>2
  <2>2. wrote' = [wrote EXCEPT ![p] = wrote[p] \cup {b}]
    BY <1>0
  <2>3. /\ wrote' \in [Procs -> (SUBSET Data) \cup {NULL}] /\ wrote'[p] = wrote[p] \cup {b}
        /\ \A q \in Procs \ {p} : wrote'[q] = wrote[q]
    BY <2>1, <2>2 DEF LogInv, Types
  <2>4. IsFiniteSet(wrote[p] \cup {b}) /\ Cardinality(wrote[p] \cup {b}) = IF b \in wrote[p] THEN n ELSE n + 1
    BY <1>1, <1>2, FS_AddElement
  <2>5. QED
    BY <2>1, <2>3, <2>4, LogAssumption
<1>6. Types'
  BY <1>3, <1>4, <1>5 DEF LogInv, Types, BioLabels, LogLabels, RelRets
<1>7. pc'[p] = "brelse" /\ ret'[p] = "op" /\ cb'[p] = k /\ Loc(p)' = "op" /\ HasCb(p)'
  BY <1>0 DEF LogInv, Types, Loc, BioLabels, HasCb
<1>8. Writing(p, k, v)
  <2>1. SameUse(p)
    BY <1>0, <1>1, <1>7 DEF SameUse, Uses, Owns
  <2>2. QED
    BY <1>1, <1>2, <1>3, <1>5, <1>7, <2>1 DEF Writing, LogInv, Types
<1>9. Process(p)'
  <2>1. Calls(p)' /\ Phase(p)' /\ Holding(p)'
    BY <1>7 DEF Calls, Phase, Holding, RelRets, CopyLocs
  <2>2. Naming(p)' /\ Finding(p)'
    BY <1>0, <1>1, <1>3, <1>7 DEF Naming, Finding, Uses, Right
  <2>3. QED
    BY <2>1, <2>2 DEF Process
<1>10. /\ \A q \in Procs \ {p} : Process(q)' /\ SameUse(q) /\ Loc(q)' = Loc(q)
       /\ Owners' /\ Counts' /\ OneCopy' /\ Queue' /\ Sleepers'
  BY <1>8, WriteFrame
<1>11. Modes'
  BY <1>1, <1>2, <1>7, <1>10 DEF LogInv, Modes, CommitLocs, BootLocs, CopyLocs, OpLocs
<1>12. Operations'
  <2>1. Ops' = Ops
    BY <1>2, <1>5 DEF Ops
  <2>2. ASSUME NEW q \in Procs, wrote'[q] # NULL
        PROVE  /\ IsFiniteSet(wrote'[q]) /\ Cardinality(wrote'[q]) <= OPBLOCKS
               /\ \A c \in wrote'[q] : \E i \in DOMAIN lh' : lh'[i] = c
    <3>1. CASE q = p
      <4>1. Cardinality(wrote'[p]) <= OPBLOCKS
        BY <1>1, <1>2, <1>5, LogAssumption
      <4>2. \A c \in wrote[p] : \E i \in DOMAIN lh : lh[i] = c
        BY <1>2 DEF LogInv, Operations
      <4>3. QED
        BY <1>4, <1>5, <3>1, <4>1, <4>2
    <3>2. CASE q # p
      <4>1. /\ IsFiniteSet(wrote[q]) /\ Cardinality(wrote[q]) <= OPBLOCKS
            /\ \A c \in wrote[q] : \E i \in DOMAIN lh : lh[i] = c
        BY <1>5, <2>2, <3>2 DEF LogInv, Operations
      <4>2. QED
        BY <1>4, <1>5, <3>2, <4>1
    <3>3. QED
      BY <3>1, <3>2
  <2>3. \A q \in Procs : wrote'[q] # NULL <=> Loc(q)' \in OpLocs
    BY <1>2, <1>5, <1>7, <1>10 DEF LogInv, Operations, OpLocs
  <2>4. outstanding' = Cardinality(Ops') /\ (committing' => outstanding' = 0)
    BY <1>2, <2>1 DEF LogInv, Operations
  <2>5. QED
    BY <2>2, <2>3, <2>4 DEF Operations
<1>13. Phases'
  BY <1>2 DEF LogInv, Phases, Types
<1>14. LogSpace'
  <2>1. CASE b \in wrote[p]
    <3>1. lh' = lh /\ wrote' = wrote
      <4>1. lh' = lh
        BY <1>0, <1>2, <2>1 DEF InLog
      <4>2. wrote[p] \cup {b} = wrote[p] /\ wrote' = [wrote EXCEPT ![p] = wrote[p] \cup {b}]
        BY <1>0, <2>1
      <4>3. QED
        BY <4>1, <4>2 DEF LogInv, Types
    <3>2. QED
      BY <3>1 DEF LogInv, LogSpace, Reserved
  <2>2. CASE b \notin wrote[p]
    <3>1. n < OPBLOCKS /\ <<p, n + 1>> \in Reserved
      BY <1>1, <1>2, <2>2, LogAssumption DEF Reserved
    <3>2. Reserved' = Reserved \ {<<p, n + 1>>}
      <4>1. ASSUME NEW q \in Procs, NEW i \in 1 .. OPBLOCKS
            PROVE  wrote'[q] # NULL /\ Cardinality(wrote'[q]) < i <=>
                     (wrote[q] # NULL /\ Cardinality(wrote[q]) < i) /\ <<q, i>> # <<p, n + 1>>
        BY <1>2, <1>5, <2>2, LogAssumption
      <4>2. ASSUME NEW x \in Procs \X (1 .. OPBLOCKS)
            PROVE  x \in Reserved' <=> x \in Reserved /\ x # <<p, n + 1>>
        <5>1. x[1] \in Procs /\ x[2] \in 1 .. OPBLOCKS /\ x = <<x[1], x[2]>>
          OBVIOUS
        <5>2. wrote'[x[1]] # NULL /\ Cardinality(wrote'[x[1]]) < x[2] <=>
                (wrote[x[1]] # NULL /\ Cardinality(wrote[x[1]]) < x[2]) /\ <<x[1], x[2]>> # <<p, n + 1>>
          BY <4>1, <5>1
        <5>3. QED
          BY <5>1, <5>2 DEF Reserved
      <4>3. Reserved \subseteq Procs \X (1 .. OPBLOCKS) /\ Reserved' \subseteq Procs \X (1 .. OPBLOCKS)
        BY DEF Reserved
      <4>4. QED
        BY <4>2, <4>3
    <3>3. Cardinality(Reserved') = Cardinality(Reserved) - 1
      BY <3>1, <3>2, Finite, FS_RemoveElement
    <3>4. Len(lh) \in Nat /\ Cardinality(Reserved) \in Nat /\ Len(lh) + Cardinality(Reserved) <= MostLogged
      BY Finite DEF LogInv, LogSpace, Types
    <3>5. Len(lh') + Cardinality(Reserved') <= MostLogged
      BY <1>4, <3>3, <3>4, MostLemma
    <3>6. QED
      BY <3>5 DEF LogSpace
  <2>3. QED
    BY <2>1, <2>2
<1>15. Contents'
  <2>1. ASSUME NEW j \in Bufs, buf'[j].dirty, buf[j].block \in Data
        PROVE  \E i \in DOMAIN lh' : lh'[i] = buf[j].block
    <3>1. CASE j = k
      BY <1>4, <3>1
    <3>2. CASE j # k
      BY <1>3, <1>4, <2>1, <3>2, SMTT(20) DEF LogInv, Contents, Content
    <3>3. QED
      BY <3>1, <3>2
  <2>2. phase' # "install" /\ v \in Values \cup Seq(Data) /\ pc[p] \notin {"iderw", "iowait"}
    BY <1>1, <1>2, LogAssumption
  <2>3. QED
    BY <1>1, <1>8, <2>1, <2>2, WriteContents
<1>16. Pinned'
  <2>1. ASSUME NEW i \in DOMAIN lh'
        PROVE  \E j \in Bufs : buf'[j].block = lh'[i] /\ buf'[j].dirty
    <3>1. CASE lh'[i] = b
      BY <1>3, <3>1
    <3>2. CASE i \in DOMAIN lh /\ lh'[i] = lh[i]
      <4>1. PICK j \in Bufs : buf[j].block = lh[i] /\ buf[j].dirty
        BY <1>2, <3>2, LogAssumption DEF LogInv, Pinned
      <4>2. QED
        BY <1>3, <3>2, <4>1
    <3>3. QED
      BY <1>4, <3>1, <3>2
  <2>2. QED
    BY <2>1 DEF Pinned
<1>17. Progress' /\ Header'
  <2>1. \A q \in Procs : Loc(q)' \notin CopyLocs \cup {"committed"}
    BY <1>2, <1>7, <1>10 DEF CommitLocs, CopyLocs
  <2>2. phase' # "install"
    BY <1>2, LogAssumption
  <2>3. QED
    BY <1>2, <1>4, <2>1, <2>2 DEF LogInv, Progress, Header
<1>18. QED
  BY <1>6, <1>9, <1>10, <1>11, <1>12, <1>13, <1>14, <1>15, <1>16, <1>17 DEF LogInv

\* The copy in write_log() or install_trans(), and the start of bwrite().
LEMMA CopyHomeStep ==
  ASSUME LogInv, LogFits, NEW p \in Procs, CopyHome(p)
  PROVE  LogInv'
<1>1. /\ Loc(p) = "copy.home" /\ pc[p] = "copy.home" /\ asleep[p] = NULL /\ HasCb(p)
      /\ tail < Len(lh) /\ tail \in Nat /\ phase \in {"write_log", "install"}
  BY DEF CopyHome, At, LogInv, Loc, BioLabels, HasCb, Process, Phase, CopyLocs, Types
<1>2. PICK h \in Bufs, l \in Bufs : h = cb[p] /\ l = lbuf
  BY <1>1 DEF LogInv, Process, Holding
<1>3. /\ buf[h].block = lh[tail + 1] /\ buf[l].block = tail + 1 /\ h # l
      /\ buf[h].block \in Data /\ buf[h].block # 0 /\ buf[l].block \notin Data /\ buf[l].block # 0
      /\ buf[h].block \in Blocks /\ buf[l].block \in Blocks
      /\ buf[h].valid /\ buf[l].valid
      /\ Owns(p, h) /\ Owns(p, l)
  <2>1. buf[h].block = lh[tail + 1] /\ buf[l].block = tail + 1 /\ buf[h].valid /\ buf[l].valid
    BY <1>1, <1>2 DEF LogInv, Process, Naming, Right, Finding
  <2>2. Owns(p, h) /\ Owns(p, l)
    BY <1>1, <1>2 DEF Owns, Uses
  <2>3. QED
    BY <1>1, <2>1, <2>2, Numbers
<1>4. ~buf[l].dirty /\ buf[l].data = disk[tail + 1] /\ buf[l].data \in Values /\ buf[h].data \in Values
  <2>1. \A q \in Procs : Owns(q, l) => q = p
    BY <1>3 DEF LogInv, Owners
  <2>2. Content(l) /\ Content(h)
    BY DEF LogInv, Contents
  <2>3. ~buf[l].dirty
    BY <1>1, <1>3, <2>1, <2>2 DEF Content
  <2>4. QED
    BY <1>3, <2>2, <2>3 DEF Content
<1>5. PICK k \in Bufs, d \in Values :
        /\ k = IF phase = "write_log" THEN l ELSE h
        /\ d = IF phase = "write_log" THEN buf[h].data ELSE buf[l].data
  BY <1>4
<1>6. /\ cb' = [cb EXCEPT ![p] = k] /\ ret' = [ret EXCEPT ![p] = "copy.done"] /\ pc' = [pc EXCEPT ![p] = "iderw"]
      /\ dbuf' = h /\ lbuf' = l
      /\ UNCHANGED <<disk, lru, idequeue, asleep, want, panic, lh, outstanding, committing, up, phase, tail, wrote>>
  BY <1>1, <1>2, <1>5 DEF CopyHome, Bwrite, Goto
<1>7. buf' = [buf EXCEPT ![k].data = d, ![k].dirty = TRUE]
  BY <1>1, <1>2, <1>5 DEF CopyHome, Bwrite
<1>8. /\ buf' \in [Bufs -> Buffer]
      /\ \A j \in Bufs : buf'[j].block = buf[j].block /\ buf'[j].valid = buf[j].valid
      /\ \A j \in Bufs \ {k} : buf'[j].dirty = buf[j].dirty /\ buf'[j].data = buf[j].data
      /\ buf'[k].dirty /\ buf'[k].data = d /\ d \in Values \cup Seq(Data)
  BY <1>7, WriteFields DEF LogInv
<1>9. /\ pc'[p] = "iderw" /\ ret'[p] = "copy.done" /\ cb'[p] = k /\ Loc(p)' = "copy.done" /\ HasCb(p)'
      /\ Dest' = k
      /\ \A q \in Procs \ {p} : pc'[q] = pc[q] /\ ret'[q] = ret[q] /\ cb'[q] = cb[q]
  BY <1>5, <1>6 DEF LogInv, Types, Loc, BioLabels, HasCb, Dest
<1>10. \A q \in Procs \ {p} : Loc(q) \notin CommitLocs \cup BootLocs
  BY <1>1, Alone DEF CommitLocs, CopyLocs
<1>11. Types'
  BY <1>2, <1>6, <1>8 DEF LogInv, Types, BioLabels, LogLabels, PutRets
<1>12. SameUse(p)
  <2>1. ASSUME NEW j \in Bufs
        PROVE  (Uses(p, j) <=> j \in {h, l}) /\ (Uses(p, j)' <=> j \in {h, l})
    BY <1>1, <1>2, <1>5, <1>6, <1>9 DEF Uses
  <2>2. QED
    BY <1>1, <1>9, <2>1 DEF SameUse, Owns
<1>13. Writing(p, k, d)
  <2>1. Asked(p)'
    BY <1>8, <1>9 DEF Asked, PutRets, GetRets
  <2>2. Owns(p, k)
    BY <1>3, <1>5
  <2>3. QED
    BY <1>1, <1>6, <1>7, <1>9, <1>10, <1>12, <2>1, <2>2 DEF Writing
<1>14. Process(p)'
  <2>1. Calls(p)' /\ Phase(p)' /\ Holding(p)'
    BY <1>1, <1>2, <1>6, <1>9 DEF LogInv, Process, Calls, Phase, Holding, PutRets, CopyLocs
  <2>2. Naming(p)'
    <3>1. ASSUME NEW j \in Bufs, Uses(p, j)'
          PROVE  buf'[j].block \in Blocks
      BY <1>8, <1>12, <3>1 DEF SameUse, LogInv, Process, Naming
    <3>2. buf'[lbuf'].block = tail' + 1 /\ buf'[dbuf'].block = lh'[tail' + 1] /\ cb'[p] = Dest'
      BY <1>3, <1>6, <1>8, <1>9
    <3>3. QED
      BY <1>9, <3>1, <3>2 DEF Naming, Right
  <2>3. Finding(p)'
    <3>1. buf'[l].valid /\ buf'[h].valid /\ buf'[l].data = buf'[h].data
      BY <1>1, <1>3, <1>5, <1>8
    <3>2. QED
      BY <1>6, <1>9, <3>1 DEF Finding
  <2>4. QED
    BY <2>1, <2>2, <2>3 DEF Process
<1>15. /\ \A q \in Procs \ {p} : Process(q)' /\ SameUse(q) /\ Loc(q)' = Loc(q)
       /\ Owners' /\ Counts' /\ OneCopy' /\ Queue' /\ Sleepers'
  BY <1>8, <1>13, WriteFrame
<1>16. Modes' /\ Operations' /\ Phases' /\ LogSpace'
  BY <1>1, <1>6, <1>9, <1>15, SameMode DEF CopyLocs
<1>17. Contents'
  <2>1. ASSUME NEW j \in Bufs, buf'[j].dirty, buf[j].block \in Data
        PROVE  \E i \in DOMAIN lh' : lh'[i] = buf[j].block /\ (phase' = "install" => i > tail')
    <3>1. CASE j = k
      <4>1. k = h /\ tail + 1 \in DOMAIN lh
        BY <1>1, <1>3, <1>5, <2>1, <3>1, Numbers
      <4>2. QED
        BY <1>1, <1>3, <1>6, <3>1, <4>1
    <3>2. CASE j # k
      BY <1>6, <1>8, <2>1, <3>2 DEF LogInv, Contents, Content
    <3>3. QED
      BY <3>1, <3>2
  <2>2. /\ buf[k].valid /\ buf[k].block # 0 /\ d \in Values
        /\ pc[p] \notin {"iderw", "iowait"}
        /\ Owns(p, k)' /\ cb'[p] = k /\ pc'[p] \in {"iderw", "iowait"} /\ ret'[p] \in PutRets
    BY <1>1, <1>3, <1>5, <1>9, <1>12, <1>13 DEF SameUse, Writing, PutRets
  <2>3. QED
    BY <1>8, <1>13, <2>1, <2>2, WriteContents
<1>18. Pinned'
  <2>1. \A j \in Bufs : buf[j].dirty => buf'[j].dirty
    BY <1>8
  <2>2. QED
    BY <1>6, <1>8, <2>1 DEF LogInv, Pinned
<1>19. Progress'
  <2>1. Upto(p)' = tail /\ Upto(p) = tail
    BY <1>1, <1>6, <1>9 DEF Upto
  <2>2. ASSUME NEW i \in 1 .. tail
        PROVE  /\ phase = "write_log" => \A j \in Bufs : buf'[j].block = lh[i] => buf'[j].data = disk[i]
               /\ phase = "install" => disk[lh[i]] = disk[i]
    <3>1. /\ phase = "write_log" => \A j \in Bufs : buf[j].block = lh[i] => buf[j].data = disk[i]
          /\ phase = "install" => disk[lh[i]] = disk[i]
      BY <1>1, <2>1 DEF LogInv, Progress, CopyLocs
    <3>2. i \in DOMAIN lh /\ lh[i] \in Data
      BY <1>1 DEF LogInv, Types
    <3>3. QED
      BY <1>3, <1>5, <1>8, <3>1, <3>2
  <2>3. ASSUME up, phase = "install", NEW i \in DOMAIN lh, NEW j \in Bufs, buf'[j].valid, buf'[j].block = lh[i]
        PROVE  buf'[j].data = disk[i]
    <3>1. CASE j = k
      <4>1. i = tail + 1
        BY <1>1, <1>3, <1>5, <1>8, <2>3, <3>1, Numbers DEF LogInv, Header, OnceEach
      <4>2. QED
        BY <1>4, <1>5, <1>8, <2>3, <3>1, <4>1
    <3>2. CASE j # k
      BY <1>8, <2>3, <3>2 DEF LogInv, Progress
    <3>3. QED
      BY <3>1, <3>2
  <2>4. \A q \in Procs \ {p} : Loc(q)' \notin CopyLocs
    BY <1>10, <1>15 DEF CommitLocs
  <2>5. ASSUME NEW q \in Procs, Loc(q)' \in CopyLocs, NEW i \in 1 .. Upto(q)'
        PROVE  /\ phase' = "write_log" => \A j \in Bufs : buf'[j].block = lh'[i] => buf'[j].data = disk'[i]
               /\ phase' = "install" => disk'[lh'[i]] = disk'[i]
    <3>1. q = p /\ i \in 1 .. tail
      BY <2>1, <2>4, <2>5
    <3>2. QED
      BY <1>6, <2>2, <3>1
  <2>6. up' /\ phase' = "install" =>
          \A i \in DOMAIN lh', j \in Bufs : buf'[j].valid /\ buf'[j].block = lh'[i] => buf'[j].data = disk'[i]
    BY <1>6, <2>3
  <2>7. QED
    BY <2>5, <2>6 DEF Progress
<1>20. Header'
  <2>1. ~HeadOut(p) /\ ~HeadOut(p)'
    BY <1>1, <1>9 DEF HeadOut
  <2>2. \A q \in Procs \ {p} : Loc(q)' \notin CopyLocs \cup {"committed"}
    BY <1>10, <1>15 DEF CommitLocs
  <2>3. QED
    BY <1>1, <1>6, <1>9, <2>1, <2>2 DEF LogInv, Header, CopyLocs
<1>21. QED
  BY <1>11, <1>14, <1>15, <1>16, <1>17, <1>18, <1>19, <1>20 DEF LogInv

\* write_head() fills the buffer of the header, and bwrite() starts.
LEMMA HeadDataStep ==
  ASSUME LogInv, NEW p \in Procs, HeadData(p)
  PROVE  LogInv'
<1>1. /\ Loc(p) = "head" /\ pc[p] = "head" /\ asleep[p] = NULL /\ HasCb(p)
      /\ tail = 0 /\ (phase = "install" => lh = <<>>) /\ phase \in {"write_log", "install"}
  BY DEF HeadData, At, LogInv, Loc, BioLabels, HasCb, Process, Phase, CopyLocs
<1>2. PICK k \in Bufs : k = cb[p]
  BY <1>1 DEF LogInv, Process, Holding
<1>3. buf[k].block = 0 /\ buf[k].valid /\ Owns(p, k) /\ 0 \notin Data /\ 0 \in Blocks
  BY <1>1, <1>2, LogAssumption DEF LogInv, Process, Naming, Right, Finding, Owns, Uses
<1>4. /\ cb' = cb /\ ret' = [ret EXCEPT ![p] = "head.done"] /\ pc' = [pc EXCEPT ![p] = "iderw"]
      /\ UNCHANGED <<disk, lru, idequeue, asleep, want, panic, lh, outstanding, committing, up, phase, tail, lbuf, dbuf, wrote>>
      /\ lh \in Seq(Data) /\ lh \in Values \cup Seq(Data)
  BY <1>2 DEF HeadData, Bwrite, Goto, lvars, LogInv, Types
<1>5. buf' = [buf EXCEPT ![k].data = lh, ![k].dirty = TRUE]
  BY <1>2 DEF HeadData, Bwrite
<1>6. /\ buf' \in [Bufs -> Buffer]
      /\ \A j \in Bufs : buf'[j].block = buf[j].block /\ buf'[j].valid = buf[j].valid
      /\ \A j \in Bufs \ {k} : buf'[j].dirty = buf[j].dirty /\ buf'[j].data = buf[j].data
      /\ buf'[k].dirty /\ buf'[k].data = lh
  BY <1>4, <1>5, WriteFields DEF LogInv
<1>7. /\ pc'[p] = "iderw" /\ ret'[p] = "head.done" /\ cb'[p] = k /\ Loc(p)' = "head.done" /\ HasCb(p)'
      /\ \A q \in Procs \ {p} : pc'[q] = pc[q] /\ ret'[q] = ret[q]
  BY <1>2, <1>4 DEF LogInv, Types, Loc, BioLabels, HasCb
<1>8. \A q \in Procs \ {p} : Loc(q) \notin CommitLocs \cup BootLocs
  BY <1>1, Alone DEF CommitLocs, CopyLocs
<1>9. Types'
  BY <1>4, <1>6 DEF LogInv, Types, BioLabels, LogLabels, PutRets
<1>10. SameUse(p)
  <2>1. ASSUME NEW j \in Bufs
        PROVE  (Uses(p, j) <=> j = k) /\ (Uses(p, j)' <=> j = k)
    BY <1>1, <1>2, <1>7 DEF Uses
  <2>2. QED
    BY <1>1, <1>7, <2>1 DEF SameUse, Owns
<1>11. Writing(p, k, lh)
  <2>1. Asked(p)'
    BY <1>6, <1>7 DEF Asked, PutRets, GetRets
  <2>2. QED
    BY <1>1, <1>3, <1>4, <1>5, <1>7, <1>8, <1>10, <2>1 DEF Writing
<1>12. Process(p)'
  <2>1. Calls(p)' /\ Phase(p)' /\ Holding(p)'
    BY <1>1, <1>4, <1>7 DEF LogInv, Process, Calls, Phase, Holding, PutRets, CopyLocs
  <2>2. Naming(p)' /\ Finding(p)'
    BY <1>3, <1>4, <1>6, <1>7 DEF Naming, Right, Finding, Uses
  <2>3. QED
    BY <2>1, <2>2 DEF Process
<1>13. /\ \A q \in Procs \ {p} : Process(q)' /\ SameUse(q) /\ Loc(q)' = Loc(q)
       /\ Owners' /\ Counts' /\ OneCopy' /\ Queue' /\ Sleepers'
  BY <1>4, <1>11, WriteFrame
<1>14. Modes' /\ Operations' /\ Phases' /\ LogSpace'
  BY <1>1, <1>4, <1>7, <1>13, SameMode DEF CopyLocs
<1>15. Contents'
  <2>1. ASSUME NEW j \in Bufs, buf'[j].dirty, buf[j].block \in Data
        PROVE  \E i \in DOMAIN lh' : lh'[i] = buf[j].block /\ (phase' = "install" => i > tail')
    <3>1. j # k
      BY <1>3, <2>1
    <3>2. buf[j].dirty /\ Content(j)
      BY <1>6, <2>1, <3>1 DEF LogInv, Contents
    <3>3. QED
      BY <1>4, <2>1, <3>2 DEF Content
  <2>2. /\ pc[p] \notin {"iderw", "iowait"}
        /\ Owns(p, k)' /\ cb'[p] = k /\ pc'[p] \in {"iderw", "iowait"} /\ ret'[p] \in PutRets
    BY <1>1, <1>3, <1>7, <1>10 DEF SameUse, PutRets
  <2>3. QED
    BY <1>3, <1>4, <1>11, <2>1, <2>2, WriteContents
<1>16. Pinned'
  <2>1. \A j \in Bufs : buf[j].dirty => buf'[j].dirty
    BY <1>6
  <2>2. QED
    BY <1>4, <1>6, <2>1 DEF LogInv, Pinned
<1>17. \A q \in Procs \ {p} : Loc(q)' \notin CopyLocs \cup {"committed"}
  BY <1>8, <1>13 DEF CommitLocs
<1>18. Progress'
  <2>1. Upto(p)' = Len(lh) /\ Upto(p) = Len(lh)
    BY <1>1, <1>4, <1>7 DEF Upto
  <2>2. ASSUME NEW i \in DOMAIN lh
        PROVE  i \in 1 .. Len(lh) /\ \A j \in Bufs : buf[j].block = lh[i] => j # k
    BY <1>3 DEF LogInv, Types
  <2>3. 1 .. Len(lh) = DOMAIN lh
    BY DEF LogInv, Types
  <2>4. /\ phase = "write_log" => \A i \in DOMAIN lh, j \in Bufs : buf'[j].block = lh[i] => buf'[j].data = disk[i]
        /\ phase = "install" => \A i \in DOMAIN lh : disk[lh[i]] = disk[i]
        /\ up /\ phase = "install" =>
             \A i \in DOMAIN lh, j \in Bufs : buf'[j].valid /\ buf'[j].block = lh[i] => buf'[j].data = disk[i]
    <3>1. /\ phase = "write_log" => \A i \in DOMAIN lh, j \in Bufs : buf[j].block = lh[i] => buf[j].data = disk[i]
          /\ phase = "install" => \A i \in DOMAIN lh : disk[lh[i]] = disk[i]
      BY <1>1, <2>1, <2>3 DEF LogInv, Progress, CopyLocs
    <3>2. phase = "write_log" => \A i \in DOMAIN lh, j \in Bufs : buf'[j].block = lh[i] => buf'[j].data = disk[i]
      BY <1>6, <2>2, <3>1
    <3>3. up /\ phase = "install" =>
            \A i \in DOMAIN lh, j \in Bufs : buf'[j].valid /\ buf'[j].block = lh[i] => buf'[j].data = disk[i]
      BY <1>6, <2>2 DEF LogInv, Progress
    <3>4. QED
      BY <3>1, <3>2, <3>3
  <2>5. ASSUME NEW q \in Procs, Loc(q)' \in CopyLocs, NEW i \in 1 .. Upto(q)'
        PROVE  /\ phase' = "write_log" => \A j \in Bufs : buf'[j].block = lh'[i] => buf'[j].data = disk'[i]
               /\ phase' = "install" => disk'[lh'[i]] = disk'[i]
    <3>1. q = p /\ i \in DOMAIN lh
      BY <1>17, <2>1, <2>3, <2>5
    <3>2. QED
      BY <1>4, <2>4, <3>1
  <2>6. up' /\ phase' = "install" =>
          \A i \in DOMAIN lh', j \in Bufs : buf'[j].valid /\ buf'[j].block = lh'[i] => buf'[j].data = disk'[i]
    BY <1>4, <2>4
  <2>7. QED
    BY <2>5, <2>6 DEF Progress
<1>19. Header'
  <2>1. ~HeadOut(p) /\ ~HeadOut(p)'
    BY <1>1, <1>6, <1>7 DEF HeadOut
  <2>2. QED
    BY <1>1, <1>4, <1>7, <1>17, <2>1 DEF LogInv, Header, CopyLocs
<1>20. QED
  BY <1>9, <1>12, <1>13, <1>14, <1>15, <1>16, <1>18, <1>19 DEF LogInv

-----------------------------------------------------------------------------
(* Boot, and the invariant.                                                *)

\* The machine has just started, with a disk that holds a file system.
Booted ==
  /\ disk \in [Blocks -> Values \cup Seq(Data)] /\ disk[0] \in Seq(Data)
  /\ \A b \in Blocks : b # 0 => disk[b] \in Values
  /\ OnceEach(disk[0]) /\ Len(disk[0]) <= MostLogged
  /\ buf = FreshBuf /\ lru \in Orders /\ idequeue = <<>>
  /\ pc = Start /\ asleep = Nothing /\ ret = Nothing /\ want = Nothing /\ cb = Nothing
  /\ panic = FALSE
  /\ lh = <<>> /\ outstanding = 0 /\ committing = FALSE /\ up = FALSE
  /\ phase = NULL /\ tail = 0 /\ lbuf = NULL /\ dbuf = NULL /\ wrote = Nothing

\* After boot, whatever the log on the disk holds, the invariant is true.
LEMMA BootedInv == Booted => LogInv
<1> SUFFICES ASSUME Booted PROVE LogInv
  OBVIOUS
<1> USE DEF Booted
<1>1. /\ \A p \in Procs : /\ pc[p] = (IF p = InitProc THEN "boot" ELSE "off") /\ Loc(p) = pc[p] /\ ~HasCb(p)
                          /\ asleep[p] = NULL /\ wrote[p] = NULL
      /\ \A p \in Procs, k \in Bufs : ~Uses(p, k) /\ ~Owns(p, k)
  BY DEF Start, Nothing, Loc, BioLabels, HasCb, Uses, Owns
<1>2. \A k \in Bufs : /\ buf[k].block = NULL /\ ~buf[k].valid /\ ~buf[k].dirty
                      /\ buf[k].refcnt = 0 /\ buf[k].owner = NULL
  BY DEF FreshBuf
<1>3. Types
  <2>1. buf \in [Bufs -> Buffer]
    BY DEF FreshBuf, Buffer
  <2>2. pc \in [Procs -> BioLabels \cup LogLabels]
    BY DEF Start, LogLabels
  <2>3. /\ asleep \in [Procs -> Channels \cup {NULL}] /\ ret \in [Procs -> LogLabels \cup {NULL}]
        /\ want \in [Procs -> Blocks \cup {NULL}] /\ cb \in [Procs -> Bufs \cup {NULL}]
        /\ wrote \in [Procs -> (SUBSET Data) \cup {NULL}]
    BY DEF Nothing
  <2>4. idequeue \in Seq(Bufs) /\ lh \in Seq(Data)
    OBVIOUS
  <2>5. QED
    BY <2>1, <2>2, <2>3, <2>4 DEF Types
<1>4. Modes
  BY <1>1, LogAssumption DEF Modes, CommitLocs, BootLocs, CopyLocs
<1>5. Operations
  <2>1. Ops = {}
    BY <1>1 DEF Ops
  <2>2. QED
    BY <1>1, <2>1, FS_EmptySet DEF Operations, OpLocs
<1>6. Phases /\ LogSpace
  <2>1. Reserved = {}
    BY <1>1 DEF Reserved
  <2>2. QED
    BY <2>1, FS_EmptySet, MostLemma DEF Phases, LogSpace
<1>7. ASSUME NEW p \in Procs
      PROVE  Process(p)
  <2>1. Calls(p) /\ Phase(p) /\ Holding(p)
    BY <1>1 DEF Calls, Phase, Holding, CopyLocs
  <2>2. Naming(p) /\ Finding(p)
    BY <1>1 DEF Naming, Finding
  <2>3. QED
    BY <2>1, <2>2 DEF Process
<1>8. Owners /\ OneCopy /\ Queue
  BY <1>1, <1>2, BioAssumption DEF Owners, OneCopy, Queue
<1>9. Counts
  <2>1. \A k \in Bufs : Users(k) = {}
    BY <1>1 DEF Users
  <2>2. QED
    BY <1>2, <2>1, FS_EmptySet DEF Counts
<1>10. Sleepers
  <2>1. NULL # <<"log", NULL>> /\ \A k \in Bufs : NULL # <<"lock", k>> /\ NULL # <<"io", k>>
    BY BioAssumption DEF Channels
  <2>2. QED
    BY <1>1, <2>1 DEF Sleepers
<1>11. Contents /\ Pinned /\ Progress
  BY <1>1, <1>2, LogAssumption DEF Contents, Content, Pinned, Progress, CopyLocs
<1>12. Header
  BY <1>1 DEF Header, OnceEach, CopyLocs
<1>13. QED
  BY <1>3, <1>4, <1>5, <1>6, <1>7, <1>8, <1>9, <1>10, <1>11, <1>12 DEF LogInv

\* The disk that mkfs makes.
LEMMA InitInv == Init => LogInv
<1> SUFFICES ASSUME Init PROVE Booted
  BY BootedInv
<1>1. PICK v \in Values : disk = [b \in Blocks |-> IF b = 0 THEN <<>> ELSE v]
  BY DEF Init
<1>2. 0 \in Blocks /\ MostLogged \in Nat
  BY LogAssumption, MostLemma
<1>3. disk \in [Blocks -> Values \cup Seq(Data)] /\ disk[0] = <<>> /\ \A b \in Blocks : b # 0 => disk[b] \in Values
  BY <1>1, <1>2
<1>4. <<>> \in Seq(Data) /\ Len(<<>>) = 0 /\ OnceEach(<<>>)
  BY DEF OnceEach
<1>5. QED
  BY <1>2, <1>3, <1>4 DEF Init, Booted

\* A crash leaves only the disk.
LEMMA CrashStep ==
  ASSUME LogInv, Crash
  PROVE  LogInv'
<1>1. Booted'
  BY DEF LogInv, Types, Contents, Header, Crash, Booted
<1>2. QED
  BY <1>1, BootedInv, PTL

\* The log on the disk is large enough for what begin_op() lets in.
LEMMA LogLargeEnough == LogInv => LogFits
<1> SUFFICES ASSUME LogInv PROVE Len(lh) < LogBlocks
  BY DEF LogFits
<1>1. Len(lh) \in Nat /\ Cardinality(Reserved) \in Nat /\ Len(lh) + Cardinality(Reserved) <= MostLogged
  BY Finite DEF LogInv, LogSpace, Types
<1>2. QED
  BY <1>1, MostLemma, LogAssumption

\* Every step keeps the invariant.
LEMMA NextInv ==
  ASSUME LogInv, [Next]_vars
  PROVE  LogInv'
<1>0. LogFits
  BY LogLargeEnough
<1>1. ASSUME NEW p \in Procs, Kernel(p)
      PROVE  LogInv'
  <2>1. CASE BioStep(p) /\ UNCHANGED lvars
    BY <1>0, <2>1, BgetHitStep, BgetMissStep, AcquireSleepStep, IderwStep, IdeWaitStep, ReleaseSleepStep, UnrefStep
       DEF BioStep
  <2>2. CASE ReadDone(p) \/ LogTest(p) \/ \E v \in Values : LogWrite(p, v)
    BY <2>2, ReadDoneStep, LogTestStep, LogWriteStep
  <2>3. CASE Commit(p) \/ CopyNext(p) \/ CopyLog(p) \/ CopyHome(p) \/ CopyDone(p) \/ CopyBrelse(p)
    BY <1>0, <2>3, CommitStep, CopyNextStep, CopyLogStep, CopyHomeStep, CopyDoneStep, CopyBrelseStep
  <2>4. CASE WriteHead(p) \/ HeadData(p) \/ HeadDone(p) \/ Committed(p) \/ ReadHead(p) \/ HeadRead(p)
    BY <1>0, <2>4, WriteHeadStep, HeadDataStep, HeadDoneStep, CommittedStep, ReadHeadStep, HeadReadStep
  <2>5. QED
    BY <1>1, <2>1, <2>2, <2>3, <2>4 DEF Kernel
<1>2. ASSUME NEW p \in Procs, Program(p)
      PROVE  LogInv'
  BY <1>2, ReadStep, OpBlockStep, BeginOpStep, EndOpStep DEF Program
<1>3. CASE Disk
  BY <1>0, <1>3, IdeIntrStep DEF Disk
<1>4. CASE Crash
  BY <1>4, CrashStep
<1>5. CASE UNCHANGED vars
  <2> USE <1>5 DEF vars, bvars, cvars, lvars, Loc, HasCb, Dest
  <2>1. Types' /\ Modes' /\ Operations' /\ Phases' /\ LogSpace'
    BY DEF LogInv, Types, Modes, Operations, Phases, LogSpace, Ops, Reserved
  <2>2. ASSUME NEW p \in Procs, NEW k \in Bufs
        PROVE  (Uses(p, k)' <=> Uses(p, k)) /\ (Owns(p, k)' <=> Owns(p, k))
    BY DEF Uses, Owns
  <2>3. \A p \in Procs : Process(p)' <=> Process(p)
    BY <2>2 DEF Process, Calls, Phase, Holding, Naming, Right, Finding
  <2>4. Owners' /\ Counts'
    BY <2>2, UseFrame DEF LogInv, SameUse
  <2>5. OneCopy' /\ Queue' /\ Sleepers'
    BY <2>2 DEF LogInv, Types, OneCopy, Queue, Asked, Sleepers
  <2>6. Contents' /\ Pinned' /\ Progress' /\ Header'
    BY <2>2 DEF LogInv, Contents, Content, Pinned, Progress, Upto, Header, HeadOut
  <2>7. QED
    BY <2>1, <2>3, <2>4, <2>5, <2>6 DEF LogInv
<1>6. QED
  BY <1>1, <1>2, <1>3, <1>4, <1>5 DEF Next

\* The log, the cache and the disk stay in order, over crashes and recovery.
THEOREM LogCorrect == Spec => []LogInv
<1>1. LogInv /\ [Next]_vars => LogInv'
  BY NextInv
<1>2. QED
  BY <1>1, InitInv, PTL DEF Spec

\* bget() gives a block one buffer, and cache, queue and disk keep their types.
THEOREM CacheCorrect == Spec => []CacheRight
<1>1. LogInv => CacheRight
  <2> SUFFICES ASSUME LogInv PROVE TypeOK
    BY DEF LogInv, CacheRight
  <2>1. outstanding \in 0 .. Cardinality(Procs)
    <3>1. Ops \in SUBSET Procs
      BY DEF Ops
    <3>2. Cardinality(Ops) <= Cardinality(Procs) /\ Cardinality(Procs) \in Nat
      BY <3>1, BioAssumption, FS_Subset, FS_CardinalityType
    <3>3. QED
      BY <3>2, Finite DEF LogInv, Operations
  <2>2. DOMAIN disk = Blocks /\ disk[0] \in Seq(Data) /\ \A b \in Blocks \ {0} : disk[b] \in Values
    BY DEF LogInv, Types, Contents
  <2>3. QED
    BY <2>1, <2>2 DEF LogInv, Types, TypeOK
<1>2. QED
  BY <1>1, LogCorrect, PTL

-----------------------------------------------------------------------------
(* Sleep and wakeup.                                                       *)

\* Who sleeps in begin_op() waits for a commit, or for operations that end
\* in one.
LogWaits == \A p \in Procs : asleep[p] = <<"log", NULL>> => committing \/ (NoSpace /\ outstanding > 0)

\* A step that lets nobody fall asleep in begin_op(), and makes no room.
LEMMA WaitsFrame ==
  ASSUME LogWaits, UNCHANGED <<outstanding, committing>>, lh' = lh \/ committing,
         \A q \in Procs : asleep'[q] = <<"log", NULL>> => asleep[q] = <<"log", NULL>>
  PROVE  LogWaits'
BY DEF LogWaits, NoSpace

\* begin_op() sleeps only behind a commit, or behind other operations.
LEMMA BeginOpWaits ==
  ASSUME LogInv, LogWaits, NEW p \in Procs, BeginOp(p)
  PROVE  LogWaits'
<1>1. pc[p] \in {"user", "begin_op"} /\ Loc(p) \in {"user", "begin_op"} /\ up /\ Len(lh) \in Nat /\ outstanding \in Nat
  <2>1. pc[p] \in {"user", "begin_op"} /\ Loc(p) \in {"user", "begin_op"}
    BY DEF BeginOp, At, Loc, BioLabels
  <2>2. QED
    BY <2>1 DEF LogInv, Modes, Types, BootLocs, CopyLocs
<1>2. CASE committing \/ NoSpace
  <2>1. asleep' = [asleep EXCEPT ![p] = <<"log", NULL>>] /\ UNCHANGED <<lh, outstanding, committing>>
    BY <1>2 DEF BeginOp, Sleep
  <2>2. ~committing => outstanding > 0
    <3>1. SUFFICES ASSUME ~committing, outstanding = 0
                   PROVE  FALSE
      BY <1>1
    <3>2. phase = NULL
      BY <1>1, <3>1 DEF LogInv, Modes, Phases, CommitLocs
    <3>3. lh = <<>>
      BY <3>1, <3>2 DEF LogInv, Phases
    <3>4. QED
      BY <1>2, <3>1, <3>3, LogAssumption DEF NoSpace
  <2>3. QED
    BY <1>2, <2>1, <2>2 DEF LogWaits, NoSpace
<1>3. CASE ~(committing \/ NoSpace)
  <2>1. UNCHANGED asleep /\ \A q \in Procs : asleep[q] # <<"log", NULL>>
    BY <1>3 DEF BeginOp, LogWaits
  <2>2. QED
    BY <2>1 DEF LogWaits
<1>4. QED
  BY <1>2, <1>3

\* end_op() of the last operation commits; that of another wakes them all.
LEMMA EndOpWaits ==
  ASSUME LogWaits, NEW p \in Procs, EndOp(p)
  PROVE  LogWaits'
<1>1. NULL # <<"log", NULL>>
  BY BioAssumption DEF Channels
<1>2. CASE outstanding = 1
  BY <1>2 DEF EndOp, LogWaits
<1>3. CASE outstanding # 1
  BY <1>1, <1>3 DEF EndOp, Wakeup, LogWaits
<1>4. QED
  BY <1>2, <1>3

\* log_write() takes room, and its process does not sleep.
LEMMA LogWriteWaits ==
  ASSUME LogInv, LogWaits, NEW p \in Procs, NEW v \in Values, LogWrite(p, v)
  PROVE  LogWaits'
<1>1. lh \in Seq(Data) /\ Len(lh) \in Nat /\ outstanding \in Nat
  BY DEF LogInv, Types
<1>2. Len(lh') \in Nat /\ Len(lh') >= Len(lh)
  <2>1. PICK b : lh' = lh \/ lh' = Append(lh, b)
    BY DEF LogWrite
  <2>2. CASE lh' = lh
    BY <1>1, <2>2
  <2>3. CASE lh' = Append(lh, b)
    BY <1>1, <2>3
  <2>4. QED
    BY <2>1, <2>2, <2>3
<1>3. UNCHANGED <<asleep, outstanding, committing>>
  BY DEF LogWrite
<1>4. NoSpace => NoSpace'
  <2>1. PICK n \in Nat : n = (outstanding + 1) * MAXOPBLOCKS
    BY <1>1, LogAssumption
  <2>2. QED
    BY <1>1, <1>2, <1>3, <2>1, LogAssumption DEF NoSpace
<1>5. QED
  BY <1>3, <1>4 DEF LogWaits

\* Whoever may change the log during recovery, nobody sleeps in begin_op().
LEMMA DownAwake ==
  ASSUME LogInv, ~up
  PROVE  \A q \in Procs : asleep[q] # <<"log", NULL>>
<1> SUFFICES ASSUME NEW q \in Procs, asleep[q] = <<"log", NULL>>
             PROVE  FALSE
  OBVIOUS
<1>1. pc[q] = "begin_op" /\ Loc(q) = "begin_op"
  BY DEF LogInv, Sleepers, Loc, BioLabels
<1>2. QED
  BY <1>1 DEF LogInv, Modes, BootLocs, CopyLocs

\* The steps of bread(), bwrite() and brelse(), and the interrupt.
LEMMA BioWaits ==
  ASSUME LogInv, LogWaits, UNCHANGED lvars, (\E p \in Procs : BioStep(p)) \/ IdeIntr
  PROVE  LogWaits'
<1>1. /\ NULL # <<"log", NULL>>
      /\ \A j : <<"lock", j>> # <<"log", NULL>> /\ <<"io", j>> # <<"log", NULL>>
  BY BioAssumption DEF Channels
<1>2. ASSUME NEW p \in Procs, NEW j,
             asleep' = [asleep EXCEPT ![p] = <<"lock", j>>] \/ asleep' = [asleep EXCEPT ![p] = <<"io", j>>]
      PROVE  \A q \in Procs : asleep'[q] = <<"log", NULL>> => asleep[q] = <<"log", NULL>>
  <2>1. /\ asleep'[p] = <<"lock", j>> \/ asleep'[p] = <<"io", j>>
        /\ \A q \in Procs \ {p} : asleep'[q] = asleep[q]
    BY <1>2 DEF LogInv, Types
  <2>2. QED
    BY <1>1, <2>1
<1>3. ASSUME NEW ch, asleep' = [q \in Procs |-> IF asleep[q] = ch THEN NULL ELSE asleep[q]]
      PROVE  \A q \in Procs : asleep'[q] = <<"log", NULL>> => asleep[q] = <<"log", NULL>>
  BY <1>1, <1>3
<1>4. ASSUME NEW p \in Procs, BioStep(p)
      PROVE  \A q \in Procs : asleep'[q] = <<"log", NULL>> => asleep[q] = <<"log", NULL>>
  <2>1. CASE BgetHit(p) \/ BgetMiss(p) \/ Unref(p)
    <3>1. BgetHit(p) => asleep' = asleep
      BY DEF BgetHit
    <3>2. BgetMiss(p) => asleep' = asleep
      BY Zenon DEF BgetMiss
    <3>3. Unref(p) => asleep' = asleep
      BY DEF Unref
    <3>4. QED
      BY <2>1, <3>1, <3>2, <3>3
  <2>2. CASE AcquireSleep(p)
    BY <1>2, <2>2 DEF AcquireSleep, Sleep
  <2>3. CASE Iderw(p)
    BY <1>2, <2>3 DEF Iderw, Sleep
  <2>4. CASE IdeWait(p)
    BY <1>2, <2>4 DEF IdeWait, Sleep
  <2>5. CASE ReleaseSleep(p)
    BY <1>3, <2>5 DEF ReleaseSleep, Wakeup
  <2>6. QED
    BY <1>4, <2>1, <2>2, <2>3, <2>4, <2>5 DEF BioStep
<1>5. IdeIntr => \A q \in Procs : asleep'[q] = <<"log", NULL>> => asleep[q] = <<"log", NULL>>
  BY <1>3 DEF IdeIntr, Wakeup
<1>6. QED
  BY <1>4, <1>5, WaitsFrame DEF lvars

\* Every step keeps it.
LEMMA NextWaits ==
  ASSUME LogInv, LogWaits, [Next]_vars
  PROVE  LogWaits'
<1>1. ASSUME NEW p \in Procs, Kernel(p)
      PROVE  LogWaits'
  <2>1. CASE BioStep(p) /\ UNCHANGED lvars
    BY <2>1, BioWaits
  <2>2. CASE ReadDone(p) \/ LogTest(p)
    BY <2>2, WaitsFrame DEF ReadDone, LogTest, lvars
  <2>3. CASE \E v \in Values : LogWrite(p, v)
    BY <2>3, LogWriteWaits
  <2>4. CASE Commit(p) \/ CopyNext(p) \/ CopyLog(p) \/ CopyHome(p) \/ CopyDone(p) \/ CopyBrelse(p)
    BY <2>4, WaitsFrame DEF Commit, CopyNext, CopyLog, CopyHome, CopyDone, CopyBrelse, lvars
  <2>5. CASE HeadData(p) \/ HeadDone(p) \/ ReadHead(p)
    BY <2>5, WaitsFrame DEF HeadData, HeadDone, ReadHead, lvars
  <2>6. CASE WriteHead(p) \/ HeadRead(p)
    <3>1. UNCHANGED <<asleep, outstanding, committing>>
      BY <2>6 DEF WriteHead, HeadRead
    <3>2. CASE up
      <4>1. Loc(p) \in {"copy", "read_head"}
        BY <2>6 DEF WriteHead, HeadRead, At, Loc, BioLabels
      <4>2. committing
        BY <3>2, <4>1 DEF LogInv, Modes, CommitLocs, CopyLocs, OpLocs
      <4>3. QED
        BY <3>1, <4>2, WaitsFrame
    <3>3. CASE ~up
      BY <3>1, <3>3, DownAwake DEF LogWaits
    <3>4. QED
      BY <3>2, <3>3
  <2>7. CASE Committed(p)
    <3>1. NULL # <<"log", NULL>>
      BY BioAssumption DEF Channels
    <3>2. QED
      BY <2>7, <3>1 DEF Committed, Wakeup, LogWaits
  <2>8. QED
    BY <1>1, <2>1, <2>2, <2>3, <2>4, <2>5, <2>6, <2>7 DEF Kernel
<1>2. ASSUME NEW p \in Procs, Program(p)
      PROVE  LogWaits'
  <2>1. CASE \E b \in Data : Read(p, b) \/ OpBlock(p, b)
    BY <2>1, WaitsFrame DEF Read, OpBlock, lvars
  <2>2. QED
    BY <1>2, <2>1, BeginOpWaits, EndOpWaits DEF Program
<1>3. CASE Disk
  BY <1>3, BioWaits DEF Disk
<1>4. CASE Crash
  <2>1. NULL # <<"log", NULL>>
    BY BioAssumption DEF Channels
  <2>2. QED
    BY <1>4, <2>1 DEF Crash, Nothing, LogWaits
<1>5. CASE UNCHANGED vars
  BY <1>5, WaitsFrame DEF vars, bvars, lvars
<1>6. QED
  BY <1>1, <1>2, <1>3, <1>4, <1>5 DEF Next

\* Nobody sleeps in begin_op(), acquiresleep() or iderw() for something that
\* has happened, or that nobody is left to do.
THEOREM WakeupCorrect == Spec => []NoMissedWakeup
<1>1. Init => LogWaits
  <2>1. NULL # <<"log", NULL>>
    BY BioAssumption DEF Channels
  <2>2. QED
    BY <2>1 DEF Init, Nothing, LogWaits
<1>2. LogInv /\ LogWaits => NoMissedWakeup
  <2> SUFFICES ASSUME LogInv, LogWaits, NEW p \in Procs, NEW k \in Bufs
               PROVE  /\ asleep[p] = <<"lock", k>> => buf[k].owner \notin {NULL, p}
                      /\ asleep[p] = <<"io", k>> => \E i \in DOMAIN idequeue : idequeue[i] = k
    BY DEF NoMissedWakeup, LogWaits
  <2>1. asleep[p] = <<"lock", k>> => pc[p] = "acquiresleep" /\ cb[p] = k /\ buf[k].owner # NULL
    BY DEF LogInv, Sleepers
  <2>2. pc[p] = "acquiresleep" /\ cb[p] = k => buf[k].owner # p
    BY DEF LogInv, Owners, Owns
  <2>3. asleep[p] = <<"io", k>> => \E i \in DOMAIN idequeue : idequeue[i] = k
    BY DEF LogInv, Sleepers
  <2>4. QED
    BY <2>1, <2>2, <2>3
<1>3. QED
  BY <1>1, <1>2, LogCorrect, NextWaits, PTL DEF Spec

-----------------------------------------------------------------------------
(* Panics.                                                                 *)

\* The panic that is left: bget() finds no buffer.  end_op() never finds a
\* commit under way, and the space that begin_op() has set aside is there.
LEMMA PanicCause ==
  ASSUME LogInv, [Next]_vars, ~panic, panic'
  PROVE  UNCHANGED <<buf, pc, want>> /\ \E p \in Procs :
           pc[p] = "bget" /\ \A k \in Bufs : ~Unused(k) /\ ~Cached(want[p], k)
<1>1. panic' # panic
  BY Zenon
<1>2. PICK p \in Procs : (BgetMiss(p) /\ UNCHANGED lvars) \/ LogTest(p) \/ EndOp(p)
  <2>1. ASSUME NEW p \in Procs, Kernel(p), ~BgetMiss(p) \/ ~UNCHANGED lvars, ~LogTest(p)
        PROVE  FALSE
    <3>1. ~(BgetHit(p) \/ AcquireSleep(p) \/ Iderw(p) \/ IdeWait(p) \/ ReleaseSleep(p) \/ Unref(p))
      BY <1>1 DEF BgetHit, AcquireSleep, Iderw, IdeWait, ReleaseSleep, Unref
    <3>2. ~(ReadDone(p) \/ (\E v \in Values : LogWrite(p, v)) \/ Commit(p) \/ CopyNext(p) \/ CopyLog(p))
      BY <1>1 DEF ReadDone, LogWrite, Commit, CopyNext, CopyLog
    <3>3. ~(CopyHome(p) \/ CopyDone(p) \/ CopyBrelse(p) \/ WriteHead(p) \/ HeadData(p))
      BY <1>1 DEF CopyHome, CopyDone, CopyBrelse, WriteHead, HeadData
    <3>4. ~(HeadDone(p) \/ Committed(p) \/ ReadHead(p) \/ HeadRead(p))
      BY <1>1 DEF HeadDone, Committed, ReadHead, HeadRead
    <3>5. QED
      BY <2>1, <3>1, <3>2, <3>3, <3>4 DEF Kernel, BioStep
  <2>2. ASSUME NEW p \in Procs, Program(p), ~EndOp(p)
        PROVE  FALSE
    BY <1>1, <2>2 DEF Program, Read, OpBlock, BeginOp
  <2>3. ~Disk /\ ~Crash /\ ~UNCHANGED vars
    BY DEF Disk, IdeIntr, Crash, vars, bvars
  <2>4. QED
    BY <2>1, <2>2, <2>3 DEF Next
<1>3. CASE BgetMiss(p) /\ UNCHANGED lvars
  <2>1. /\ (\A k \in Bufs : ~Unused(k)) /\ (\A k \in Bufs : ~Cached(want[p], k))
        /\ UNCHANGED <<buf, pc, want>> /\ pc[p] = "bget"
    BY <1>1, <1>3, Zenon DEF BgetMiss, At
  <2>2. QED
    BY <2>1
<1>4. CASE LogTest(p)
  <2>1. pc[p] = "log_write" /\ Loc(p) = "log_write" /\ UNCHANGED lh
    BY <1>4 DEF LogTest, At, Loc, BioLabels, lvars
  <2>2. Len(lh) >= LOGSIZE \/ Len(lh) >= LogBlocks - 1 \/ outstanding < 1
    BY <1>1, <1>4 DEF LogTest
  <2>3. wrote[p] # NULL
    BY <2>1 DEF LogInv, Operations, OpLocs
  <2>4. outstanding \in Nat /\ outstanding # 0
    BY <2>3, Finite DEF LogInv, Types
  <2>5. Len(lh) \in Nat /\ Len(lh) < LOGSIZE - 1
    BY Finite, MostLemma, LogAssumption DEF LogInv, LogSpace, Types
  <2>6. QED
    BY <2>2, <2>4, <2>5, LogAssumption
<1>5. CASE EndOp(p)
  <2>1. committing /\ pc[p] = "op"
    BY <1>1, <1>5 DEF EndOp, At
  <2>2. wrote[p] # NULL
    BY <2>1 DEF LogInv, Operations, OpLocs, Loc, BioLabels
  <2>3. QED
    BY <2>1, <2>2, Finite DEF LogInv, Operations
<1>6. QED
  BY <1>2, <1>3, <1>4, <1>5

\* A panic is for this, and then the machine stops.
LEMMA PanicStep ==
  ASSUME LogInv, OnlyForRoom, [Next]_vars
  PROVE  OnlyForRoom'
<1> SUFFICES ASSUME panic'
             PROVE  \E p \in Procs : /\ pc'[p] = "bget"
                                     /\ \A k \in Bufs : ~Unused(k)' /\ buf'[k].block # want'[p]
  BY DEF OnlyForRoom, Cached
<1>1. CASE panic
  <2>1. ~(\E p \in Procs : Kernel(p) \/ Program(p)) /\ ~Disk
    <3>1. \A q \in Procs, l \in BioLabels \cup LogLabels : ~At(q, l)
      BY <1>1 DEF At
    <3>2. \A p \in Procs : ~BioStep(p)
      BY <3>1, Zenon DEF BioStep, BgetHit, BgetMiss, AcquireSleep, Iderw, IdeWait, ReleaseSleep, Unref, BioLabels
    <3>3. \A p \in Procs : ~(ReadDone(p) \/ LogTest(p) \/ (\E v \in Values : LogWrite(p, v)) \/ Commit(p))
      BY <3>1, Zenon DEF ReadDone, LogTest, LogWrite, Commit, LogLabels, GetRets
    <3>4. \A p \in Procs : ~(CopyNext(p) \/ CopyLog(p) \/ CopyHome(p) \/ CopyDone(p) \/ CopyBrelse(p))
      BY <3>1, Zenon DEF CopyNext, CopyLog, CopyHome, CopyDone, CopyBrelse, LogLabels, GetRets, PutRets, RelRets
    <3>5. \A p \in Procs : ~(WriteHead(p) \/ HeadData(p) \/ HeadDone(p) \/ Committed(p) \/ ReadHead(p) \/ HeadRead(p))
      BY <3>1, Zenon DEF WriteHead, HeadData, HeadDone, Committed, ReadHead, HeadRead, LogLabels, GetRets, PutRets, RelRets
    <3>6. \A p \in Procs : ~Program(p)
      BY <3>1, Zenon DEF Program, Read, OpBlock, BeginOp, EndOp, LogLabels, RelRets
    <3>7. QED
      BY <1>1, <3>2, <3>3, <3>4, <3>5, <3>6, Zenon DEF Kernel, Disk, IdeIntr
  <2>2. ~Crash
    BY DEF Crash
  <2>3. UNCHANGED <<buf, pc, want>>
    BY <2>1, <2>2 DEF Next, vars, bvars, cvars, lvars
  <2>4. QED
    BY <1>1, <2>3 DEF OnlyForRoom, Unused, Cached
<1>2. CASE ~panic
  BY <1>2, PanicCause DEF Unused, Cached
<1>3. QED
  BY <1>1, <1>2

\* The buffers of the blocks of the transaction are no more than the places in
\* lh where they are found.
Logged == {k \in Bufs : InLog(buf[k].block)}

LEMMA LoggedCount ==
  ASSUME LogInv, NEW T \in SUBSET (DOMAIN lh),
         \A k \in Logged : \E i \in T : lh[i] = buf[k].block
  PROVE  IsFiniteSet(Logged) /\ IsFiniteSet(T) /\ Cardinality(Logged) <= Cardinality(T)
<1> DEFINE f == [k \in Logged |-> CHOOSE i \in T : lh[i] = buf[k].block]
<1>1. DOMAIN lh = 1 .. Len(lh) /\ Len(lh) \in Nat /\ \A i \in DOMAIN lh : lh[i] \in Data
  BY DEF LogInv, Types
<1>2. ASSUME NEW k \in Logged
      PROVE  f[k] \in T /\ lh[f[k]] = buf[k].block
  <2>1. \E i \in T : lh[i] = buf[k].block
    OBVIOUS
  <2>2. QED
    BY <2>1
<1>3. ASSUME NEW j \in Logged, NEW k \in Logged, f[j] = f[k]
      PROVE  j = k
  <2>1. buf[j].block = buf[k].block /\ buf[j].block \in Data
    BY <1>1, <1>2, <1>3
  <2>2. buf[j].block # NULL
    BY <2>1, BioAssumption, LogAssumption
  <2>3. QED
    BY <2>1, <2>2 DEF LogInv, OneCopy, Logged
<1>4. f \in Injection(Logged, T)
  <2>1. f \in [Logged -> T] /\ DOMAIN f = Logged
    BY <1>2
  <2> HIDE DEF f
  <2>2. QED
    BY <1>3, <2>1 DEF Injection, IsInjective
<1>5. IsFiniteSet(T)
  <2>1. IsFiniteSet(1 .. Len(lh))
    BY <1>1, FS_Interval
  <2>2. QED
    BY <1>1, <2>1, FS_Subset
<1> HIDE DEF f
<1>6. QED
  BY <1>4, <1>5, FS_Injection

\* A process uses one buffer besides those of the transaction: commit() and
\* the recovery have a block of the log and the block that goes there.
LEMMA OneOutside ==
  ASSUME LogInv, NEW r \in Procs, NEW j \in Bufs \ Logged, NEW k \in Bufs \ Logged, Uses(r, j), Uses(r, k)
  PROVE  j = k
<1>1. ~InLog(buf[j].block) /\ ~InLog(buf[k].block)
  BY DEF Logged
<1>2. Loc(r) \in {"copy.home", "copy.done", "copy.brelse"} => InLog(lh[tail + 1])
  BY LogLargeEnough, Numbers DEF LogInv, Process, Phase, InLog
<1>3. CASE Loc(r) = "copy.home"
  <2>1. HasCb(r) => buf[cb[r]].block = lh[tail + 1]
    BY <1>3 DEF LogInv, Process, Naming, Right
  <2>2. j = lbuf /\ k = lbuf
    BY <1>1, <1>2, <1>3, <2>1 DEF Uses
  <2>3. QED
    BY <2>2
<1>4. CASE Loc(r) = "copy.done"
  <2>1. buf[dbuf].block = lh[tail + 1] /\ cb[r] \in {lbuf, dbuf}
    BY <1>4 DEF LogInv, Process, Naming, Dest
  <2>2. j = lbuf /\ k = lbuf
    BY <1>1, <1>2, <1>4, <2>1 DEF Uses
  <2>3. QED
    BY <2>2
<1>5. CASE Loc(r) = "copy.brelse"
  <2>1. /\ buf[Dest].block = IF phase = "write_log" THEN tail + 1 ELSE lh[tail + 1]
        /\ HasCb(r) => buf[cb[r]].block = IF phase = "write_log" THEN lh[tail + 1] ELSE tail + 1
    BY <1>5 DEF LogInv, Process, Naming
  <2>2. CASE phase = "write_log"
    BY <1>1, <1>2, <1>5, <2>1, <2>2 DEF Uses
  <2>3. CASE phase # "write_log"
    BY <1>1, <1>2, <1>5, <2>1, <2>3 DEF Uses
  <2>4. QED
    BY <2>2, <2>3
<1>6. CASE Loc(r) \notin {"copy.home", "copy.done", "copy.brelse"}
  BY <1>6 DEF Uses
<1>7. QED
  BY <1>3, <1>4, <1>5, <1>6

\* When no buffer is free, each of the others has a process that uses it.
LEMMA OutsideCount ==
  ASSUME LogInv, \A k \in Bufs : ~Unused(k), NEW T \in SUBSET Procs,
         \A q \in Procs, k \in Bufs \ Logged : Uses(q, k) => q \in T
  PROVE  Cardinality(Bufs \ Logged) <= Cardinality(T)
<1> DEFINE O == Bufs \ Logged
           g == [k \in O |-> CHOOSE q \in T : Uses(q, k)]
<1>1. ASSUME NEW k \in O
      PROVE  g[k] \in T /\ Uses(g[k], k)
  <2>1. \E q \in Procs : Uses(q, k)
    <3>1. CASE buf[k].refcnt # 0
      BY <3>1, FS_EmptySet DEF LogInv, Counts, Users
    <3>2. CASE buf[k].dirty
      <4>1. buf[k].block \notin Data
        BY <3>2 DEF LogInv, Contents, Content, Logged, InLog
      <4>2. QED
        BY <3>2, <4>1 DEF LogInv, Contents, Content, Owns
    <3>3. QED
      BY <3>1, <3>2 DEF Unused
  <2>2. \E q \in T : Uses(q, k)
    BY <2>1
  <2>3. QED
    BY <2>2
<1>2. ASSUME NEW j \in O, NEW k \in O, g[j] = g[k]
      PROVE  j = k
  <2>1. PICK q \in T : Uses(q, j) /\ Uses(q, k)
    BY <1>1, <1>2
  <2>2. QED
    BY <2>1, OneOutside
<1>3. g \in Injection(O, T)
  <2>1. g \in [O -> T] /\ DOMAIN g = O
    BY <1>1
  <2> HIDE DEF g, O
  <2>2. QED
    BY <1>2, <2>1 DEF Injection, IsInjective
<1>4. IsFiniteSet(T)
  BY BioAssumption, FS_Subset
<1> HIDE DEF g, O
<1>5. Cardinality(O) <= Cardinality(T)
  BY <1>3, <1>4, FS_Injection
<1>6. QED
  BY <1>5 DEF O

\* A process that asks for a block has no other buffer, or, to install a block,
\* that of the log: then the block it asks for is of the transaction and not
\* yet in the cache.  So a buffer is missing only when there is no room.
LEMMA NoBuffer ==
  ASSUME LogInv, NEW p \in Procs, pc[p] = "bget", \A k \in Bufs : ~Unused(k) /\ ~Cached(want[p], k)
  PROVE  ~Room
<1>1. /\ IsFiniteSet(Busy) /\ Cardinality(Busy) \in Nat /\ p \in Busy
      /\ Cardinality(Busy \ {p}) = Cardinality(Busy) - 1
  <2>1. IsFiniteSet(Busy) /\ p \in Busy
    BY BioAssumption, FS_Subset DEF Busy
  <2>2. QED
    BY <2>1, FS_RemoveElement, FS_CardinalityType
<1>2. \A q \in Procs, k \in Bufs : Uses(q, k) => q \in Busy
  BY DEF Uses, HasCb, Loc, BioLabels, Busy
<1>3. /\ DOMAIN lh = 1 .. Len(lh) /\ Len(lh) \in Nat
      /\ IsFiniteSet(1 .. Len(lh)) /\ Cardinality(1 .. Len(lh)) = Len(lh)
  <2>1. DOMAIN lh = 1 .. Len(lh) /\ Len(lh) \in Nat
    BY DEF LogInv, Types
  <2>2. PICK n \in Nat : n = Len(lh)
    BY <2>1
  <2>3. IsFiniteSet(1 .. n) /\ Cardinality(1 .. n) = n
    BY ONLY n \in Nat, FS_Interval
  <2>4. QED
    BY <2>1, <2>2, <2>3
<1>4. IsFiniteSet(Logged) /\ IsFiniteSet(Bufs \ Logged)
      /\ NBUF = Cardinality(Logged) + Cardinality(Bufs \ Logged)
      /\ Cardinality(Logged) \in Nat /\ Cardinality(Bufs \ Logged) \in Nat
  <2>1. Logged \in SUBSET Bufs
    BY DEF Logged
  <2>2. IsFiniteSet(Logged) /\ IsFiniteSet(Bufs \ Logged)
    BY <2>1, BioAssumption, FS_Subset, FS_Difference
  <2>3. Logged \cup (Bufs \ Logged) = Bufs /\ Logged \cap (Bufs \ Logged) = {}
    BY <2>1
  <2>4. Cardinality(Bufs) = Cardinality(Logged) + Cardinality(Bufs \ Logged) - Cardinality({})
    BY <2>2, <2>3, FS_Union, Zenon
  <2>5. Cardinality({}) = 0 /\ Cardinality(Logged) \in Nat /\ Cardinality(Bufs \ Logged) \in Nat
    BY <2>2, FS_EmptySet, FS_CardinalityType
  <2>6. QED
    BY <2>2, <2>4, <2>5 DEF NBUF
<1>5. Loc(p) = ret[p] /\ ret[p] \in GetRets /\ ~HasCb(p)
  BY DEF LogInv, Process, Calls, Loc, BioLabels, HasCb
<1>6. CASE ret[p] = "copy.home"
  <2> DEFINE T == (1 .. Len(lh)) \ {tail + 1}
  <2>1. want[p] = lh[tail + 1] /\ tail + 1 \in 1 .. Len(lh)
    BY <1>3, <1>5, <1>6, LogLargeEnough, Numbers DEF LogInv, Process, Naming, Right, Phase
  <2>2. \A k \in Logged : \E i \in T : lh[i] = buf[k].block
    BY <1>3, <2>1 DEF Logged, InLog, Cached
  <2>3. Cardinality(T) = Len(lh) - 1
    BY <1>3, <2>1, FS_RemoveElement
  <2>4. T \in SUBSET (DOMAIN lh)
    BY <1>3
  <2> HIDE DEF T
  <2>5. Cardinality(Logged) <= Cardinality(T)
    BY <2>2, <2>4, LoggedCount
  <2>6. Busy \in SUBSET Procs
    BY DEF Busy
  <2>7. Cardinality(Bufs \ Logged) <= Cardinality(Busy)
    BY <1>2, <2>6, OutsideCount
  <2>8. QED
    BY <1>1, <1>3, <1>4, <2>3, <2>5, <2>7 DEF Room
<1>7. CASE ret[p] # "copy.home"
  <2>1. \A k \in Bufs : ~Uses(p, k)
    BY <1>5, <1>7 DEF Uses, GetRets
  <2>2. Busy \ {p} \in SUBSET Procs
    BY DEF Busy
  <2>3. Cardinality(Bufs \ Logged) <= Cardinality(Busy \ {p})
    BY <1>2, <2>1, <2>2, OutsideCount
  <2>4. \A k \in Logged : \E i \in DOMAIN lh : lh[i] = buf[k].block
    BY DEF Logged, InLog
  <2>5. Cardinality(Logged) <= Len(lh)
    BY <1>3, <2>4, LoggedCount
  <2>6. QED
    BY <1>1, <1>3, <1>4, <2>3, <2>5 DEF Room
<1>8. QED
  BY <1>6, <1>7

\* Who releases or writes a buffer owns it, and has something to read or write.
LEMMA OwnedPanics == LogInv /\ OnlyForRoom => NoPanic
<1> SUFFICES ASSUME LogInv, OnlyForRoom PROVE NoPanic
  OBVIOUS
<1>1. panic => ~Room
  BY NoBuffer DEF OnlyForRoom
<1>2. ASSUME NEW p \in Procs, pc[p] \in {"iderw", "brelse"}
      PROVE  /\ buf[cb[p]].owner = p
             /\ pc[p] = "iderw" => ~buf[cb[p]].valid \/ buf[cb[p]].dirty
  <2>1. HasCb(p) /\ cb[p] \in Bufs
    BY <1>2 DEF LogInv, Process, Holding, HasCb
  <2>2. Owns(p, cb[p])
    BY <1>2, <2>1 DEF Owns, Uses
  <2>3. pc[p] = "iderw" => Asked(p) /\ ret[p] \in GetRets \cup PutRets
    BY DEF LogInv, Queue, Process, Calls
  <2>4. QED
    BY <2>1, <2>2, <2>3 DEF LogInv, Owners, Asked
<1>3. QED
  BY <1>1, <1>2 DEF NoPanic

\* The panics of iderw(), bwrite(), brelse(), log_write() and end_op() are never
\* reached, and that of bget() only when the processes that use buffers and the
\* blocks of the transaction are more than the buffers.
THEOREM NoPanicInRoom == Spec => []NoPanic
<1>1. Init => OnlyForRoom
  BY DEF Init, OnlyForRoom
<1>2. LogInv /\ OnlyForRoom => NoPanic
  BY OwnedPanics
<1>3. LogInv /\ OnlyForRoom /\ [Next]_vars => OnlyForRoom'
  BY PanicStep
<1>4. QED
  BY <1>1, <1>2, <1>3, LogCorrect, PTL DEF Spec

-----------------------------------------------------------------------------
(* The log implements the atomic disk of AtomicDisk: log_write() updates   *)
(* what operations see, the interrupt that ends the write of the header    *)
(* makes a transaction durable, a crash falls back to what is durable, and *)
(* all other steps of cache, driver, log and recovery change neither.      *)

\* What Current and Recovered are, without a choice: a block has at most one
\* buffer, and the header names it at most once.
CurrentIs(b, v) ==
  /\ ~up => v = Recovered[b]
  /\ up => /\ \A k \in Bufs : buf[k].block = b /\ buf[k].valid => v = buf[k].data
           /\ (\A k \in Bufs : ~(buf[k].block = b /\ buf[k].valid)) => v = disk[b]

RecoveredIs(b, v) ==
  /\ \A i \in DOMAIN disk[0] : disk[0][i] = b => v = disk[i]
  /\ (\A i \in DOMAIN disk[0] : disk[0][i] # b) => v = disk[b]

Views == \A b \in Data : CurrentIs(b, Current[b]) /\ RecoveredIs(b, Recovered[b])

\* They are determined by the invariant.
LEMMA ViewsRight == LogInv => Views
<1> SUFFICES ASSUME LogInv, NEW b \in Data
             PROVE  CurrentIs(b, Current[b]) /\ RecoveredIs(b, Recovered[b])
  BY DEF Views
<1>1. RecoveredIs(b, Recovered[b])
  <2>1. CASE \E i \in DOMAIN disk[0] : disk[0][i] = b
    <3> DEFINE c == CHOOSE i \in DOMAIN disk[0] : disk[0][i] = b
    <3>1. c \in DOMAIN disk[0] /\ disk[0][c] = b
      BY <2>1
    <3>2. Recovered[b] = disk[c]
      BY <2>1 DEF Recovered
    <3> HIDE DEF c
    <3>3. \A i \in DOMAIN disk[0] : disk[0][i] = b => i = c
      BY <3>1 DEF LogInv, Header, OnceEach
    <3>4. QED
      BY <3>1, <3>2, <3>3 DEF RecoveredIs
  <2>2. CASE ~\E i \in DOMAIN disk[0] : disk[0][i] = b
    BY <2>2 DEF Recovered, RecoveredIs
  <2>3. QED
    BY <2>1, <2>2
<1>2. CurrentIs(b, Current[b])
  <2>1. b # NULL
    BY BioAssumption, LogAssumption
  <2>2. CASE up /\ \E k \in Bufs : buf[k].block = b /\ buf[k].valid
    <3> DEFINE c == CHOOSE k \in Bufs : buf[k].block = b /\ buf[k].valid
    <3>1. c \in Bufs /\ buf[c].block = b /\ buf[c].valid
      BY <2>2
    <3>2. Current[b] = buf[c].data
      BY <2>2 DEF Current
    <3> HIDE DEF c
    <3>3. \A k \in Bufs : buf[k].block = b => k = c
      BY <2>1, <3>1 DEF LogInv, OneCopy
    <3>4. QED
      BY <2>2, <3>1, <3>2, <3>3 DEF CurrentIs
  <2>3. CASE up /\ ~\E k \in Bufs : buf[k].block = b /\ buf[k].valid
    BY <2>3 DEF Current, CurrentIs
  <2>4. CASE ~up
    BY <2>4 DEF Current, CurrentIs
  <2>5. QED
    BY <2>2, <2>3, <2>4
<1>3. QED
  BY <1>1, <1>2

\* So a view is what these say of it.
LEMMA ViewsAre ==
  ASSUME LogInv', NEW c, NEW r, c = [b \in Data |-> c[b]], r = [b \in Data |-> r[b]],
         \A b \in Data : RecoveredIs(b, r[b])', r = Recovered' => \A b \in Data : CurrentIs(b, c[b])'
  PROVE  Current' = c /\ Recovered' = r
<1>1. Views'
  BY ViewsRight, PTL
<1>2. ASSUME NEW b \in Data
      PROVE  Recovered'[b] = r[b]
  <2>1. RecoveredIs(b, Recovered[b])' /\ RecoveredIs(b, r[b])'
    BY <1>1 DEF Views
  <2>2. QED
    BY <2>1 DEF RecoveredIs
<1>3. Recovered' = [b \in Data |-> Recovered'[b]] /\ Current' = [b \in Data |-> Current'[b]]
  BY DEF Recovered, Current
<1>4. Recovered' = r
  BY <1>2, <1>3
<1>5. ASSUME NEW b \in Data
      PROVE  Current'[b] = c[b]
  <2>1. CurrentIs(b, Current[b])' /\ CurrentIs(b, c[b])'
    BY <1>1, <1>4 DEF Views
  <2>2. QED
    BY <2>1 DEF CurrentIs
<1>6. QED
  BY <1>3, <1>4, <1>5

\* The values of the two views before a step.
LEMMA ViewsBefore ==
  ASSUME LogInv
  PROVE  \E c, r : /\ c = Current /\ r = Recovered
                   /\ c = [b \in Data |-> c[b]] /\ r = [b \in Data |-> r[b]]
                   /\ \A b \in Data : CurrentIs(b, c[b]) /\ RecoveredIs(b, r[b])
<1>1. PICK c, r : c = Current /\ r = Recovered
  OBVIOUS
<1>2. c = [b \in Data |-> c[b]] /\ r = [b \in Data |-> r[b]]
  BY <1>1 DEF Current, Recovered
<1>3. \A b \in Data : CurrentIs(b, c[b]) /\ RecoveredIs(b, r[b])
  BY <1>1, ViewsRight DEF Views
<1>4. QED
  BY <1>1, <1>2, <1>3

\* A step that leaves the disk alone, and the data of what is in the cache.
SameView ==
  /\ UNCHANGED <<disk, up>>
  /\ \A k \in Bufs : buf[k].block \in Data \/ buf'[k].block \in Data =>
       /\ buf'[k].block = buf[k].block /\ buf'[k].valid = buf[k].valid
       /\ up /\ buf[k].valid => buf'[k].data = buf[k].data

\* Then a crash would leave the same, and bread() returns the same.
LEMMA ViewFrame ==
  ASSUME LogInv, LogInv', SameView
  PROVE  UNCHANGED <<Current, Recovered>>
<1>1. PICK c, r : /\ c = Current /\ r = Recovered
                  /\ c = [b \in Data |-> c[b]] /\ r = [b \in Data |-> r[b]]
                  /\ \A b \in Data : CurrentIs(b, c[b]) /\ RecoveredIs(b, r[b])
  BY ViewsBefore
<1>2. ASSUME NEW b \in Data
      PROVE  RecoveredIs(b, r[b])'
  BY <1>1 DEF RecoveredIs, SameView
<1>3. ASSUME NEW b \in Data, r = Recovered'
      PROVE  CurrentIs(b, c[b])'
  <2>1. CurrentIs(b, c[b]) /\ r = Recovered
    BY <1>1
  <2>2. ~up' => c[b] = Recovered'[b]
    BY <1>3, <2>1 DEF CurrentIs, SameView
  <2>3. up' => \A k \in Bufs : buf'[k].block = b /\ buf'[k].valid => c[b] = buf'[k].data
    BY <2>1 DEF CurrentIs, SameView
  <2>4. up' => ((\A k \in Bufs : ~(buf'[k].block = b /\ buf'[k].valid)) => c[b] = disk'[b])
    BY <2>1 DEF CurrentIs, SameView
  <2>5. QED
    BY <2>2, <2>3, <2>4 DEF CurrentIs
<1>4. Current' = c /\ Recovered' = r
  BY <1>1, <1>2, <1>3, ViewsAre
<1>5. QED
  BY <1>1, <1>4

-----------------------------------------------------------------------------
(* The steps of bread(), bwrite() and brelse().                            *)

\* Reference counts and locks are not contents.
LEMMA FieldViews ==
  ASSUME LogInv, NEW p \in Procs, BgetHit(p) \/ AcquireSleep(p) \/ ReleaseSleep(p) \/ Unref(p), UNCHANGED lvars
  PROVE  SameView
<1>1. UNCHANGED <<disk, up>>
  BY DEF BgetHit, AcquireSleep, ReleaseSleep, Unref, lvars
<1>2. \/ buf' = buf
      \/ \E k \in Bufs : \E n : buf' = [buf EXCEPT ![k].refcnt = n]
      \/ \E k \in Bufs : \E o : buf' = [buf EXCEPT ![k].owner = o]
  <2>1. HasCb(p) => cb[p] \in Bufs
    BY DEF LogInv, Process, Holding
  <2>2. CASE BgetHit(p)
    BY <2>2 DEF BgetHit
  <2>3. CASE AcquireSleep(p)
    BY <2>1, <2>3 DEF AcquireSleep, At, HasCb
  <2>4. CASE ReleaseSleep(p)
    BY <2>1, <2>4 DEF ReleaseSleep, At, HasCb
  <2>5. CASE Unref(p)
    BY <2>1, <2>5 DEF Unref, At, HasCb
  <2>6. QED
    BY <2>2, <2>3, <2>4, <2>5
<1>3. buf \in [Bufs -> Buffer]
  BY DEF LogInv, Types
<1>4. \A k \in Bufs : buf'[k].block = buf[k].block /\ buf'[k].valid = buf[k].valid /\ buf'[k].data = buf[k].data
  BY <1>2, <1>3 DEF Buffer
<1>5. QED
  BY <1>1, <1>4 DEF SameView

\* What bget() throws out of the cache is on the disk.
LEMMA BgetMissViews ==
  ASSUME LogInv, LogInv', NEW p \in Procs, BgetMiss(p), UNCHANGED lvars
  PROVE  UNCHANGED <<Current, Recovered>>
<1>1. UNCHANGED <<disk, up>>
  BY Zenon DEF BgetMiss, lvars
<1>2. CASE buf' = buf
  BY <1>1, <1>2, ViewFrame DEF SameView
<1>3. CASE buf' # buf
  <2>1. PICK i \in 1 .. NBUF :
          /\ Unused(lru[i])
          /\ buf' = [buf EXCEPT ![lru[i]] = [@ EXCEPT !.block = want[p], !.valid = FALSE,
                                                      !.dirty = FALSE, !.refcnt = 1, !.data = Empty]]
    BY <1>3, Zenon DEF BgetMiss
  <2>2. PICK k \in Bufs : k = lru[i]
    BY DEF LogInv, Types, Orders
  <2>3. buf \in [Bufs -> Buffer] /\ (\A j \in Bufs : buf[j].block # want[p]) /\ ~buf[k].dirty
    <3>1. \A j \in Bufs : ~Cached(want[p], j)
      BY Zenon DEF BgetMiss
    <3>2. QED
      BY <2>1, <2>2, <3>1 DEF LogInv, Types, Cached, Unused
  <2>4. /\ buf'[k].block = want[p] /\ ~buf'[k].valid
        /\ \A j \in Bufs \ {k} : buf'[j] = buf[j]
    BY <2>1, <2>2, <2>3 DEF Buffer
  <2>5. PICK c, r : /\ c = Current /\ r = Recovered
                    /\ c = [b \in Data |-> c[b]] /\ r = [b \in Data |-> r[b]]
                    /\ \A b \in Data : CurrentIs(b, c[b]) /\ RecoveredIs(b, r[b])
    BY ViewsBefore
  <2>6. ASSUME NEW b \in Data
        PROVE  RecoveredIs(b, r[b])'
    BY <1>1, <2>5 DEF RecoveredIs
  <2>7. ASSUME NEW b \in Data, r = Recovered'
        PROVE  CurrentIs(b, c[b])'
    <3>1. CurrentIs(b, c[b]) /\ r = Recovered
      BY <2>5
    <3>2. ~up' => c[b] = Recovered'[b]
      BY <1>1, <2>7, <3>1 DEF CurrentIs
    <3>3. up' => \A j \in Bufs : buf'[j].block = b /\ buf'[j].valid => c[b] = buf'[j].data
      BY <1>1, <2>4, <3>1 DEF CurrentIs
    <3>4. ASSUME up', \A j \in Bufs : ~(buf'[j].block = b /\ buf'[j].valid)
          PROVE  c[b] = disk'[b]
      <4>1. CASE buf[k].block = b /\ buf[k].valid
        <5>1. buf[k].data = disk[b]
          BY <2>3, <4>1 DEF LogInv, Contents, Content
        <5>2. QED
          BY <1>1, <3>1, <3>4, <4>1, <5>1 DEF CurrentIs
      <4>2. CASE ~(buf[k].block = b /\ buf[k].valid)
        <5>1. \A j \in Bufs : ~(buf[j].block = b /\ buf[j].valid)
          BY <2>4, <3>4, <4>2
        <5>2. QED
          BY <1>1, <3>1, <3>4, <5>1 DEF CurrentIs
      <4>3. QED
        BY <4>1, <4>2
    <3>5. QED
      BY <3>2, <3>3, <3>4 DEF CurrentIs
  <2>8. Current' = c /\ Recovered' = r
    BY <2>5, <2>6, <2>7, ViewsAre
  <2>9. QED
    BY <2>5, <2>8
<1>4. QED
  BY <1>2, <1>3

\* What the disk reads is what is on it; what it writes is in the cache.
LEMMA IntrCache ==
  ASSUME LogInv, LogInv', LogFits, IdeIntr, UNCHANGED lvars, NEW c, NEW b \in Data, CurrentIs(b, c), up
  PROVE  CurrentIs(b, c)'
<1>1. PICK p \in Procs, k \in Bufs :
        /\ k = Head(idequeue) /\ buf[k].block \in Blocks
        /\ ~buf[k].dirty => ~buf[k].valid
        /\ buf[k].dirty => buf[k].valid
  BY AtIntr DEF IdeIntr
<1>2. buf \in [Bufs -> Buffer] /\ disk \in [Blocks -> Values \cup Seq(Data)] /\ up'
  BY DEF LogInv, Types, lvars
<1>3. CASE buf[k].dirty
  <2>1. /\ buf' = [buf EXCEPT ![k].valid = TRUE, ![k].dirty = FALSE]
        /\ disk' = [disk EXCEPT ![buf[k].block] = buf[k].data]
    BY <1>1, <1>3 DEF IdeIntr
  <2>2. \A j \in Bufs : buf'[j].block = buf[j].block /\ buf'[j].valid = buf[j].valid /\ buf'[j].data = buf[j].data
    <3>1. \A j \in Bufs \ {k} : buf'[j] = buf[j]
      BY <1>2, <2>1
    <3>2. buf'[k] = [buf[k] EXCEPT !.valid = TRUE, !.dirty = FALSE] /\ buf[k] \in Buffer
      BY <1>2, <2>1
    <3>3. buf'[k].block = buf[k].block /\ buf'[k].valid /\ buf'[k].data = buf[k].data /\ buf[k].valid \in BOOLEAN
      BY ONLY <3>2 DEF Buffer
    <3>4. QED
      BY <1>1, <1>3, <3>1, <3>3
  <2>3. ASSUME NEW j \in Bufs, buf'[j].block = b, buf'[j].valid
        PROVE  c = buf'[j].data
    BY <2>2, <2>3 DEF CurrentIs
  <2>4. ASSUME \A j \in Bufs : ~(buf'[j].block = b /\ buf'[j].valid)
        PROVE  c = disk'[b]
    <3>1. buf[k].block # b /\ \A j \in Bufs : ~(buf[j].block = b /\ buf[j].valid)
      BY <1>1, <1>3, <2>2, <2>4
    <3>2. disk'[b] = disk[b]
      BY <1>2, <2>1, <3>1, LogAssumption
    <3>3. QED
      BY <3>1, <3>2 DEF CurrentIs
  <2>5. QED
    BY <1>2, <2>3, <2>4 DEF CurrentIs
<1>4. CASE ~buf[k].dirty
  <2>1. buf' = [buf EXCEPT ![k].valid = TRUE, ![k].data = disk[buf[k].block]] /\ disk' = disk
    BY <1>1, <1>4 DEF IdeIntr
  <2>2. /\ \A j \in Bufs \ {k} : buf'[j] = buf[j]
        /\ buf'[k].block = buf[k].block /\ buf'[k].valid /\ buf'[k].data = disk[buf[k].block]
    BY <1>2, <2>1 DEF Buffer
  <2>3. ASSUME NEW j \in Bufs, buf'[j].block = b, buf'[j].valid
        PROVE  c = buf'[j].data
    <3>1. CASE j = k
      <4>1. \A i \in Bufs : buf[i].block = b => i = k
        BY <2>2, <2>3, <3>1, BioAssumption, LogAssumption DEF LogInv, OneCopy
      <4>2. QED
        BY <1>1, <1>4, <2>2, <2>3, <3>1, <4>1 DEF CurrentIs
    <3>2. CASE j # k
      BY <2>2, <2>3, <3>2 DEF CurrentIs
    <3>3. QED
      BY <3>1, <3>2
  <2>4. ASSUME \A j \in Bufs : ~(buf'[j].block = b /\ buf'[j].valid)
        PROVE  c = disk'[b]
    <3>1. \A j \in Bufs : ~(buf[j].block = b /\ buf[j].valid)
      BY <1>1, <1>4, <2>2, <2>4
    <3>2. QED
      BY <2>1, <3>1 DEF CurrentIs
  <2>5. QED
    BY <1>2, <2>3, <2>4 DEF CurrentIs
<1>5. QED
  BY <1>3, <1>4

\* The interrupt ends the write of the header of a commit.
CommitPoint == LET k == Head(idequeue) IN buf[k].dirty /\ buf[k].block = 0 /\ phase = "write_log"

\* What a crash would leave changes only with the header of a commit, and
\* then to what the operations have seen last: before it the log is invisible
\* and after it the home blocks are.
LEMMA IntrDisk ==
  ASSUME LogInv, LogFits, IdeIntr, UNCHANGED lvars, NEW b \in Data, NEW r, NEW c, RecoveredIs(b, r), CurrentIs(b, c)
  PROVE  IF CommitPoint THEN RecoveredIs(b, c)' ELSE RecoveredIs(b, r)'
<1>1. PICK p \in Procs, k \in Bufs :
        /\ k = Head(idequeue) /\ buf[k].block \in Blocks /\ Owns(p, k) /\ cb[p] = k
        /\ buf[k].dirty =>
             /\ buf[k].valid
             /\ \/ /\ Loc(p) = "copy.done" /\ phase = "write_log" /\ tail < Len(lh) /\ buf[k].block = tail + 1
                   /\ buf[k].block \notin Data /\ buf[k].block # 0
                \/ /\ Loc(p) = "copy.done" /\ phase = "install" /\ tail < Len(lh) /\ buf[k].block = lh[tail + 1]
                   /\ buf[k].block \in Data /\ buf[k].block # 0
                \/ Loc(p) = "head.done" /\ buf[k].block = 0 /\ 0 \notin Data /\ buf[k].data = lh
  BY AtIntr DEF IdeIntr
<1>2. disk \in [Blocks -> Values \cup Seq(Data)] /\ b \in Blocks /\ 0 \in Blocks /\ 0 # b
  BY LogAssumption DEF LogInv, Types
<1>3. CASE ~buf[k].dirty
  <2>1. disk' = disk
    BY <1>1, <1>3 DEF IdeIntr
  <2>2. QED
    BY <1>1, <1>3, <2>1 DEF CommitPoint, RecoveredIs
<1>4. CASE buf[k].dirty
  <2>1. /\ disk' = [disk EXCEPT ![buf[k].block] = buf[k].data]
        /\ disk'[buf[k].block] = buf[k].data
        /\ \A a \in Blocks : a # buf[k].block => disk'[a] = disk[a]
    BY <1>1, <1>2, <1>4 DEF IdeIntr
  <2>2. CASE Loc(p) = "copy.done" /\ phase = "write_log"
    <3>1. disk[0] = <<>> /\ disk'[0] = <<>> /\ disk'[b] = disk[b]
      BY <1>1, <1>2, <1>4, <2>1, <2>2 DEF LogInv, Header, HeadOut, CopyLocs
    <3>2. QED
      BY <1>1, <1>4, <2>2, <3>1 DEF CommitPoint, RecoveredIs
  <2>3. CASE Loc(p) = "copy.done" /\ phase = "install"
    <3>1. disk[0] = lh /\ disk'[0] = lh /\ buf[k].block = lh[tail + 1] /\ tail + 1 \in DOMAIN lh
      BY <1>1, <1>2, <1>4, <2>1, <2>3, Numbers DEF LogInv, Header, CopyLocs
    <3>2. ASSUME NEW i \in DOMAIN lh
          PROVE  disk'[i] = disk[i]
      <4>1. i \in Blocks /\ i \notin Data
        BY LogAssumption DEF LogFits, LogInv, Types
      <4>2. QED
        BY <1>1, <1>4, <2>1, <2>3, <4>1
    <3>3. (\A i \in DOMAIN lh : lh[i] # b) => disk'[b] = disk[b]
      BY <1>2, <2>1, <3>1
    <3>4. QED
      BY <1>1, <2>3, <3>1, <3>2, <3>3 DEF CommitPoint, RecoveredIs
  <2>4. CASE Loc(p) = "head.done"
    <3>1. buf[k].block = 0 /\ disk'[0] = lh /\ (\A a \in Blocks : a # 0 => disk'[a] = disk[a]) /\ disk'[b] = disk[b]
      BY <1>1, <1>2, <1>4, <2>1, <2>4
    <3>2. CASE phase = "write_log"
      <4>1. up /\ Upto(p) = Len(lh) /\ DOMAIN lh = 1 .. Len(lh)
        BY <2>4, <3>2, Alone DEF LogInv, Types, Upto, CommitLocs, CopyLocs
      <4>2. ASSUME NEW i \in DOMAIN lh, lh[i] = b
            PROVE  c = disk'[i]
        <5>1. PICK j \in Bufs : buf[j].block = b /\ buf[j].dirty
          BY <3>2, <4>2, LogAssumption DEF LogInv, Pinned
        <5>2. buf[j].valid
          BY <5>1 DEF LogInv, Contents, Content
        <5>3. buf[j].data = disk[i]
          BY <2>4, <3>2, <4>1, <4>2, <5>1 DEF LogInv, Progress, CopyLocs
        <5>4. c = buf[j].data
          BY <4>1, <5>1, <5>2 DEF CurrentIs
        <5>5. i \in Blocks /\ i # 0
          BY LogAssumption DEF LogFits, LogInv, Types
        <5>6. QED
          BY <3>1, <5>3, <5>4, <5>5
      <4>3. ASSUME \A i \in DOMAIN lh : lh[i] # b
            PROVE  c = disk'[b]
        <5>1. ASSUME NEW j \in Bufs, buf[j].block = b, buf[j].valid
              PROVE  buf[j].data = disk[b]
          BY <4>3, <5>1 DEF LogInv, Contents, Content
        <5>2. QED
          BY <3>1, <4>1, <5>1 DEF CurrentIs
      <4>4. QED
        BY <1>1, <1>4, <3>1, <3>2, <4>2, <4>3 DEF CommitPoint, RecoveredIs
    <3>3. CASE phase # "write_log"
      <4>1. phase = "install" /\ lh = <<>>
        BY <2>4, <3>3 DEF LogInv, Process, Phase, CopyLocs
      <4>2. \A i \in DOMAIN disk[0] : disk[disk[0][i]] = disk[i]
        BY <2>4, <4>1 DEF LogInv, Header
      <4>3. r = disk[b]
        BY <4>2 DEF RecoveredIs
      <4>4. QED
        BY <3>1, <3>3, <4>1, <4>3 DEF CommitPoint, RecoveredIs
    <3>4. QED
      BY <3>2, <3>3
  <2>5. QED
    BY <1>1, <1>4, <2>2, <2>3, <2>4
<1>5. QED
  BY <1>3, <1>4

\* An interrupt is a commit, or changes nothing.
LEMMA IntrViews ==
  ASSUME LogInv, LogInv', LogFits, IdeIntr, UNCHANGED lvars
  PROVE  /\ UNCHANGED Current
         /\ Recovered' = Recovered \/ (Recovered' = Current /\ Ops = {})
<1>1. PICK c, r : /\ c = Current /\ r = Recovered
                  /\ c = [b \in Data |-> c[b]] /\ r = [b \in Data |-> r[b]]
                  /\ \A b \in Data : CurrentIs(b, c[b]) /\ RecoveredIs(b, r[b])
  BY ViewsBefore
<1>2. PICK s : s = IF CommitPoint THEN c ELSE r
  OBVIOUS
<1>3. s = [b \in Data |-> s[b]]
  BY <1>1, <1>2
<1>4. ASSUME NEW b \in Data
      PROVE  RecoveredIs(b, s[b])'
  <2>1. IF CommitPoint THEN RecoveredIs(b, c[b])' ELSE RecoveredIs(b, r[b])'
    BY <1>1, IntrDisk
  <2>2. QED
    BY <1>2, <2>1
<1>5. CommitPoint => up /\ Ops = {}
  <2>1. CASE phase = "write_log"
    <3>1. PICK p \in Procs : Loc(p) \in CopyLocs
      BY <2>1, LogAssumption DEF LogInv, Phases
    <3>2. QED
      BY <2>1, <3>1, Alone DEF CommitLocs, Ops
  <2>2. QED
    BY <2>1 DEF CommitPoint
<1>6. ASSUME NEW b \in Data, s = Recovered'
      PROVE  CurrentIs(b, c[b])'
  <2>1. CASE up
    BY <1>1, <2>1, IntrCache
  <2>2. CASE ~up
    <3>1. s = r /\ c[b] = r[b] /\ ~up'
      BY <1>1, <1>2, <1>5, <2>2 DEF CurrentIs, lvars
    <3>2. QED
      BY <1>6, <3>1 DEF CurrentIs
  <2>3. QED
    BY <2>1, <2>2
<1>7. Current' = c /\ Recovered' = s
  BY <1>1, <1>3, <1>4, <1>6, ViewsAre
<1>8. QED
  BY <1>1, <1>2, <1>5, <1>7

-----------------------------------------------------------------------------
(* The steps of the log.                                                   *)

\* log_write() is the update of one block by an operation.
LEMMA LogWriteViews ==
  ASSUME LogInv, LogInv', NEW p \in Procs, NEW v \in Values, LogWrite(p, v)
  PROVE  /\ p \in Ops /\ Ops' = Ops /\ UNCHANGED Recovered
         /\ \E b \in Data : Current' = [Current EXCEPT ![b] = v]
<1>1. /\ pc[p] = "log_append" /\ Loc(p) = "log_append" /\ HasCb(p) /\ UNCHANGED <<disk, up>>
      /\ wrote' = [wrote EXCEPT ![p] = @ \cup {buf[cb[p]].block}]
  BY DEF LogWrite, At, Loc, BioLabels, HasCb
<1>2. PICK k \in Bufs : k = cb[p]
  BY <1>1 DEF LogInv, Process, Holding
<1>3. PICK a \in Data : a = buf[k].block
  BY <1>1, <1>2 DEF LogInv, Process, Naming, Right
<1>4. buf[k].valid /\ a # NULL
  BY <1>1, <1>2, BioAssumption, LogAssumption DEF LogInv, Process, Finding
<1>5. wrote[p] # NULL /\ up
  BY <1>1 DEF LogInv, Operations, OpLocs, Modes, BootLocs, CopyLocs
<1>6. Ops' = Ops /\ p \in Ops
  <2>1. wrote[p] \cup {a} \in SUBSET Data
    BY <1>3, <1>5 DEF LogInv, Types
  <2>2. wrote'[p] # NULL /\ \A q \in Procs \ {p} : wrote'[q] = wrote[q]
    BY <1>1, <1>2, <1>3, <2>1, LogAssumption DEF LogInv, Types
  <2>3. QED
    BY <1>5, <2>2 DEF Ops
<1>7. /\ \A j \in Bufs : buf'[j].block = buf[j].block /\ buf'[j].valid = buf[j].valid
      /\ \A j \in Bufs \ {k} : buf'[j].data = buf[j].data
      /\ buf'[k].data = v
  <2>1. buf' = [buf EXCEPT ![k].data = v, ![k].dirty = TRUE] /\ v \in Values \cup Seq(Data)
    BY <1>2 DEF LogWrite
  <2>2. QED
    BY <2>1, WriteFields DEF LogInv
<1>8. PICK c, r : /\ c = Current /\ r = Recovered
                  /\ c = [b \in Data |-> c[b]] /\ r = [b \in Data |-> r[b]]
                  /\ \A b \in Data : CurrentIs(b, c[b]) /\ RecoveredIs(b, r[b])
  BY ViewsBefore
<1>9. PICK d : d = [c EXCEPT ![a] = v]
  OBVIOUS
<1>10. DOMAIN c = Data /\ d = [b \in Data |-> d[b]] /\ d[a] = v /\ \A b \in Data \ {a} : d[b] = c[b]
  BY <1>8, <1>9
<1>11. ASSUME NEW b \in Data
       PROVE  RecoveredIs(b, r[b])' /\ CurrentIs(b, d[b])'
  <2>1. RecoveredIs(b, r[b])'
    BY <1>1, <1>8 DEF RecoveredIs
  <2>2. CASE b = a
    <3>1. \A j \in Bufs : buf[j].block = a => j = k
      BY <1>3, <1>4 DEF LogInv, OneCopy
    <3>2. QED
      BY <1>1, <1>3, <1>4, <1>5, <1>7, <1>10, <2>1, <2>2, <3>1 DEF CurrentIs
  <2>3. CASE b # a
    <3>1. CurrentIs(b, c[b]) /\ d[b] = c[b]
      BY <1>8, <1>10, <2>3
    <3>2. QED
      BY <1>1, <1>3, <1>5, <1>7, <2>1, <2>3, <3>1 DEF CurrentIs
  <2>4. QED
    BY <2>1, <2>2, <2>3
<1>12. Current' = d /\ Recovered' = r
  BY <1>8, <1>10, <1>11, ViewsAre
<1>13. QED
  BY <1>6, <1>8, <1>9, <1>12

\* write_log() writes to the log, and install_trans() what is in the cache.
LEMMA CopyHomeViews ==
  ASSUME LogInv, LogFits, NEW p \in Procs, CopyHome(p)
  PROVE  SameView
<1>1. /\ Loc(p) = "copy.home" /\ pc[p] = "copy.home" /\ HasCb(p) /\ UNCHANGED <<disk, up>>
      /\ tail < Len(lh) /\ phase \in {"write_log", "install"}
  BY DEF CopyHome, At, LogInv, Loc, BioLabels, HasCb, Process, Phase, CopyLocs
<1>2. PICK h \in Bufs, l \in Bufs : h = cb[p] /\ l = lbuf
  BY <1>1 DEF LogInv, Process, Holding
<1>3. buf[h].block = lh[tail + 1] /\ buf[h].valid /\ buf[l].block = tail + 1 /\ buf[l].valid
  BY <1>1, <1>2 DEF LogInv, Process, Naming, Right, Finding
<1>4. tail + 1 \notin Data /\ tail + 1 # 0 /\ lh[tail + 1] # 0 /\ tail + 1 \in DOMAIN lh
  BY <1>1, Numbers
<1>5. buf[l].data = disk[tail + 1] /\ buf[l].data \in Values /\ buf[h].data \in Values
  <2>1. Owns(p, l) /\ \A q \in Procs : Owns(q, l) => q = p
    BY <1>1, <1>2 DEF Owns, Uses, LogInv, Owners
  <2>2. Content(l) /\ Content(h)
    BY DEF LogInv, Contents
  <2>3. ~buf[l].dirty
    BY <1>1, <1>3, <1>4, <2>1, <2>2 DEF Content
  <2>4. QED
    BY <1>3, <1>4, <2>2, <2>3 DEF Content
<1>6. CASE phase = "write_log"
  <2>1. PICK d \in Values : buf' = [buf EXCEPT ![l].data = d, ![l].dirty = TRUE]
    BY <1>2, <1>5, <1>6 DEF CopyHome, Bwrite
  <2>2. /\ \A j \in Bufs : buf'[j].block = buf[j].block /\ buf'[j].valid = buf[j].valid
        /\ \A j \in Bufs \ {l} : buf'[j].data = buf[j].data
    BY <2>1, WriteFields DEF LogInv
  <2>3. QED
    BY <1>1, <1>3, <1>4, <2>2 DEF SameView
<1>7. CASE phase = "install"
  <2>1. PICK d \in Values : d = buf[l].data /\ buf' = [buf EXCEPT ![h].data = d, ![h].dirty = TRUE]
    BY <1>2, <1>5, <1>7 DEF CopyHome, Bwrite
  <2>2. /\ \A j \in Bufs : buf'[j].block = buf[j].block /\ buf'[j].valid = buf[j].valid
        /\ \A j \in Bufs \ {h} : buf'[j].data = buf[j].data
        /\ buf'[h].data = d
    BY <2>1, WriteFields, ZenonT(40) DEF LogInv
  <2>3. up => buf[h].data = buf[l].data
    BY <1>3, <1>4, <1>5, <1>7 DEF LogInv, Progress
  <2>4. QED
    BY <1>1, <2>1, <2>2, <2>3 DEF SameView
<1>8. QED
  BY <1>1, <1>6, <1>7

\* The header is not a block of the file system.
LEMMA HeadDataViews ==
  ASSUME LogInv, NEW p \in Procs, HeadData(p)
  PROVE  SameView
<1>1. /\ Loc(p) = "head" /\ pc[p] = "head" /\ HasCb(p) /\ UNCHANGED <<disk, up>>
  BY DEF HeadData, At, Loc, BioLabels, HasCb, lvars
<1>2. PICK k \in Bufs : k = cb[p]
  BY <1>1 DEF LogInv, Process, Holding
<1>3. buf[k].block = 0 /\ 0 \notin Data
  BY <1>1, <1>2, LogAssumption DEF LogInv, Process, Naming, Right
<1>4. buf' = [buf EXCEPT ![k].data = lh, ![k].dirty = TRUE] /\ lh \in Values \cup Seq(Data)
  BY <1>2 DEF HeadData, Bwrite, LogInv, Types
<1>5. /\ \A j \in Bufs : buf'[j].block = buf[j].block /\ buf'[j].valid = buf[j].valid
      /\ \A j \in Bufs \ {k} : buf'[j].data = buf[j].data
  BY <1>4, WriteFields DEF LogInv
<1>6. QED
  BY <1>1, <1>3, <1>5 DEF SameView

\* After the recovery what was recovered is what everybody sees.
LEMMA CommittedViews ==
  ASSUME LogInv, LogInv', NEW p \in Procs, Committed(p)
  PROVE  UNCHANGED <<Current, Recovered>>
<1>1. Loc(p) = "committed" /\ UNCHANGED <<disk, buf>> /\ up'
  BY DEF Committed, At, Loc, BioLabels, cvars
<1>2. CASE up
  BY <1>1, <1>2, ViewFrame DEF SameView
<1>3. CASE ~up
  <2>1. PICK c, r : /\ c = Current /\ r = Recovered
                    /\ c = [b \in Data |-> c[b]] /\ r = [b \in Data |-> r[b]]
                    /\ \A b \in Data : CurrentIs(b, c[b]) /\ RecoveredIs(b, r[b])
    BY ViewsBefore
  <2>2. disk[0] = <<>> /\ lh = <<>>
    BY <1>1 DEF LogInv, Header, Process, Phase
  <2>3. ASSUME NEW b \in Data
        PROVE  RecoveredIs(b, r[b])' /\ c[b] = r[b] /\ r[b] = disk[b]
    BY <1>1, <1>3, <2>1, <2>2 DEF RecoveredIs, CurrentIs
  <2>4. ASSUME NEW b \in Data, NEW k \in Bufs, buf[k].block = b, buf[k].valid
        PROVE  buf[k].data = disk[b]
    BY <2>2, <2>4 DEF LogInv, Contents, Content
  <2>5. ASSUME NEW b \in Data
        PROVE  CurrentIs(b, c[b])'
    BY <1>1, <2>3, <2>4 DEF CurrentIs
  <2>6. Current' = c /\ Recovered' = r
    BY <2>1, <2>3, <2>5, ViewsAre
  <2>7. QED
    BY <2>1, <2>6
<1>4. QED
  BY <1>2, <1>3

\* Steps that move data neither in the cache nor on the disk, nor begin or end
\* an operation.
Still == UNCHANGED <<disk, buf, up, wrote>>

\* Most steps are of this kind.
LEMMA StillSteps ==
  ASSUME NEW p \in Procs,
         \/ (Iderw(p) \/ IdeWait(p)) /\ UNCHANGED lvars
         \/ (\E b \in Data : Read(p, b) \/ OpBlock(p, b)) \/ ReadDone(p) \/ LogTest(p)
         \/ Commit(p) \/ CopyNext(p) \/ CopyLog(p) \/ CopyDone(p) \/ CopyBrelse(p)
         \/ WriteHead(p) \/ HeadDone(p) \/ ReadHead(p) \/ HeadRead(p)
  PROVE  Still
<1> USE DEF Still, cvars, lvars
<1>1. CASE (Iderw(p) \/ IdeWait(p)) /\ UNCHANGED lvars
  BY <1>1 DEF Iderw, IdeWait
<1>2. CASE (\E b \in Data : Read(p, b) \/ OpBlock(p, b)) \/ ReadDone(p) \/ LogTest(p)
  BY <1>2 DEF Read, OpBlock, ReadDone, LogTest
<1>3. CASE Commit(p) \/ CopyNext(p) \/ CopyLog(p) \/ CopyDone(p) \/ CopyBrelse(p)
  BY <1>3 DEF Commit, CopyNext, CopyLog, CopyDone, CopyBrelse
<1>4. CASE WriteHead(p) \/ HeadDone(p) \/ ReadHead(p) \/ HeadRead(p)
  BY <1>4 DEF WriteHead, HeadDone, ReadHead, HeadRead
<1>5. QED
  BY <1>1, <1>2, <1>3, <1>4

\* A step of the kernel updates a block for an operation, or changes nothing.
LEMMA KernelViews ==
  ASSUME LogInv, LogInv', LogFits, NEW p \in Procs, Kernel(p)
  PROVE  \/ UNCHANGED <<Current, Recovered, Ops>>
         \/ \E b \in Data, v \in Values : Abs!Update(p, b, v)
<1>1. CASE Still
  <2>1. SameView /\ Ops' = Ops
    BY <1>1 DEF Still, SameView, Ops
  <2>2. QED
    BY <2>1, ViewFrame
<1>2. CASE (BgetHit(p) \/ AcquireSleep(p) \/ ReleaseSleep(p) \/ Unref(p)) /\ UNCHANGED lvars
  BY <1>2, FieldViews, ViewFrame DEF lvars, Ops
<1>3. CASE BgetMiss(p) /\ UNCHANGED lvars
  BY <1>3, BgetMissViews DEF lvars, Ops
<1>4. CASE CopyHome(p)
  <2>1. Ops' = Ops
    BY <1>4 DEF CopyHome, Ops
  <2>2. QED
    BY <1>4, <2>1, CopyHomeViews, ViewFrame
<1>5. CASE HeadData(p)
  <2>1. Ops' = Ops
    BY <1>5 DEF HeadData, lvars, Ops
  <2>2. QED
    BY <1>5, <2>1, HeadDataViews, ViewFrame
<1>6. CASE Committed(p)
  <2>1. Ops' = Ops
    BY <1>6 DEF Committed, Ops
  <2>2. QED
    BY <1>6, <2>1, CommittedViews
<1>7. CASE \E v \in Values : LogWrite(p, v)
  <2>1. PICK v \in Values : LogWrite(p, v)
    BY <1>7
  <2>2. /\ p \in Ops /\ Ops' = Ops /\ UNCHANGED Recovered
        /\ \E b \in Data : Current' = [Current EXCEPT ![b] = v]
    BY <2>1, LogWriteViews
  <2>3. QED
    BY <2>2 DEF Abs!Update, Ops
<1>8. QED
  BY <1>1, <1>2, <1>3, <1>4, <1>5, <1>6, <1>7, StillSteps DEF Kernel, BioStep

\* begin_op() and end_op() begin and end an operation.
LEMMA ProgramViews ==
  ASSUME LogInv, LogInv', NEW p \in Procs, Program(p)
  PROVE  UNCHANGED <<Current, Recovered, Ops>> \/ Abs!Begin(p) \/ Abs!End(p)
<1>1. CASE Still
  <2>1. SameView /\ Ops' = Ops
    BY <1>1 DEF Still, SameView, Ops
  <2>2. QED
    BY <2>1, ViewFrame
<1>2. CASE BeginOp(p)
  <2>1. SameView
    BY <1>2 DEF BeginOp, SameView, cvars
  <2>2. pc[p] \in {"user", "begin_op"} /\ wrote[p] = NULL
    BY <1>2 DEF BeginOp, At, LogInv, Operations, Loc, BioLabels, OpLocs
  <2>3. CASE wrote' = wrote
    BY <2>1, <2>3, ViewFrame DEF Ops
  <2>4. CASE wrote' # wrote
    <3>1. wrote' = [wrote EXCEPT ![p] = {}] /\ {} # NULL
      BY <1>2, <2>4, LogAssumption DEF BeginOp
    <3>2. wrote'[p] # NULL /\ \A q \in Procs \ {p} : wrote'[q] = wrote[q]
      BY <3>1 DEF LogInv, Types
    <3>3. Ops' = Ops \cup {p} /\ p \notin Ops
      BY <2>2, <3>2 DEF Ops
    <3>4. QED
      BY <2>1, <3>3, ViewFrame DEF Abs!Begin, Ops
  <2>5. QED
    BY <2>3, <2>4
<1>3. CASE EndOp(p)
  <2>1. SameView
    BY <1>3 DEF EndOp, SameView, cvars
  <2>2. pc[p] = "op" /\ wrote[p] # NULL
    BY <1>3 DEF EndOp, At, LogInv, Operations, Loc, BioLabels, OpLocs
  <2>3. wrote'[p] = NULL /\ \A q \in Procs \ {p} : wrote'[q] = wrote[q]
    BY <1>3 DEF EndOp, LogInv, Types
  <2>4. Ops' = Ops \ {p} /\ p \in Ops
    BY <2>2, <2>3 DEF Ops
  <2>5. QED
    BY <2>1, <2>4, ViewFrame DEF Abs!End, Ops
<1>4. QED
  BY <1>1, <1>2, <1>3, StillSteps DEF Program

\* A crash falls back to what is on the disk.
LEMMA CrashViews == Crash => Abs!Crash
<1> SUFFICES ASSUME Crash PROVE Abs!Crash
  OBVIOUS
<1>1. Recovered' = Recovered
  BY DEF Crash, Recovered
<1>2. Current' = Recovered'
  BY DEF Crash, Current, Recovered
<1>3. {p \in Procs : wrote[p] # NULL}' = {}
  BY DEF Crash, Nothing
<1>4. QED
  BY <1>1, <1>2, <1>3 DEF Abs!Crash

\* Whenever the machine stops, recovery finds all updates of an operation or
\* none, and nothing that was committed is lost.
THEOREM LogImplementsAtomicDisk == Spec => ImplementsAtomicDisk
<1>1. Init => Abs!Init
  <2> SUFFICES ASSUME Init PROVE Abs!Init
    OBVIOUS
  <2>1. Current = Recovered
    BY DEF Init, Current, Recovered
  <2>2. {p \in Procs : wrote[p] # NULL} = {}
    BY DEF Init, Nothing
  <2>3. QED
    BY <2>1, <2>2 DEF Abs!Init
<1>2. LogInv /\ LogInv' /\ LogFits /\ [Next]_vars =>
        [Abs!Next]_<<Current, Recovered, {p \in Procs : wrote[p] # NULL}>>
  <2> SUFFICES ASSUME LogInv, LogInv', LogFits, [Next]_vars
               PROVE  Abs!Next \/ UNCHANGED <<Current, Recovered, {p \in Procs : wrote[p] # NULL}>>
    OBVIOUS
  <2>1. ASSUME NEW p \in Procs, Kernel(p)
        PROVE  Abs!Next \/ UNCHANGED <<Current, Recovered, {q \in Procs : wrote[q] # NULL}>>
    BY <2>1, KernelViews DEF Abs!Next, Ops
  <2>2. ASSUME NEW p \in Procs, Program(p)
        PROVE  Abs!Next \/ UNCHANGED <<Current, Recovered, {q \in Procs : wrote[q] # NULL}>>
    BY <2>2, ProgramViews DEF Abs!Next, Ops
  <2>3. CASE Disk
    <3>1. UNCHANGED Current /\ (Recovered' = Recovered \/ (Recovered' = Current /\ Ops = {})) /\ Ops' = Ops
      BY <2>3, IntrViews DEF Disk, lvars, Ops
    <3>2. QED
      BY <3>1 DEF Abs!Next, Abs!Commit, Ops
  <2>4. CASE Crash
    BY <2>4, CrashViews DEF Abs!Next
  <2>5. CASE UNCHANGED vars
    <3>1. SameView /\ Ops' = Ops
      BY <2>5 DEF vars, bvars, cvars, lvars, SameView, Ops
    <3>2. QED
      BY <3>1, ViewFrame DEF Ops
  <2>6. QED
    BY <2>1, <2>2, <2>3, <2>4, <2>5 DEF Next
<1>3. QED
  BY <1>1, <1>2, LogCorrect, LogLargeEnough, PTL DEF Spec, ImplementsAtomicDisk, Abs!Spec

=============================================================================
