-------------------------------- MODULE File --------------------------------
(***************************************************************************)
(* Open files and pipes: file.c, pipe.c and the descriptor calls of        *)
(* sysfile.c.                                                              *)
(*                                                                         *)
(* A section under ftable.lock or under the lock of a pipe is one step.    *)
(* Descriptor tables are private to a process, so a call works on its own  *)
(* table in the step of its first locked section.  call[p] is a call of p  *)
(* that has not returned: a pipe(), a read or write, or the pipeclose() at *)
(* the end of fileclose().  sleep() and wakeup() on a pipe are kept:       *)
(* asleep[p].  Whoever is in sleep() keeps the lock of the pipe until it   *)
(* is asleep, but kill() does not ask for that lock.                       *)
(* disk[ip] is the content of an inode.  The console is an inode whose     *)
(* writes are appended to what it shows and whose input has ended.         *)
(***************************************************************************)
EXTENDS Integers, Sequences, FiniteSets

CONSTANTS Procs,
          NFILE, NOFILE,   \* struct files, descriptors of a process
          Pipes,           \* the pages that pipes may get
          PIPESIZE,
          W,               \* nread and nwrite count modulo W
          Names,           \* the names of the inodes but for the console
          NULL

Files == 1..NFILE
Fds == 0 .. NOFILE - 1

\* Where a process has pointers to files: ofile[], and rf and wf of sys_pipe().
RF == NOFILE
WF == NOFILE + 1
Slots == Fds \cup {RF, WF}

\* struct pipe; a call of a process that has not returned; where it sleeps.
PipeStates == [data : [0 .. PIPESIZE - 1 -> Nat], nread : 0 .. W - 1, nwrite : 0 .. W - 1,
               readopen : BOOLEAN, writeopen : BOOLEAN]
Requests == [op : {"pipe", "bad"}]
            \cup [op : {"pipeclose"}, pipe : Pipes, writable : BOOLEAN]
            \cup [op : {"read", "write"}, pipe : Pipes, bytes : Seq(Nat), locked : BOOLEAN]
Channels == Pipes \X {"nread", "nwrite"}

ASSUME FileAssumption ==
  /\ NFILE \in Nat /\ NOFILE \in Nat /\ PIPESIZE \in Nat \ {0}
  /\ W \in Nat /\ W > PIPESIZE /\ W % PIPESIZE = 0
  /\ IsFiniteSet(Procs)
  /\ NULL \notin Pipes \cup Files \cup PipeStates \cup Requests \cup Channels \cup Seq(Nat)

VARIABLES ofile,    \* p->ofile[], rf and wf
          file,     \* ftable.file[]
          pipe,     \* the pipe in a page, or NULL
          asleep,   \* what p sleeps on, or NULL
          killed,
          call,     \* the unfinished call of p, or NULL
          res,      \* what the last pipe, read or write returned
          disk      \* the content of an inode, or NULL

fvars == <<ofile, file, pipe, asleep, killed, call, res, disk>>

Console == "console"
Inodes == Names \cup {Console}
Closed == [ref |-> 0, type |-> "NONE", readable |-> FALSE, writable |-> FALSE,
           pipe |-> NULL, ip |-> NULL, off |-> 0]
Failed == [ok |-> FALSE, data |-> <<>>]

Least(S) == CHOOSE x \in S : \A y \in S : x <= y
Wake(chans) == [p \in Procs |-> IF asleep[p] \in chans THEN NULL ELSE asleep[p]]
Free == {f \in Files : file[f].ref = 0}
FreeFds(p) == {fd \in Fds : ofile[p][fd] = NULL}

-----------------------------------------------------------------------------
\* dup(): the lowest descriptor, and one more reference.
Dup(p, fd) ==
  LET f == ofile[p][fd] IN
  /\ IF f = NULL \/ FreeFds(p) = {}
     THEN UNCHANGED <<ofile, file>>
     ELSE /\ ofile' = [ofile EXCEPT ![p][Least(FreeFds(p))] = f]
          /\ file' = [file EXCEPT ![f].ref = @ + 1]
  /\ UNCHANGED <<pipe, asleep, killed, call, res, disk>>

\* The last reference of a file decides about its pipe end.
LastReference(f) == file[f].ref = 1

\* fileclose() up to the point where it releases ftable.lock; next is what
\* the call has still to do after it.
FileClose(p, slot, next) ==
  LET f == ofile[p][slot] IN
  /\ ofile' = [ofile EXCEPT ![p][slot] = NULL]
  /\ file' = IF LastReference(f) THEN [file EXCEPT ![f] = Closed] ELSE [file EXCEPT ![f].ref = @ - 1]
  /\ call' = [call EXCEPT ![p] = IF LastReference(f) /\ file[f].type = "PIPE"
                                 THEN [op |-> "pipeclose", pipe |-> file[f].pipe, writable |-> file[f].writable]
                                 ELSE next]
  /\ UNCHANGED <<pipe, asleep, killed, res, disk>>

\* close(), and one round of the loop of exit().
Close(p, fd) == IF ofile[p][fd] = NULL THEN UNCHANGED fvars ELSE FileClose(p, fd, NULL)

\* A pipe with one more end closed; the second one frees the page.
Ended(q, writable) ==
  LET r == IF writable THEN [q EXCEPT !.writeopen = FALSE] ELSE [q EXCEPT !.readopen = FALSE]
  IN  IF r.readopen \/ r.writeopen THEN r ELSE NULL

\* Which sleepers pipeclose() wakes.
OwnEnd(writable) == IF writable THEN "nwrite" ELSE "nread"

OtherEnd(writable) == IF writable THEN "nread" ELSE "nwrite"

\* The lock of a pipe, which whoever goes to sleep releases in sleep().
Unlocked(i) ==
  \A q \in Procs : call[q] # NULL /\ call[q].op \in {"read", "write"} /\ call[q].pipe = i => ~call[q].locked

\* What a pipe() that has failed does next.
Bad(p) == IF ofile[p][WF] # NULL THEN [op |-> "bad"] ELSE NULL

\* pipeclose().
PipeClose(p) ==
  LET i == call[p].pipe
      w == call[p].writable
  IN
  /\ call[p] # NULL /\ call[p].op = "pipeclose" /\ Unlocked(i)
  /\ pipe' = [pipe EXCEPT ![i] = Ended(@, w)]
  /\ asleep' = Wake({<<i, OtherEnd(w)>>})
  /\ call' = [call EXCEPT ![p] = Bad(p)]
  /\ UNCHANGED <<ofile, file, killed, res, disk>>

\* pipe(): two calls of filealloc(), ...
PipeCall(p) ==
  /\ call' = [call EXCEPT ![p] = [op |-> "pipe"]]
  /\ res' = [res EXCEPT ![p] = Failed]
  /\ UNCHANGED <<ofile, file, pipe, asleep, killed, disk>>

PipeFile(p) ==
  LET slot == IF ofile[p][RF] = NULL THEN RF ELSE WF IN
  /\ call[p] = [op |-> "pipe"] /\ ofile[p][WF] = NULL
  /\ \/ /\ Free = {}
        /\ call' = [call EXCEPT ![p] = IF slot = RF THEN NULL ELSE [op |-> "bad"]]
        /\ UNCHANGED <<ofile, file>>
     \/ /\ Free # {}
        /\ ofile' = [ofile EXCEPT ![p][slot] = Least(Free)]
        /\ file' = [file EXCEPT ![Least(Free)].ref = 1]
        /\ UNCHANGED call
  /\ UNCHANGED <<pipe, asleep, killed, res, disk>>

\* ... a page and two descriptors.  Without the descriptors the pipe has been
\* made all the same.
PipeFds(p) == LET r == Least(FreeFds(p)) IN <<r, Least(FreeFds(p) \ {r})>>

PipeAlloc(p) ==
  LET rf == ofile[p][RF]
      wf == ofile[p][WF]
      fds == PipeFds(p)
      i == CHOOSE i \in Pipes : pipe[i] = NULL
      end(w) == [Closed EXCEPT !.ref = 1, !.type = "PIPE", !.readable = ~w, !.writable = w, !.pipe = i]
  IN
  /\ call[p] = [op |-> "pipe"] /\ wf # NULL
  /\ IF \A k \in Pipes : pipe[k] # NULL
     THEN call' = [call EXCEPT ![p] = [op |-> "bad"]] /\ UNCHANGED <<ofile, file, pipe, res>>
     ELSE /\ file' = [file EXCEPT ![rf] = end(FALSE), ![wf] = end(TRUE)]
          /\ pipe' = [pipe EXCEPT ![i] = [data |-> [k \in 0 .. PIPESIZE - 1 |-> 0],
                                          nread |-> 0, nwrite |-> 0, readopen |-> TRUE, writeopen |-> TRUE]]
          /\ IF Cardinality(FreeFds(p)) < 2
             THEN call' = [call EXCEPT ![p] = [op |-> "bad"]] /\ UNCHANGED <<ofile, res>>
             ELSE /\ ofile' = [ofile EXCEPT ![p] = [@ EXCEPT ![fds[1]] = rf, ![fds[2]] = wf, ![RF] = NULL, ![WF] = NULL]]
                  /\ call' = [call EXCEPT ![p] = NULL]
                  /\ res' = [res EXCEPT ![p] = [ok |-> TRUE, data |-> fds]]
  /\ UNCHANGED <<asleep, killed, disk>>

\* Where one of them fails: fileclose() of what there is.
PipeBad(p) ==
  /\ call[p] = [op |-> "bad"]
  /\ IF ofile[p][RF] # NULL THEN FileClose(p, RF, Bad(p)) ELSE FileClose(p, WF, NULL)

\* open(): the inode, made if it is to be written, a file and the lowest
\* descriptor.  Nothing is truncated.
OpenFits(p, ip, write) == (disk[ip] # NULL \/ write) /\ Free # {} /\ FreeFds(p) # {}

Open(p, ip, write) ==
  /\ OpenFits(p, ip, write)
  /\ disk' = IF disk[ip] = NULL THEN [disk EXCEPT ![ip] = <<>>] ELSE disk
  /\ ofile' = [ofile EXCEPT ![p][Least(FreeFds(p))] = Least(Free)]
  /\ file' = [file EXCEPT ![Least(Free)] =
                [Closed EXCEPT !.ref = 1, !.type = "INODE", !.readable = ~write, !.writable = write, !.ip = ip]]
  /\ UNCHANGED <<pipe, asleep, killed, call, res>>

\* The files of a new process: fork()'s loop over ofile[] with filedup().
DupAll(p, q) ==
  /\ ofile' = [ofile EXCEPT ![q] = ofile[p]]
  /\ file' = [f \in Files |-> [file[f] EXCEPT !.ref =
                                @ + Cardinality({fd \in Slots : ofile[p][fd] = f})]]

-----------------------------------------------------------------------------
\* readi() and writei() of at most the bytes of one transaction.
Rest(content, off) == SubSeq(content, off + 1, Len(content))

Overwrite(content, off, bytes) ==
  SubSeq(content, 1, off) \o bytes \o Rest(content, off + Len(bytes))

InodeRead(p, f) ==
  LET data == IF file[f].ip = Console THEN <<>> ELSE Rest(disk[file[f].ip], file[f].off) IN
  /\ res' = [res EXCEPT ![p] = [ok |-> TRUE, data |-> data]]
  /\ file' = [file EXCEPT ![f].off = @ + Len(data)]
  /\ UNCHANGED <<disk, call>>

InodeWrite(p, f, bytes) ==
  LET ip == file[f].ip
      off == IF ip = Console THEN Len(disk[ip]) ELSE file[f].off
  IN
  /\ disk' = [disk EXCEPT ![ip] = Overwrite(@, off, bytes)]
  /\ file' = IF ip = Console THEN file ELSE [file EXCEPT ![f].off = @ + Len(bytes)]
  /\ res' = [res EXCEPT ![p] = [ok |-> TRUE, data |-> <<>>]]
  /\ UNCHANGED call

\* read() and write(): fileread() and filewrite(), up to the lock of a pipe.
Start(p, fd, op, bytes) ==
  LET f == ofile[p][fd] IN
  /\ IF f = NULL \/ ~(IF op = "read" THEN file[f].readable ELSE file[f].writable)
     THEN res' = [res EXCEPT ![p] = Failed] /\ UNCHANGED <<call, disk, file>>
     ELSE IF file[f].type = "PIPE"
     THEN /\ call' = [call EXCEPT ![p] = [op |-> op, pipe |-> file[f].pipe, bytes |-> bytes, locked |-> FALSE]]
          /\ UNCHANGED <<res, disk, file>>
     ELSE IF op = "read" THEN InodeRead(p, f) ELSE InodeWrite(p, f, bytes)
  /\ UNCHANGED <<ofile, pipe, asleep, killed>>

Count(q) == (q.nwrite - q.nread) % W
Room(q) == PIPESIZE - Count(q)

\* p->data[p->nwrite++ % PIPESIZE], n times.
Put(q, bytes, n) ==
  [q EXCEPT !.data = [k \in 0 .. PIPESIZE - 1 |->
                        LET j == (k - q.nwrite) % PIPESIZE
                        IN  IF j < n THEN bytes[j + 1] ELSE q.data[k]],
            !.nwrite = (@ + n) % W]

Return(p, result) ==
  /\ call' = [call EXCEPT ![p] = NULL]
  /\ res' = [res EXCEPT ![p] = result]

\* p has the lock of its pipe in pipewrite() or piperead(), at the beginning
\* or back from sleep().
Has(p, op) ==
  call[p] # NULL /\ call[p].op = op /\ asleep[p] = NULL /\ Unlocked(call[p].pipe)

\* pipewrite(), to where it calls sleep() or returns.
PipeWrite(p) ==
  LET i == call[p].pipe
      bytes == call[p].bytes
      n == IF Len(bytes) < Room(pipe[i]) THEN Len(bytes) ELSE Room(pipe[i])
  IN
  /\ Has(p, "write")
  /\ pipe' = [pipe EXCEPT ![i] = Put(@, bytes, n)]
  /\ IF n = Len(bytes)
     THEN Return(p, [ok |-> TRUE, data |-> <<>>]) /\ asleep' = Wake({<<i, "nread">>})
     ELSE IF ~pipe[i].readopen \/ killed[p]
     THEN Return(p, Failed) /\ UNCHANGED asleep
     ELSE /\ asleep' = Wake({<<i, "nread">>})
          /\ call' = [call EXCEPT ![p] = [@ EXCEPT !.bytes = SubSeq(bytes, n + 1, Len(bytes)), !.locked = TRUE]]
          /\ UNCHANGED res
  /\ UNCHANGED <<ofile, file, killed, disk>>

\* What is in the pipe, oldest byte first.
Queue(q) == [k \in 1 .. Count(q) |-> q.data[(q.nread + k - 1) % PIPESIZE]]

\* piperead() of at least PIPESIZE bytes: it waits for data or for the end of
\* the writers, and takes all there is.
PipeRead(p) ==
  LET i == call[p].pipe IN
  /\ Has(p, "read")
  /\ IF Count(pipe[i]) = 0 /\ pipe[i].writeopen
     THEN /\ IF killed[p]
             THEN Return(p, Failed)
             ELSE call' = [call EXCEPT ![p].locked = TRUE] /\ UNCHANGED res
          /\ UNCHANGED <<pipe, asleep>>
     ELSE /\ Return(p, [ok |-> TRUE, data |-> Queue(pipe[i])])
          /\ pipe' = [pipe EXCEPT ![i].nread = pipe[i].nwrite]
          /\ asleep' = Wake({<<i, "nwrite">>})
  /\ UNCHANGED <<ofile, file, killed, disk>>

\* sleep(), which takes ptable.lock and releases that of the pipe.
PipeSleep(p) ==
  /\ call[p] # NULL /\ call[p].op \in {"read", "write"} /\ call[p].locked
  /\ asleep' = [asleep EXCEPT ![p] = <<call[p].pipe, IF call[p].op = "write" THEN "nwrite" ELSE "nread">>]
  /\ call' = [call EXCEPT ![p].locked = FALSE]
  /\ UNCHANGED <<ofile, file, pipe, killed, res, disk>>

\* kill() marks a process and wakes it.
Kill(p) ==
  /\ killed' = [killed EXCEPT ![p] = TRUE]
  /\ asleep' = [asleep EXCEPT ![p] = NULL]
  /\ UNCHANGED <<ofile, file, pipe, call, res, disk>>

CallStep(p) ==
  PipeFile(p) \/ PipeAlloc(p) \/ PipeBad(p) \/ PipeClose(p) \/ PipeWrite(p) \/ PipeRead(p) \/ PipeSleep(p)

-----------------------------------------------------------------------------
\* f->ref is the number of descriptors that refer to f, and of unfinished
\* pipe() calls, across dup(), fork() and the close() and exit() of several
\* processes.
RefsCount ==
  \A f \in Files : file[f].ref = Cardinality({x \in Procs \X Slots : ofile[x[1]][x[2]] = f})

\* A pipe end is open exactly as long as a file refers to it or its
\* pipeclose() has not run, and the page of a pipe in use is not freed.
PipeEnds ==
  \A i \in Pipes, w \in BOOLEAN :
    LET used == \/ \E f \in Files : file[f].ref > 0 /\ file[f].pipe = i /\ file[f].writable = w
                \/ \E p \in Procs : call[p] # NULL /\ call[p].op = "pipeclose"
                                    /\ call[p].pipe = i /\ call[p].writable = w
    IN  used <=> pipe[i] # NULL /\ IF w THEN pipe[i].writeopen ELSE pipe[i].readopen

\* A reader sleeps only on an empty pipe that has writers, a writer only on a
\* full one that has readers: no wakeup() of pipewrite(), piperead() or
\* pipeclose() is missing.  One is, where a killed writer that has filled the
\* pipe returns without waking the readers.
NoMissedWakeup ==
  \A p \in Procs, i \in Pipes :
    /\ asleep[p] = <<i, "nread">> => /\ Count(pipe[i]) = 0 \/ \E q \in Procs : killed[q]
                                    /\ pipe[i].writeopen
    /\ asleep[p] = <<i, "nwrite">> => Count(pipe[i]) = PIPESIZE /\ pipe[i].readopen

\* Files and pipes under every order of fork(), dup(), close(), exit(), reads,
\* writes and kill().
FilesRight == RefsCount /\ PipeEnds /\ NoMissedWakeup
=============================================================================
