----------------------------- MODULE FileProofs -----------------------------
(***************************************************************************)
(* Proofs about module File, for every program: a process that is in no    *)
(* unfinished call makes any call on any descriptor, and kill() hits any   *)
(* process.                                                                *)
(***************************************************************************)
EXTENDS File, FiniteSetTheorems, TLAPS

FileStates == [ref : Nat, type : {"NONE", "PIPE", "INODE"}, readable : BOOLEAN, writable : BOOLEAN,
               pipe : Pipes \cup {NULL}, ip : Inodes \cup {NULL}, off : Nat]

\* What the first process has open is no pipe.
FileInit ==
  /\ ofile \in [Procs -> [Slots -> Files \cup {NULL}]]
  /\ \A p \in Procs : ofile[p][RF] = NULL /\ ofile[p][WF] = NULL
  /\ file \in [Files -> FileStates]
  /\ disk \in [Inodes -> Seq(Nat) \cup {NULL}]
  /\ \A f \in Files : IF file[f].ref = 0 THEN file[f] = Closed ELSE
       /\ file[f].type = "INODE" /\ file[f].pipe = NULL
       /\ file[f].ip \in Inodes /\ disk[file[f].ip] # NULL /\ file[f].off = 0
  /\ RefsCount
  /\ pipe = [i \in Pipes |-> NULL]
  /\ asleep = [p \in Procs |-> NULL]
  /\ killed = [p \in Procs |-> FALSE]
  /\ call = [p \in Procs |-> NULL]

\* fork() into the slot of a process that has closed its files.
Fresh(q) == call[q] = NULL /\ asleep[q] = NULL /\ \A fd \in Slots : ofile[q][fd] = NULL
Forks(p, q) ==
  /\ Fresh(q)
  /\ DupAll(p, q)
  /\ killed' = [killed EXCEPT ![q] = FALSE]
  /\ UNCHANGED <<pipe, asleep, call, res, disk>>

Calls(p) ==
  /\ call[p] = NULL /\ asleep[p] = NULL
  /\ \/ \E fd \in Fds : Dup(p, fd) \/ Close(p, fd) \/ Start(p, fd, "read", <<>>)
     \/ \E fd \in Fds, bytes \in Seq(Nat) : Start(p, fd, "write", bytes)
     \/ PipeCall(p)
     \/ \E ip \in Inodes, write \in BOOLEAN : Open(p, ip, write)
     \/ \E q \in Procs \ {p} : Forks(p, q)

FileNext == \E p \in Procs : Calls(p) \/ CallStep(p) \/ Kill(p)
FileSpec == FileInit /\ [][FileNext]_fvars

-----------------------------------------------------------------------------
(* The inductive invariant.                                                *)
FileTypes ==
  /\ ofile \in [Procs -> [Slots -> Files \cup {NULL}]]
  /\ file \in [Files -> FileStates]
  /\ pipe \in [Pipes -> PipeStates \cup {NULL}]
  /\ asleep \in [Procs -> Channels \cup {NULL}]
  /\ killed \in [Procs -> BOOLEAN]
  /\ call \in [Procs -> Requests \cup {NULL}]
  /\ disk \in [Inodes -> Seq(Nat) \cup {NULL}]

\* A file is an end of a pipe, or of an inode that exists, with an offset inside
\* it, or nothing yet: it is free, or pipe() has just got it.
FileKinds ==
  \A f \in Files :
    /\ file[f].ref = 0 => file[f].type = "NONE"
    /\ file[f].type = "NONE" => file[f].pipe = NULL /\ ~file[f].readable /\ ~file[f].writable
    /\ file[f].type = "PIPE" => file[f].pipe \in Pipes /\ file[f].readable = ~file[f].writable
    /\ file[f].type = "INODE" =>
         /\ file[f].pipe = NULL
         /\ file[f].ip \in Inodes /\ disk[file[f].ip] # NULL
         /\ file[f].off <= Len(disk[file[f].ip])

\* Each end of a pipe has one file, or one pipeclose() that is still to run.
HasEnd(f, i, w) == file[f].ref > 0 /\ file[f].pipe = i /\ file[f].writable = w
ClosesEnd(p, i, w) ==
  call[p] # NULL /\ call[p].op = "pipeclose" /\ call[p].pipe = i /\ call[p].writable = w
OneUser ==
  \A i \in Pipes, w \in BOOLEAN :
    /\ \A f, g \in Files : HasEnd(f, i, w) /\ HasEnd(g, i, w) => f = g
    /\ \A p, q \in Procs : ClosesEnd(p, i, w) /\ ClosesEnd(q, i, w) => p = q
    /\ \A f \in Files, p \in Procs : ~(HasEnd(f, i, w) /\ ClosesEnd(p, i, w))

\* A process inside read() or write() keeps the descriptor that it came with.
InPipe(p) == call[p] # NULL /\ call[p].op \in {"read", "write"}
Reaches(p, fd, i, w) ==
  LET f == ofile[p][fd] IN f # NULL /\ file[f].pipe = i /\ file[f].writable = w
CallsHold ==
  \A p \in Procs : InPipe(p) => \E fd \in Slots : Reaches(p, fd, call[p].pipe, call[p].op = "write")

\* Sleepers are in piperead() or pipewrite().
Sleepers ==
  \A p \in Procs : asleep[p] # NULL =>
    /\ InPipe(p)
    /\ asleep[p] = <<call[p].pipe, IF call[p].op = "write" THEN "nwrite" ELSE "nread">>

NotOverfull == \A i \in Pipes : pipe[i] # NULL => Count(pipe[i]) <= PIPESIZE

\* What is left of NoMissedWakeup when killed flags come and go.
SleepersRight ==
  \A p \in Procs, i \in Pipes :
    /\ asleep[p] = <<i, "nread">> => pipe[i].writeopen
    /\ asleep[p] = <<i, "nwrite">> => Count(pipe[i]) = PIPESIZE /\ pipe[i].readopen

\* Between its test and its sleep a process has the lock of the pipe, and what
\* it found there stays.
HasLock(p, i) == InPipe(p) /\ call[p].pipe = i /\ call[p].locked
Locks ==
  \A p \in Procs, i \in Pipes : HasLock(p, i) =>
    /\ asleep[p] = NULL
    /\ IF call[p].op = "write" THEN Count(pipe[i]) = PIPESIZE /\ pipe[i].readopen
                               ELSE Count(pipe[i]) = 0 /\ pipe[i].writeopen
    /\ \A q \in Procs : HasLock(q, i) => q = p

\* The files that a pipe() has got and not given away: nobody else has them,
\* they are no end of a pipe until there is one, and none is forgotten.
InOp(p, op) == call[p] # NULL /\ call[p].op = op
Pending ==
  \A p \in Procs :
    /\ ofile[p][RF] # NULL => InOp(p, "pipe") \/ InOp(p, "bad")
    /\ ofile[p][WF] # NULL => InOp(p, "pipe") \/ InOp(p, "bad") \/ InOp(p, "pipeclose")
    /\ InOp(p, "pipe") /\ ofile[p][WF] # NULL => ofile[p][RF] # NULL
    /\ InOp(p, "bad") => ofile[p][RF] # NULL \/ ofile[p][WF] # NULL
    /\ \A s \in {RF, WF} : ofile[p][s] # NULL =>
         file[ofile[p][s]].ref = 1 /\ (InOp(p, "pipe") => file[ofile[p][s]].type = "NONE")

FilesInv ==
  /\ FileTypes /\ RefsCount /\ FileKinds /\ OneUser /\ PipeEnds
  /\ CallsHold /\ Sleepers /\ NotOverfull /\ SleepersRight /\ Locks /\ Pending

-----------------------------------------------------------------------------
(* Arithmetic, least elements, and the number of descriptors of a file.    *)

\* n bytes more, if they fit, are n bytes more.
LEMMA Counted ==
  ASSUME NEW m \in Nat \ {0}, NEW a \in 0 .. m - 1, NEW b \in 0 .. m - 1, NEW n \in Nat,
         ((a - b) % m) + n < m
  PROVE  /\ (a + n) % m \in 0 .. m - 1
         /\ (((a + n) % m) - b) % m = ((a - b) % m) + n
<1>1. PICK d \in Int : d = a - b
  OBVIOUS
<1>2. d % m = IF d < 0 THEN d + m ELSE d
  <2>1. -m <= d /\ d < m
    BY <1>1
  <2>2. QED
    BY <2>1
<1>3. PICK s \in Nat : s = a + n
  OBVIOUS
<1>4. s % m = IF s < m THEN s ELSE s - m
  <2>1. s < m + m
    BY <1>1, <1>2, <1>3
  <2>2. QED
    BY <2>1
<1>5. s % m \in 0 .. m - 1
  BY <1>1, <1>2, <1>3, <1>4
<1>6. PICK u \in 0 .. m - 1 : u = s % m
  BY <1>5
<1>7. PICK t \in Int : t = u - b
  OBVIOUS
<1>8. t % m = IF t < 0 THEN t + m ELSE t
  <2>1. -m <= t /\ t < m
    BY <1>7
  <2>2. QED
    BY <2>1
<1>9. QED
  BY <1>1, <1>2, <1>3, <1>4, <1>5, <1>6, <1>7, <1>8

\* Least() of a set of numbers is one of them.
LEMMA LeastIn ==
  ASSUME NEW S \in SUBSET Nat, S # {}
  PROVE  Least(S) \in S
<1>1. PICK x \in S : \A y \in S : <<y, x>> \notin OpToRel(<, Nat)
  BY NatLessThanWellFounded, WFMin, Zenon
<1>2. \A y \in S : ~(y < x)
  BY <1>1 DEF OpToRel
<1>3. \A y \in S : x <= y
  BY <1>2
<1>4. QED
  BY <1>3 DEF Least

\* Of two elements, the least one and the next.
LEMMA LeastTwo ==
  ASSUME NEW S \in SUBSET Nat, IsFiniteSet(S), Cardinality(S) >= 2
  PROVE  /\ Least(S) \in S
         /\ Least(S \ {Least(S)}) \in S \ {Least(S)}
<1>1. S # {}
  BY FS_EmptySet
<1>2. Least(S) \in S
  BY <1>1, LeastIn
<1>3. IsFiniteSet(S \ {Least(S)}) /\ Cardinality(S \ {Least(S)}) = Cardinality(S) - 1
  BY <1>2, FS_RemoveElement
<1>4. Cardinality(S) \in Nat
  BY FS_CardinalityType
<1>5. S \ {Least(S)} # {}
  BY <1>3, <1>4, FS_EmptySet
<1>6. QED
  BY <1>2, <1>5, LeastIn

\* A process has its descriptors, rf and wf.
LEMMA SlotsAre ==
  /\ \A fd \in Fds : fd \in Slots /\ fd # RF /\ fd # WF
  /\ RF \in Slots /\ WF \in Slots /\ RF # WF
  /\ \A s \in Slots : s \in Fds \/ s = RF \/ s = WF
  /\ IsFiniteSet(Slots)
<1>1. IsFiniteSet(Fds) /\ IsFiniteSet({RF, WF})
  <2>1. IsFiniteSet(Fds)
    BY FileAssumption, FS_Interval DEF Fds
  <2>2. IsFiniteSet({RF} \cup {WF})
    BY FS_Singleton, FS_Union
  <2>3. {RF, WF} = {RF} \cup {WF}
    OBVIOUS
  <2>4. QED
    BY <2>1, <2>2, <2>3, Zenon
<1>2. IsFiniteSet(Slots)
  BY <1>1, FS_Union DEF Slots
<1>3. \A fd \in Fds : fd # RF /\ fd # WF
  BY FileAssumption DEF Fds, RF, WF
<1>4. RF # WF
  BY FileAssumption DEF RF, WF
<1>5. QED
  BY <1>2, <1>3, <1>4 DEF Slots

\* The pointers to f, in the tables o.
Tables == [Procs -> [Slots -> Files \cup {NULL}]]
Users(o, f) == {x \in Procs \X Slots : o[x[1]][x[2]] = f}

\* The descriptors of a file can be counted.
LEMMA UsersFinite ==
  ASSUME NEW o, NEW f
  PROVE  IsFiniteSet(Users(o, f)) /\ Cardinality(Users(o, f)) \in Nat
<1>1. IsFiniteSet(Slots)
  BY SlotsAre
<1>2. IsFiniteSet(Procs \X Slots)
  BY <1>1, FileAssumption, FS_Product
<1>3. Users(o, f) \in SUBSET (Procs \X Slots)
  BY DEF Users
<1>4. IsFiniteSet(Users(o, f))
  BY <1>2, <1>3, FS_Subset
<1>5. QED
  BY <1>4, FS_CardinalityType

\* One entry of the tables is overwritten.
Puts(o, n, p, fd, g) ==
  \A q \in Procs, d \in Slots : n[q][d] = IF q = p /\ d = fd THEN g ELSE o[q][d]

\* What one entry of a table does to the number of descriptors of a file.
LEMMA SetFd ==
  ASSUME NEW o \in Tables, NEW n \in Tables, NEW p \in Procs, NEW fd \in Slots, NEW g \in Files \cup {NULL},
         Puts(o, n, p, fd, g), NEW f \in Files
  PROVE  Cardinality(Users(n, f)) =
           IF g = f /\ o[p][fd] # f THEN Cardinality(Users(o, f)) + 1
           ELSE IF g # f /\ o[p][fd] = f THEN Cardinality(Users(o, f)) - 1
           ELSE Cardinality(Users(o, f))
<1>1. \A x \in Procs \X Slots : n[x[1]][x[2]] = IF x = <<p, fd>> THEN g ELSE o[x[1]][x[2]]
  BY DEF Puts
<1>2. <<p, fd>> \in Users(o, f) <=> o[p][fd] = f
  BY DEF Users
<1>3. IsFiniteSet(Users(o, f))
  BY UsersFinite
<1>4. CASE g = f
  <2>1. Users(n, f) = Users(o, f) \cup {<<p, fd>>}
    BY <1>1, <1>4 DEF Users
  <2>2. QED
    BY <1>2, <1>3, <1>4, <2>1, FS_AddElement
<1>5. CASE g # f
  <2>1. Users(n, f) = Users(o, f) \ {<<p, fd>>}
    BY <1>1, <1>5 DEF Users
  <2>2. QED
    BY <1>2, <1>3, <1>5, <2>1, FS_RemoveElement, ZenonT(40)
<1>6. QED
  BY <1>4, <1>5

\* A file in a table has references.
LEMMA Referenced ==
  ASSUME FileTypes, RefsCount, NEW p \in Procs, NEW fd \in Slots, NEW f \in Files, ofile[p][fd] = f
  PROVE  file[f].ref > 0
<1>1. <<p, fd>> \in Users(ofile, f)
  BY DEF Users
<1>2. Cardinality(Users(ofile, f)) # 0
  BY <1>1, UsersFinite, FS_EmptySet
<1>3. file[f].ref = Cardinality(Users(ofile, f))
  BY DEF RefsCount, Users
<1>4. QED
  BY <1>2, <1>3, UsersFinite

-----------------------------------------------------------------------------
(* Frames: what a step may change without touching an end of a pipe.       *)

\* NULL is none of the values that a variable has otherwise.
LEMMA NotNull ==
  /\ \A i \in Pipes : i # NULL /\ <<i, "nread">> # NULL /\ <<i, "nwrite">> # NULL
  /\ \A f \in Files : f # NULL
  /\ NULL \notin PipeStates /\ NULL \notin Requests /\ NULL \notin Seq(Nat)
<1>1. \A i \in Pipes : <<i, "nread">> \in Channels /\ <<i, "nwrite">> \in Channels
  BY DEF Channels
<1>2. QED
  BY <1>1, FileAssumption, Zenon

\* A process inside read() or write() keeps an end open.
LEMMA EndOpen ==
  ASSUME FilesInv, NEW p \in Procs, InPipe(p)
  PROVE  /\ call[p].pipe \in Pipes /\ pipe[call[p].pipe] \in PipeStates
         /\ \E f \in Files : HasEnd(f, call[p].pipe, call[p].op = "write")
         /\ IF call[p].op = "write" THEN pipe[call[p].pipe].writeopen ELSE pipe[call[p].pipe].readopen
<1>1. PICK fd \in Slots : Reaches(p, fd, call[p].pipe, call[p].op = "write")
  BY DEF FilesInv, CallsHold
<1>2. ofile[p][fd] \in Files
  BY <1>1 DEF Reaches, FilesInv, FileTypes
<1>3. HasEnd(ofile[p][fd], call[p].pipe, call[p].op = "write")
  BY <1>1, <1>2, Referenced DEF Reaches, HasEnd, FilesInv
<1>4. call[p] \in Requests /\ call[p].op \in {"read", "write"}
  BY DEF FilesInv, FileTypes, InPipe
<1>5. call[p].pipe \in Pipes
  BY <1>4 DEF Requests
<1>6. /\ pipe[call[p].pipe] # NULL
      /\ IF call[p].op = "write" THEN pipe[call[p].pipe].writeopen ELSE pipe[call[p].pipe].readopen
  BY <1>2, <1>3, <1>5 DEF FilesInv, PipeEnds, HasEnd
<1>7. QED
  BY <1>2, <1>3, <1>5, <1>6 DEF FilesInv, FileTypes

\* A sleeper has its end open.
LEMMA SleeperOpen ==
  ASSUME FilesInv, NEW p \in Procs, NEW i \in Pipes,
         asleep[p] = <<i, "nread">> \/ asleep[p] = <<i, "nwrite">>
  PROVE  /\ InPipe(p) /\ call[p].pipe = i
         /\ (call[p].op = "write" <=> asleep[p] = <<i, "nwrite">>)
         /\ pipe[i] \in PipeStates
         /\ \E f \in Files : HasEnd(f, i, call[p].op = "write")
<1>1. asleep[p] # NULL
  BY NotNull
<1>2. /\ InPipe(p)
      /\ asleep[p] = <<call[p].pipe, IF call[p].op = "write" THEN "nwrite" ELSE "nread">>
  BY <1>1 DEF FilesInv, Sleepers
<1>3. call[p].pipe = i /\ (call[p].op = "write" <=> asleep[p] = <<i, "nwrite">>)
  BY <1>2
<1>4. QED
  BY <1>2, <1>3, EndOpen

\* A process that is in no call, or in a pipe() that has no pipe yet.
Quiet(c) == c = NULL \/ c.op \in {"pipe", "bad"}

\* The ends, the locks and the sleepers of the pipes stay right when nobody
\* enters or leaves pipe code.
LEMMA PipesAlone ==
  ASSUME FilesInv, UNCHANGED pipe, FileTypes', RefsCount', FileKinds', Pending',
         \A q \in Procs : call'[q] = call[q] \/ (Quiet(call[q]) /\ Quiet(call'[q])),
         \A q \in Procs : asleep'[q] \in {asleep[q], NULL},
         \A f \in Files, i \in Pipes, w \in BOOLEAN : HasEnd(f, i, w)' <=> HasEnd(f, i, w),
         \A q \in Procs, fd \in Slots : \A i \in Pipes, w \in BOOLEAN :
           InPipe(q) /\ Reaches(q, fd, i, w) => Reaches(q, fd, i, w)'
  PROVE  FilesInv'
<1>1. \A p \in Procs, i \in Pipes, w \in BOOLEAN : ClosesEnd(p, i, w)' <=> ClosesEnd(p, i, w)
  BY DEF ClosesEnd, Quiet
<1>2. OneUser'
  BY <1>1 DEF FilesInv, OneUser
<1>3. PipeEnds'
  <2>1. ASSUME NEW i \in Pipes, NEW w \in BOOLEAN
        PROVE  (\E h \in Files : HasEnd(h, i, w)') \/ (\E q \in Procs : ClosesEnd(q, i, w)')
                 <=> (\E h \in Files : HasEnd(h, i, w)) \/ (\E q \in Procs : ClosesEnd(q, i, w))
    BY <1>1
  <2>2. QED
    BY <2>1 DEF FilesInv, PipeEnds, HasEnd, ClosesEnd
<1>4. \A q \in Procs : InPipe(q)' => call'[q] = call[q] /\ InPipe(q)
  BY DEF InPipe, Quiet
<1>5. CallsHold'
  <2>1. ASSUME NEW q \in Procs, InPipe(q)'
        PROVE  \E fd \in Slots : Reaches(q, fd, call[q].pipe, call[q].op = "write")'
    <3>1. InPipe(q) /\ call'[q] = call[q]
      BY <1>4, <2>1
    <3>2. PICK i \in Pipes, w \in BOOLEAN : i = call[q].pipe /\ w = (call[q].op = "write")
      BY <3>1, EndOpen
    <3>3. PICK fd \in Slots : Reaches(q, fd, i, w)
      BY <3>1, <3>2 DEF FilesInv, CallsHold
    <3>4. Reaches(q, fd, i, w)'
      BY <3>1, <3>3
    <3>5. QED
      BY <3>1, <3>2, <3>4 DEF Reaches
  <2>2. QED
    BY <1>4, <2>1 DEF CallsHold, Reaches
<1>6. Sleepers'
  <2>1. ASSUME NEW q \in Procs, asleep'[q] # NULL
        PROVE  /\ InPipe(q)' /\ call'[q] = call[q]
               /\ asleep'[q] = <<call[q].pipe, IF call[q].op = "write" THEN "nwrite" ELSE "nread">>
    <3>1. asleep'[q] = asleep[q]
      BY <2>1
    <3>2. InPipe(q) /\ asleep[q] = <<call[q].pipe, IF call[q].op = "write" THEN "nwrite" ELSE "nread">>
      BY <2>1, <3>1 DEF FilesInv, Sleepers
    <3>3. call'[q] = call[q]
      BY <3>2 DEF InPipe, Quiet
    <3>4. QED
      BY <3>1, <3>2, <3>3 DEF InPipe
  <2>2. QED
    BY <2>1 DEF Sleepers
<1>7. NotOverfull'
  BY DEF FilesInv, NotOverfull
<1>8. SleepersRight'
  BY NotNull DEF FilesInv, SleepersRight
<1>9. Locks'
  <2>1. \A q \in Procs, i \in Pipes : HasLock(q, i)' => HasLock(q, i) /\ call'[q] = call[q]
    BY <1>4 DEF HasLock
  <2>2. QED
    BY <2>1 DEF FilesInv, Locks
<1>10. QED
  BY <1>2, <1>3, <1>5, <1>6, <1>7, <1>8, <1>9 DEF FilesInv

\* The files of unfinished pipe() calls stay what they are.
LEMMA PendingKept ==
  ASSUME FilesInv, UNCHANGED call,
         \A q \in Procs, s \in {RF, WF} :
           /\ ofile'[q][s] = ofile[q][s]
           /\ ofile[q][s] # NULL => /\ file'[ofile[q][s]].ref = file[ofile[q][s]].ref
                                    /\ file'[ofile[q][s]].type = file[ofile[q][s]].type
  PROVE  Pending'
  BY DEF FilesInv, Pending, InOp

\* A step that changes nothing but what a call returned.
LEMMA Same ==
  ASSUME FilesInv, UNCHANGED <<ofile, file, pipe, asleep, killed, call, disk>>
  PROVE  FilesInv'
<1>1. FileTypes' /\ RefsCount' /\ FileKinds'
  BY DEF FilesInv, FileTypes, RefsCount, FileKinds
<1>2. Pending'
  BY PendingKept
<1>3. QED
  BY <1>1, <1>2, PipesAlone DEF HasEnd, Reaches

-----------------------------------------------------------------------------
(* The steps that leave the ends of pipes alone.                           *)

\* The lowest free descriptor of fdalloc(), the first free file of filealloc().
LEMMA FreeFdsIn ==
  ASSUME FilesInv, NEW p \in Procs
  PROVE  /\ FreeFds(p) \in SUBSET Nat /\ FreeFds(p) \subseteq Fds /\ IsFiniteSet(FreeFds(p))
         /\ Free \in SUBSET Nat /\ Free \subseteq Files /\ IsFiniteSet(Free)
         /\ FreeFds(p) # {} => Least(FreeFds(p)) \in Fds /\ ofile[p][Least(FreeFds(p))] = NULL
         /\ Free # {} => Least(Free) \in Files /\ file[Least(Free)].ref = 0
<1>1. FreeFds(p) \in SUBSET Nat /\ FreeFds(p) \in SUBSET Fds
  BY FileAssumption DEF FreeFds, Fds
<1>2. Free \in SUBSET Nat /\ Free \in SUBSET Files
  BY FileAssumption DEF Free, Files
<1>3. IsFiniteSet(Fds) /\ IsFiniteSet(Files)
  BY FileAssumption, FS_Interval DEF Fds, Files
<1>4. IsFiniteSet(FreeFds(p)) /\ IsFiniteSet(Free)
  BY <1>1, <1>2, <1>3, FS_Subset
<1>5. FreeFds(p) # {} => Least(FreeFds(p)) \in FreeFds(p)
  BY <1>1, LeastIn
<1>6. Free # {} => Least(Free) \in Free
  BY <1>2, LeastIn
<1>7. QED
  BY <1>1, <1>2, <1>4, <1>5, <1>6 DEF FreeFds, Free

\* RefsCount, for the tables o.
LEMMA RefsCountIs ==
  RefsCount <=> \A f \in Files : file[f].ref = Cardinality(Users(ofile, f))
  BY DEF RefsCount, Users

\* Files that keep what they are.
SameFile(r, s) ==
  /\ s.type = r.type /\ s.pipe = r.pipe /\ s.readable = r.readable /\ s.writable = r.writable
  /\ s.ip = r.ip /\ s.off = r.off

\* A file with another reference count is the same file.
LEMMA SetRef ==
  ASSUME NEW r \in FileStates, NEW n \in Nat
  PROVE  /\ [r EXCEPT !.ref = n] \in FileStates
         /\ [r EXCEPT !.ref = n].ref = n
         /\ SameFile(r, [r EXCEPT !.ref = n])
  BY DEF FileStates, SameFile

\* What a file is does not depend on the number of references, if there is one.
LEMMA SameKinds ==
  ASSUME FileTypes, FileKinds, FileTypes', UNCHANGED disk,
         \A h \in Files : (file'[h].ref > 0 <=> file[h].ref > 0) /\ SameFile(file[h], file'[h])
  PROVE  FileKinds'
<1>1. \A h \in Files : file[h].ref \in Nat /\ file'[h].ref \in Nat
  BY DEF FileTypes, FileStates
<1>2. \A h \in Files : file'[h].ref = 0 => file[h].ref = 0
  BY <1>1
<1>3. QED
  BY <1>2 DEF FileKinds, SameFile

\* A file with one reference is in one entry of one table.
LEMMA LastOne ==
  ASSUME FilesInv, NEW f \in Files, file[f].ref = 1, NEW p \in Procs, NEW q \in Procs, NEW fd \in Slots, NEW d \in Slots,
         ofile[p][fd] = f, ofile[q][d] = f
  PROVE  q = p /\ d = fd
<1>1. Cardinality(Users(ofile, f)) = 1
  BY RefsCountIs DEF FilesInv
<1>2. PICK x : Users(ofile, f) = {x}
  BY <1>1, UsersFinite, FS_Singleton
<1>3. <<p, fd>> \in Users(ofile, f) /\ <<q, d>> \in Users(ofile, f)
  BY DEF Users
<1>4. QED
  BY <1>2, <1>3

\* A file that a pipe() has got is in no descriptor.
LEMMA OnlyHere ==
  ASSUME FilesInv, NEW q \in Procs, NEW s \in {RF, WF}, ofile[q][s] # NULL,
         NEW p \in Procs, NEW fd \in Slots, ofile[p][fd] = ofile[q][s]
  PROVE  p = q /\ fd = s
<1>1. s \in Slots
  BY SlotsAre
<1>2. PICK f \in Files : ofile[q][s] = f
  BY <1>1 DEF FilesInv, FileTypes
<1>3. file[f].ref = 1
  BY <1>2 DEF FilesInv, Pending
<1>4. QED
  BY <1>1, <1>2, <1>3, LastOne

\* dup() keeps the invariant: one descriptor more, one reference more.
LEMMA DupStep ==
  ASSUME FilesInv, NEW p \in Procs, NEW fd \in Fds, call[p] = NULL, Dup(p, fd)
  PROVE  FilesInv'
<1>1. CASE ofile[p][fd] = NULL \/ FreeFds(p) = {}
  <2>1. UNCHANGED <<ofile, file, pipe, asleep, killed, call, disk>>
    BY <1>1 DEF Dup
  <2>2. QED
    BY <2>1, Same
<1>2. CASE ~(ofile[p][fd] = NULL \/ FreeFds(p) = {})
  <2>1. PICK f \in Files, g \in Fds :
          /\ ofile[p][fd] = f /\ ofile[p][g] = NULL
          /\ ofile' = [ofile EXCEPT ![p][g] = f]
          /\ file' = [file EXCEPT ![f].ref = @ + 1]
          /\ UNCHANGED <<pipe, asleep, killed, call, disk>>
    <3>1. ofile[p][fd] \in Files /\ Least(FreeFds(p)) \in Fds /\ ofile[p][Least(FreeFds(p))] = NULL
      BY <1>2, FreeFdsIn, SlotsAre DEF FilesInv, FileTypes
    <3>2. /\ ofile' = [ofile EXCEPT ![p][Least(FreeFds(p))] = ofile[p][fd]]
          /\ file' = [file EXCEPT ![ofile[p][fd]].ref = @ + 1]
          /\ UNCHANGED <<pipe, asleep, killed, call, disk>>
      BY <1>2, Zenon DEF Dup
    <3>3. QED
      BY <3>1, <3>2, Zenon
  <2>2. file[f].ref > 0 /\ file[f] \in FileStates
    BY <2>1, SlotsAre, Referenced DEF FilesInv, FileTypes
  <2>3. PICK r \in FileStates : r = [file[f] EXCEPT !.ref = @ + 1] /\ r.ref = file[f].ref + 1 /\ SameFile(file[f], r)
    <3>1. PICK a \in FileStates, n \in Nat : a = file[f] /\ n = a.ref + 1
      BY <2>2 DEF FileStates
    <3>2. [a EXCEPT !.ref = n] \in FileStates /\ [a EXCEPT !.ref = n].ref = n /\ SameFile(a, [a EXCEPT !.ref = n])
      BY SetRef
    <3>3. QED
      BY <3>1, <3>2
  <2>4. /\ file' \in [Files -> FileStates]
        /\ \A h \in Files : /\ file'[h].ref = IF h = f THEN file[h].ref + 1 ELSE file[h].ref
                            /\ SameFile(file[h], file'[h])
    BY <2>1, <2>3 DEF FilesInv, FileTypes, SameFile
  <2>5. \A h \in Files : file'[h].ref > 0 <=> file[h].ref > 0
    <3>1. file[f].ref \in Nat
      BY <2>2 DEF FileStates
    <3>2. QED
      BY <2>2, <2>4, <3>1
  <2>6. ofile \in Tables /\ ofile' \in Tables /\ Puts(ofile, ofile', p, g, f)
    BY <2>1, SlotsAre DEF FilesInv, FileTypes, Tables, Puts
  <2>7. FileTypes'
    BY <2>1, <2>4, <2>6 DEF FilesInv, FileTypes, Tables
  <2>8. RefsCount'
    <3>1. ASSUME NEW h \in Files
          PROVE  file'[h].ref = Cardinality(Users(ofile', h))
      BY <2>1, <2>4, <2>6, SlotsAre, NotNull, SetFd, RefsCountIs DEF FilesInv
    <3>2. QED
      BY <3>1 DEF RefsCount, Users
  <2>9. FileKinds'
    BY <2>1, <2>4, <2>5, <2>7, SameKinds DEF FilesInv
  <2>10. \A h \in Files, i \in Pipes, w \in BOOLEAN : HasEnd(h, i, w)' <=> HasEnd(h, i, w)
    BY <2>4, <2>5 DEF HasEnd, SameFile
  <2>11. ASSUME NEW q \in Procs, NEW d \in Slots, NEW i \in Pipes, NEW w \in BOOLEAN, Reaches(q, d, i, w)
         PROVE  Reaches(q, d, i, w)'
    BY <2>1, <2>4, <2>6, <2>11 DEF Reaches, FilesInv, FileTypes, Puts, SameFile
  <2>12. ASSUME NEW q \in Procs, NEW s \in {RF, WF}
         PROVE  /\ ofile'[q][s] = ofile[q][s]
                /\ ofile[q][s] # NULL => file'[ofile[q][s]] = file[ofile[q][s]]
    <3>1. ofile'[q][s] = ofile[q][s]
      BY <2>6, SlotsAre DEF Puts
    <3>2. ofile[q][s] # f
      BY <2>1, SlotsAre, OnlyHere, NotNull
    <3>3. ofile[q][s] # NULL => ofile[q][s] \in Files
      BY SlotsAre DEF FilesInv, FileTypes
    <3>4. QED
      BY <2>1, <3>1, <3>2, <3>3 DEF FilesInv, FileTypes
  <2>13. Pending'
    BY <2>1, <2>12, PendingKept
  <2>14. QED
    BY <2>1, <2>7, <2>8, <2>9, <2>10, <2>11, <2>13, PipesAlone
<1>3. QED
  BY <1>1, <1>2

\* What fileclose() leaves of a file is no end of a pipe.
LEMMA ClosedState ==
  /\ Closed \in FileStates /\ Closed.ref = 0 /\ Closed.type = "NONE" /\ Closed.pipe = NULL
  /\ Closed.readable = FALSE /\ Closed.writable = FALSE
  BY DEF Closed, FileStates

\* fileclose() keeps it: the last reference of a pipe end becomes a pipeclose().
LEMMA FileCloseStep ==
  ASSUME FilesInv, NEW p \in Procs, NEW fd \in Slots, Quiet(call[p]), ofile[p][fd] # NULL,
         NEW next \in {NULL, [op |-> "bad"]}, FileClose(p, fd, next),
         \A s \in {RF, WF} : s # fd /\ ofile[p][s] # NULL => s = WF /\ next # NULL,
         next # NULL => fd # WF /\ ofile[p][WF] # NULL
  PROVE  FilesInv'
<1>1. PICK f \in Files :
        /\ ofile[p][fd] = f
        /\ ofile' = [ofile EXCEPT ![p][fd] = NULL]
        /\ file' = IF LastReference(f) THEN [file EXCEPT ![f] = Closed] ELSE [file EXCEPT ![f].ref = @ - 1]
        /\ call' = [call EXCEPT ![p] = IF LastReference(f) /\ file[f].type = "PIPE"
                                       THEN [op |-> "pipeclose", pipe |-> file[f].pipe,
                                             writable |-> file[f].writable]
                                       ELSE next]
        /\ UNCHANGED <<pipe, asleep, killed, disk>>
  <2>1. ofile[p][fd] \in Files
    BY DEF FilesInv, FileTypes
  <2>2. QED
    BY <2>1, Zenon DEF FileClose
<1>2. file[f].ref > 0 /\ file[f] \in FileStates
  BY <1>1, Referenced DEF FilesInv, FileTypes
<1>3. file[f].ref \in Nat
  BY <1>2 DEF FileStates
<1>4. ofile \in Tables /\ ofile' \in Tables /\ Puts(ofile, ofile', p, fd, NULL)
  BY <1>1 DEF FilesInv, FileTypes, Tables, Puts
<1>5. PICK r \in FileStates : /\ file'[f] = r /\ r.ref = file[f].ref - 1
                              /\ r.ref > 0 => SameFile(file[f], r)
                              /\ IF LastReference(f) THEN r = Closed ELSE r.ref > 0
  <2>1. CASE LastReference(f)
    <3>1. file'[f] = Closed /\ Closed.ref = file[f].ref - 1 /\ ~(Closed.ref > 0)
      BY <1>1, <2>1, ClosedState DEF LastReference, FilesInv, FileTypes
    <3>2. QED
      BY <2>1, <3>1, ClosedState
  <2>2. CASE ~LastReference(f)
    <3>1. file[f].ref - 1 \in Nat /\ file[f].ref - 1 > 0
      BY <1>2, <1>3, <2>2 DEF LastReference
    <3>2. /\ [file[f] EXCEPT !.ref = file[f].ref - 1] \in FileStates
          /\ [file[f] EXCEPT !.ref = file[f].ref - 1].ref = file[f].ref - 1
          /\ SameFile(file[f], [file[f] EXCEPT !.ref = file[f].ref - 1])
      BY <1>2, <3>1, SetRef, Zenon
    <3>3. file'[f] = [file[f] EXCEPT !.ref = file[f].ref - 1]
      BY <1>1, <2>2 DEF FilesInv, FileTypes
    <3>4. QED
      BY <2>2, <3>1, <3>2, <3>3
  <2>3. QED
    BY <2>1, <2>2
<1>6. /\ file' \in [Files -> FileStates] /\ file'[f] = r
      /\ \A h \in Files \ {f} : file'[h] = file[h]
  BY <1>1, <1>5 DEF FilesInv, FileTypes
<1>7. RefsCount'
  <2>1. ASSUME NEW h \in Files
        PROVE  file'[h].ref = Cardinality(Users(ofile', h))
    <3>1. Cardinality(Users(ofile', h)) = IF h = f THEN Cardinality(Users(ofile, h)) - 1 ELSE Cardinality(Users(ofile, h))
      BY <1>1, <1>4, NotNull, SetFd
    <3>2. file[h].ref = Cardinality(Users(ofile, h))
      BY RefsCountIs DEF FilesInv
    <3>3. QED
      BY <1>5, <1>6, <3>1, <3>2
  <2>2. QED
    BY <2>1 DEF RefsCount, Users
<1>8. FileKinds'
  <2>1. \A h \in Files \ {f} :
          /\ file'[h] = file[h]
          /\ file[h].type = "INODE" => disk'[file[h].ip] = disk[file[h].ip]
    BY <1>1, <1>6
  <2>2. CASE LastReference(f)
    BY <1>1, <1>5, <1>6, <2>1, <2>2, ClosedState DEF FilesInv, FileKinds
  <2>3. CASE ~LastReference(f)
    <3>1. file'[f].ref # 0 /\ SameFile(file[f], file'[f])
      BY <1>5, <1>6, <2>3 DEF FileStates
    <3>2. QED
      BY <1>1, <2>1, <3>1 DEF FilesInv, FileKinds, SameFile
  <2>4. QED
    BY <2>2, <2>3
<1>9. \A q \in Procs, d \in Slots : q # p \/ d # fd => ofile'[q][d] = ofile[q][d]
  BY <1>4 DEF Puts
<1>13. PICK c \in Requests \cup {NULL} :
         /\ call' = [call EXCEPT ![p] = c]
         /\ IF LastReference(f) /\ file[f].type = "PIPE"
            THEN c = [op |-> "pipeclose", pipe |-> file[f].pipe, writable |-> file[f].writable] /\ c # NULL
            ELSE c = next
  <2>1. CASE LastReference(f) /\ file[f].type = "PIPE"
    <3>1. file[f].pipe \in Pipes /\ file[f].writable \in BOOLEAN
      BY <1>2, <2>1 DEF FilesInv, FileKinds, FileStates
    <3>2. [op |-> "pipeclose", pipe |-> file[f].pipe, writable |-> file[f].writable] \in Requests
      BY <3>1 DEF Requests
    <3>3. QED
      BY <1>1, <2>1, <3>2, NotNull
  <2>2. CASE ~(LastReference(f) /\ file[f].type = "PIPE")
    <3>1. next \in Requests \cup {NULL}
      BY DEF Requests
    <3>2. QED
      BY <1>1, <2>2, <3>1
  <2>3. QED
    BY <2>1, <2>2
<1>14. /\ call' \in [Procs -> Requests \cup {NULL}] /\ call'[p] = c
       /\ \A q \in Procs \ {p} : call'[q] = call[q]
  BY <1>13 DEF FilesInv, FileTypes
<1>15. FileTypes'
  BY <1>1, <1>4, <1>6, <1>14 DEF FilesInv, FileTypes, Tables
<1>16. Pending'
  <2>1. ASSUME NEW q \in Procs, NEW s \in {RF, WF}, q # p \/ s # fd
        PROVE  /\ ofile'[q][s] = ofile[q][s]
               /\ ofile[q][s] # NULL => file'[ofile[q][s]] = file[ofile[q][s]]
    <3>1. s \in Slots /\ ofile'[q][s] = ofile[q][s]
      BY <1>9, <2>1, SlotsAre
    <3>2. ofile[q][s] # f
      BY <1>1, <2>1, <3>1, OnlyHere, NotNull
    <3>3. QED
      BY <1>6, <3>1, <3>2 DEF FilesInv, FileTypes
  <2>2. ofile'[p][fd] = NULL
    BY <1>4 DEF Puts
  <2>3. ASSUME NEW q \in Procs \ {p}
        PROVE  /\ \A s \in {RF, WF} : /\ ofile'[q][s] = ofile[q][s]
                                      /\ ofile[q][s] # NULL => file'[ofile[q][s]] = file[ofile[q][s]]
               /\ call'[q] = call[q]
    BY <1>14, <2>1
  <2>4. /\ ofile'[p][RF] = NULL
        /\ ofile'[p][WF] # NULL => next # NULL /\ ofile[p][WF] # NULL /\ file'[ofile[p][WF]].ref = 1
                                  /\ ofile'[p][WF] = ofile[p][WF]
        /\ next # NULL => ofile'[p][WF] # NULL
    <3>1. ofile'[p][RF] = NULL
      BY <2>1, <2>2, SlotsAre
    <3>2. ASSUME ofile'[p][WF] # NULL
          PROVE  next # NULL /\ ofile[p][WF] # NULL /\ file'[ofile[p][WF]].ref = 1 /\ ofile'[p][WF] = ofile[p][WF]
      <4>1. WF # fd /\ ofile'[p][WF] = ofile[p][WF] /\ file'[ofile[p][WF]] = file[ofile[p][WF]]
        BY <2>1, <2>2, <3>2
      <4>2. QED
        BY <3>2, <4>1 DEF FilesInv, Pending
    <3>3. QED
      BY <2>1, <3>1, <3>2
  <2>5. /\ c # NULL => c.op \in {"bad", "pipeclose"}
        /\ c # NULL /\ c.op = "bad" => next # NULL
        /\ next # NULL => c # NULL
    BY <1>13
  <2>6. ASSUME NEW q \in Procs \ {p}
        PROVE  /\ ofile'[q][RF] # NULL => InOp(q, "pipe")' \/ InOp(q, "bad")'
               /\ ofile'[q][WF] # NULL => InOp(q, "pipe")' \/ InOp(q, "bad")' \/ InOp(q, "pipeclose")'
               /\ InOp(q, "pipe")' /\ ofile'[q][WF] # NULL => ofile'[q][RF] # NULL
               /\ InOp(q, "bad")' => ofile'[q][RF] # NULL \/ ofile'[q][WF] # NULL
               /\ \A s \in {RF, WF} : ofile'[q][s] # NULL =>
                    file'[ofile'[q][s]].ref = 1 /\ (InOp(q, "pipe")' => file'[ofile'[q][s]].type = "NONE")
    BY <2>3 DEF FilesInv, Pending, InOp
  <2>7. QED
    BY <1>14, <2>4, <2>5, <2>6 DEF Pending, InOp
<1>10. CASE ~(LastReference(f) /\ file[f].type = "PIPE")
  <2>2. LastReference(f) => file[f].pipe = NULL /\ r.ref = 0
    BY <1>2, <1>5, <1>10, ClosedState DEF FilesInv, FileKinds, FileStates
  <2>3. \A h \in Files, i \in Pipes, w \in BOOLEAN : HasEnd(h, i, w)' <=> HasEnd(h, i, w)
    BY <1>2, <1>5, <1>6, <2>2, NotNull DEF HasEnd, SameFile
  <2>4. ASSUME NEW q \in Procs, NEW d \in Slots, NEW i \in Pipes, NEW w \in BOOLEAN,
               InPipe(q), Reaches(q, d, i, w)
        PROVE  Reaches(q, d, i, w)'
    <3>1. q # p /\ ofile'[q][d] = ofile[q][d] /\ ofile[q][d] \in Files
      BY <1>9, <2>4 DEF Reaches, FilesInv, FileTypes, InPipe, Quiet
    <3>2. QED
      BY <1>5, <1>6, <2>2, <2>4, <3>1, NotNull DEF Reaches, SameFile
  <2>5. \A q \in Procs : call'[q] = call[q] \/ (Quiet(call[q]) /\ Quiet(call'[q]))
    BY <1>10, <1>13, <1>14 DEF Quiet
  <2>6. QED
    BY <1>1, <1>7, <1>8, <1>15, <1>16, <2>3, <2>4, <2>5, PipesAlone
<1>11. CASE LastReference(f) /\ file[f].type = "PIPE"
  <2>1. PICK i \in Pipes, w \in BOOLEAN :
          /\ file[f].pipe = i /\ file[f].writable = w
          /\ call'[p] # NULL /\ call'[p] = [op |-> "pipeclose", pipe |-> i, writable |-> w]
    BY <1>2, <1>11, <1>13, <1>14 DEF FilesInv, FileKinds, FileStates
  <2>2. \A q \in Procs : InPipe(q)' <=> q # p /\ InPipe(q)
    BY <1>14, <2>1 DEF InPipe, Quiet
  <2>3. /\ HasEnd(f, i, w)
        /\ \A h \in Files, j \in Pipes, v \in BOOLEAN : HasEnd(h, j, v)' <=> HasEnd(h, j, v) /\ h # f
    BY <1>2, <1>5, <1>6, <1>11, <2>1 DEF HasEnd, LastReference
  <2>4. /\ call'[p] # NULL /\ call'[p].op = "pipeclose" /\ call'[p].pipe = i /\ call'[p].writable = w
        /\ \A q \in Procs \ {p} : call'[q] = call[q]
    BY <1>14, <2>1
  <2>5. \A q \in Procs, j \in Pipes, v \in BOOLEAN :
          ClosesEnd(q, j, v)' <=> ClosesEnd(q, j, v) \/ (q = p /\ j = i /\ v = w)
    BY <2>4 DEF ClosesEnd, Quiet
  <2>6. OneUser'
    BY <2>3, <2>5 DEF FilesInv, OneUser
  <2>7. PipeEnds'
    <3>1. ASSUME NEW j \in Pipes, NEW v \in BOOLEAN
          PROVE  (\E h \in Files : HasEnd(h, j, v)') \/ (\E q \in Procs : ClosesEnd(q, j, v)')
                   <=> (\E h \in Files : HasEnd(h, j, v)) \/ (\E q \in Procs : ClosesEnd(q, j, v))
      <4>1. CASE j = i /\ v = w
        BY <2>3, <2>5, <4>1
      <4>2. CASE ~(j = i /\ v = w)
        BY <2>1, <2>3, <2>5, <4>2 DEF HasEnd
      <4>3. QED
        BY <4>1, <4>2
    <3>2. QED
      BY <1>1, <3>1 DEF FilesInv, PipeEnds, HasEnd, ClosesEnd
  <2>8. CallsHold'
    <3>1. ASSUME NEW q \in Procs, InPipe(q)'
          PROVE  \E d \in Slots : Reaches(q, d, call[q].pipe, call[q].op = "write")'
      <4>1. q # p /\ call'[q] = call[q] /\ InPipe(q)
        BY <2>2, <2>4, <3>1
      <4>2. PICK d \in Slots : Reaches(q, d, call[q].pipe, call[q].op = "write")
        BY <3>1, <4>1 DEF FilesInv, CallsHold
      <4>3. ofile'[q][d] = ofile[q][d] /\ ofile[q][d] \in Files
        BY <1>9, <4>1, <4>2 DEF Reaches, FilesInv, FileTypes
      <4>4. ofile[q][d] # f
        BY <1>1, <1>11, <4>1, LastOne DEF LastReference
      <4>5. QED
        BY <1>6, <4>1, <4>2, <4>3, <4>4 DEF Reaches
    <3>2. QED
      BY <3>1 DEF CallsHold, Reaches
  <2>9. Sleepers'
    <3>1. \A q \in Procs : asleep[q] # NULL => InPipe(q) /\ q # p
      BY DEF FilesInv, Sleepers, InPipe, Quiet
    <3>2. QED
      BY <1>1, <2>2, <2>4, <3>1 DEF FilesInv, Sleepers
  <2>10. NotOverfull' /\ SleepersRight'
    BY <1>1 DEF FilesInv, NotOverfull, SleepersRight
  <2>11. Locks'
    <3>1. \A q \in Procs, j \in Pipes : HasLock(q, j)' => HasLock(q, j) /\ call'[q] = call[q]
      BY <2>2, <2>4 DEF HasLock
    <3>2. QED
      BY <1>1, <3>1 DEF FilesInv, Locks
  <2>12. QED
    BY <1>7, <1>8, <1>15, <1>16, <2>6, <2>7, <2>8, <2>9, <2>10, <2>11 DEF FilesInv
<1>12. QED
  BY <1>10, <1>11

\* close(), from a call that has not begun.
LEMMA CloseStep ==
  ASSUME FilesInv, NEW p \in Procs, NEW fd \in Fds, call[p] = NULL, Close(p, fd)
  PROVE  FilesInv'
<1>1. CASE ofile[p][fd] = NULL
  BY <1>1, Same DEF Close, fvars
<1>2. CASE ofile[p][fd] # NULL
  <2>1. FileClose(p, fd, NULL)
    BY <1>2 DEF Close
  <2>2. \A s \in {RF, WF} : ofile[p][s] = NULL
    BY DEF FilesInv, Pending, InOp
  <2>3. QED
    BY <1>2, <2>1, <2>2, SlotsAre, FileCloseStep DEF Quiet
<1>3. QED
  BY <1>1, <1>2

\* kill() keeps it: its target is no longer asleep, and nothing else.
LEMMA KillStep ==
  ASSUME FilesInv, NEW p \in Procs, Kill(p)
  PROVE  FilesInv'
<1>1. FileTypes' /\ RefsCount' /\ FileKinds'
  BY DEF Kill, FilesInv, FileTypes, RefsCount, FileKinds
<1>2. \A q \in Procs : asleep'[q] \in {asleep[q], NULL}
  BY DEF Kill, FilesInv, FileTypes
<1>3. Pending'
  BY PendingKept DEF Kill
<1>4. QED
  BY <1>1, <1>2, <1>3, PipesAlone DEF Kill, HasEnd, Reaches

\* An open inode file whose offset moves, while inodes only grow.
LEMMA OffsetStep ==
  ASSUME FilesInv, NEW f \in Files, NEW n \in Nat, file[f].ref > 0, file[f].type = "INODE",
         file' = [file EXCEPT ![f].off = n], UNCHANGED <<ofile, pipe, asleep, killed, call>>,
         disk' \in [Inodes -> Seq(Nat) \cup {NULL}],
         \A ip \in Inodes : disk[ip] # NULL => disk'[ip] # NULL /\ Len(disk'[ip]) >= Len(disk[ip]),
         n <= Len(disk'[file[f].ip])
  PROVE  FilesInv'
<1>1. /\ file' \in [Files -> FileStates]
      /\ \A h \in Files : /\ file'[h].ref = file[h].ref /\ file'[h].type = file[h].type
                          /\ file'[h].pipe = file[h].pipe /\ file'[h].readable = file[h].readable
                          /\ file'[h].writable = file[h].writable /\ file'[h].ip = file[h].ip
                          /\ file'[h].off = IF h = f THEN n ELSE file[h].off
  <2>1. PICK r \in FileStates : r = file[f]
    BY DEF FilesInv, FileTypes
  <2>2. [file[f] EXCEPT !.off = n] \in FileStates
    <3>1. [r EXCEPT !.off = n] \in FileStates
      BY DEF FileStates
    <3>2. QED
      BY <2>1, <3>1
  <2>3. file' \in [Files -> FileStates]
    BY <2>2 DEF FilesInv, FileTypes
  <2>4. QED
    BY <2>1, <2>3 DEF FilesInv, FileTypes, FileStates
<1>2. FileTypes'
  BY <1>1 DEF FilesInv, FileTypes
<1>3. RefsCount'
  BY <1>1 DEF FilesInv, RefsCount
<1>4. FileKinds'
  <2>1. ASSUME NEW h \in Files, file[h].type = "INODE"
        PROVE  /\ file[h].pipe = NULL /\ file[h].ip \in Inodes /\ disk'[file[h].ip] # NULL
               /\ file'[h].off <= Len(disk'[file[h].ip])
    <3>1. /\ file[h].pipe = NULL /\ file[h].ip \in Inodes /\ disk[file[h].ip] # NULL
          /\ file[h].off <= Len(disk[file[h].ip]) /\ file[h].off \in Nat
      BY <2>1 DEF FilesInv, FileKinds, FileTypes, FileStates
    <3>2. Len(disk[file[h].ip]) \in Nat /\ Len(disk'[file[h].ip]) \in Nat
      BY <3>1 DEF FilesInv, FileTypes
    <3>3. QED
      BY <1>1, <3>1, <3>2
  <2>2. QED
    BY <1>1, <2>1 DEF FilesInv, FileKinds
<1>5. Pending'
  <2>1. \A q \in Procs, s \in {RF, WF} : ofile[q][s] # NULL => ofile[q][s] \in Files
    BY SlotsAre DEF FilesInv, FileTypes
  <2>2. QED
    BY <1>1, <2>1, PendingKept
<1>6. ASSUME NEW q \in Procs, NEW d \in Slots, NEW i \in Pipes, NEW w \in BOOLEAN, Reaches(q, d, i, w)
      PROVE  Reaches(q, d, i, w)'
  BY <1>1, <1>6 DEF Reaches, FilesInv, FileTypes
<1>7. QED
  BY <1>1, <1>2, <1>3, <1>4, <1>5, <1>6, PipesAlone DEF HasEnd

\* A process begins to read or write a pipe.
LEMMA EnterPipe ==
  ASSUME FilesInv, NEW p \in Procs, NEW fd \in Slots, NEW f \in Files, NEW op \in {"read", "write"}, NEW bytes \in Seq(Nat),
         call[p] = NULL, asleep[p] = NULL, ofile[p][fd] = f, file[f].type = "PIPE",
         IF op = "read" THEN file[f].readable ELSE file[f].writable,
         call' = [call EXCEPT ![p] = [op |-> op, pipe |-> file[f].pipe, bytes |-> bytes, locked |-> FALSE]],
         UNCHANGED <<ofile, file, pipe, asleep, killed, disk>>
  PROVE  FilesInv'
<1>1. file[f].ref > 0
  BY Referenced DEF FilesInv
<1>2. PICK i \in Pipes : file[f].pipe = i /\ file[f].writable = (op = "write")
  <2>1. file[f].writable \in BOOLEAN
    BY DEF FilesInv, FileTypes, FileStates
  <2>2. QED
    BY <1>1, <2>1 DEF FilesInv, FileKinds
<1>3. [op |-> op, pipe |-> i, bytes |-> bytes, locked |-> FALSE] \in Requests
  BY DEF Requests
<1>4. /\ call'[p] # NULL /\ call'[p].op = op /\ call'[p].pipe = i /\ call'[p].locked = FALSE
      /\ \A q \in Procs \ {p} : call'[q] = call[q]
      /\ call' \in [Procs -> Requests \cup {NULL}]
  BY <1>2, <1>3, NotNull DEF FilesInv, FileTypes
<1>5. FileTypes' /\ RefsCount' /\ FileKinds'
  BY <1>4 DEF FilesInv, FileTypes, RefsCount, FileKinds
<1>6. \A q \in Procs, j \in Pipes, w \in BOOLEAN : ClosesEnd(q, j, w)' <=> ClosesEnd(q, j, w)
  BY <1>4 DEF ClosesEnd
<1>7. OneUser'
  BY <1>6 DEF FilesInv, OneUser, HasEnd
<1>8. PipeEnds'
  BY <1>6 DEF FilesInv, PipeEnds, ClosesEnd
<1>9. CallsHold'
  <2>1. ASSUME NEW q \in Procs, InPipe(q)'
        PROVE  \E d \in Slots : Reaches(q, d, call[q].pipe, call[q].op = "write")'
    <3>1. CASE q = p
      <4>1. Reaches(p, fd, i, op = "write")'
        BY <1>2, NotNull DEF Reaches
      <4>2. QED
        BY <1>4, <3>1, <4>1
    <3>2. CASE q # p
      BY <1>4, <2>1, <3>2 DEF FilesInv, CallsHold, Reaches, InPipe
    <3>3. QED
      BY <3>1, <3>2
  <2>2. QED
    BY <2>1 DEF CallsHold, Reaches
<1>10. Sleepers'
  BY <1>4 DEF FilesInv, Sleepers, InPipe
<1>11. NotOverfull' /\ SleepersRight'
  BY DEF FilesInv, NotOverfull, SleepersRight
<1>12. Locks'
  <2>1. \A q \in Procs, j \in Pipes : HasLock(q, j)' => HasLock(q, j) /\ call'[q] = call[q]
    BY <1>4 DEF HasLock, InPipe
  <2>2. QED
    BY <2>1 DEF FilesInv, Locks
<1>13. Pending'
  BY <1>4 DEF FilesInv, Pending, InOp
<1>14. QED
  BY <1>5, <1>7, <1>8, <1>9, <1>10, <1>11, <1>12, <1>13 DEF FilesInv

\* What readi() returns and writei() leaves.
LEMMA RestIs ==
  ASSUME NEW c \in Seq(Nat), NEW off \in Nat
  PROVE  /\ Rest(c, off) \in Seq(Nat)
         /\ Len(Rest(c, off)) = IF off <= Len(c) THEN Len(c) - off ELSE 0
  BY DEF Rest

\* writei() inside a file never makes it shorter.
LEMMA OverwriteIs ==
  ASSUME NEW c \in Seq(Nat), NEW off \in 0 .. Len(c), NEW bytes \in Seq(Nat)
  PROVE  /\ Overwrite(c, off, bytes) \in Seq(Nat)
         /\ Len(Overwrite(c, off, bytes)) >= Len(c)
         /\ Len(Overwrite(c, off, bytes)) >= off + Len(bytes)
<1>1. PICK a \in Seq(Nat) : a = SubSeq(c, 1, off) /\ Len(a) = off
  <2>1. SubSeq(c, 1, off) \in Seq(Nat) /\ Len(SubSeq(c, 1, off)) = off
    OBVIOUS
  <2>2. QED
    BY <2>1, Zenon
<1>2. PICK m \in Nat : m = off + Len(bytes)
  OBVIOUS
<1>3. PICK r \in Seq(Nat) : r = Rest(c, m) /\ Len(r) = IF m <= Len(c) THEN Len(c) - m ELSE 0
  BY RestIs
<1>4. PICK b \in Seq(Nat) : b = a \o bytes /\ Len(b) = m
  <2>1. a \o bytes \in Seq(Nat) /\ Len(a \o bytes) = m
    BY <1>1, <1>2
  <2>2. QED
    BY <2>1, Zenon
<1>5. PICK d \in Seq(Nat) : d = b \o r /\ Len(d) = Len(b) + Len(r)
  <2>1. b \o r \in Seq(Nat) /\ Len(b \o r) = Len(b) + Len(r)
    OBVIOUS
  <2>2. QED
    BY <2>1, Zenon
<1>6. Overwrite(c, off, bytes) = d
  BY <1>1, <1>2, <1>3, <1>4, <1>5 DEF Overwrite
<1>7. Len(d) >= Len(c) /\ Len(d) >= m
  BY <1>3, <1>4, <1>5
<1>8. QED
  BY <1>2, <1>6, <1>7

\* read() and write() keep it, up to the lock of a pipe.
LEMMA StartStep ==
  ASSUME FilesInv, NEW p \in Procs, NEW fd \in Fds, NEW op \in {"read", "write"}, NEW bytes \in Seq(Nat),
         call[p] = NULL, asleep[p] = NULL, Start(p, fd, op, bytes)
  PROVE  FilesInv'
<1> DEFINE ok(f) == IF op = "read" THEN file[f].readable ELSE file[f].writable
<1>0. UNCHANGED <<ofile, pipe, asleep, killed>>
  BY DEF Start
<1>1. CASE ofile[p][fd] = NULL \/ ~ok(ofile[p][fd])
  <2>1. UNCHANGED <<file, call, disk>>
    BY <1>1 DEF Start
  <2>2. QED
    BY <1>0, <2>1, Same
<1>2. CASE ~(ofile[p][fd] = NULL \/ ~ok(ofile[p][fd]))
  <2>1. PICK f \in Files : f = ofile[p][fd] /\ ok(f)
    BY <1>2, SlotsAre DEF FilesInv, FileTypes
  <2>2. file[f].ref > 0
    BY <2>1, SlotsAre, Referenced DEF FilesInv
  <2>3. CASE file[f].type = "PIPE"
    <3>1. call' = [call EXCEPT ![p] = [op |-> op, pipe |-> file[f].pipe, bytes |-> bytes, locked |-> FALSE]]
      BY <1>2, <2>1, <2>3 DEF Start
    <3>2. UNCHANGED <<disk, file>>
      BY <1>2, <2>1, <2>3 DEF Start
    <3>3. QED
      BY <1>0, <2>1, <2>3, <3>1, <3>2, SlotsAre, EnterPipe
  <2>4. CASE file[f].type # "PIPE"
    <3>1. /\ file[f].type = "INODE" /\ file[f].ip \in Inodes /\ disk[file[f].ip] \in Seq(Nat)
          /\ file[f].off <= Len(disk[file[f].ip]) /\ file[f].off \in Nat
      <4>1. file[f].type = "INODE"
        BY <2>1, <2>4 DEF FilesInv, FileKinds, FileTypes, FileStates
      <4>2. QED
        BY <4>1 DEF FilesInv, FileKinds, FileTypes, FileStates
    <3>2. CASE op = "read"
      <4>1. InodeRead(p, f)
        BY <1>2, <2>1, <2>4, <3>2 DEF Start
      <4>2. PICK n \in Nat : /\ file' = [file EXCEPT ![f].off = n] /\ n <= Len(disk[file[f].ip])
                             /\ UNCHANGED <<disk, call>>
        <5>1. PICK data \in Seq(Nat) :
                /\ data = IF file[f].ip = Console THEN <<>> ELSE Rest(disk[file[f].ip], file[f].off)
                /\ file[f].off + Len(data) <= Len(disk[file[f].ip])
          <6>1. CASE file[f].ip = Console
            <7>1. <<>> \in Seq(Nat) /\ file[f].off + Len(<<>>) <= Len(disk[file[f].ip])
              BY <3>1
            <7>2. QED
              BY <6>1, <7>1, Zenon
          <6>2. CASE file[f].ip # Console
            <7>1. /\ Rest(disk[file[f].ip], file[f].off) \in Seq(Nat)
                  /\ file[f].off + Len(Rest(disk[file[f].ip], file[f].off)) <= Len(disk[file[f].ip])
              <8>1. PICK c \in Seq(Nat), o \in Nat : c = disk[file[f].ip] /\ o = file[f].off /\ o <= Len(c)
                BY <3>1
              <8>2. Rest(c, o) \in Seq(Nat) /\ Len(Rest(c, o)) = Len(c) - o
                BY <8>1, RestIs
              <8>3. o + Len(Rest(c, o)) <= Len(c)
                BY <8>2
              <8>4. QED
                BY <8>1, <8>2, <8>3, Zenon
            <7>2. QED
              BY <6>2, <7>1, Zenon
          <6>3. QED
            BY <6>1, <6>2
        <5>2. PICK n \in Nat : n = file[f].off + Len(data)
          BY <3>1
        <5>3. file' = [file EXCEPT ![f].off = file[f].off + Len(data)] /\ UNCHANGED <<disk, call>>
          BY <4>1, <5>1, Zenon DEF InodeRead
        <5>4. file' = [file EXCEPT ![f].off = n]
          BY <5>2, <5>3, Zenon
        <5>5. QED
          BY <5>1, <5>2, <5>3, <5>4
      <4>3. disk \in [Inodes -> Seq(Nat) \cup {NULL}] /\ \A ip \in Inodes : disk[ip] # NULL => Len(disk[ip]) >= Len(disk[ip])
        BY DEF FilesInv, FileTypes
      <4>4. QED
        BY <1>0, <2>2, <3>1, <4>2, <4>3, OffsetStep
    <3>3. CASE op = "write"
      <4>1. InodeWrite(p, f, bytes) /\ call' = call
        BY <1>2, <2>1, <2>4, <3>3 DEF Start, InodeWrite
      <4>2. PICK off \in Nat : /\ off = IF file[f].ip = Console THEN Len(disk[file[f].ip]) ELSE file[f].off
                               /\ off <= Len(disk[file[f].ip])
        BY <3>1
      <4>3. PICK c \in Seq(Nat) : /\ c = Overwrite(disk[file[f].ip], off, bytes)
                                  /\ Len(c) >= Len(disk[file[f].ip]) /\ Len(c) >= off + Len(bytes)
        <5>1. disk[file[f].ip] \in Seq(Nat) /\ off \in 0 .. Len(disk[file[f].ip])
          BY <3>1, <4>2
        <5>2. QED
          BY <5>1, OverwriteIs, ZenonT(40)
      <4>4. disk' = [disk EXCEPT ![file[f].ip] = c]
        BY <4>1, <4>2, <4>3 DEF InodeWrite
      <4>5. /\ disk' \in [Inodes -> Seq(Nat) \cup {NULL}] /\ disk'[file[f].ip] = c
            /\ \A ip \in Inodes : disk[ip] # NULL => disk'[ip] # NULL /\ Len(disk'[ip]) >= Len(disk[ip])
        BY <3>1, <4>3, <4>4, NotNull DEF FilesInv, FileTypes
      <4>6. PICK n \in Nat : file' = [file EXCEPT ![f].off = n] /\ n <= Len(c)
        <5>1. CASE file[f].ip = Console
          <6>1. file' = file
            BY <4>1, <5>1 DEF InodeWrite
          <6>2. file = [file EXCEPT ![f].off = file[f].off]
            BY DEF FilesInv, FileTypes, FileStates
          <6>3. QED
            BY <3>1, <4>3, <6>1, <6>2
        <5>2. CASE file[f].ip # Console
          <6>1. PICK n \in Nat : n = file[f].off + Len(bytes) /\ n <= Len(c)
            BY <3>1, <4>2, <4>3, <5>2
          <6>2. file' = [file EXCEPT ![f].off = file[f].off + Len(bytes)]
            BY <4>1, <5>2 DEF InodeWrite
          <6>3. file' = [file EXCEPT ![f].off = n]
            BY <6>1, <6>2, Zenon
          <6>4. QED
            BY <6>1, <6>3
        <5>3. QED
          BY <5>1, <5>2
      <4>7. QED
        BY <1>0, <2>2, <3>1, <4>1, <4>5, <4>6, OffsetStep
    <3>4. QED
      BY <3>2, <3>3
  <2>5. QED
    BY <2>3, <2>4
<1>3. QED
  BY <1>1, <1>2

\* open() keeps it: a file with one reference, in one descriptor.
LEMMA OpenStep ==
  ASSUME FilesInv, NEW p \in Procs, call[p] = NULL, NEW ip \in Inodes, NEW write \in BOOLEAN, Open(p, ip, write)
  PROVE  FilesInv'
<1>1. PICK f \in Files, g \in Fds :
        /\ file[f].ref = 0 /\ ofile[p][g] = NULL
        /\ ofile' = [ofile EXCEPT ![p][g] = f]
        /\ file' = [file EXCEPT ![f] =
                      [Closed EXCEPT !.ref = 1, !.type = "INODE", !.readable = ~write, !.writable = write, !.ip = ip]]
        /\ disk' = IF disk[ip] = NULL THEN [disk EXCEPT ![ip] = <<>>] ELSE disk
        /\ UNCHANGED <<pipe, asleep, killed, call>>
  BY FreeFdsIn DEF Open, OpenFits
<1>2. PICK r \in FileStates : /\ r = [Closed EXCEPT !.ref = 1, !.type = "INODE", !.readable = ~write, !.writable = write, !.ip = ip]
                              /\ r.ref = 1 /\ r.type = "INODE" /\ r.pipe = NULL /\ r.ip = ip /\ r.off = 0
  <2> DEFINE r == [Closed EXCEPT !.ref = 1, !.type = "INODE", !.readable = ~write, !.writable = write, !.ip = ip]
  <2>1. r \in FileStates /\ r.ref = 1 /\ r.type = "INODE" /\ r.pipe = NULL /\ r.ip = ip /\ r.off = 0
    BY DEF Closed, FileStates
  <2>2. QED
    BY <2>1, Zenon
<1>3. file' \in [Files -> FileStates] /\ file'[f] = r /\ \A h \in Files \ {f} : file'[h] = file[h]
  BY <1>1, <1>2 DEF FilesInv, FileTypes
<1>4. ofile \in Tables /\ ofile' \in Tables /\ Puts(ofile, ofile', p, g, f)
  BY <1>1, SlotsAre DEF FilesInv, FileTypes, Tables, Puts
<1>5. /\ disk' \in [Inodes -> Seq(Nat) \cup {NULL}]
      /\ disk'[ip] # NULL /\ \A j \in Inodes : disk[j] # NULL => disk'[j] = disk[j]
  <2>1. <<>> \in Seq(Nat)
    OBVIOUS
  <2>2. QED
    BY <1>1, <2>1, NotNull DEF FilesInv, FileTypes
<1>6. FileTypes'
  BY <1>1, <1>3, <1>4, <1>5 DEF FilesInv, FileTypes, Tables
<1>7. RefsCount'
  <2>1. ASSUME NEW h \in Files
        PROVE  file'[h].ref = Cardinality(Users(ofile', h))
    <3>1. file[h].ref = Cardinality(Users(ofile, h))
      BY RefsCountIs DEF FilesInv
    <3>2. Cardinality(Users(ofile', h)) = IF h = f THEN Cardinality(Users(ofile, h)) + 1 ELSE Cardinality(Users(ofile, h))
      BY <1>1, <1>4, SlotsAre, NotNull, SetFd
    <3>3. QED
      BY <1>1, <1>2, <1>3, <3>1, <3>2
  <2>2. QED
    BY <2>1 DEF RefsCount, Users
<1>8. FileKinds'
  <2>1. Len(disk'[ip]) >= 0
    BY <1>5
  <2>2. file'[f].off <= Len(disk'[ip])
    BY <1>2, <1>3, <2>1
  <2>3. ASSUME NEW h \in Files \ {f}
        PROVE  /\ file'[h] = file[h]
               /\ file[h].type = "INODE" => file[h].ip \in Inodes /\ disk'[file[h].ip] = disk[file[h].ip]
    BY <1>3, <1>5 DEF FilesInv, FileKinds
  <2>4. /\ file'[f].ref = 1 /\ file'[f].type = "INODE" /\ file'[f].pipe = NULL
        /\ file'[f].ip \in Inodes /\ disk'[file'[f].ip] # NULL
        /\ file'[f].off <= Len(disk'[file'[f].ip])
    BY <1>2, <1>3, <1>5, <2>2
  <2>5. QED
    BY <2>3, <2>4 DEF FilesInv, FileKinds
<1>9. \A h \in Files, i \in Pipes, w \in BOOLEAN : HasEnd(h, i, w)' <=> HasEnd(h, i, w)
  BY <1>1, <1>2, <1>3, NotNull DEF HasEnd
<1>10. ASSUME NEW q \in Procs, NEW d \in Slots, NEW i \in Pipes, NEW w \in BOOLEAN,
              InPipe(q), Reaches(q, d, i, w)
       PROVE  Reaches(q, d, i, w)'
  <2>1. ofile'[q][d] = ofile[q][d] /\ ofile[q][d] \in Files
    BY <1>1, <1>4, <1>10 DEF Puts, Reaches, FilesInv, FileTypes, InPipe
  <2>2. file[ofile[q][d]].ref > 0
    BY <2>1, Referenced DEF FilesInv
  <2>3. QED
    BY <1>1, <1>3, <1>10, <2>1, <2>2 DEF Reaches
<1>11. Pending'
  <2>1. ASSUME NEW q \in Procs, NEW s \in {RF, WF}
        PROVE  /\ ofile'[q][s] = ofile[q][s]
               /\ ofile[q][s] # NULL => file'[ofile[q][s]] = file[ofile[q][s]]
    <3>1. s \in Slots /\ ofile'[q][s] = ofile[q][s]
      BY <1>4, SlotsAre DEF Puts
    <3>2. ofile[q][s] # NULL => ofile[q][s] \in Files /\ file[ofile[q][s]].ref > 0
      BY <3>1, Referenced DEF FilesInv, FileTypes
    <3>3. QED
      BY <1>1, <1>3, <3>1, <3>2
  <2>2. QED
    BY <1>1, <2>1, PendingKept
<1>12. QED
  BY <1>1, <1>6, <1>7, <1>8, <1>9, <1>10, <1>11, PipesAlone

\* The descriptors of a fork(): those there were, and as many as p has.
LEMMA UsersForked ==
  ASSUME NEW o \in Tables, NEW n \in Tables, NEW p \in Procs, NEW q \in Procs, p # q, NEW f \in Files,
         \A d \in Slots : o[q][d] = NULL /\ n[q][d] = o[p][d],
         \A x \in Procs \ {q}, d \in Slots : n[x][d] = o[x][d]
  PROVE  /\ Cardinality({d \in Slots : o[p][d] = f}) \in Nat
         /\ Cardinality(Users(n, f)) = Cardinality(Users(o, f)) + Cardinality({d \in Slots : o[p][d] = f})
         /\ Cardinality({d \in Slots : o[p][d] = f}) > 0 => Cardinality(Users(o, f)) > 0
<1> DEFINE D == {d \in Slots : o[p][d] = f}
           E == {<<q, d>> : d \in D}
<1>1. IsFiniteSet(D) /\ Cardinality(D) \in Nat
  <2>1. IsFiniteSet(Slots) /\ D \in SUBSET Slots
    BY SlotsAre
  <2>2. QED
    BY <2>1, FS_Subset, FS_CardinalityType
<1>2. IsFiniteSet(E) /\ Cardinality(E) = Cardinality(D)
  <2> DEFINE b == [d \in D |-> <<q, d>>]
  <2>1. b \in Bijection(D, E)
    BY DEF Bijection, Injection, Surjection, IsInjective
  <2>2. ExistsBijection(D, E)
    BY <2>1 DEF ExistsBijection
  <2>3. QED
    BY <1>1, <2>2, FS_Bijection
<1>3. Users(n, f) = Users(o, f) \cup E /\ Users(o, f) \cap E = {}
  <2>1. \A d \in Slots : o[q][d] # f
    BY NotNull
  <2>2. \A x \in Users(n, f) : x \in Users(o, f) \/ x \in E
    BY DEF Users
  <2>3. \A x \in Users(o, f) : x \in Users(n, f) /\ x \notin E
    BY <2>1 DEF Users
  <2>4. \A x \in E : x \in Users(n, f)
    BY DEF Users
  <2>5. QED
    BY <2>2, <2>3, <2>4
<1> HIDE DEF D, E
<1>4. Cardinality(Users(n, f)) = Cardinality(Users(o, f)) + Cardinality(D)
  <2>1. IsFiniteSet(Users(o, f)) /\ Cardinality(Users(o, f)) \in Nat
    BY UsersFinite
  <2>2. Cardinality(Users(o, f) \cup E) = Cardinality(Users(o, f)) + Cardinality(E) - Cardinality(Users(o, f) \cap E)
    BY <1>2, <2>1, FS_Union
  <2>3. Cardinality({}) = 0
    BY FS_EmptySet
  <2>4. Cardinality(Users(n, f)) = Cardinality(Users(o, f)) + Cardinality(D) - 0
    BY <1>2, <1>3, <2>2, <2>3, Zenon
  <2>5. QED
    BY <1>1, <2>1, <2>4
<1>5. Cardinality(D) > 0 => Cardinality(Users(o, f)) > 0
  <2>1. ASSUME Cardinality(D) > 0 PROVE Cardinality(Users(o, f)) > 0
    <3>1. PICK d \in Slots : o[p][d] = f
      <4>1. D # {}
        BY <1>1, <2>1, FS_EmptySet
      <4>2. QED
        BY <4>1 DEF D
    <3>2. <<p, d>> \in Users(o, f)
      BY <3>1 DEF Users
    <3>3. QED
      BY <3>2, UsersFinite, FS_EmptySet
  <2>2. QED
    BY <2>1
<1>6. QED
  BY <1>1, <1>4, <1>5 DEF D

\* fork() keeps it: every file has as many references more as p has descriptors.
LEMMA ForkStep ==
  ASSUME FilesInv, NEW p \in Procs, NEW q \in Procs \ {p}, call[p] = NULL, Forks(p, q)
  PROVE  FilesInv'
<1> DEFINE more(f) == Cardinality({d \in Slots : ofile[p][d] = f})
<1>1. ofile \in Tables /\ ofile' \in Tables
  BY DEF Forks, DupAll, FilesInv, FileTypes, Tables
<1>2. /\ \A d \in Slots : ofile[q][d] = NULL /\ ofile'[q][d] = ofile[p][d]
      /\ \A x \in Procs \ {q}, d \in Slots : ofile'[x][d] = ofile[x][d]
      /\ call[q] = NULL
      /\ UNCHANGED <<pipe, asleep, call, disk>> /\ killed' \in [Procs -> BOOLEAN]
  BY DEF Forks, DupAll, Fresh, FilesInv, FileTypes
<1>3. ASSUME NEW f \in Files
      PROVE  /\ more(f) \in Nat
             /\ Cardinality(Users(ofile', f)) = Cardinality(Users(ofile, f)) + more(f)
             /\ more(f) > 0 => Cardinality(Users(ofile, f)) > 0
  BY <1>1, <1>2, UsersForked
<1>4. ASSUME NEW f \in Files
      PROVE  /\ file'[f] \in FileStates /\ file'[f].ref = file[f].ref + more(f)
             /\ SameFile(file[f], file'[f])
  <2>1. PICK r \in FileStates : r = file[f]
    BY DEF FilesInv, FileTypes
  <2>2. PICK n \in Nat : n = r.ref + more(f)
    <3>1. r.ref \in Nat /\ more(f) \in Nat
      BY <1>3 DEF FileStates
    <3> HIDE DEF more
    <3>2. QED
      BY <3>1
  <2>3. file'[f] = [file[f] EXCEPT !.ref = file[f].ref + more(f)]
    BY DEF Forks, DupAll
  <2>4. file'[f] = [r EXCEPT !.ref = n]
    BY <2>1, <2>2, <2>3, Zenon
  <2>5. QED
    BY <2>1, <2>2, <2>4, SetRef
<1> HIDE DEF more
<1>5. file' \in [Files -> FileStates]
  BY <1>4 DEF Forks, DupAll
<1>6. FileTypes'
  BY <1>1, <1>2, <1>5 DEF FilesInv, FileTypes, Tables
<1>7. \A f \in Files : file[f].ref = Cardinality(Users(ofile, f)) /\ file[f].ref \in Nat
  BY RefsCountIs, UsersFinite DEF FilesInv
<1>8. RefsCount'
  <2>1. \A f \in Files : file'[f].ref = Cardinality(Users(ofile', f))
    BY <1>3, <1>4, <1>7
  <2>2. QED
    BY <2>1 DEF RefsCount, Users
<1>9. \A f \in Files : file'[f].ref > 0 <=> file[f].ref > 0
  BY <1>3, <1>4, <1>7
<1>10. FileKinds'
  BY <1>2, <1>4, <1>6, <1>9, SameKinds DEF FilesInv
<1>11. \A f \in Files, i \in Pipes, w \in BOOLEAN : HasEnd(f, i, w)' <=> HasEnd(f, i, w)
  BY <1>4, <1>9 DEF HasEnd, SameFile
<1>12. ASSUME NEW x \in Procs, NEW d \in Slots, NEW i \in Pipes, NEW w \in BOOLEAN,
              InPipe(x), Reaches(x, d, i, w)
       PROVE  Reaches(x, d, i, w)'
  BY <1>2, <1>4, <1>12 DEF Reaches, FilesInv, FileTypes, SameFile, InPipe
<1>13. Pending'
  <2>1. ASSUME NEW x \in Procs, NEW s \in {RF, WF}
        PROVE  /\ ofile'[x][s] = ofile[x][s]
               /\ ofile[x][s] # NULL => /\ file'[ofile[x][s]].ref = file[ofile[x][s]].ref
                                        /\ file'[ofile[x][s]].type = file[ofile[x][s]].type
    <3>1. s \in Slots /\ ofile[p][s] = NULL
      BY SlotsAre DEF FilesInv, Pending, InOp
    <3>2. ofile'[x][s] = ofile[x][s]
      BY <1>2, <3>1
    <3>3. ASSUME ofile[x][s] # NULL
          PROVE  more(ofile[x][s]) = 0 /\ ofile[x][s] \in Files
      <4>1. x # p
        BY <3>1, <3>3
      <4>2. {d \in Slots : ofile[p][d] = ofile[x][s]} = {}
        BY <3>3, <4>1, OnlyHere
      <4>3. more(ofile[x][s]) = 0
        BY <4>2, FS_EmptySet, Zenon DEF more
      <4>4. QED
        BY <3>1, <3>3, <4>3 DEF FilesInv, FileTypes
    <3>4. QED
      BY <1>4, <1>7, <3>2, <3>3 DEF SameFile
  <2>2. QED
    BY <1>2, <2>1, PendingKept
<1>14. QED
  BY <1>2, <1>6, <1>8, <1>10, <1>11, <1>12, <1>13, PipesAlone

-----------------------------------------------------------------------------
(* The steps that make, use and free pipes.                                *)

\* An end of a pipe that is not there has no users, and nobody is in its code.
LEMMA NoPipe ==
  ASSUME FilesInv, NEW i \in Pipes, pipe[i] = NULL
  PROVE  /\ \A f \in Files, w \in BOOLEAN : ~HasEnd(f, i, w)
         /\ \A p \in Procs, w \in BOOLEAN : ~ClosesEnd(p, i, w)
         /\ \A p \in Procs : asleep[p] # <<i, "nread">> /\ asleep[p] # <<i, "nwrite">>
         /\ \A p \in Procs : ~HasLock(p, i)
<1>1. \A f \in Files, w \in BOOLEAN : ~HasEnd(f, i, w)
  BY DEF FilesInv, PipeEnds, HasEnd
<1>2. \A p \in Procs, w \in BOOLEAN : ~ClosesEnd(p, i, w)
  BY DEF FilesInv, PipeEnds, ClosesEnd
<1>3. \A p \in Procs : ~HasLock(p, i)
  BY EndOpen, NotNull DEF HasLock
<1>4. QED
  BY <1>1, <1>2, <1>3, SleeperOpen, NotNull

\* pipe() begins.
LEMMA PipeCallStep ==
  ASSUME FilesInv, NEW p \in Procs, call[p] = NULL, PipeCall(p)
  PROVE  FilesInv'
<1>1. /\ call' = [call EXCEPT ![p] = [op |-> "pipe"]]
      /\ UNCHANGED <<ofile, file, pipe, asleep, killed, disk>>
  BY DEF PipeCall
<1>2. /\ call' \in [Procs -> Requests \cup {NULL}] /\ call'[p] # NULL /\ call'[p].op = "pipe"
      /\ \A q \in Procs \ {p} : call'[q] = call[q]
  <2>1. [op |-> "pipe"] \in Requests
    BY DEF Requests
  <2>2. QED
    BY <1>1, <2>1, NotNull DEF FilesInv, FileTypes
<1>3. FileTypes' /\ RefsCount' /\ FileKinds'
  BY <1>1, <1>2 DEF FilesInv, FileTypes, RefsCount, FileKinds
<1>4. Pending'
  <2>1. ofile[p][RF] = NULL /\ ofile[p][WF] = NULL
    BY DEF FilesInv, Pending, InOp
  <2>2. QED
    BY <1>1, <1>2, <2>1 DEF FilesInv, Pending, InOp
<1>5. \A q \in Procs : call'[q] = call[q] \/ (Quiet(call[q]) /\ Quiet(call'[q]))
  BY <1>2 DEF Quiet
<1>6. QED
  BY <1>1, <1>3, <1>4, <1>5, PipesAlone DEF HasEnd, Reaches

\* A pipe() that fails, with the files that it has got.
LEMMA PipeFails ==
  ASSUME FilesInv, NEW p \in Procs, InOp(p, "pipe"), NEW c \in {NULL, [op |-> "bad"]},
         c = NULL <=> ofile[p][RF] = NULL, call' = [call EXCEPT ![p] = c],
         UNCHANGED <<ofile, file, pipe, asleep, killed, disk>>
  PROVE  FilesInv'
<1>1. /\ call' \in [Procs -> Requests \cup {NULL}] /\ call'[p] = c
      /\ \A q \in Procs \ {p} : call'[q] = call[q]
  <2>1. [op |-> "bad"] \in Requests
    BY DEF Requests
  <2>2. QED
    BY <2>1 DEF FilesInv, FileTypes
<1>2. FileTypes' /\ RefsCount' /\ FileKinds'
  BY <1>1 DEF FilesInv, FileTypes, RefsCount, FileKinds
<1>3. Pending'
  <2>1. c # NULL => c.op = "bad"
    OBVIOUS
  <2>2. QED
    BY <1>1, <2>1 DEF FilesInv, Pending, InOp
<1>4. \A q \in Procs : call'[q] = call[q] \/ (Quiet(call[q]) /\ Quiet(call'[q]))
  BY <1>1 DEF Quiet, InOp
<1>5. QED
  BY <1>2, <1>3, <1>4, PipesAlone DEF HasEnd, Reaches

\* filealloc() in pipe() keeps it: a file with one reference that is no end yet.
LEMMA PipeFileStep ==
  ASSUME FilesInv, NEW p \in Procs, PipeFile(p)
  PROVE  FilesInv'
<1>1. PICK s \in {RF, WF} : /\ s = (IF ofile[p][RF] = NULL THEN RF ELSE WF) /\ s \in Slots
                            /\ ofile[p][s] = NULL
                            /\ s = RF <=> ofile[p][RF] = NULL
  BY SlotsAre DEF PipeFile
<1>2. InOp(p, "pipe") /\ ofile[p][WF] = NULL
  <2>1. call[p] = [op |-> "pipe"] /\ ofile[p][WF] = NULL
    BY DEF PipeFile
  <2>2. [op |-> "pipe"] \in Requests
    BY DEF Requests
  <2>3. QED
    BY <2>1, <2>2, NotNull DEF InOp
<1>3. UNCHANGED <<pipe, asleep, killed, disk>>
  BY DEF PipeFile
<1>4. CASE Free = {}
  <2>1. /\ call' = [call EXCEPT ![p] = IF s = RF THEN NULL ELSE [op |-> "bad"]]
        /\ UNCHANGED <<ofile, file>>
    BY <1>1, <1>4, Zenon DEF PipeFile
  <2>2. [op |-> "bad"] # NULL
    <3>1. [op |-> "bad"] \in Requests
      BY DEF Requests
    <3>2. QED
      BY <3>1, NotNull
  <2>3. QED
    BY <1>1, <1>2, <1>3, <2>1, <2>2, PipeFails
<1>5. CASE Free # {}
  <2>1. PICK f \in Files : /\ file[f].ref = 0 /\ ofile' = [ofile EXCEPT ![p][s] = f]
                           /\ file' = [file EXCEPT ![f].ref = 1] /\ UNCHANGED call
    <3>1. Least(Free) \in Files /\ file[Least(Free)].ref = 0
      BY <1>5, FreeFdsIn
    <3>2. /\ ofile' = [ofile EXCEPT ![p][s] = Least(Free)]
          /\ file' = [file EXCEPT ![Least(Free)].ref = 1] /\ UNCHANGED call
      BY <1>1, <1>5, Zenon DEF PipeFile
    <3>3. QED
      BY <3>1, <3>2, Zenon
  <2>2. /\ file' \in [Files -> FileStates] /\ file'[f].ref = 1 /\ SameFile(file[f], file'[f])
        /\ \A h \in Files \ {f} : file'[h] = file[h]
    <3>1. PICK r \in FileStates : r = file[f]
      BY DEF FilesInv, FileTypes
    <3>2. PICK t \in FileStates : t = [r EXCEPT !.ref = 1] /\ t.ref = 1 /\ SameFile(r, t)
      BY SetRef, Zenon
    <3>3. file' = [file EXCEPT ![f] = t]
      BY <2>1, <3>1, <3>2 DEF FilesInv, FileTypes
    <3>4. QED
      BY <3>1, <3>2, <3>3 DEF FilesInv, FileTypes
  <2>3. ofile \in Tables /\ ofile' \in Tables /\ Puts(ofile, ofile', p, s, f)
    BY <1>1, <2>1 DEF FilesInv, FileTypes, Tables, Puts
  <2>4. FileTypes'
    BY <1>3, <2>1, <2>2, <2>3 DEF FilesInv, FileTypes, Tables
  <2>5. RefsCount'
    <3>1. ASSUME NEW h \in Files
          PROVE  file'[h].ref = Cardinality(Users(ofile', h))
      <4>1. file[h].ref = Cardinality(Users(ofile, h))
        BY RefsCountIs DEF FilesInv
      <4>2. Cardinality(Users(ofile', h)) = IF h = f THEN Cardinality(Users(ofile, h)) + 1 ELSE Cardinality(Users(ofile, h))
        BY <1>1, <2>3, NotNull, SetFd
      <4>3. QED
        BY <2>1, <2>2, <4>1, <4>2
    <3>2. QED
      BY <3>1 DEF RefsCount, Users
  <2>6. file[f].type = "NONE" /\ file[f].pipe = NULL
    BY <2>1 DEF FilesInv, FileKinds
  <2>7. FileKinds'
    <3>1. ASSUME NEW h \in Files \ {f}
          PROVE  file'[h] = file[h] /\ (file[h].type = "INODE" => disk'[file[h].ip] = disk[file[h].ip])
      BY <1>3, <2>2
    <3>2. QED
      BY <2>2, <2>6, <3>1 DEF FilesInv, FileKinds, SameFile
  <2>8. \A h \in Files, i \in Pipes, w \in BOOLEAN : HasEnd(h, i, w)' <=> HasEnd(h, i, w)
    BY <2>1, <2>2, <2>6, NotNull DEF HasEnd, SameFile
  <2>9. ASSUME NEW q \in Procs, NEW d \in Slots, ofile[q][d] # NULL
        PROVE  /\ ofile[q][d] \in Files /\ ofile'[q][d] = ofile[q][d]
               /\ file'[ofile[q][d]] = file[ofile[q][d]]
    <3>1. ofile[q][d] \in Files /\ file[ofile[q][d]].ref > 0
      BY <2>9, Referenced DEF FilesInv, FileTypes
    <3>2. ofile'[q][d] = ofile[q][d]
      BY <1>1, <2>3, <2>9 DEF Puts
    <3>3. QED
      BY <2>1, <2>2, <3>1, <3>2
  <2>10. ASSUME NEW q \in Procs, NEW d \in Slots, NEW i \in Pipes, NEW w \in BOOLEAN, Reaches(q, d, i, w)
         PROVE  Reaches(q, d, i, w)'
    BY <2>9, <2>10 DEF Reaches
  <2>11. Pending'
    <3>1. /\ ofile'[p][s] = f /\ f # NULL
          /\ \A q \in Procs, x \in {RF, WF} : q # p \/ x # s => ofile'[q][x] = ofile[q][x]
      BY <1>1, <2>3, SlotsAre, NotNull DEF Puts
    <3>2. \A q \in Procs, x \in {RF, WF} : ofile[q][x] # NULL => file'[ofile[q][x]] = file[ofile[q][x]]
      BY <2>9, SlotsAre
    <3>3. file'[f].ref = 1 /\ file'[f].type = "NONE"
      BY <2>2, <2>6 DEF SameFile
    <3>4. ASSUME NEW q \in Procs, NEW x \in {RF, WF}, ofile'[q][x] # NULL
          PROVE  /\ file'[ofile'[q][x]].ref = 1 /\ (InOp(q, "pipe")' => file'[ofile'[q][x]].type = "NONE")
                 /\ ofile[q][x] = NULL => q = p /\ x = s
      <4>1. CASE q = p /\ x = s
        BY <3>1, <3>3, <4>1
      <4>2. CASE q # p \/ x # s
        BY <2>1, <3>1, <3>2, <3>4, <4>2 DEF FilesInv, Pending, InOp
      <4>3. QED
        BY <4>1, <4>2
    <3>5. \A q \in Procs, op \in {"pipe", "bad", "pipeclose"} : InOp(q, op)' <=> InOp(q, op)
      BY <2>1 DEF InOp
    <3>6. ASSUME NEW q \in Procs
          PROVE  /\ ofile'[q][RF] # NULL => InOp(q, "pipe") \/ InOp(q, "bad")
                 /\ ofile'[q][WF] # NULL => InOp(q, "pipe") \/ InOp(q, "bad") \/ InOp(q, "pipeclose")
      BY <1>2, <3>4 DEF FilesInv, Pending
    <3>7. ASSUME NEW q \in Procs
          PROVE  /\ InOp(q, "pipe") /\ ofile'[q][WF] # NULL => ofile'[q][RF] # NULL
                 /\ InOp(q, "bad") => ofile'[q][RF] # NULL \/ ofile'[q][WF] # NULL
      <4>1. CASE q = p
        BY <1>1, <1>2, <3>1, <4>1, SlotsAre DEF InOp
      <4>2. CASE q # p
        BY <3>1, <4>2 DEF FilesInv, Pending
      <4>3. QED
        BY <4>1, <4>2
    <3>8. QED
      BY <3>4, <3>5, <3>6, <3>7 DEF Pending
  <2>12. QED
    BY <1>3, <2>1, <2>4, <2>5, <2>7, <2>8, <2>10, <2>11, PipesAlone
<1>6. QED
  BY <1>4, <1>5

\* fdalloc() gives the files of rf and wf to two descriptors.
Moved(o, p, a, b, f, g) ==
  [o EXCEPT ![p] = [@ EXCEPT ![a] = f, ![b] = g, ![RF] = NULL, ![WF] = NULL]]

\* The tables have as many pointers to each file as before.
LEMMA MovedUsers ==
  ASSUME NEW o \in Tables, NEW n, NEW p \in Procs, NEW a \in Fds, NEW b \in Fds, a # b,
         NEW f \in Files, NEW g \in Files, f # g,
         o[p][a] = NULL, o[p][b] = NULL, o[p][RF] = f, o[p][WF] = g,
         n = Moved(o, p, a, b, f, g)
  PROVE  /\ n \in Tables /\ n[p][RF] = NULL /\ n[p][WF] = NULL
         /\ \A q \in Procs \ {p} : n[q] = o[q]
         /\ \A h \in Files : Cardinality(Users(n, h)) = Cardinality(Users(o, h))
<1>0. a \in Slots /\ b \in Slots /\ RF \in Slots /\ WF \in Slots /\ a # RF /\ a # WF /\ b # RF /\ b # WF /\ RF # WF
  BY SlotsAre
<1>1. PICK t \in [Slots -> Files \cup {NULL}] : t = o[p]
  BY DEF Tables
<1>2. PICK t1 \in [Slots -> Files \cup {NULL}] : t1 = [t EXCEPT ![a] = f]
  BY <1>0
<1>3. PICK t2 \in [Slots -> Files \cup {NULL}] : t2 = [t1 EXCEPT ![b] = g]
  BY <1>0
<1>4. PICK t3 \in [Slots -> Files \cup {NULL}] : t3 = [t2 EXCEPT ![RF] = NULL]
  BY <1>0
<1>5. PICK t4 \in [Slots -> Files \cup {NULL}] : t4 = [t3 EXCEPT ![WF] = NULL]
  BY <1>0
<1>6. n = [o EXCEPT ![p] = t4]
  <2>1. [t EXCEPT ![a] = f, ![b] = g, ![RF] = NULL, ![WF] = NULL] = t4
    BY <1>2, <1>3, <1>4, <1>5
  <2>2. n = [o EXCEPT ![p] = [o[p] EXCEPT ![a] = f, ![b] = g, ![RF] = NULL, ![WF] = NULL]]
    BY DEF Moved
  <2>3. QED
    BY <1>1, <2>1, <2>2, Zenon
<1>7. PICK o1 \in Tables : o1 = [o EXCEPT ![p] = t1]
  BY DEF Tables
<1>8. PICK o2 \in Tables : o2 = [o EXCEPT ![p] = t2]
  BY DEF Tables
<1>9. PICK o3 \in Tables : o3 = [o EXCEPT ![p] = t3]
  BY DEF Tables
<1>10. n \in Tables /\ n[p] = t4 /\ \A q \in Procs \ {p} : n[q] = o[q]
  BY <1>6 DEF Tables
<1>11. Puts(o, o1, p, a, f)
  BY <1>1, <1>2, <1>7 DEF Tables, Puts
<1>12. Puts(o1, o2, p, b, g)
  BY <1>3, <1>7, <1>8 DEF Tables, Puts
<1>13. Puts(o2, o3, p, RF, NULL)
  BY <1>4, <1>8, <1>9 DEF Tables, Puts
<1>14. Puts(o3, n, p, WF, NULL)
  <2>0. o3[p] = t3
    BY <1>9 DEF Tables
  <2>1. \A d \in Slots : n[p][d] = IF d = WF THEN NULL ELSE o3[p][d]
    BY <1>5, <1>10, <2>0
  <2>2. \A q \in Procs \ {p} : n[q] = o3[q]
    BY <1>9, <1>10 DEF Tables
  <2>3. QED
    BY <2>1, <2>2 DEF Puts
<1>15. n[p][RF] = NULL /\ n[p][WF] = NULL
  BY <1>0, <1>4, <1>5, <1>10
<1>16. ASSUME NEW h \in Files
       PROVE  Cardinality(Users(n, h)) = Cardinality(Users(o, h))
  <2>1. /\ o1[p][b] = NULL /\ o2[p][RF] = f /\ o3[p][WF] = g /\ f # NULL /\ g # NULL /\ h # NULL
    BY <1>0, <1>11, <1>12, <1>13, NotNull DEF Puts
  <2>2. Cardinality(Users(o1, h)) = IF h = f THEN Cardinality(Users(o, h)) + 1 ELSE Cardinality(Users(o, h))
    BY <1>0, <1>11, <2>1, SetFd
  <2>3. Cardinality(Users(o2, h)) = IF h = g THEN Cardinality(Users(o1, h)) + 1 ELSE Cardinality(Users(o1, h))
    BY <1>0, <1>12, <2>1, SetFd
  <2>4. Cardinality(Users(o3, h)) = IF h = f THEN Cardinality(Users(o2, h)) - 1 ELSE Cardinality(Users(o2, h))
    BY <1>0, <1>13, <2>1, SetFd
  <2>5. Cardinality(Users(n, h)) = IF h = g THEN Cardinality(Users(o3, h)) - 1 ELSE Cardinality(Users(o3, h))
    BY <1>0, <1>10, <1>14, <2>1, SetFd
  <2>6. Cardinality(Users(o, h)) \in Nat
    BY UsersFinite
  <2>7. QED
    BY <2>2, <2>3, <2>4, <2>5, <2>6
<1>17. QED
  BY <1>10, <1>15, <1>16

\* What pipe() does once it has a page: with two descriptors, or without.
MakesPipe(p, rf, wf, i) ==
  /\ file' = [file EXCEPT ![rf] = [Closed EXCEPT !.ref = 1, !.type = "PIPE", !.readable = TRUE, !.writable = FALSE, !.pipe = i],
                          ![wf] = [Closed EXCEPT !.ref = 1, !.type = "PIPE", !.readable = FALSE, !.writable = TRUE, !.pipe = i]]
  /\ pipe' = [pipe EXCEPT ![i] = [data |-> [k \in 0 .. PIPESIZE - 1 |-> 0], nread |-> 0, nwrite |-> 0,
                                  readopen |-> TRUE, writeopen |-> TRUE]]
  /\ \/ ofile' = ofile /\ call' = [call EXCEPT ![p] = [op |-> "bad"]]
     \/ /\ call' = [call EXCEPT ![p] = NULL]
        /\ \E a, b \in Fds :
             /\ a # b /\ ofile[p][a] = NULL /\ ofile[p][b] = NULL
             /\ ofile' = Moved(ofile, p, a, b, rf, wf)
  /\ UNCHANGED <<asleep, killed, disk>>

\* Two files become the ends of a new pipe.
LEMMA MakesPipeStep ==
  ASSUME FilesInv, NEW p \in Procs, InOp(p, "pipe"), NEW rf \in Files, NEW wf \in Files, NEW i \in Pipes,
         ofile[p][RF] = rf, ofile[p][WF] = wf, pipe[i] = NULL, MakesPipe(p, rf, wf, i)
  PROVE  FilesInv'
<1> DEFINE end(w) == [Closed EXCEPT !.ref = 1, !.type = "PIPE", !.readable = ~w, !.writable = w, !.pipe = i]
           new == [data |-> [k \in 0 .. PIPESIZE - 1 |-> 0], nread |-> 0, nwrite |-> 0,
                   readopen |-> TRUE, writeopen |-> TRUE]
<1>1. /\ file' = [file EXCEPT ![rf] = end(FALSE), ![wf] = end(TRUE)]
      /\ pipe' = [pipe EXCEPT ![i] = new]
      /\ UNCHANGED <<asleep, killed, disk>>
  <2>1. end(FALSE) = [Closed EXCEPT !.ref = 1, !.type = "PIPE", !.readable = TRUE, !.writable = FALSE, !.pipe = i]
    OBVIOUS
  <2>2. end(TRUE) = [Closed EXCEPT !.ref = 1, !.type = "PIPE", !.readable = FALSE, !.writable = TRUE, !.pipe = i]
    OBVIOUS
  <2> HIDE DEF end
  <2>3. QED
    BY <2>1, <2>2, Zenon DEF MakesPipe
<1>2. \A w \in BOOLEAN : /\ end(w) \in FileStates
                         /\ end(w).ref = 1 /\ end(w).type = "PIPE" /\ end(w).pipe = i
                         /\ end(w).readable = ~w /\ end(w).writable = w
  BY DEF Closed, FileStates
<1>3. new \in PipeStates /\ new # NULL /\ new.readopen /\ new.writeopen /\ Count(new) = 0
  <2>1. new \in PipeStates
    BY FileAssumption DEF PipeStates
  <2>2. (0 - 0) % W = 0
    BY FileAssumption
  <2>3. Count(new) = 0
    BY <2>2 DEF Count
  <2>4. QED
    BY <2>1, <2>3, NotNull
<1> HIDE DEF end, new
<1>4. \A s \in {RF, WF} : file[ofile[p][s]].ref = 1 /\ file[ofile[p][s]].type = "NONE"
  BY NotNull DEF FilesInv, Pending
<1>5. /\ rf # wf /\ file[rf].ref = 1 /\ file[wf].ref = 1
      /\ file[rf].pipe = NULL /\ file[wf].pipe = NULL
  <2>1. file[rf].ref = 1 /\ file[wf].ref = 1 /\ file[rf].type = "NONE" /\ file[wf].type = "NONE"
    BY <1>4
  <2>2. rf # wf
    BY SlotsAre, OnlyHere, NotNull
  <2>3. QED
    BY <2>1, <2>2 DEF FilesInv, FileKinds
<1>6. /\ pipe' \in [Pipes -> PipeStates \cup {NULL}] /\ pipe'[i] = new
      /\ \A j \in Pipes \ {i} : pipe'[j] = pipe[j]
  BY <1>1, <1>3 DEF FilesInv, FileTypes
<1>7. PICK c \in Requests \cup {NULL} :
        /\ call' \in [Procs -> Requests \cup {NULL}] /\ call'[p] = c
        /\ c # NULL => c.op = "bad"
        /\ \A q \in Procs \ {p} : call'[q] = call[q]
        /\ ofile' \in Tables
        /\ c = NULL => ofile'[p][RF] = NULL /\ ofile'[p][WF] = NULL
        /\ c # NULL => ofile' = ofile
        /\ \A q \in Procs \ {p} : ofile'[q] = ofile[q]
        /\ \A h \in Files : Cardinality(Users(ofile', h)) = Cardinality(Users(ofile, h))
  <2>0. ofile \in Tables /\ call \in [Procs -> Requests \cup {NULL}]
    BY DEF FilesInv, FileTypes, Tables
  <2>1. CASE ofile' = ofile /\ call' = [call EXCEPT ![p] = [op |-> "bad"]]
    <3>1. PICK c \in Requests : c = [op |-> "bad"] /\ c.op = "bad"
      <4>1. [op |-> "bad"] \in Requests /\ [op |-> "bad"].op = "bad"
        BY DEF Requests
      <4>2. QED
        BY <4>1, Zenon
    <3>2. c # NULL
      BY NotNull
    <3>3. call' \in [Procs -> Requests \cup {NULL}] /\ call'[p] = c /\ \A q \in Procs \ {p} : call'[q] = call[q]
      BY <2>0, <2>1, <3>1
    <3>4. QED
      BY <2>0, <2>1, <3>1, <3>2, <3>3
  <2>2. CASE call' = [call EXCEPT ![p] = NULL]
    <3>1. call' \in [Procs -> Requests \cup {NULL}] /\ call'[p] = NULL /\ \A q \in Procs \ {p} : call'[q] = call[q]
      BY <2>0, <2>2
    <3>2. CASE ofile' = ofile /\ call' = [call EXCEPT ![p] = [op |-> "bad"]]
      BY <2>1, <3>2
    <3>3. ASSUME NEW a \in Fds, NEW b \in Fds, a # b, ofile[p][a] = NULL, ofile[p][b] = NULL,
                 ofile' = Moved(ofile, p, a, b, rf, wf)
          PROVE  /\ ofile' \in Tables /\ ofile'[p][RF] = NULL /\ ofile'[p][WF] = NULL
                 /\ \A q \in Procs \ {p} : ofile'[q] = ofile[q]
                 /\ \A h \in Files : Cardinality(Users(ofile', h)) = Cardinality(Users(ofile, h))
      <4>1. rf # wf
        BY <1>5
      <4>2. QED
        BY <2>0, <3>3, <4>1, MovedUsers
    <3>4. CASE ~(ofile' = ofile /\ call' = [call EXCEPT ![p] = [op |-> "bad"]])
      <4>1. /\ ofile' \in Tables /\ ofile'[p][RF] = NULL /\ ofile'[p][WF] = NULL
            /\ \A q \in Procs \ {p} : ofile'[q] = ofile[q]
            /\ \A h \in Files : Cardinality(Users(ofile', h)) = Cardinality(Users(ofile, h))
        BY <3>3, <3>4, Zenon DEF MakesPipe
      <4>2. QED
        BY <3>1, <4>1
    <3>5. QED
      BY <3>2, <3>4
  <2>3. QED
    BY <2>1, <2>2, Zenon DEF MakesPipe
<1>8. /\ file' \in [Files -> FileStates] /\ file'[rf] = end(FALSE) /\ file'[wf] = end(TRUE)
      /\ \A h \in Files \ {rf, wf} : file'[h] = file[h]
      /\ file'[rf].ref = 1 /\ file'[rf].pipe = i /\ file'[rf].writable = FALSE
      /\ file'[wf].ref = 1 /\ file'[wf].pipe = i /\ file'[wf].writable = TRUE
  <2>1. /\ file' \in [Files -> FileStates] /\ file'[rf] = end(FALSE) /\ file'[wf] = end(TRUE)
        /\ \A h \in Files \ {rf, wf} : file'[h] = file[h]
    BY <1>1, <1>2, <1>5 DEF FilesInv, FileTypes
  <2>2. QED
    BY <1>2, <2>1
<1>9. FileTypes'
  BY <1>1, <1>6, <1>7, <1>8 DEF FilesInv, FileTypes, Tables
<1>10. RefsCount'
  <2>1. ASSUME NEW h \in Files
        PROVE  file'[h].ref = Cardinality(Users(ofile', h))
    <3>1. file[h].ref = Cardinality(Users(ofile, h))
      BY RefsCountIs DEF FilesInv
    <3>2. file'[h].ref = file[h].ref
      BY <1>5, <1>8
    <3>3. QED
      BY <1>7, <3>1, <3>2
  <2>2. QED
    BY <2>1 DEF RefsCount, Users
<1>11. FileKinds'
  <2>1. \A h \in Files \ {rf, wf} :
          file'[h] = file[h] /\ (file[h].type = "INODE" => disk'[file[h].ip] = disk[file[h].ip])
    BY <1>1, <1>8
  <2>2. \A h \in {rf, wf} : /\ file'[h].ref = 1 /\ file'[h].type = "PIPE" /\ file'[h].pipe \in Pipes
                            /\ file'[h].readable = ~file'[h].writable
    BY <1>2, <1>8
  <2>3. QED
    BY <2>1, <2>2 DEF FilesInv, FileKinds
<1>12. \A h \in Files, j \in Pipes, w \in BOOLEAN :
         HasEnd(h, j, w)' <=> HasEnd(h, j, w) \/ (j = i /\ h = IF w THEN wf ELSE rf)
  <2>1. ASSUME NEW h \in Files, NEW j \in Pipes, NEW w \in BOOLEAN
        PROVE  HasEnd(h, j, w)' <=> HasEnd(h, j, w) \/ (j = i /\ h = IF w THEN wf ELSE rf)
    <3>0. \A k \in {rf, wf} : ~HasEnd(k, j, w)
      BY <1>5, NotNull DEF HasEnd
    <3>1. CASE h = rf
      <4>1. CASE w = TRUE
        BY <1>5, <1>8, <3>0, <3>1, <4>1 DEF HasEnd
      <4>2. CASE w = FALSE
        <5>1. file'[h].ref > 0 /\ file'[h].pipe = i /\ file'[h].writable = w
          <6>1. file'[rf].ref = 1 /\ file'[rf].pipe = i /\ file'[rf].writable = FALSE
            BY <1>8
          <6>2. file'[h].ref = 1 /\ file'[h].pipe = i /\ file'[h].writable = w
            BY <6>1, <3>1, <4>2, Zenon
          <6>3. file'[h].ref > 0
            BY <6>2
          <6>4. QED
            BY <6>2, <6>3, Zenon
        <5>2. HasEnd(h, j, w)' <=> j = i
          BY <5>1 DEF HasEnd
        <5>3. ~HasEnd(h, j, w) /\ h = IF w THEN wf ELSE rf
          BY <1>5, <3>0, <3>1, <4>2 DEF HasEnd
        <5>4. QED
          BY <5>2, <5>3
      <4>3. QED
        BY <4>1, <4>2
    <3>2. CASE h = wf
      <4>1. CASE w = TRUE
        <5>1. file'[h].ref > 0 /\ file'[h].pipe = i /\ file'[h].writable = w
          <6>1. file'[wf].ref = 1 /\ file'[wf].pipe = i /\ file'[wf].writable = TRUE
            BY <1>8
          <6>2. file'[h].ref = 1 /\ file'[h].pipe = i /\ file'[h].writable = w
            BY <6>1, <3>2, <4>1, Zenon
          <6>3. file'[h].ref > 0
            BY <6>2
          <6>4. QED
            BY <6>2, <6>3, Zenon
        <5>2. HasEnd(h, j, w)' <=> j = i
          BY <5>1 DEF HasEnd
        <5>3. ~HasEnd(h, j, w) /\ h = IF w THEN wf ELSE rf
          BY <1>5, <3>0, <3>2, <4>1 DEF HasEnd
        <5>4. QED
          BY <5>2, <5>3
      <4>2. CASE w = FALSE
        BY <1>5, <1>8, <3>0, <3>2, <4>2 DEF HasEnd
      <4>3. QED
        BY <4>1, <4>2
    <3>3. CASE h \notin {rf, wf}
      BY <1>5, <1>8, <3>0, <3>3 DEF HasEnd
    <3>4. QED
      BY <3>1, <3>2, <3>3
  <2>2. QED
    BY <2>1
<1>13. \A q \in Procs : /\ InPipe(q) => q # p /\ call'[q] = call[q]
                        /\ InPipe(q)' <=> InPipe(q)
                        /\ asleep[q] # NULL => InPipe(q)
  BY <1>7 DEF FilesInv, Sleepers, InPipe, InOp
<1>14. \A q \in Procs, j \in Pipes, w \in BOOLEAN : ClosesEnd(q, j, w)' <=> ClosesEnd(q, j, w)
  BY <1>7 DEF ClosesEnd, InOp
<1>15. OneUser'
  BY <1>5, <1>12, <1>14, NoPipe DEF FilesInv, OneUser
<1>16. PipeEnds'
  <2>1. ASSUME NEW w \in BOOLEAN
        PROVE  /\ \E f \in Files : HasEnd(f, i, w)'
               /\ pipe'[i] # NULL /\ IF w THEN pipe'[i].writeopen ELSE pipe'[i].readopen
    BY <1>3, <1>6, <1>12
  <2>2. ASSUME NEW j \in Pipes \ {i}, NEW w \in BOOLEAN
        PROVE  /\ pipe'[j] = pipe[j]
               /\ \A f \in Files : HasEnd(f, j, w)' <=> HasEnd(f, j, w)
    BY <1>6, <1>12
  <2>3. QED
    BY <1>14, <2>1, <2>2 DEF FilesInv, PipeEnds, HasEnd, ClosesEnd
<1>17. CallsHold'
  <2>1. ASSUME NEW q \in Procs, InPipe(q)
        PROVE  \E d \in Slots : Reaches(q, d, call[q].pipe, call[q].op = "write")'
    <3>1. PICK d \in Slots : Reaches(q, d, call[q].pipe, call[q].op = "write")
      BY <2>1 DEF FilesInv, CallsHold
    <3>2. ofile[q][d] \in Files /\ ofile'[q][d] = ofile[q][d] /\ q # p /\ call'[q] = call[q]
      BY <1>7, <1>13, <2>1, <3>1 DEF FilesInv, FileTypes, Reaches
    <3>3. ofile[q][d] \notin {rf, wf}
      BY <3>2, OnlyHere, NotNull
    <3>4. QED
      BY <1>8, <3>1, <3>2, <3>3 DEF Reaches
  <2>2. QED
    BY <1>13, <2>1 DEF CallsHold, Reaches
<1>18. Sleepers'
  BY <1>1, <1>13 DEF FilesInv, Sleepers
<1>19. NotOverfull'
  BY <1>3, <1>6, FileAssumption DEF FilesInv, NotOverfull
<1>20. SleepersRight'
  <2>1. \A q \in Procs : asleep[q] # <<i, "nread">> /\ asleep[q] # <<i, "nwrite">>
    BY NoPipe
  <2>2. QED
    BY <1>1, <1>6, <2>1 DEF FilesInv, SleepersRight
<1>21. Locks'
  <2>1. \A q \in Procs, j \in Pipes : HasLock(q, j)' => HasLock(q, j) /\ call'[q] = call[q] /\ j # i
    BY <1>13, NoPipe DEF HasLock
  <2>2. QED
    BY <1>1, <1>6, <2>1 DEF FilesInv, Locks
<1>22. Pending'
  <2>1. ASSUME NEW q \in Procs \ {p}
        PROVE  /\ call'[q] = call[q]
               /\ \A s \in {RF, WF} : /\ ofile'[q][s] = ofile[q][s]
                                      /\ ofile[q][s] # NULL => file'[ofile[q][s]] = file[ofile[q][s]]
    <3>1. ASSUME NEW s \in {RF, WF}, ofile[q][s] # NULL
          PROVE  file'[ofile[q][s]] = file[ofile[q][s]]
      <4>1. s \in Slots /\ ofile[q][s] \in Files
        BY <3>1, SlotsAre DEF FilesInv, FileTypes
      <4>2. ofile[q][s] \notin {rf, wf}
        BY <3>1, <4>1, SlotsAre, OnlyHere
      <4>3. QED
        BY <1>8, <4>1, <4>2
    <3>2. QED
      BY <1>7, <3>1
  <2>2. ASSUME NEW q \in Procs \ {p}
        PROVE  /\ ofile'[q][RF] # NULL => InOp(q, "pipe")' \/ InOp(q, "bad")'
               /\ ofile'[q][WF] # NULL => InOp(q, "pipe")' \/ InOp(q, "bad")' \/ InOp(q, "pipeclose")'
               /\ InOp(q, "pipe")' /\ ofile'[q][WF] # NULL => ofile'[q][RF] # NULL
               /\ InOp(q, "bad")' => ofile'[q][RF] # NULL \/ ofile'[q][WF] # NULL
               /\ \A s \in {RF, WF} : ofile'[q][s] # NULL =>
                    file'[ofile'[q][s]].ref = 1 /\ (InOp(q, "pipe")' => file'[ofile'[q][s]].type = "NONE")
    BY <2>1 DEF FilesInv, Pending, InOp
  <2>3. /\ c # NULL => ofile'[p][RF] = rf /\ ofile'[p][WF] = wf /\ rf # NULL /\ wf # NULL
        /\ file'[rf].ref = 1 /\ file'[wf].ref = 1
    BY <1>7, <1>8, NotNull
  <2>4. /\ ofile'[p][RF] # NULL => InOp(p, "pipe")' \/ InOp(p, "bad")'
        /\ ofile'[p][WF] # NULL => InOp(p, "pipe")' \/ InOp(p, "bad")' \/ InOp(p, "pipeclose")'
        /\ InOp(p, "pipe")' /\ ofile'[p][WF] # NULL => ofile'[p][RF] # NULL
        /\ InOp(p, "bad")' => ofile'[p][RF] # NULL \/ ofile'[p][WF] # NULL
        /\ \A s \in {RF, WF} : ofile'[p][s] # NULL =>
             file'[ofile'[p][s]].ref = 1 /\ (InOp(p, "pipe")' => file'[ofile'[p][s]].type = "NONE")
    BY <1>7, <2>3 DEF InOp
  <2>5. QED
    BY <2>2, <2>4 DEF Pending
<1>23. QED
  BY <1>9, <1>10, <1>11, <1>15, <1>16, <1>17, <1>18, <1>19, <1>20, <1>21, <1>22 DEF FilesInv

\* pipealloc() and fdalloc() keep it, whether there is a page and two
\* descriptors or not.
LEMMA PipeAllocStep ==
  ASSUME FilesInv, NEW p \in Procs, PipeAlloc(p)
  PROVE  FilesInv'
<1>1. InOp(p, "pipe") /\ ofile[p][WF] # NULL
  <2>1. call[p] = [op |-> "pipe"] /\ ofile[p][WF] # NULL
    BY DEF PipeAlloc
  <2>2. [op |-> "pipe"] \in Requests
    BY DEF Requests
  <2>3. QED
    BY <2>1, <2>2, NotNull DEF InOp
<1>2. ofile[p][RF] # NULL
  BY <1>1 DEF FilesInv, Pending
<1>3. PICK rf \in Files, wf \in Files : ofile[p][RF] = rf /\ ofile[p][WF] = wf
  BY <1>1, <1>2, SlotsAre DEF FilesInv, FileTypes
<1>4. CASE \A k \in Pipes : pipe[k] # NULL
  <2>1. /\ call' = [call EXCEPT ![p] = [op |-> "bad"]]
        /\ UNCHANGED <<ofile, file, pipe, asleep, killed, disk>>
    BY <1>4, Zenon DEF PipeAlloc
  <2>2. [op |-> "bad"] # NULL
    <3>1. [op |-> "bad"] \in Requests
      BY DEF Requests
    <3>2. QED
      BY <3>1, NotNull
  <2>3. QED
    BY <1>1, <1>2, <2>1, <2>2, PipeFails
<1>5. CASE ~\A k \in Pipes : pipe[k] # NULL
  <2>1. PICK i \in Pipes : i = (CHOOSE j \in Pipes : pipe[j] = NULL) /\ pipe[i] = NULL
    BY <1>5
  <2>2. /\ file' = [file EXCEPT ![rf] = [Closed EXCEPT !.ref = 1, !.type = "PIPE", !.readable = ~FALSE, !.writable = FALSE, !.pipe = i],
                                ![wf] = [Closed EXCEPT !.ref = 1, !.type = "PIPE", !.readable = ~TRUE, !.writable = TRUE, !.pipe = i]]
        /\ pipe' = [pipe EXCEPT ![i] = [data |-> [k \in 0 .. PIPESIZE - 1 |-> 0], nread |-> 0, nwrite |-> 0,
                                        readopen |-> TRUE, writeopen |-> TRUE]]
        /\ IF Cardinality(FreeFds(p)) < 2
           THEN call' = [call EXCEPT ![p] = [op |-> "bad"]] /\ ofile' = ofile
           ELSE /\ ofile' = Moved(ofile, p, PipeFds(p)[1], PipeFds(p)[2], rf, wf)
                /\ call' = [call EXCEPT ![p] = NULL]
        /\ UNCHANGED <<asleep, killed, disk>>
    BY <1>3, <1>5, <2>1, Zenon DEF PipeAlloc, Moved
  <2>3. ASSUME ~(Cardinality(FreeFds(p)) < 2)
        PROVE  /\ PipeFds(p)[1] \in Fds /\ PipeFds(p)[2] \in Fds /\ PipeFds(p)[1] # PipeFds(p)[2]
               /\ ofile[p][PipeFds(p)[1]] = NULL /\ ofile[p][PipeFds(p)[2]] = NULL
    <3>1. FreeFds(p) \in SUBSET Nat /\ IsFiniteSet(FreeFds(p)) /\ Cardinality(FreeFds(p)) \in Nat
      BY FreeFdsIn, FS_CardinalityType
    <3>2. Least(FreeFds(p)) \in FreeFds(p) /\ Least(FreeFds(p) \ {Least(FreeFds(p))}) \in FreeFds(p) \ {Least(FreeFds(p))}
      <4>1. Cardinality(FreeFds(p)) >= 2
        BY <2>3, <3>1
      <4>2. QED
        BY <3>1, <4>1, LeastTwo
    <3>3. PICK a, b : /\ a = Least(FreeFds(p)) /\ b = Least(FreeFds(p) \ {a})
                      /\ a \in FreeFds(p) /\ b \in FreeFds(p) /\ a # b
      BY <3>2
    <3>4. PipeFds(p)[1] = a /\ PipeFds(p)[2] = b
      BY <3>3 DEF PipeFds
    <3>5. QED
      BY <3>3, <3>4 DEF FreeFds
  <2>4. MakesPipe(p, rf, wf, i)
    <3>1. \/ ofile' = ofile /\ call' = [call EXCEPT ![p] = [op |-> "bad"]]
          \/ /\ call' = [call EXCEPT ![p] = NULL]
             /\ \E a, b \in Fds :
                  /\ a # b /\ ofile[p][a] = NULL /\ ofile[p][b] = NULL
                  /\ ofile' = Moved(ofile, p, a, b, rf, wf)
      BY <2>2, <2>3, Zenon
    <3>2. ~FALSE = TRUE /\ ~TRUE = FALSE
      OBVIOUS
    <3>3. file' = [file EXCEPT ![rf] = [Closed EXCEPT !.ref = 1, !.type = "PIPE", !.readable = TRUE, !.writable = FALSE, !.pipe = i],
                              ![wf] = [Closed EXCEPT !.ref = 1, !.type = "PIPE", !.readable = FALSE, !.writable = TRUE, !.pipe = i]]
      BY <2>2, <3>2
    <3>4. QED
      BY <2>2, <3>1, <3>3, Zenon DEF MakesPipe
  <2>5. QED
    BY <1>1, <1>3, <2>1, <2>4, MakesPipeStep
<1>6. QED
  BY <1>4, <1>5

\* What a pipe() that failed does at its end keeps it.
LEMMA PipeBadStep ==
  ASSUME FilesInv, NEW p \in Procs, PipeBad(p)
  PROVE  FilesInv'
<1>1. [op |-> "bad"] \in Requests /\ [op |-> "bad"] # NULL
  <2>1. [op |-> "bad"] \in Requests
    BY DEF Requests
  <2>2. QED
    BY <2>1, NotNull
<1>2. InOp(p, "bad") /\ Quiet(call[p])
  <2>1. call[p] = [op |-> "bad"]
    BY DEF PipeBad
  <2>2. QED
    BY <1>1, <2>1 DEF InOp, Quiet
<1>3. CASE ofile[p][RF] # NULL
  <2>1. FileClose(p, RF, Bad(p))
    BY <1>3 DEF PipeBad
  <2>2. PICK next \in {NULL, [op |-> "bad"]} : next = Bad(p) /\ (next # NULL <=> ofile[p][WF] # NULL)
    BY <1>1 DEF Bad
  <2>3. FileClose(p, RF, next)
    BY <2>1, <2>2, Zenon
  <2>4. QED
    BY <1>2, <1>3, <2>2, <2>3, SlotsAre, FileCloseStep
<1>4. CASE ofile[p][RF] = NULL
  <2>1. FileClose(p, WF, NULL) /\ ofile[p][WF] # NULL
    BY <1>2, <1>4 DEF PipeBad, FilesInv, Pending
  <2>2. QED
    BY <1>2, <1>4, <2>1, SlotsAre, FileCloseStep
<1>5. QED
  BY <1>3, <1>4

\* One end fewer: the page is freed with the second one.
LEMMA EndedIs ==
  ASSUME NEW q \in PipeStates, NEW w \in BOOLEAN
  PROVE  /\ Ended(q, w) \in PipeStates \cup {NULL}
         /\ Ended(q, w) # NULL <=> IF w THEN q.readopen ELSE q.writeopen
         /\ Ended(q, w) # NULL => /\ Ended(q, w).nread = q.nread /\ Ended(q, w).nwrite = q.nwrite
                                  /\ Ended(q, w).readopen = (q.readopen /\ w)
                                  /\ Ended(q, w).writeopen = (q.writeopen /\ ~w)
<1> DEFINE r == IF w THEN [q EXCEPT !.writeopen = FALSE] ELSE [q EXCEPT !.readopen = FALSE]
<1>1. /\ r \in PipeStates /\ r.nread = q.nread /\ r.nwrite = q.nwrite
      /\ r.readopen = (q.readopen /\ w) /\ r.writeopen = (q.writeopen /\ ~w)
      /\ q.readopen \in BOOLEAN /\ q.writeopen \in BOOLEAN
  <2>1. CASE w = TRUE
    BY <2>1 DEF PipeStates
  <2>2. CASE w = FALSE
    BY <2>2 DEF PipeStates
  <2>3. QED
    BY <2>1, <2>2
<1>2. Ended(q, w) = IF r.readopen \/ r.writeopen THEN r ELSE NULL
  BY DEF Ended
<1>3. r # NULL
  BY <1>1, NotNull
<1> HIDE DEF r
<1>4. CASE w = TRUE
  BY <1>1, <1>2, <1>3, <1>4
<1>5. CASE w = FALSE
  BY <1>1, <1>2, <1>3, <1>5
<1>6. QED
  BY <1>4, <1>5

\* Nobody sleeps on a pipe that loses an end: the users of the other end are
\* woken, and the end that closes has no users left.
LEMMA NobodyLeft ==
  ASSUME FilesInv, NEW p \in Procs, NEW i \in Pipes, NEW w \in BOOLEAN, ClosesEnd(p, i, w),
         asleep' = Wake({<<i, OtherEnd(w)>>})
  PROVE  /\ asleep' \in [Procs -> Channels \cup {NULL}]
         /\ \A q \in Procs : /\ asleep'[q] \in {asleep[q], NULL}
                             /\ asleep'[q] # <<i, "nread">> /\ asleep'[q] # <<i, "nwrite">>
<1>1. /\ asleep' \in [Procs -> Channels \cup {NULL}]
      /\ \A q \in Procs : /\ asleep'[q] \in {asleep[q], NULL}
                          /\ asleep'[q] # <<i, OtherEnd(w)>>
  <2>1. asleep' = [q \in Procs |-> IF asleep[q] \in {<<i, OtherEnd(w)>>} THEN NULL ELSE asleep[q]]
    BY DEF Wake
  <2>2. <<i, OtherEnd(w)>> # NULL
    BY NotNull DEF OtherEnd
  <2>3. QED
    BY <2>1, <2>2 DEF FilesInv, FileTypes
<1>2. ASSUME NEW q \in Procs, asleep'[q] = <<i, OwnEnd(w)>>
      PROVE  FALSE
  <2>1. asleep[q] = <<i, OwnEnd(w)>>
    BY <1>1, <1>2, NotNull DEF OwnEnd
  <2>2. call[q].op = "write" <=> w
    BY <2>1, SleeperOpen DEF OwnEnd
  <2>3. \E f \in Files : HasEnd(f, i, call[q].op = "write")
    BY <2>1, SleeperOpen DEF OwnEnd
  <2>4. (call[q].op = "write") = w
    BY <2>2
  <2>5. QED
    BY <2>3, <2>4 DEF FilesInv, OneUser
<1>3. QED
  BY <1>1, <1>2 DEF OwnEnd, OtherEnd

\* pipeclose() keeps it: it was the last user of its end, and nobody sleeps on.
LEMMA PipeCloseStep ==
  ASSUME FilesInv, NEW p \in Procs, PipeClose(p)
  PROVE  FilesInv'
<1>1. call[p] # NULL /\ call[p].op = "pipeclose" /\ call[p] \in Requests
  BY DEF PipeClose, FilesInv, FileTypes
<1>2. PICK i \in Pipes, w \in BOOLEAN : call[p].pipe = i /\ call[p].writable = w
  BY <1>1 DEF Requests
<1>3. /\ pipe' = [pipe EXCEPT ![i] = Ended(pipe[i], w)]
      /\ asleep' = Wake({<<i, OtherEnd(w)>>})
      /\ call' = [call EXCEPT ![p] = Bad(p)]
      /\ Unlocked(i)
      /\ UNCHANGED <<ofile, file, killed, disk>>
  BY <1>2 DEF PipeClose
<1>4. ClosesEnd(p, i, w)
  BY <1>1, <1>2 DEF ClosesEnd
<1>5. pipe[i] \in PipeStates /\ pipe[i] # NULL /\ IF w THEN pipe[i].writeopen ELSE pipe[i].readopen
  <2>1. pipe[i] # NULL /\ IF w THEN pipe[i].writeopen ELSE pipe[i].readopen
    BY <1>4 DEF FilesInv, PipeEnds, ClosesEnd
  <2>2. QED
    BY <2>1 DEF FilesInv, FileTypes
<1>6. /\ pipe' \in [Pipes -> PipeStates \cup {NULL}] /\ pipe'[i] = Ended(pipe[i], w)
      /\ \A j \in Pipes \ {i} : pipe'[j] = pipe[j]
  BY <1>3, <1>5, EndedIs DEF FilesInv, FileTypes
<1>7. /\ call' \in [Procs -> Requests \cup {NULL}]
      /\ IF ofile[p][WF] # NULL THEN call'[p] # NULL /\ call'[p].op = "bad" ELSE call'[p] = NULL
      /\ \A q \in Procs \ {p} : call'[q] = call[q]
  <2>1. [op |-> "bad"] \in Requests
    BY DEF Requests
  <2>2. QED
    BY <1>3, <2>1, NotNull DEF FilesInv, FileTypes, Bad
<1>20. \A q \in Procs : /\ InPipe(q) => q # p /\ call'[q] = call[q]
                        /\ InPipe(q)' <=> InPipe(q)
  BY <1>1, <1>7 DEF InPipe
<1>8. /\ asleep' \in [Procs -> Channels \cup {NULL}]
      /\ \A q \in Procs : /\ asleep'[q] \in {asleep[q], NULL}
                          /\ asleep'[q] # <<i, "nread">> /\ asleep'[q] # <<i, "nwrite">>
  BY <1>3, <1>4, NobodyLeft
<1>9. FileTypes' /\ RefsCount' /\ FileKinds'
  <2>1. UNCHANGED <<ofile, file, killed, disk>>
    BY <1>3
  <2>2. FileTypes'
    BY <1>6, <1>7, <1>8, <2>1 DEF FilesInv, FileTypes
  <2>3. RefsCount' /\ FileKinds'
    BY <2>1 DEF FilesInv, RefsCount, FileKinds
  <2>4. QED
    BY <2>2, <2>3
<1>10. \A h \in Files, j \in Pipes, v \in BOOLEAN : HasEnd(h, j, v)' <=> HasEnd(h, j, v)
  BY <1>3 DEF HasEnd
<1>11. \A q \in Procs, j \in Pipes, v \in BOOLEAN : ClosesEnd(q, j, v)' <=> ClosesEnd(q, j, v) /\ q # p
  <2>1. \A j \in Pipes, v \in BOOLEAN : ~ClosesEnd(p, j, v)'
    BY <1>7 DEF ClosesEnd
  <2>2. QED
    BY <1>7, <2>1 DEF ClosesEnd
<1>12. OneUser'
  BY <1>10, <1>11 DEF FilesInv, OneUser
<1>13. (\A h \in Files : ~HasEnd(h, i, w)) /\ (\A q \in Procs : ~ClosesEnd(q, i, w)')
  BY <1>4, <1>11 DEF FilesInv, OneUser
<1>14. PipeEnds'
  <2>1. ASSUME NEW j \in Pipes, NEW v \in BOOLEAN
        PROVE  (\E h \in Files : HasEnd(h, j, v)') \/ (\E q \in Procs : ClosesEnd(q, j, v)')
                 <=> pipe'[j] # NULL /\ IF v THEN pipe'[j].writeopen ELSE pipe'[j].readopen
    <3>1. (\E h \in Files : HasEnd(h, j, v)) \/ (\E q \in Procs : ClosesEnd(q, j, v))
            <=> pipe[j] # NULL /\ IF v THEN pipe[j].writeopen ELSE pipe[j].readopen
      BY DEF FilesInv, PipeEnds, HasEnd, ClosesEnd
    <3>2. (j = i /\ v = w) \/ \A q \in Procs : ClosesEnd(q, j, v)' <=> ClosesEnd(q, j, v)
      BY <1>1, <1>2, <1>11 DEF ClosesEnd
    <3>3. CASE j # i
      BY <1>6, <1>10, <3>1, <3>2, <3>3
    <3>4. CASE j = i /\ v = w
      <4>1. ~(pipe'[i] # NULL /\ IF w THEN pipe'[i].writeopen ELSE pipe'[i].readopen)
        <5>1. CASE w = TRUE
          BY <1>5, <1>6, <5>1, EndedIs
        <5>2. CASE w = FALSE
          BY <1>5, <1>6, <5>2, EndedIs
        <5>3. QED
          BY <5>1, <5>2
      <4>2. QED
        BY <1>10, <1>13, <3>4, <4>1
    <3>5. CASE j = i /\ v # w
      <4>1. pipe'[i] # NULL /\ (IF v THEN pipe'[i].writeopen ELSE pipe'[i].readopen)
              <=> IF v THEN pipe[i].writeopen ELSE pipe[i].readopen
        <5>1. v = ~w
          BY <3>5
        <5>2. CASE w = TRUE
          BY <1>5, <1>6, <5>1, <5>2, EndedIs
        <5>3. CASE w = FALSE
          BY <1>5, <1>6, <5>1, <5>3, EndedIs
        <5>4. QED
          BY <5>2, <5>3
      <4>2. QED
        BY <1>5, <1>10, <3>1, <3>2, <3>5, <4>1
    <3>6. QED
      BY <3>3, <3>4, <3>5
  <2>2. QED
    BY <2>1 DEF PipeEnds, HasEnd, ClosesEnd
<1>15. CallsHold'
  <2>1. ASSUME NEW q \in Procs, InPipe(q)'
        PROVE  \E d \in Slots : Reaches(q, d, call[q].pipe, call[q].op = "write")' /\ call'[q] = call[q]
    BY <1>3, <1>20, <2>1 DEF FilesInv, CallsHold, Reaches
  <2>2. QED
    BY <2>1 DEF CallsHold, Reaches
<1>16. Sleepers'
  BY <1>8, <1>20 DEF FilesInv, Sleepers
<1>17. NotOverfull'
  BY <1>5, <1>6, EndedIs DEF FilesInv, NotOverfull, Count
<1>18. SleepersRight'
  BY <1>6, <1>8, NotNull DEF FilesInv, SleepersRight
<1>19. Locks'
  <2>1. \A q \in Procs, j \in Pipes : HasLock(q, j)' => HasLock(q, j) /\ call'[q] = call[q] /\ j # i
    BY <1>3, <1>20 DEF HasLock, Unlocked, InPipe
  <2>2. QED
    BY <1>6, <1>8, <2>1 DEF FilesInv, Locks
<1>21. Pending'
  <2>1. ofile[p][RF] = NULL
    BY <1>1 DEF FilesInv, Pending, InOp
  <2>2. UNCHANGED <<ofile, file>>
    BY <1>3
  <2>3. ASSUME NEW q \in Procs \ {p}
        PROVE  /\ ofile[q][RF] # NULL => InOp(q, "pipe")' \/ InOp(q, "bad")'
               /\ ofile[q][WF] # NULL => InOp(q, "pipe")' \/ InOp(q, "bad")' \/ InOp(q, "pipeclose")'
               /\ InOp(q, "pipe")' /\ ofile[q][WF] # NULL => ofile[q][RF] # NULL
               /\ InOp(q, "bad")' => ofile[q][RF] # NULL \/ ofile[q][WF] # NULL
               /\ \A x \in {RF, WF} : ofile[q][x] # NULL =>
                    file[ofile[q][x]].ref = 1 /\ (InOp(q, "pipe")' => file[ofile[q][x]].type = "NONE")
    BY <1>7 DEF FilesInv, Pending, InOp
  <2>4. /\ ofile[p][WF] # NULL => InOp(p, "bad")'
        /\ InOp(p, "bad")' => ofile[p][WF] # NULL
        /\ ~InOp(p, "pipe")'
        /\ \A x \in {RF, WF} : ofile[p][x] # NULL => file[ofile[p][x]].ref = 1
    BY <1>7 DEF FilesInv, Pending, InOp
  <2>5. QED
    BY <2>1, <2>2, <2>3, <2>4 DEF Pending
<1>22. QED
  BY <1>9, <1>12, <1>14, <1>15, <1>16, <1>17, <1>18, <1>19, <1>21 DEF FilesInv

\* p, inside read() or write() of the pipe i, moves bytes, sleeps or returns;
\* it may wake others.
LEMMA PipeStep ==
  ASSUME FilesInv, NEW p \in Procs, NEW i \in Pipes,
         InPipe(p), call[p].pipe = i, \A q \in Procs \ {p} : ~HasLock(q, i),
         UNCHANGED <<ofile, file, killed, disk>>,
         pipe' \in [Pipes -> PipeStates \cup {NULL}], pipe'[i] \in PipeStates,
         pipe'[i].readopen = pipe[i].readopen, pipe'[i].writeopen = pipe[i].writeopen,
         Count(pipe'[i]) <= PIPESIZE, \A j \in Pipes \ {i} : pipe'[j] = pipe[j],
         call' \in [Procs -> Requests \cup {NULL}], \A q \in Procs \ {p} : call'[q] = call[q],
         call'[p] # NULL => call'[p].op = call[p].op /\ call'[p].pipe = i,
         HasLock(p, i)' => /\ asleep'[p] = NULL
                           /\ IF call[p].op = "write" THEN Count(pipe'[i]) = PIPESIZE /\ pipe[i].readopen
                                                      ELSE Count(pipe'[i]) = 0 /\ pipe[i].writeopen,
         asleep' \in [Procs -> Channels \cup {NULL}],
         \A q \in Procs \ {p} : asleep'[q] \in {asleep[q], NULL},
         asleep'[p] # NULL => /\ call'[p] # NULL
                              /\ asleep'[p] = <<i, IF call[p].op = "write" THEN "nwrite" ELSE "nread">>,
         \A q \in Procs : asleep'[q] = <<i, "nread">> => pipe[i].writeopen,
         \A q \in Procs : asleep'[q] = <<i, "nwrite">> => Count(pipe'[i]) = PIPESIZE /\ pipe[i].readopen
  PROVE  FilesInv'
<1>1. FileTypes'
  BY DEF FilesInv, FileTypes
<1>2. RefsCount' /\ FileKinds'
  <2>1. RefsCount'
    BY DEF FilesInv, RefsCount
  <2>2. FileKinds'
    BY SMTT(20) DEF FilesInv, FileKinds
  <2>3. QED
    BY <2>1, <2>2
<1>3. \A h \in Files, j \in Pipes, v \in BOOLEAN : HasEnd(h, j, v)' <=> HasEnd(h, j, v)
  BY DEF HasEnd
<1>4. \A q \in Procs, j \in Pipes, v \in BOOLEAN : ClosesEnd(q, j, v)' <=> ClosesEnd(q, j, v)
  BY DEF ClosesEnd, InPipe
<1>13. \A q \in Procs : InPipe(q)' => InPipe(q) /\ call'[q].op = call[q].op /\ call'[q].pipe = call[q].pipe
  BY DEF InPipe
<1>5. OneUser'
  BY <1>3, <1>4 DEF FilesInv, OneUser
<1>6. pipe[i] # NULL /\ pipe'[i] # NULL
  BY EndOpen, NotNull
<1>7. PipeEnds'
  <2>1. ASSUME NEW j \in Pipes, NEW v \in BOOLEAN
        PROVE  (\E h \in Files : HasEnd(h, j, v)') \/ (\E q \in Procs : ClosesEnd(q, j, v)')
                 <=> pipe'[j] # NULL /\ IF v THEN pipe'[j].writeopen ELSE pipe'[j].readopen
    <3>1. (\E h \in Files : HasEnd(h, j, v)) \/ (\E q \in Procs : ClosesEnd(q, j, v))
            <=> pipe[j] # NULL /\ IF v THEN pipe[j].writeopen ELSE pipe[j].readopen
      BY DEF FilesInv, PipeEnds, HasEnd, ClosesEnd
    <3>2. /\ pipe'[j] # NULL <=> pipe[j] # NULL
          /\ pipe'[j] # NULL => /\ pipe'[j].writeopen = pipe[j].writeopen
                               /\ pipe'[j].readopen = pipe[j].readopen
      <4>1. CASE j = i
        BY <1>6, <4>1
      <4>2. CASE j # i
        BY <4>2
      <4>3. QED
        BY <4>1, <4>2
    <3>3. QED
      BY <1>3, <1>4, <3>1, <3>2
  <2>2. QED
    BY <2>1 DEF PipeEnds, HasEnd, ClosesEnd
<1>8. CallsHold'
  <2>1. ASSUME NEW q \in Procs, InPipe(q)'
        PROVE  \E d \in Slots : Reaches(q, d, call[q].pipe, call[q].op = "write")'
    <3>1. InPipe(q)
      BY <1>13, <2>1
    <3>2. PICK d \in Slots : Reaches(q, d, call[q].pipe, call[q].op = "write")
      BY <3>1 DEF FilesInv, CallsHold
    <3>3. call'[q].pipe = call[q].pipe /\ call'[q].op = call[q].op
      BY <1>13, <2>1
    <3>4. Reaches(q, d, call[q].pipe, call[q].op = "write")'
      BY <3>2, <3>3 DEF Reaches
    <3>5. QED
      BY <3>4, Zenon
  <2>2. QED
    BY <2>1 DEF CallsHold, Reaches
<1>9. Sleepers'
  <2>1. ASSUME NEW q \in Procs \ {p}, asleep'[q] # NULL
        PROVE  asleep'[q] = asleep[q] /\ call'[q] = call[q]
    BY <2>1
  <2>2. ASSUME NEW q \in Procs, asleep'[q] # NULL
        PROVE  /\ InPipe(q)'
               /\ asleep'[q] = <<call'[q].pipe, IF call'[q].op = "write" THEN "nwrite" ELSE "nread">>
    <3>1. CASE q = p
      BY <2>2, <3>1 DEF InPipe
    <3>2. CASE q # p
      BY <2>1, <2>2, <3>2 DEF FilesInv, Sleepers, InPipe
    <3>3. QED
      BY <3>1, <3>2
  <2>3. QED
    BY <2>2 DEF Sleepers
<1>10. NotOverfull'
  BY DEF FilesInv, NotOverfull
<1>11. SleepersRight'
  <2>1. ASSUME NEW q \in Procs, NEW j \in Pipes \ {i}, asleep'[q] = <<j, "nread">> \/ asleep'[q] = <<j, "nwrite">>
        PROVE  asleep[q] = asleep'[q] /\ pipe'[j] = pipe[j]
    <3>1. asleep'[q] # NULL /\ asleep'[q][1] = j /\ j # i
      <4>1. <<j, "nread">> # NULL /\ <<j, "nwrite">> # NULL /\ j # i
        BY <2>1, NotNull
      <4>2. CASE asleep'[q] = <<j, "nread">>
        BY <4>1, <4>2
      <4>3. CASE asleep'[q] = <<j, "nwrite">>
        BY <4>1, <4>3
      <4>4. QED
        BY <2>1, <4>2, <4>3
    <3>2. q # p
      <4>1. ASSUME q = p PROVE FALSE
        <5>1. asleep'[p] = <<i, IF call[p].op = "write" THEN "nwrite" ELSE "nread">>
          BY <3>1, <4>1
        <5>2. asleep'[p][1] = i
          BY <5>1
        <5>3. QED
          BY <3>1, <4>1, <5>2
      <4>2. QED
        BY <4>1
    <3>3. QED
      BY <3>1, <3>2
  <2>2. ASSUME NEW q \in Procs, NEW j \in Pipes
        PROVE  /\ asleep'[q] = <<j, "nread">> => pipe'[j].writeopen
               /\ asleep'[q] = <<j, "nwrite">> => Count(pipe'[j]) = PIPESIZE /\ pipe'[j].readopen
    <3>1. CASE j = i
      BY <3>1
    <3>2. CASE j # i
      BY <2>1, <3>2 DEF FilesInv, SleepersRight
    <3>3. QED
      BY <3>1, <3>2
  <2>3. QED
    BY <2>2 DEF SleepersRight
<1>12. Locks'
  <2>1. \A q \in Procs, j \in Pipes : HasLock(q, j)' =>
          \/ q = p /\ j = i
          \/ q # p /\ j # i /\ HasLock(q, j) /\ call'[q] = call[q]
    BY <1>13 DEF HasLock, InPipe
  <2>2. ASSUME NEW q \in Procs, NEW j \in Pipes, HasLock(q, j)'
        PROVE  /\ asleep'[q] = NULL
               /\ IF call'[q].op = "write" THEN Count(pipe'[j]) = PIPESIZE /\ pipe'[j].readopen
                                           ELSE Count(pipe'[j]) = 0 /\ pipe'[j].writeopen
               /\ \A x \in Procs : HasLock(x, j)' => x = q
    <3>1. CASE q = p /\ j = i
      <4>1. call'[p].op = call[p].op
        BY <2>2, <3>1 DEF HasLock, InPipe
      <4>2. QED
        BY <2>1, <2>2, <3>1, <4>1
    <3>2. CASE q # p /\ j # i /\ HasLock(q, j) /\ call'[q] = call[q]
      <4>1. asleep'[q] = NULL /\ pipe'[j] = pipe[j]
        BY <3>2 DEF FilesInv, Locks
      <4>2. \A x \in Procs : HasLock(x, j)' => HasLock(x, j)
        BY <2>1, <3>2
      <4>3. QED
        BY <3>2, <4>1, <4>2 DEF FilesInv, Locks
    <3>3. QED
      BY <2>1, <2>2, <3>1, <3>2
  <2>3. QED
    BY <2>2 DEF Locks
<1>14. Pending'
  <2>1. \A q \in Procs, op \in {"pipe", "bad", "pipeclose"} : InOp(q, op)' <=> InOp(q, op)
    BY DEF InOp, InPipe
  <2>2. QED
    BY <2>1 DEF FilesInv, Pending
<1>15. QED
  BY <1>1, <1>2, <1>5, <1>7, <1>8, <1>9, <1>10, <1>11, <1>12, <1>14 DEF FilesInv

\* What n more bytes do to a pipe with room for them.
LEMMA PutIs ==
  ASSUME NEW q \in PipeStates, NEW bytes \in Seq(Nat), NEW n \in Nat, n <= Len(bytes), Count(q) + n <= PIPESIZE
  PROVE  /\ Put(q, bytes, n) \in PipeStates /\ Count(Put(q, bytes, n)) = Count(q) + n
         /\ Put(q, bytes, n).readopen = q.readopen /\ Put(q, bytes, n).writeopen = q.writeopen
<1> DEFINE data == [k \in 0 .. PIPESIZE - 1 |->
                      LET j == (k - q.nwrite) % PIPESIZE IN IF j < n THEN bytes[j + 1] ELSE q.data[k]]
           nwrite == (q.nwrite + n) % W
<1>1. PICK d \in [0 .. PIPESIZE - 1 -> Nat] : d = data
  <2>1. ASSUME NEW k \in 0 .. PIPESIZE - 1
        PROVE  (IF (k - q.nwrite) % PIPESIZE < n THEN bytes[((k - q.nwrite) % PIPESIZE) + 1] ELSE q.data[k]) \in Nat
    <3>1. PICK e \in Int : e = k - q.nwrite
      BY FileAssumption DEF PipeStates
    <3>2. e % PIPESIZE \in Nat
      BY FileAssumption
    <3>3. PICK j \in Nat : j = (k - q.nwrite) % PIPESIZE
      BY <3>1, <3>2
    <3>4. j < n => bytes[j + 1] \in Nat
      <4>1. j < n => j + 1 \in 1 .. Len(bytes)
        OBVIOUS
      <4>2. QED
        BY <4>1
    <3>5. q.data[k] \in Nat
      BY DEF PipeStates
    <3>6. QED
      BY <3>3, <3>4, <3>5, Zenon
  <2>2. data \in [0 .. PIPESIZE - 1 -> Nat]
    BY <2>1, Zenon
  <2>3. QED
    BY <2>2, Zenon
<1>2. q.nwrite \in 0 .. W - 1 /\ q.nread \in 0 .. W - 1 /\ W \in Nat \ {0}
  BY FileAssumption DEF PipeStates
<1>3. ((q.nwrite - q.nread) % W) + n < W
  <2>1. PICK e \in Int : e = q.nwrite - q.nread
    BY <1>2
  <2>2. e % W \in Nat
    BY <1>2
  <2>3. (e % W) + n <= PIPESIZE
    BY <2>1 DEF Count
  <2>4. QED
    BY <2>1, <2>2, <2>3, FileAssumption
<1>4. PICK m \in 0 .. W - 1 : m = nwrite /\ (m - q.nread) % W = ((q.nwrite - q.nread) % W) + n
  BY <1>2, <1>3, Counted, ZenonT(40)
<1>5. Put(q, bytes, n) = [q EXCEPT !.data = d, !.nwrite = m]
  <2>1. Put(q, bytes, n) = [q EXCEPT !.data = data, !.nwrite = nwrite]
    BY DEF Put
  <2>2. QED
    BY <1>1, <1>4, <2>1, Zenon
<1>6. PICK r \in PipeStates : /\ r = [q EXCEPT !.data = d, !.nwrite = m]
                              /\ r.nwrite = m /\ r.nread = q.nread
                              /\ r.readopen = q.readopen /\ r.writeopen = q.writeopen
  <2> HIDE DEF data, nwrite
  <2>1. /\ [q EXCEPT !.data = d, !.nwrite = m] \in PipeStates
        /\ [q EXCEPT !.data = d, !.nwrite = m].nwrite = m
        /\ [q EXCEPT !.data = d, !.nwrite = m].nread = q.nread
        /\ [q EXCEPT !.data = d, !.nwrite = m].readopen = q.readopen
        /\ [q EXCEPT !.data = d, !.nwrite = m].writeopen = q.writeopen
    BY DEF PipeStates
  <2>2. QED
    BY <2>1, Zenon
<1>7. Count(r) = Count(q) + n
  BY <1>4, <1>6 DEF Count
<1>8. QED
  BY <1>5, <1>6, <1>7, Zenon

\* What pipewrite() does between two sleeps: it puts as many bytes as fit.
Writes(p, i, n) ==
  /\ call[p] # NULL /\ call[p].op = "write" /\ call[p].pipe = i /\ call[p].bytes \in Seq(Nat)
  /\ asleep[p] = NULL /\ Unlocked(i) /\ pipe[i] \in PipeStates
  /\ n <= Len(call[p].bytes) /\ Count(pipe[i]) \in Nat /\ Count(pipe[i]) + n <= PIPESIZE
  /\ n < Len(call[p].bytes) => Count(pipe[i]) + n = PIPESIZE
  /\ pipe' = [pipe EXCEPT ![i] = Put(pipe[i], call[p].bytes, n)]
  /\ \/ /\ call' = [call EXCEPT ![p] = NULL]
        /\ asleep' = Wake({<<i, "nread">>})
     \/ /\ call' = [call EXCEPT ![p] = NULL]
        /\ asleep' = asleep /\ (~pipe[i].readopen \/ killed[p])
     \/ /\ n < Len(call[p].bytes) /\ pipe[i].readopen
        /\ call' = [call EXCEPT ![p] = [@ EXCEPT !.bytes = SubSeq(call[p].bytes, n + 1, Len(call[p].bytes)),
                                                 !.locked = TRUE]]
        /\ asleep' = Wake({<<i, "nread">>})

\* pipewrite(), from a state of the invariant.
LEMMA PipeWriteIs ==
  ASSUME FilesInv, NEW p \in Procs, PipeWrite(p)
  PROVE  \E i \in Pipes, n \in Nat : Writes(p, i, n)
<1>1. call[p] # NULL /\ call[p].op = "write" /\ asleep[p] = NULL /\ Unlocked(call[p].pipe)
  BY DEF PipeWrite, Has
<1>2. PICK i \in Pipes : call[p].pipe = i /\ pipe[i] \in PipeStates
  BY <1>1, EndOpen DEF InPipe
<1>3. PICK bytes \in Seq(Nat) : call[p].bytes = bytes
  <2>1. call[p] \in Requests
    BY <1>1 DEF FilesInv, FileTypes
  <2>2. call[p] \in [op : {"read", "write"}, pipe : Pipes, bytes : Seq(Nat), locked : BOOLEAN]
    BY <1>1, <2>1 DEF Requests
  <2>3. call[p].bytes \in Seq(Nat)
    BY <2>2
  <2>4. QED
    BY <2>3, Zenon
<1>4. PICK c \in Nat : c = Count(pipe[i]) /\ c <= PIPESIZE
  <2>1. pipe[i].nwrite \in 0 .. W - 1 /\ pipe[i].nread \in 0 .. W - 1
    BY <1>2 DEF PipeStates
  <2>2. PICK e \in Int : e = pipe[i].nwrite - pipe[i].nread
    BY <2>1, FileAssumption
  <2>3. e % W \in Nat
    BY FileAssumption
  <2>4. Count(pipe[i]) \in Nat
    BY <2>2, <2>3 DEF Count
  <2>5. Count(pipe[i]) <= PIPESIZE
    BY <1>2, NotNull DEF FilesInv, NotOverfull
  <2>6. QED
    BY <2>4, <2>5
<1>5. Len(bytes) \in Nat /\ Room(pipe[i]) = PIPESIZE - c /\ PIPESIZE \in Nat
  BY <1>4, FileAssumption DEF Room
<1>6. PICK n \in Nat : /\ n = IF Len(bytes) < Room(pipe[i]) THEN Len(bytes) ELSE Room(pipe[i])
                       /\ n <= Len(bytes) /\ c + n <= PIPESIZE
                       /\ n < Len(bytes) => c + n = PIPESIZE
  <2>1. PICK l \in Nat, m \in Nat : l = Len(bytes) /\ m = Room(pipe[i]) /\ c + m = PIPESIZE
    BY <1>4, <1>5
  <2>2. PICK n \in Nat : n = (IF l < m THEN l ELSE m) /\ n <= l /\ c + n <= PIPESIZE /\ (n < l => c + n = PIPESIZE)
    BY <2>1, FileAssumption
  <2>3. QED
    BY <2>1, <2>2, Zenon
<1>7. /\ pipe' = [pipe EXCEPT ![i] = Put(pipe[i], bytes, n)]
      /\ IF n = Len(bytes)
         THEN Return(p, [ok |-> TRUE, data |-> <<>>]) /\ asleep' = Wake({<<i, "nread">>})
         ELSE IF ~pipe[i].readopen \/ killed[p]
         THEN Return(p, Failed) /\ UNCHANGED asleep
         ELSE /\ asleep' = Wake({<<i, "nread">>})
              /\ call' = [call EXCEPT ![p] = [@ EXCEPT !.bytes = SubSeq(bytes, n + 1, Len(bytes)), !.locked = TRUE]]
  BY <1>2, <1>3, <1>6, Zenon DEF PipeWrite
<1>8. n = Len(bytes) \/ n < Len(bytes)
  BY <1>5, <1>6
<1>9. \/ /\ call' = [call EXCEPT ![p] = NULL]
         /\ asleep' = Wake({<<i, "nread">>})
      \/ /\ call' = [call EXCEPT ![p] = NULL]
         /\ asleep' = asleep /\ (~pipe[i].readopen \/ killed[p])
      \/ /\ n < Len(bytes) /\ pipe[i].readopen
         /\ call' = [call EXCEPT ![p] = [@ EXCEPT !.bytes = SubSeq(bytes, n + 1, Len(bytes)), !.locked = TRUE]]
         /\ asleep' = Wake({<<i, "nread">>})
  BY <1>7, <1>8, Zenon DEF Return
<1>10. QED
  BY <1>1, <1>2, <1>3, <1>4, <1>6, <1>7, <1>9, Zenon DEF Writes

\* What is left to write are bytes.
LEMMA TailIs ==
  ASSUME NEW s \in Seq(Nat), NEW n \in Nat, n <= Len(s)
  PROVE  SubSeq(s, n + 1, Len(s)) \in Seq(Nat)
  OBVIOUS

\* What wakeup() on a channel does.
LEMMA WakeIs ==
  ASSUME FilesInv, NEW c \in Channels
  PROVE  /\ Wake({c}) \in [Procs -> Channels \cup {NULL}]
         /\ \A q \in Procs : Wake({c})[q] = IF asleep[q] = c THEN NULL ELSE asleep[q]
  BY DEF Wake, FilesInv, FileTypes

\* pipewrite() keeps it: a writer that sleeps has filled the pipe.
LEMMA PipeWriteStep ==
  ASSUME FilesInv, NEW p \in Procs, PipeWrite(p), UNCHANGED <<ofile, file, killed, disk>>
  PROVE  FilesInv'
<1> USE DEF Writes
<1>1. PICK i \in Pipes, n \in Nat : Writes(p, i, n)
  BY PipeWriteIs
<1>2. PICK r \in PipeStates : /\ r = Put(pipe[i], call[p].bytes, n) /\ Count(r) = Count(pipe[i]) + n
                              /\ r.readopen = pipe[i].readopen /\ r.writeopen = pipe[i].writeopen
  BY <1>1, PutIs
<1>3. /\ pipe' \in [Pipes -> PipeStates \cup {NULL}] /\ pipe'[i] = r
      /\ \A j \in Pipes \ {i} : pipe'[j] = pipe[j]
  <2>1. pipe' = [pipe EXCEPT ![i] = r]
    BY <1>1, <1>2, Zenon
  <2>2. QED
    BY <2>1 DEF FilesInv, FileTypes
<1>4. <<i, "nread">> \in Channels /\ <<i, "nwrite">> \in Channels
  BY DEF Channels
<1>5. /\ call' \in [Procs -> Requests \cup {NULL}]
      /\ \A q \in Procs \ {p} : call'[q] = call[q]
      /\ call'[p] # NULL => /\ call'[p].op = call[p].op /\ call'[p].pipe = i
                            /\ pipe[i].readopen /\ n < Len(call[p].bytes)
  <2>1. CASE call' = [call EXCEPT ![p] = NULL]
    BY <2>1 DEF FilesInv, FileTypes
  <2>2. CASE /\ n < Len(call[p].bytes) /\ pipe[i].readopen
             /\ call' = [call EXCEPT ![p] = [@ EXCEPT !.bytes = SubSeq(call[p].bytes, n + 1, Len(call[p].bytes)),
                                                      !.locked = TRUE]]
    <3>1. PICK rest \in Seq(Nat) : rest = SubSeq(call[p].bytes, n + 1, Len(call[p].bytes))
      <4>1. SubSeq(call[p].bytes, n + 1, Len(call[p].bytes)) \in Seq(Nat)
        BY <1>1, TailIs
      <4>2. QED
        BY <4>1, Zenon
    <3>2. call[p] \in [op : {"read", "write"}, pipe : Pipes, bytes : Seq(Nat), locked : BOOLEAN]
      BY <1>1 DEF FilesInv, FileTypes, Requests
    <3>3. PICK c \in Requests : /\ c = [call[p] EXCEPT !.bytes = rest, !.locked = TRUE]
                                /\ c.op = call[p].op /\ c.pipe = i
      <4>1. /\ [call[p] EXCEPT !.bytes = rest, !.locked = TRUE] \in Requests
            /\ [call[p] EXCEPT !.bytes = rest, !.locked = TRUE].op = call[p].op
            /\ [call[p] EXCEPT !.bytes = rest, !.locked = TRUE].pipe = call[p].pipe
        BY <3>2 DEF Requests
      <4>2. QED
        BY <1>1, <4>1, Zenon
    <3>4. call' = [call EXCEPT ![p] = [@ EXCEPT !.bytes = rest, !.locked = TRUE]]
      BY <2>2, <3>1, Zenon
    <3>5. call' = [call EXCEPT ![p] = c]
      BY <3>3, <3>4
    <3>6. QED
      BY <2>2, <3>3, <3>5 DEF FilesInv, FileTypes
  <2>3. QED
    BY <1>1, <2>1, <2>2
<1>6. /\ asleep' \in [Procs -> Channels \cup {NULL}]
      /\ \A q \in Procs : asleep'[q] \in {asleep[q], NULL}
      /\ asleep'[p] = NULL
  <2>1. CASE asleep' = Wake({<<i, "nread">>})
    BY <1>1, <1>4, <2>1, WakeIs
  <2>2. CASE asleep' = asleep
    BY <1>1, <2>2 DEF FilesInv, FileTypes
  <2>3. QED
    BY <1>1, <2>1, <2>2
<1>7. InPipe(p) /\ \A q \in Procs : ~HasLock(q, i)
  BY <1>1 DEF InPipe, HasLock, Unlocked
<1>8. pipe[i].writeopen
  BY <1>1, <1>7, EndOpen
<1>9. HasLock(p, i)' => Count(pipe'[i]) = PIPESIZE /\ pipe[i].readopen
  BY <1>1, <1>2, <1>3, <1>5 DEF HasLock, InPipe
<1>10. ASSUME NEW q \in Procs, asleep'[q] = <<i, "nwrite">>
       PROVE  Count(pipe'[i]) = PIPESIZE /\ pipe[i].readopen
  <2>1. asleep[q] = <<i, "nwrite">>
    BY <1>6, <1>10, NotNull
  <2>2. Count(pipe[i]) = PIPESIZE /\ pipe[i].readopen
    BY <2>1 DEF FilesInv, SleepersRight
  <2>3. n = 0
    BY <1>1, <2>2, FileAssumption
  <2>4. QED
    BY <1>1, <1>2, <1>3, <2>2, <2>3
<1>11. Count(pipe'[i]) <= PIPESIZE
  BY <1>1, <1>2, <1>3
<1>12. /\ call[p].pipe = i /\ call[p].op = "write" /\ pipe'[i] \in PipeStates
       /\ pipe'[i].readopen = pipe[i].readopen /\ pipe'[i].writeopen = pipe[i].writeopen
  BY <1>1, <1>2, <1>3
<1>13. QED
  <2> HIDE DEF Writes
  <2>1. QED
    BY <1>3, <1>5, <1>6, <1>7, <1>8, <1>9, <1>10, <1>11, <1>12, PipeStep

\* What piperead() does between two sleeps: it fails, or is about to sleep, or takes all.
Reads(p, i) ==
  /\ call[p] # NULL /\ call[p].op = "read" /\ call[p].pipe = i
  /\ asleep[p] = NULL /\ Unlocked(i) /\ pipe[i] \in PipeStates
  /\ \/ /\ pipe' = pipe /\ asleep' = asleep
        /\ call' = [call EXCEPT ![p] = NULL]
     \/ /\ pipe' = pipe /\ asleep' = asleep /\ Count(pipe[i]) = 0 /\ pipe[i].writeopen
        /\ call' = [call EXCEPT ![p].locked = TRUE]
     \/ /\ pipe' = [pipe EXCEPT ![i].nread = pipe[i].nwrite]
        /\ call' = [call EXCEPT ![p] = NULL]
        /\ asleep' = Wake({<<i, "nwrite">>})

\* piperead(), from a state of the invariant.
LEMMA PipeReadIs ==
  ASSUME FilesInv, NEW p \in Procs, PipeRead(p)
  PROVE  \E i \in Pipes : Reads(p, i)
<1>1. call[p] # NULL /\ call[p].op = "read" /\ asleep[p] = NULL /\ Unlocked(call[p].pipe)
  BY DEF PipeRead, Has
<1>2. PICK i \in Pipes : call[p].pipe = i /\ pipe[i] \in PipeStates
  BY <1>1, EndOpen DEF InPipe
<1>3. \/ /\ pipe' = pipe /\ asleep' = asleep
         /\ call' = [call EXCEPT ![p] = NULL]
      \/ /\ pipe' = pipe /\ asleep' = asleep /\ Count(pipe[i]) = 0 /\ pipe[i].writeopen
         /\ call' = [call EXCEPT ![p].locked = TRUE]
      \/ /\ pipe' = [pipe EXCEPT ![i].nread = pipe[i].nwrite]
         /\ call' = [call EXCEPT ![p] = NULL]
         /\ asleep' = Wake({<<i, "nwrite">>})
  BY <1>2, Zenon DEF PipeRead, Return
<1>4. QED
  BY <1>1, <1>2, <1>3, Zenon DEF Reads

\* A pipe that was read is empty.
LEMMA EmptiedIs ==
  ASSUME NEW q \in PipeStates
  PROVE  /\ [q EXCEPT !.nread = q.nwrite] \in PipeStates /\ Count([q EXCEPT !.nread = q.nwrite]) = 0
         /\ [q EXCEPT !.nread = q.nwrite].readopen = q.readopen
         /\ [q EXCEPT !.nread = q.nwrite].writeopen = q.writeopen
<1>1. PICK m \in 0 .. W - 1 : m = q.nwrite
  BY DEF PipeStates
<1>2. (m - m) % W = 0
  <2>1. m - m = 0 /\ 0 % W = 0
    BY FileAssumption
  <2>2. QED
    BY <2>1
<1>3. PICK r \in PipeStates : /\ r = [q EXCEPT !.nread = m]
                              /\ r.nread = m /\ r.nwrite = m /\ r.readopen = q.readopen /\ r.writeopen = q.writeopen
  <2>1. /\ [q EXCEPT !.nread = m] \in PipeStates
        /\ [q EXCEPT !.nread = m].nread = m /\ [q EXCEPT !.nread = m].nwrite = m
        /\ [q EXCEPT !.nread = m].readopen = q.readopen /\ [q EXCEPT !.nread = m].writeopen = q.writeopen
    BY <1>1 DEF PipeStates
  <2>2. QED
    BY <2>1, Zenon
<1>4. Count(r) = 0
  BY <1>2, <1>3 DEF Count
<1>5. QED
  BY <1>1, <1>3, <1>4, Zenon

\* piperead() keeps it: it wakes the writers whose pipe is no longer full.
LEMMA PipeReadStep ==
  ASSUME FilesInv, NEW p \in Procs, PipeRead(p), UNCHANGED <<ofile, file, killed, disk>>
  PROVE  FilesInv'
<1> USE DEF Reads
<1>1. PICK i \in Pipes : Reads(p, i)
  BY PipeReadIs
<1>2. <<i, "nread">> \in Channels /\ <<i, "nwrite">> \in Channels
  BY DEF Channels
<1>3. /\ pipe' \in [Pipes -> PipeStates \cup {NULL}] /\ pipe'[i] \in PipeStates
      /\ pipe'[i].readopen = pipe[i].readopen /\ pipe'[i].writeopen = pipe[i].writeopen
      /\ \A j \in Pipes \ {i} : pipe'[j] = pipe[j]
      /\ Count(pipe'[i]) = 0 \/ pipe'[i] = pipe[i]
  <2>1. CASE pipe' = pipe
    BY <1>1, <2>1 DEF FilesInv, FileTypes
  <2>2. CASE pipe' = [pipe EXCEPT ![i].nread = pipe[i].nwrite]
    <3>1. PICK r \in PipeStates : /\ r = [pipe[i] EXCEPT !.nread = pipe[i].nwrite] /\ Count(r) = 0
                                  /\ r.readopen = pipe[i].readopen /\ r.writeopen = pipe[i].writeopen
      BY <1>1, EmptiedIs, Zenon
    <3>2. pipe' = [pipe EXCEPT ![i] = r]
      BY <2>2, <3>1
    <3>3. QED
      BY <3>1, <3>2 DEF FilesInv, FileTypes
  <2>3. QED
    BY <1>1, <2>1, <2>2
<1>4. Count(pipe'[i]) <= PIPESIZE
  <2>1. Count(pipe[i]) <= PIPESIZE
    BY <1>1, NotNull DEF FilesInv, NotOverfull
  <2>2. QED
    BY <1>3, <2>1, FileAssumption
<1>5. /\ call' \in [Procs -> Requests \cup {NULL}]
      /\ \A q \in Procs \ {p} : call'[q] = call[q]
      /\ call'[p] # NULL => /\ call'[p].op = call[p].op /\ call'[p].pipe = i
                            /\ pipe' = pipe /\ Count(pipe[i]) = 0 /\ pipe[i].writeopen
  <2>1. call \in [Procs -> Requests \cup {NULL}]
    BY DEF FilesInv, FileTypes
  <2>2. CASE /\ pipe' = pipe /\ Count(pipe[i]) = 0 /\ pipe[i].writeopen
             /\ call' = [call EXCEPT ![p].locked = TRUE]
    <3>1. call[p] \in [op : {"read", "write"}, pipe : Pipes, bytes : Seq(Nat), locked : BOOLEAN]
      BY <1>1, <2>1 DEF Requests
    <3>2. PICK c \in Requests : c = [call[p] EXCEPT !.locked = TRUE] /\ c.op = call[p].op /\ c.pipe = i
      <4>1. /\ [call[p] EXCEPT !.locked = TRUE] \in Requests
            /\ [call[p] EXCEPT !.locked = TRUE].op = call[p].op
            /\ [call[p] EXCEPT !.locked = TRUE].pipe = call[p].pipe
        BY <3>1 DEF Requests
      <4>2. QED
        BY <1>1, <4>1, Zenon
    <3>3. call' = [call EXCEPT ![p] = c]
      BY <2>2, <3>2
    <3>4. QED
      BY <2>1, <2>2, <3>2, <3>3
  <2>3. CASE call' = [call EXCEPT ![p] = NULL]
    BY <2>1, <2>3
  <2>4. QED
    BY <1>1, <2>2, <2>3
<1>6. /\ asleep' \in [Procs -> Channels \cup {NULL}]
      /\ \A q \in Procs : asleep'[q] \in {asleep[q], NULL}
      /\ asleep'[p] = NULL
      /\ pipe' = pipe \/ \A q \in Procs : asleep'[q] # <<i, "nwrite">>
  <2>1. asleep \in [Procs -> Channels \cup {NULL}]
    BY DEF FilesInv, FileTypes
  <2>2. CASE pipe' = pipe /\ asleep' = asleep
    BY <1>1, <2>1, <2>2
  <2>3. CASE asleep' = Wake({<<i, "nwrite">>})
    <3>1. /\ asleep' \in [Procs -> Channels \cup {NULL}]
          /\ \A q \in Procs : asleep'[q] = IF asleep[q] = <<i, "nwrite">> THEN NULL ELSE asleep[q]
      BY <1>2, <2>3, WakeIs
    <3>2. asleep'[p] = NULL /\ <<i, "nwrite">> # NULL
      BY <1>1, <3>1, NotNull
    <3>3. QED
      BY <3>1, <3>2
  <2>4. QED
    BY <1>1, <2>2, <2>3
<1>7. ASSUME NEW q \in Procs, asleep'[q] = <<i, "nread">>
      PROVE  pipe[i].writeopen
  BY <1>6, <1>7, NotNull DEF FilesInv, SleepersRight
<1>8. ASSUME NEW q \in Procs, asleep'[q] = <<i, "nwrite">>
      PROVE  Count(pipe'[i]) = PIPESIZE /\ pipe[i].readopen
  <2>1. asleep[q] = <<i, "nwrite">> /\ pipe' = pipe
    BY <1>6, <1>8, NotNull
  <2>2. QED
    BY <2>1 DEF FilesInv, SleepersRight
<1>9. InPipe(p) /\ call[p].pipe = i /\ call[p].op # "write" /\ \A q \in Procs : ~HasLock(q, i)
  BY <1>1 DEF InPipe, HasLock, Unlocked
<1>10. HasLock(p, i)' => Count(pipe'[i]) = 0 /\ pipe[i].writeopen
  BY <1>5 DEF HasLock, InPipe
<1>11. QED
  <2> HIDE DEF Reads
  <2>1. QED
    BY <1>3, <1>4, <1>5, <1>6, <1>7, <1>8, <1>9, <1>10, PipeStep

\* sleep() keeps it: what the process found is still there.
LEMMA PipeSleepStep ==
  ASSUME FilesInv, NEW p \in Procs, PipeSleep(p)
  PROVE  FilesInv'
<1>1. InPipe(p) /\ call[p].locked
  BY DEF PipeSleep, InPipe
<1>2. PICK i \in Pipes : /\ call[p].pipe = i /\ pipe[i] \in PipeStates /\ HasLock(p, i)
  BY <1>1, EndOpen DEF HasLock
<1>3. /\ asleep' = [asleep EXCEPT ![p] = <<i, IF call[p].op = "write" THEN "nwrite" ELSE "nread">>]
      /\ call' = [call EXCEPT ![p].locked = FALSE]
      /\ UNCHANGED <<ofile, file, pipe, killed, disk>>
  BY <1>2 DEF PipeSleep
<1>4. /\ \A q \in Procs \ {p} : ~HasLock(q, i)
      /\ IF call[p].op = "write" THEN Count(pipe[i]) = PIPESIZE /\ pipe[i].readopen
                                 ELSE Count(pipe[i]) = 0 /\ pipe[i].writeopen
  BY <1>2 DEF FilesInv, Locks
<1>5. /\ call' \in [Procs -> Requests \cup {NULL}] /\ call'[p] # NULL
      /\ call'[p].op = call[p].op /\ call'[p].pipe = i /\ call'[p].locked = FALSE
      /\ \A q \in Procs \ {p} : call'[q] = call[q]
  <2>1. call[p] \in [op : {"read", "write"}, pipe : Pipes, bytes : Seq(Nat), locked : BOOLEAN]
    BY <1>1 DEF FilesInv, FileTypes, Requests, InPipe
  <2>2. PICK c \in Requests : /\ c = [call[p] EXCEPT !.locked = FALSE]
                              /\ c.op = call[p].op /\ c.pipe = i /\ c.locked = FALSE
    <3>1. /\ [call[p] EXCEPT !.locked = FALSE] \in Requests
          /\ [call[p] EXCEPT !.locked = FALSE].op = call[p].op
          /\ [call[p] EXCEPT !.locked = FALSE].pipe = call[p].pipe
          /\ [call[p] EXCEPT !.locked = FALSE].locked = FALSE
      BY <2>1 DEF Requests
    <3>2. QED
      BY <1>2, <3>1, Zenon
  <2>3. call' = [call EXCEPT ![p] = c]
    BY <1>3, <2>2
  <2>4. QED
    BY <2>2, <2>3, NotNull DEF FilesInv, FileTypes
<1>6. /\ asleep' \in [Procs -> Channels \cup {NULL}]
      /\ asleep'[p] = <<i, IF call[p].op = "write" THEN "nwrite" ELSE "nread">>
      /\ \A q \in Procs \ {p} : asleep'[q] = asleep[q]
  BY <1>3 DEF FilesInv, FileTypes, Channels
<1>7. ASSUME NEW q \in Procs
      PROVE  /\ asleep'[q] = <<i, "nread">> => pipe[i].writeopen
             /\ asleep'[q] = <<i, "nwrite">> => Count(pipe[i]) = PIPESIZE /\ pipe[i].readopen
  <2>1. CASE q = p
    BY <1>4, <1>6, <2>1
  <2>2. CASE q # p
    BY <1>6, <2>2 DEF FilesInv, SleepersRight
  <2>3. QED
    BY <2>1, <2>2
<1>8. Count(pipe'[i]) <= PIPESIZE /\ pipe'[i] \in PipeStates /\ pipe' \in [Pipes -> PipeStates \cup {NULL}]
  BY <1>2, <1>3, NotNull DEF FilesInv, FileTypes, NotOverfull
<1>9. ~HasLock(p, i)'
  BY <1>5 DEF HasLock
<1>10. QED
  BY <1>1, <1>2, <1>3, <1>4, <1>5, <1>6, <1>7, <1>8, <1>9, PipeStep

-----------------------------------------------------------------------------
(* All steps.                                                              *)

\* At the start there are no pipes.
LEMMA InitInv == FileInit => FilesInv
<1> SUFFICES ASSUME FileInit PROVE FilesInv
  OBVIOUS
<1>1. FileTypes /\ RefsCount
  BY DEF FileInit, FileTypes
<1>2. FileKinds
  <2>1. ASSUME NEW f \in Files, file[f].ref # 0
        PROVE  /\ file[f].type = "INODE" /\ file[f].pipe = NULL
               /\ file[f].ip \in Inodes /\ disk[file[f].ip] # NULL
               /\ file[f].off <= Len(disk[file[f].ip])
    <3>1. /\ file[f].type = "INODE" /\ file[f].pipe = NULL
          /\ file[f].ip \in Inodes /\ disk[file[f].ip] # NULL /\ file[f].off = 0
      BY <2>1 DEF FileInit
    <3>2. Len(disk[file[f].ip]) \in Nat
      BY <3>1 DEF FileInit
    <3>3. QED
      BY <3>1, <3>2
  <2>2. \A f \in Files : file[f].ref = 0 => file[f] = Closed
    BY DEF FileInit
  <2>3. QED
    BY <2>1, <2>2, ClosedState DEF FileKinds
<1>3. \A f \in Files, i \in Pipes, w \in BOOLEAN : ~HasEnd(f, i, w)
  <2>1. \A f \in Files : file[f].pipe = NULL
    BY ClosedState DEF FileInit
  <2>2. QED
    BY <2>1, NotNull DEF HasEnd
<1>4. \A p \in Procs, i \in Pipes, w \in BOOLEAN : ~ClosesEnd(p, i, w)
  BY DEF FileInit, ClosesEnd
<1>5. OneUser
  BY <1>3, <1>4 DEF OneUser
<1>6. PipeEnds
  BY <1>3, <1>4 DEF FileInit, PipeEnds, HasEnd, ClosesEnd
<1>7. CallsHold /\ Sleepers /\ NotOverfull /\ SleepersRight
  BY NotNull DEF FileInit, CallsHold, Sleepers, NotOverfull, SleepersRight, InPipe
<1>8. Locks /\ Pending
  BY DEF FileInit, Locks, HasLock, InPipe, Pending, InOp
<1>9. QED
  BY <1>1, <1>2, <1>5, <1>6, <1>7, <1>8 DEF FilesInv

\* Every step keeps the invariant.
LEMMA NextInv == FilesInv /\ [FileNext]_fvars => FilesInv'
<1> SUFFICES ASSUME FilesInv, [FileNext]_fvars PROVE FilesInv'
  OBVIOUS
<1>1. CASE UNCHANGED fvars
  BY <1>1, Same DEF fvars
<1>2. ASSUME NEW p \in Procs, Calls(p)
      PROVE  FilesInv'
  <2>1. call[p] = NULL /\ asleep[p] = NULL
    BY <1>2 DEF Calls
  <2>2. <<>> \in Seq(Nat)
    OBVIOUS
  <2>3. ASSUME NEW fd \in Fds, Start(p, fd, "read", <<>>)
        PROVE  FilesInv'
    BY <2>1, <2>2, <2>3, StartStep
  <2>4. ASSUME NEW fd \in Fds, NEW bytes \in Seq(Nat), Start(p, fd, "write", bytes)
        PROVE  FilesInv'
    BY <2>1, <2>4, StartStep
  <2>5. QED
    BY <1>2, <2>1, <2>3, <2>4, DupStep, CloseStep, PipeCallStep, OpenStep, ForkStep DEF Calls
<1>3. ASSUME NEW p \in Procs, CallStep(p)
      PROVE  FilesInv'
  <2>1. PipeWrite(p) \/ PipeRead(p) => UNCHANGED <<ofile, file, killed, disk>>
    BY DEF PipeWrite, PipeRead
  <2>2. QED
    BY <1>3, <2>1, PipeFileStep, PipeAllocStep, PipeBadStep, PipeCloseStep, PipeWriteStep, PipeReadStep,
       PipeSleepStep DEF CallStep
<1>4. ASSUME NEW p \in Procs, Kill(p)
      PROVE  FilesInv'
  BY <1>4, KillStep
<1>5. QED
  BY <1>1, <1>2, <1>3, <1>4 DEF FileNext

\* Open files and pipes, for any number of processes, descriptors, files and
\* pipes, whatever the processes call and whoever is killed when: the
\* reference count of a file is the number of descriptors that refer to it,
\* across dup(), fork() and close(); an end of a pipe is open exactly as long
\* as a file or a pipeclose() that is still to run needs it, so that no page of a
\* pipe is freed in use or lost; and the wakeups of piperead(), pipewrite() and
\* pipeclose() leave no writer asleep on a pipe with room, and nobody asleep on
\* a pipe whose other end is closed.
THEOREM FilesCorrect == FileSpec => [](RefsCount /\ PipeEnds /\ SleepersRight)
<1>1. FilesInv => RefsCount /\ PipeEnds /\ SleepersRight
  BY DEF FilesInv
<1>2. QED
  BY <1>1, InitInv, NextInv, PTL DEF FileSpec

-----------------------------------------------------------------------------
(* Readers, and the killed writer that wakes none of them.                 *)
SomeoneKilled == \E q \in Procs : killed[q]
ReadersEmpty ==
  \A p \in Procs, i \in Pipes : asleep[p] = <<i, "nread">> => Count(pipe[i]) = 0 \/ SomeoneKilled

\* As long as nobody is killed, pipewrite() wakes the readers of what it puts.
LEMMA ReadersStep ==
  ASSUME FilesInv, ReadersEmpty, FileNext, SomeoneKilled => SomeoneKilled'
  PROVE  ReadersEmpty'
<1> SUFFICES ASSUME ~SomeoneKilled, ~SomeoneKilled', NEW q \in Procs, NEW j \in Pipes, asleep'[q] = <<j, "nread">>
             PROVE  Count(pipe'[j]) = 0
  BY DEF ReadersEmpty
<1>1. asleep[q] = <<j, "nread">> => Count(pipe[j]) = 0
  BY DEF ReadersEmpty
<1>2. CASE pipe' = pipe /\ asleep' = asleep
  BY <1>1, <1>2
<1>3. ASSUME NEW p \in Procs, Kill(p)
      PROVE  FALSE
  BY <1>3 DEF Kill, SomeoneKilled, FilesInv, FileTypes
<1>4. ASSUME NEW p \in Procs, PipeAlloc(p)
      PROVE  Count(pipe'[j]) = 0
  <2>1. asleep' = asleep
    BY <1>4 DEF PipeAlloc
  <2>2. pipe[j] # NULL
    BY <2>1, NoPipe
  <2>3. CASE \A k \in Pipes : pipe[k] # NULL
    <3>1. pipe' = pipe
      BY <1>4, <2>3, Zenon DEF PipeAlloc
    <3>2. QED
      BY <1>2, <2>1, <3>1
  <2>4. CASE ~\A k \in Pipes : pipe[k] # NULL
    <3>1. PICK i \in Pipes : i = (CHOOSE k \in Pipes : pipe[k] = NULL) /\ pipe[i] = NULL
      BY <2>4
    <3>2. pipe' = [pipe EXCEPT ![i] = [data |-> [k \in 0 .. PIPESIZE - 1 |-> 0], nread |-> 0, nwrite |-> 0,
                                       readopen |-> TRUE, writeopen |-> TRUE]]
      BY <1>4, <2>4, <3>1, Zenon DEF PipeAlloc
    <3>3. pipe'[j] = pipe[j]
      BY <2>2, <3>1, <3>2 DEF FilesInv, FileTypes
    <3>4. QED
      BY <1>1, <2>1, <3>3
  <2>5. QED
    BY <2>3, <2>4
<1>5. ASSUME NEW p \in Procs, PipeClose(p)
      PROVE  Count(pipe'[j]) = 0
  <2>1. call[p] # NULL /\ call[p].op = "pipeclose" /\ call[p] \in Requests
    BY <1>5 DEF PipeClose, FilesInv, FileTypes
  <2>2. PICK i \in Pipes, w \in BOOLEAN : call[p].pipe = i /\ call[p].writable = w
    BY <2>1 DEF Requests
  <2>3. ClosesEnd(p, i, w) /\ asleep' = Wake({<<i, OtherEnd(w)>>})
    BY <1>5, <2>1, <2>2 DEF ClosesEnd, PipeClose
  <2>4. j # i /\ asleep[q] = <<j, "nread">>
    BY <2>3, NobodyLeft, NotNull
  <2>5. pipe'[j] = pipe[j]
    BY <1>5, <2>2, <2>4 DEF PipeClose, FilesInv, FileTypes
  <2>6. QED
    BY <1>1, <2>4, <2>5
<1>6. ASSUME NEW p \in Procs, PipeWrite(p)
      PROVE  Count(pipe'[j]) = 0
  <2>1. PICK i \in Pipes :
          /\ \A k \in Pipes \ {i} : pipe'[k] = pipe[k]
          /\ \/ asleep' = Wake({<<i, "nread">>})
             \/ asleep' = asleep /\ (~pipe[i].readopen \/ killed[p])
    <3>1. PICK i \in Pipes, n \in Nat : Writes(p, i, n)
      BY <1>6, PipeWriteIs
    <3>2. \A k \in Pipes \ {i} : pipe'[k] = pipe[k]
      BY <3>1 DEF Writes, FilesInv, FileTypes
    <3>3. QED
      BY <3>1, <3>2, Zenon DEF Writes
  <2>2. ~killed[p]
    BY DEF SomeoneKilled
  <2>3. <<i, "nread">> \in Channels /\ <<j, "nread">> # NULL /\ <<i, "nread">> # NULL
    BY NotNull DEF Channels
  <2>4. j # i /\ asleep[q] = <<j, "nread">>
    <3>1. CASE asleep' = Wake({<<i, "nread">>})
      BY <2>3, <3>1, WakeIs
    <3>2. CASE asleep' = asleep /\ ~pipe[i].readopen
      <4>1. ASSUME j = i PROVE FALSE
        <5>1. call[q].op # "write" /\ \E f \in Files : HasEnd(f, i, call[q].op = "write")
          BY <3>2, <4>1, SleeperOpen
        <5>2. \E f \in Files : HasEnd(f, i, FALSE)
          <6>1. (call[q].op = "write") = FALSE
            BY <5>1
          <6>2. QED
            BY <5>1, <6>1
        <5>3. pipe[i].readopen
          BY <5>2 DEF FilesInv, PipeEnds, HasEnd
        <5>4. QED
          BY <3>2, <5>3
      <4>2. QED
        BY <3>2, <4>1
    <3>3. QED
      BY <2>1, <2>2, <3>1, <3>2
  <2>5. QED
    BY <1>1, <2>1, <2>4
<1>7. ASSUME NEW p \in Procs, PipeRead(p)
      PROVE  Count(pipe'[j]) = 0
  <2>1. PICK i \in Pipes :
          /\ pipe[i] \in PipeStates
          /\ \/ pipe' = pipe /\ asleep' = asleep
             \/ /\ pipe' = [pipe EXCEPT ![i].nread = pipe[i].nwrite]
                /\ asleep' = Wake({<<i, "nwrite">>})
    <3>1. PICK i \in Pipes : Reads(p, i)
      BY <1>7, PipeReadIs
    <3>2. QED
      BY <3>1, Zenon DEF Reads
  <2>2. CASE pipe' = [pipe EXCEPT ![i].nread = pipe[i].nwrite] /\ asleep' = Wake({<<i, "nwrite">>})
    <3>1. <<i, "nwrite">> \in Channels /\ <<j, "nread">> # NULL
      BY NotNull DEF Channels
    <3>2. asleep[q] = <<j, "nread">>
      BY <2>2, <3>1, WakeIs
    <3>3. CASE j = i
      <4>1. pipe'[i] = [pipe[i] EXCEPT !.nread = pipe[i].nwrite]
        BY <2>2 DEF FilesInv, FileTypes
      <4>2. QED
        BY <2>1, <3>3, <4>1, EmptiedIs
    <3>4. CASE j # i
      BY <1>1, <2>2, <3>2, <3>4 DEF FilesInv, FileTypes
    <3>5. QED
      BY <3>3, <3>4
  <2>3. QED
    BY <1>2, <2>1, <2>2
<1>8. ASSUME NEW p \in Procs, PipeSleep(p)
      PROVE  Count(pipe'[j]) = 0
  <2>1. InPipe(p) /\ call[p].locked /\ pipe' = pipe
    BY <1>8 DEF PipeSleep, InPipe
  <2>2. asleep' = [asleep EXCEPT ![p] = <<call[p].pipe, IF call[p].op = "write" THEN "nwrite" ELSE "nread">>]
    BY <1>8 DEF PipeSleep
  <2>3. CASE q = p
    <3>1. <<call[p].pipe, IF call[p].op = "write" THEN "nwrite" ELSE "nread">> = <<j, "nread">>
      BY <2>2, <2>3 DEF FilesInv, FileTypes
    <3>2. call[p].pipe = j /\ call[p].op # "write"
      BY <3>1
    <3>3. HasLock(p, j)
      BY <2>1, <3>2 DEF HasLock
    <3>4. QED
      BY <2>1, <3>2, <3>3 DEF FilesInv, Locks
  <2>4. CASE q # p
    BY <1>1, <2>1, <2>2, <2>4 DEF FilesInv, FileTypes
  <2>5. QED
    BY <2>3, <2>4
<1>9. ASSUME NEW p \in Procs, PipeFile(p) \/ PipeBad(p)
      PROVE  Count(pipe'[j]) = 0
  <2>1. PipeFile(p) => pipe' = pipe /\ asleep' = asleep
    BY DEF PipeFile
  <2>2. PipeBad(p) => pipe' = pipe /\ asleep' = asleep
    BY DEF PipeBad, FileClose
  <2>3. QED
    BY <1>2, <1>9, <2>1, <2>2
<1>10. ASSUME NEW p \in Procs, Calls(p)
       PROVE  Count(pipe'[j]) = 0
  <2>1. ASSUME NEW fd \in Fds, NEW op, NEW bytes, Dup(p, fd) \/ Close(p, fd) \/ Start(p, fd, op, bytes)
        PROVE  pipe' = pipe /\ asleep' = asleep
    <3>1. Dup(p, fd) => pipe' = pipe /\ asleep' = asleep
      BY DEF Dup
    <3>2. Close(p, fd) => pipe' = pipe /\ asleep' = asleep
      BY DEF Close, FileClose, fvars
    <3>3. Start(p, fd, op, bytes) => pipe' = pipe /\ asleep' = asleep
      BY DEF Start
    <3>4. QED
      BY <2>1, <3>1, <3>2, <3>3
  <2>2. ASSUME NEW ip, NEW write, Open(p, ip, write)
        PROVE  pipe' = pipe /\ asleep' = asleep
    BY <2>2 DEF Open
  <2>3. ASSUME NEW k, Forks(p, k)
        PROVE  pipe' = pipe /\ asleep' = asleep
    BY <2>3 DEF Forks
  <2>4. PipeCall(p) => pipe' = pipe /\ asleep' = asleep
    BY DEF PipeCall
  <2>5. QED
    BY <1>2, <1>10, <2>1, <2>2, <2>3, <2>4 DEF Calls
<1>11. QED
  BY <1>3, <1>4, <1>5, <1>6, <1>7, <1>8, <1>9, <1>10 DEF FileNext, CallStep

\* The rest of NoMissedWakeup: no reader sleeps on a pipe with data, unless a
\* process was killed and the mark of its slot is still there to tell.  The
\* hypothesis is about the mark alone: fork() into the slot clears it, and a
\* reader that the killed writer left asleep is then asleep without excuse.
THEOREM WakeupsCorrect ==
  FileSpec /\ [][SomeoneKilled => SomeoneKilled']_fvars => []FilesRight
<1>1. FileInit => ReadersEmpty
  BY NotNull DEF FileInit, ReadersEmpty
<1>2. FilesInv /\ ReadersEmpty /\ [FileNext]_fvars /\ [SomeoneKilled => SomeoneKilled']_fvars => ReadersEmpty'
  <2>1. UNCHANGED fvars /\ ReadersEmpty => ReadersEmpty'
    BY DEF fvars, ReadersEmpty, SomeoneKilled
  <2>2. QED
    BY <2>1, ReadersStep
<1>3. FilesInv /\ ReadersEmpty => FilesRight
  BY DEF FilesInv, ReadersEmpty, SomeoneKilled, SleepersRight, NoMissedWakeup, FilesRight
<1>4. QED
  BY <1>1, <1>2, <1>3, InitInv, NextInv, PTL DEF FileSpec

=============================================================================
