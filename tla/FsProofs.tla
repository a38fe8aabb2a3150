------------------------------ MODULE FsProofs ------------------------------
(***************************************************************************)
(* Proofs about Fs, for every number of inodes, blocks, processes and      *)
(* calls, and every image that mkfs makes without running out of room: the *)
(* inode cache, the order of inode locks and the ownership of blocks.      *)
(***************************************************************************)
EXTENDS Fs, FiniteSetTheorems, WellFoundedInduction, TLAPS

(* The file system itself.                                                 *)
\* The names of entries; that these three are strings is lost on the provers.
Names == STRING \cup {"", ".", ".."}
NamedEnts == [name : Names, inum : 0 .. NInodes]
IcRecs == [ref : Nat, valid : BOOLEAN, lock : Procs \cup {NULL}, d : Dinodes]
FsTypes ==
  [dinode : [Inums -> Dinodes], ents : [Inums -> Seq(NamedEnts)],
   ind : [Blocks -> [0 .. NINDIRECT - 1 -> 0 .. NBlocks]], used : SUBSET Blocks,
   ic : [Inums -> IcRecs], panic : {"no", "full", "type", "bug"}]

\* An entry of i, other than "." and "..", that leads to j: no circles.
Dots == {".", ".."}
Edge(s, i, j) == \E k \in DOMAIN s.ents[i] : s.ents[i][k].inum = j /\ s.ents[i][k].name \notin Dots
NoLoops(s) == \A S \in SUBSET Inums : S # {} => \E i \in S : \A j \in S : ~Edge(s, i, j)

Owned(s) ==
  /\ \A i, j \in Inums : i # j => OwnBlocks(s, s.dinode[i]) \cap OwnBlocks(s, s.dinode[j]) = {}
  /\ \A b \in Blocks : b \in s.used <=> \E i \in Inums : b \in OwnBlocks(s, s.dinode[i])
  /\ \A i \in Inums : s.dinode[i].type = "FREE" => OwnBlocks(s, s.dinode[i]) = {}

\* An entry of the cache that is valid is what is on the disk; a locked one
\* is valid; only directories have entries.
Cached(s) ==
  /\ \A i \in Inums : s.ic[i].valid => s.ic[i].d = s.dinode[i]
  /\ \A i \in Inums : s.ic[i].lock # NULL => s.ic[i].valid
  /\ \A i \in Inums : s.dinode[i].type # "DIR" => s.ents[i] = <<>>
  /\ s.panic = "no" => \A i \in Inums : Covered(s.dinode[i]) /\ (s.ic[i].valid => s.dinode[i].type # "FREE")

FsOk(s) == s \in FsTypes /\ Cached(s) /\ NoLoops(s) /\ Owned(s)

(* The processes.                                                          *)
PCs == {"idle", "walk", "found", "linked", "parent", "unlock", "bad", "unlink", "unlinked", "exists",
        "made", "write", "end"}
Nums == 0 .. NInodes
ProcRecs ==
  [pc : PCs, call : Calls \cup {NULL}, at : Nums, elems : Seq(Names), parent : BOOLEAN,
   ip : Nums, dp : Nums, puts : Seq(Inums), drop : BOOLEAN]

\* Which of its variables are in use, with f the file that is open.
OfLink(r) == (r.pc \in {"parent", "unlock"} \/ (r.pc = "walk" /\ r.parent)) /\ r.call.op = "link"
ProcOk(r, f) ==
  /\ Len(r.puts) <= 2 /\ (r.puts = <<>> => ~r.drop)
  /\ r.at # 0 <=> r.pc = "walk"
  /\ r.dp # 0 <=> r.pc \in {"parent", "unlink", "unlock"}
  /\ r.ip # 0 <=> r.pc \in {"found", "linked", "bad", "unlink", "unlinked", "exists", "made"} \/ OfLink(r)
  /\ r.pc # "idle" => r.call \in Calls
  /\ r.pc = "write" => f # 0
  /\ r.pc \in {"parent", "unlink"} => r.elems # <<>>
  /\ r.pc \in {"linked", "bad"} => r.call.op = "link"
  /\ r.pc = "unlink" => r.call.op = "unlink"
  /\ r.pc \notin {"idle", "end"} /\ r.call.op \in {"open", "create"} => f = 0

\* The lock that a process keeps from one step to the next.
Keeps(r) == IF r.pc \in {"unlink", "unlock"} THEN r.dp ELSE IF r.pc \in {"unlinked", "made"} THEN r.ip ELSE 0

\* What a process relies on while it has a pointer to an inode.
Relies(s, r, p) ==
  /\ Keeps(r) # 0 => s.ic[Keeps(r)].lock = p
  /\ r.pc = "parent" => s.ic[r.dp].valid /\ s.ic[r.dp].d.type = "DIR"
  /\ r.pc # "idle" /\ r.call.op = "link" /\ r.ip # 0 /\ r.pc # "found" => s.ic[r.ip].valid /\ s.ic[r.ip].d.type # "DIR"
  /\ r.pc = "unlink" => r.elems[1] \notin Dots /\ Lookup(s, r.dp, r.elems[1]) = r.ip

ProcsOk ==
  /\ pr \in [Procs -> ProcRecs] /\ fd \in [Procs -> Nums] /\ cwd \in [Procs -> Inums]
  /\ \A p \in Procs : ProcOk(pr[p], fd[p]) /\ Relies(fs, pr[p], p)
  /\ \A i \in Inums : fs.ic[i].lock # NULL => Keeps(pr[fs.ic[i].lock]) = i

FsInv == FsOk(fs) /\ ProcsOk /\ RefsCounted

-----------------------------------------------------------------------------
(* Pointers to an inode, those of one process and those of the others.     *)
PutAt(r, n, i) == n \in DOMAIN r.puts /\ r.puts[n] = i
Where(f, i, S) == {q \in S : f[q] = i}
Vars(r, i, S) == {x \in S \X {"at", "ip", "dp"} : r[x[1]][x[2]] = i}
Puts(r, i, S) == {x \in S \X (1 .. 2) : PutAt(r[x[1]], x[2], i)}
Points(f, c, r, i, S) ==
  Cardinality(Where(f, i, S)) + Cardinality(Where(c, i, S)) + Cardinality(Vars(r, i, S)) + Cardinality(Puts(r, i, S))

If(b) == IF b THEN 1 ELSE 0
Count(f, c, r, i) ==
  If(f = i) + If(c = i) + (If(r.at = i) + If(r.ip = i) + If(r.dp = i)) + (If(PutAt(r, 1, i)) + If(PutAt(r, 2, i)))

LEMMA PointersAre ==
  ASSUME NEW i
  PROVE  Pointers(i) = Points(fd, cwd, pr, i, Procs)
BY DEF Pointers, Points, Where, Vars, Puts, PutAt

LEMMA AddIf ==
  ASSUME NEW A, IsFiniteSet(A), NEW x, x \notin A, NEW b \in BOOLEAN, NEW B, B = A \cup (IF b THEN {x} ELSE {})
  PROVE  IsFiniteSet(B) /\ Cardinality(B) = Cardinality(A) + If(b) /\ Cardinality(A) \in Nat
<1>1. Cardinality(A) \in Nat
  BY FS_CardinalityType
<1>2. CASE b
  <2>1. B = A \cup {x}
    BY <1>2
  <2> QED
    BY <1>1, <1>2, <2>1, FS_AddElement DEF If
<1>3. CASE ~b
  <2>1. B = A
    BY <1>3
  <2> QED
    BY <1>1, <1>3, <2>1 DEF If
<1> QED
  BY <1>2, <1>3

\* One process more.
LEMMA OneMore ==
  ASSUME NEW f, NEW i, NEW p \in Procs
  PROVE  /\ Cardinality(Where(f, i, Procs)) = Cardinality(Where(f, i, Procs \ {p})) + If(f[p] = i)
         /\ Cardinality(Where(f, i, Procs \ {p})) \in Nat /\ IsFiniteSet(Where(f, i, Procs \ {p}))
<1> DEFINE A == Where(f, i, Procs \ {p})
           B == Where(f, i, Procs)
           b == f[p] = i
<1>1. IsFiniteSet(A)
  <2>1. A \subseteq Procs /\ IsFiniteSet(Procs)
    BY FsAssumption DEF Where
  <2> QED
    BY <2>1, FS_Subset
<1>2. B = A \cup (IF b THEN {p} ELSE {}) /\ p \notin A /\ b \in BOOLEAN
  BY DEF Where
<1> HIDE DEF A, B, b
<1>3. Cardinality(B) = Cardinality(A) + If(b) /\ Cardinality(A) \in Nat
  BY <1>1, <1>2, AddIf
<1> QED
  BY <1>1, <1>3 DEF A, B, b

LEMMA ThreeMore ==
  ASSUME NEW r, NEW i, NEW p \in Procs
  PROVE  /\ Cardinality(Vars(r, i, Procs))
              = Cardinality(Vars(r, i, Procs \ {p})) + (If(r[p].at = i) + If(r[p].ip = i) + If(r[p].dp = i))
         /\ Cardinality(Vars(r, i, Procs \ {p})) \in Nat /\ IsFiniteSet(Vars(r, i, Procs \ {p}))
<1> USE DEF Vars
<1> DEFINE A == Vars(r, i, Procs \ {p})
           B == Vars(r, i, Procs)
           b1 == r[p].at = i
           b2 == r[p].ip = i
           b3 == r[p].dp = i
           A1 == A \cup (IF b1 THEN {<<p, "at">>} ELSE {})
           A2 == A1 \cup (IF b2 THEN {<<p, "ip">>} ELSE {})
           A3 == A2 \cup (IF b3 THEN {<<p, "dp">>} ELSE {})
<1>1. IsFiniteSet(A)
  <2>1. IsFiniteSet(Procs \X {"at", "ip", "dp"})
    <3>1. IsFiniteSet({"at", "ip", "dp"})
      <4>1. IsFiniteSet({"at"})
        BY FS_Singleton
      <4>2. IsFiniteSet({"at"} \cup {"ip"})
        BY <4>1, FS_AddElement
      <4>3. IsFiniteSet(({"at"} \cup {"ip"}) \cup {"dp"})
        BY <4>2, FS_AddElement
      <4>4. ({"at"} \cup {"ip"}) \cup {"dp"} = {"at", "ip", "dp"}
        OBVIOUS
      <4> QED
        BY <4>3, <4>4
    <3> QED
      BY <3>1, FsAssumption, FS_Product
  <2>2. A \subseteq Procs \X {"at", "ip", "dp"}
    OBVIOUS
  <2> QED
    BY <2>1, <2>2, FS_Subset
<1>2. <<p, "at">> \notin A /\ <<p, "ip">> \notin A1 /\ <<p, "dp">> \notin A2
  OBVIOUS
<1>3. B = A3
  <2>1. ASSUME NEW x \in Procs \X {"at", "ip", "dp"}, x[1] = p
        PROVE  x \in {<<p, "at">>, <<p, "ip">>, <<p, "dp">>}
    BY <2>1
  <2>2. ASSUME NEW x \in B PROVE x \in A3
    <3>1. CASE x[1] = p
      BY <2>1, <2>2, <3>1
    <3>2. CASE x[1] # p
      BY <2>2, <3>2
    <3> QED
      BY <3>1, <3>2
  <2>3. ASSUME NEW x \in A3 PROVE x \in B
    BY <2>3
  <2> QED
    BY <2>2, <2>3
<1>4. b1 \in BOOLEAN /\ b2 \in BOOLEAN /\ b3 \in BOOLEAN
  OBVIOUS
<1> HIDE DEF A, B, b1, b2, b3, Vars
<1>5. IsFiniteSet(A1) /\ Cardinality(A1) = Cardinality(A) + If(b1) /\ Cardinality(A) \in Nat
  BY <1>1, <1>2, <1>4, AddIf
<1> HIDE DEF A1
<1>6. IsFiniteSet(A2) /\ Cardinality(A2) = Cardinality(A1) + If(b2)
  BY <1>2, <1>4, <1>5, AddIf
<1> HIDE DEF A2
<1>7. Cardinality(A3) = Cardinality(A2) + If(b3)
  BY <1>2, <1>4, <1>6, AddIf
<1>8. Cardinality(B) = Cardinality(A) + (If(b1) + If(b2) + If(b3))
  BY <1>3, <1>5, <1>6, <1>7 DEF If
<1> QED
  BY <1>1, <1>5, <1>8 DEF A, B, b1, b2, b3

LEMMA TwoMore ==
  ASSUME NEW r, NEW i, NEW p \in Procs
  PROVE  /\ Cardinality(Puts(r, i, Procs))
              = Cardinality(Puts(r, i, Procs \ {p})) + (If(PutAt(r[p], 1, i)) + If(PutAt(r[p], 2, i)))
         /\ Cardinality(Puts(r, i, Procs \ {p})) \in Nat /\ IsFiniteSet(Puts(r, i, Procs \ {p}))
<1> USE DEF Puts
<1> DEFINE A == Puts(r, i, Procs \ {p})
           B == Puts(r, i, Procs)
           b1 == PutAt(r[p], 1, i)
           b2 == PutAt(r[p], 2, i)
           A1 == A \cup (IF b1 THEN {<<p, 1>>} ELSE {})
           A2 == A1 \cup (IF b2 THEN {<<p, 2>>} ELSE {})
<1>1. IsFiniteSet(A)
  <2>1. IsFiniteSet(Procs \X (1 .. 2))
    <3>1. IsFiniteSet(1 .. 2)
      <4>1. IsFiniteSet({1})
        BY FS_Singleton
      <4>2. IsFiniteSet({1} \cup {2})
        BY <4>1, FS_AddElement
      <4>3. {1} \cup {2} = 1 .. 2
        OBVIOUS
      <4> QED
        BY <4>2, <4>3
    <3> QED
      BY <3>1, FsAssumption, FS_Product
  <2>2. A \subseteq Procs \X (1 .. 2)
    OBVIOUS
  <2> QED
    BY <2>1, <2>2, FS_Subset
<1>2. <<p, 1>> \notin A /\ <<p, 2>> \notin A1
  OBVIOUS
<1>3. B = A2
  <2>1. ASSUME NEW x \in Procs \X (1 .. 2), x[1] = p
        PROVE  x \in {<<p, 1>>, <<p, 2>>}
    BY <2>1
  <2>2. ASSUME NEW x \in B PROVE x \in A2
    <3>1. CASE x[1] = p
      BY <2>1, <2>2, <3>1
    <3>2. CASE x[1] # p
      BY <2>2, <3>2
    <3> QED
      BY <3>1, <3>2
  <2>3. ASSUME NEW x \in A2 PROVE x \in B
    BY <2>3
  <2> QED
    BY <2>2, <2>3
<1>4. b1 \in BOOLEAN /\ b2 \in BOOLEAN
  BY DEF PutAt
<1> HIDE DEF A, B, b1, b2, Puts
<1>5. IsFiniteSet(A1) /\ Cardinality(A1) = Cardinality(A) + If(b1) /\ Cardinality(A) \in Nat
  BY <1>1, <1>2, <1>4, AddIf
<1> HIDE DEF A1
<1>6. Cardinality(A2) = Cardinality(A1) + If(b2)
  BY <1>2, <1>4, <1>5, AddIf
<1>7. Cardinality(B) = Cardinality(A) + (If(b1) + If(b2))
  BY <1>3, <1>5, <1>6 DEF If
<1> QED
  BY <1>1, <1>5, <1>7 DEF A, B, b1, b2

LEMMA PointsSplit ==
  ASSUME NEW f, NEW c, NEW r, NEW i, NEW p \in Procs
  PROVE  /\ Points(f, c, r, i, Procs) = Points(f, c, r, i, Procs \ {p}) + Count(f[p], c[p], r[p], i)
         /\ Points(f, c, r, i, Procs \ {p}) \in Nat
<1> DEFINE a(S) == Cardinality(Where(f, i, S))
           b(S) == Cardinality(Where(c, i, S))
           d(S) == Cardinality(Vars(r, i, S))
           e(S) == Cardinality(Puts(r, i, S))
           O == Procs \ {p}
           na == If(f[p] = i)
           nb == If(c[p] = i)
           nd == If(r[p].at = i) + If(r[p].ip = i) + If(r[p].dp = i)
           ne == If(PutAt(r[p], 1, i)) + If(PutAt(r[p], 2, i))
<1>1. \A S : Points(f, c, r, i, S) = a(S) + b(S) + d(S) + e(S)
  BY DEF Points
<1>2. a(Procs) = a(O) + na /\ b(Procs) = b(O) + nb /\ a(O) \in Nat /\ b(O) \in Nat
  <2>1. a(Procs) = a(O) + na /\ a(O) \in Nat
    BY OneMore
  <2>2. b(Procs) = b(O) + nb /\ b(O) \in Nat
    BY OneMore
  <2> QED
    BY <2>1, <2>2
<1>3. d(Procs) = d(O) + nd /\ d(O) \in Nat
  BY ThreeMore
<1>4. e(Procs) = e(O) + ne /\ e(O) \in Nat
  BY TwoMore
<1>5. Count(f[p], c[p], r[p], i) = na + nb + nd + ne
  BY DEF Count
<1>6. na \in Nat /\ nb \in Nat /\ nd \in Nat /\ ne \in Nat
  <2>1. \A x : If(x) \in Nat
    BY DEF If
  <2> QED
    BY <2>1
<1> HIDE DEF a, b, d, e, O, na, nb, nd, ne
<1>7. Points(f, c, r, i, Procs) = (a(O) + na) + (b(O) + nb) + (d(O) + nd) + (e(O) + ne)
  BY <1>1, <1>2, <1>3, <1>4
<1>8. Points(f, c, r, i, O) = a(O) + b(O) + d(O) + e(O)
  BY <1>1
<1>9. Points(f, c, r, i, Procs) = Points(f, c, r, i, O) + Count(f[p], c[p], r[p], i) /\ Points(f, c, r, i, O) \in Nat
  BY <1>2, <1>3, <1>4, <1>5, <1>6, <1>7, <1>8
<1> QED
  BY <1>9 DEF O

\* A step of p moves its own pointers only.
LEMMA OthersSame ==
  ASSUME NEW p \in Procs, NEW i, NEW f, NEW c, NEW r, NEW f2, NEW c2, NEW r2,
         \A q \in Procs \ {p} : f2[q] = f[q] /\ c2[q] = c[q] /\ r2[q] = r[q]
  PROVE  Points(f2, c2, r2, i, Procs \ {p}) = Points(f, c, r, i, Procs \ {p})
<1> DEFINE O == Procs \ {p}
<1>1. Where(f2, i, O) = Where(f, i, O) /\ Where(c2, i, O) = Where(c, i, O)
  BY DEF Where
<1>2. Vars(r2, i, O) = Vars(r, i, O)
  <2>1. \A x \in O \X {"at", "ip", "dp"} : r2[x[1]] = r[x[1]]
    OBVIOUS
  <2> QED
    BY <2>1 DEF Vars
<1>3. Puts(r2, i, O) = Puts(r, i, O)
  <2>1. \A x \in O \X (1 .. 2) : r2[x[1]] = r[x[1]]
    OBVIOUS
  <2> QED
    BY <2>1 DEF Puts
<1> QED
  BY <1>1, <1>2, <1>3 DEF Points

\* x and y are the file and the directory of p after the step, r its variables.
Moves(p, x, y, r) ==
  /\ \A q \in Procs \ {p} : fd'[q] = fd[q] /\ cwd'[q] = cwd[q] /\ pr'[q] = pr[q]
  /\ fd'[p] = x /\ cwd'[p] = y /\ pr'[p] = r

LEMMA CountNat ==
  ASSUME NEW f, NEW c, NEW r, NEW i
  PROVE  Count(f, c, r, i) \in Nat
<1>1. \A b : If(b) \in Nat
  BY DEF If
<1> QED
  BY <1>1 DEF Count

LEMMA RefsMove ==
  ASSUME FsInv, NEW p \in Procs, NEW x, NEW y, NEW r, Moves(p, x, y, r),
         \A i \in Inums : fs'.ic[i].ref = fs.ic[i].ref + (Count(x, y, r, i) - Count(fd[p], cwd[p], pr[p], i))
  PROVE  RefsCounted'
<1> SUFFICES ASSUME NEW i \in Inums PROVE fs'.ic[i].ref = Points(fd', cwd', pr', i, Procs)
  BY DEF RefsCounted, Pointers, Points, Where, Vars, Puts, PutAt
<1>1. fs.ic[i].ref = Points(fd, cwd, pr, i, Procs)
  BY PointersAre DEF FsInv, RefsCounted
<1>2. PICK m \in Nat : m = Points(fd, cwd, pr, i, Procs \ {p})
  BY PointsSplit
<1>3. Points(fd', cwd', pr', i, Procs \ {p}) = m
  BY <1>2, OthersSame DEF Moves
<1>4. PICK a \in Nat, b \in Nat : a = Count(fd[p], cwd[p], pr[p], i) /\ b = Count(x, y, r, i)
  BY CountNat
<1>5. Points(fd, cwd, pr, i, Procs) = m + a
  BY <1>2, <1>4, PointsSplit
<1>6. Points(fd', cwd', pr', i, Procs) = m + b
  BY <1>3, <1>4, PointsSplit DEF Moves
<1>7. fs'.ic[i].ref = fs.ic[i].ref + (b - a)
  BY <1>4
<1> QED
  BY <1>1, <1>5, <1>6, <1>7

\* What a pointer of its own, or of another process, is counted for.
Has(q, i) == fd[q] = i \/ cwd[q] = i \/ pr[q].at = i \/ pr[q].ip = i \/ pr[q].dp = i \/ PutAt(pr[q], 1, i) \/ PutAt(pr[q], 2, i)

LEMMA HasCounts ==
  ASSUME NEW q, NEW i, Has(q, i)
  PROVE  Count(fd[q], cwd[q], pr[q], i) >= 1
<1>1. \A b : If(b) \in Nat /\ (b => If(b) = 1)
  BY DEF If
<1> DEFINE a1 == If(fd[q] = i)
           a2 == If(cwd[q] = i)
           a3 == If(pr[q].at = i)
           a4 == If(pr[q].ip = i)
           a5 == If(pr[q].dp = i)
           a6 == If(PutAt(pr[q], 1, i))
           a7 == If(PutAt(pr[q], 2, i))
<1>2. a1 \in Nat /\ a2 \in Nat /\ a3 \in Nat /\ a4 \in Nat /\ a5 \in Nat /\ a6 \in Nat /\ a7 \in Nat
  BY <1>1
<1>3. a1 = 1 \/ a2 = 1 \/ a3 = 1 \/ a4 = 1 \/ a5 = 1 \/ a6 = 1 \/ a7 = 1
  BY <1>1 DEF Has
<1>4. Count(fd[q], cwd[q], pr[q], i) = a1 + a2 + (a3 + a4 + a5) + (a6 + a7)
  BY DEF Count
<1> HIDE DEF a1, a2, a3, a4, a5, a6, a7
<1> QED
  BY <1>2, <1>3, <1>4

LEMMA Referenced ==
  ASSUME FsInv, NEW p \in Procs, NEW i \in Inums
  PROVE  /\ fs.ic[i].ref >= Count(fd[p], cwd[p], pr[p], i) /\ fs.ic[i].ref \in Nat
         /\ \A q \in Procs : q # p /\ Has(q, i) => fs.ic[i].ref > Count(fd[p], cwd[p], pr[p], i)
<1>1. fs.ic[i].ref = Points(fd, cwd, pr, i, Procs)
  BY PointersAre DEF FsInv, RefsCounted
<1>2. PICK m \in Nat : m = Points(fd, cwd, pr, i, Procs \ {p})
  BY PointsSplit
<1>4. PICK a \in Nat : a = Count(fd[p], cwd[p], pr[p], i)
  BY CountNat
<1>5. Points(fd, cwd, pr, i, Procs) = m + a
  BY <1>2, <1>4, PointsSplit
<1>6. ASSUME NEW q \in Procs, q # p, Has(q, i) PROVE m > 0
  <2> DEFINE O == Procs \ {p}
             a1 == Cardinality(Where(fd, i, O))
             a2 == Cardinality(Where(cwd, i, O))
             a3 == Cardinality(Vars(pr, i, O))
             a4 == Cardinality(Puts(pr, i, O))
  <2>1. IsFiniteSet(Where(fd, i, O)) /\ IsFiniteSet(Where(cwd, i, O))
    <3>1. IsFiniteSet(Where(fd, i, O))
      BY OneMore
    <3>2. IsFiniteSet(Where(cwd, i, O))
      BY OneMore
    <3> QED
      BY <3>1, <3>2
  <2>2. IsFiniteSet(Vars(pr, i, O))
    BY ThreeMore
  <2>3. IsFiniteSet(Puts(pr, i, O))
    BY TwoMore
  <2>4. Where(fd, i, O) # {} \/ Where(cwd, i, O) # {} \/ Vars(pr, i, O) # {} \/ Puts(pr, i, O) # {}
    <3>1. fd[q] = i => q \in Where(fd, i, O)
      BY <1>6 DEF Where
    <3>2. cwd[q] = i => q \in Where(cwd, i, O)
      BY <1>6 DEF Where
    <3>3. pr[q].at = i => <<q, "at">> \in Vars(pr, i, O)
      BY <1>6 DEF Vars
    <3>4. pr[q].ip = i => <<q, "ip">> \in Vars(pr, i, O)
      BY <1>6 DEF Vars
    <3>5. pr[q].dp = i => <<q, "dp">> \in Vars(pr, i, O)
      BY <1>6 DEF Vars
    <3>6. PutAt(pr[q], 1, i) => <<q, 1>> \in Puts(pr, i, O)
      BY <1>6 DEF Puts
    <3>7. PutAt(pr[q], 2, i) => <<q, 2>> \in Puts(pr, i, O)
      BY <1>6 DEF Puts
    <3> QED
      BY <1>6, <3>1, <3>2, <3>3, <3>4, <3>5, <3>6, <3>7 DEF Has
  <2>5. \A S : IsFiniteSet(S) => Cardinality(S) \in Nat /\ (S # {} => Cardinality(S) # 0)
    BY FS_CardinalityType, FS_EmptySet
  <2>6. a1 \in Nat /\ a2 \in Nat /\ a3 \in Nat /\ a4 \in Nat /\ (a1 # 0 \/ a2 # 0 \/ a3 # 0 \/ a4 # 0)
    BY <2>1, <2>2, <2>3, <2>4, <2>5
  <2>7. m = a1 + a2 + a3 + a4
    BY <1>2 DEF Points
  <2> HIDE DEF a1, a2, a3, a4
  <2> QED
    BY <2>6, <2>7
<1>7. fs.ic[i].ref = m + a
  BY <1>1, <1>5
<1> QED
  BY <1>4, <1>6, <1>7

-----------------------------------------------------------------------------
(* The least member of a set, and the block that a record falls in.        *)
LEMMA LowestIs ==
  ASSUME NEW u \in SUBSET Nat, u # {}
  PROVE  Lowest(u) \in u /\ \A y \in u : Lowest(u) <= y
<1> DEFINE R == {ss \in Nat \X Nat : ss[1] < ss[2]}
<1>1. IsWellFoundedOn(R, Nat)
  BY NatLessThanWellFounded, Zenon DEF OpToRel
<1>2. \A m, n \in Nat : m < n => <<m, n>> \in R
  OBVIOUS
<1> HIDE DEF R
<1>3. PICK x \in u : \A y \in u : ~(<<y, x>> \in R)
  BY <1>1, WFMin, Zenon
<1>4. ASSUME NEW y \in u PROVE x <= y
  <2>1. x \in Nat /\ y \in Nat /\ ~(y < x)
    BY <1>2, <1>3
  <2> QED
    BY <2>1
<1>5. \E z \in u : \A y \in u : z <= y
  BY <1>4
<1> QED
  BY <1>5 DEF Lowest

LEMMA Multiples ==
  ASSUME NEW a \in Nat, NEW b \in Nat, NEW C \in Nat \ {0}
  PROVE  /\ a * C \in Nat
         /\ a < b => a * C + C <= b * C
         /\ a <= b => a * C <= b * C
<1>1. a * C \in Nat /\ b * C \in Nat
  OBVIOUS
<1>2. ASSUME a < b PROVE a * C + C <= b * C
  <2>1. PICK d \in Nat : b = a + 1 + d
    <3>1. b - a - 1 \in Nat /\ b = a + 1 + (b - a - 1)
      BY <1>2
    <3> QED
      BY <3>1
  <2>2. b * C = a * C + C + d * C /\ d * C \in Nat
    BY <2>1
  <2> QED
    BY <2>2, <1>1
<1>3. ASSUME a <= b PROVE a * C <= b * C
  <2>1. CASE a = b
    BY <1>1, <2>1
  <2>2. CASE a < b
    BY <1>1, <1>2, <2>2
  <2> QED
    BY <1>3, <2>1, <2>2
<1> QED
  BY <1>1, <1>2, <1>3

\* Record off is in block off \div EPB, and the block is there for it.
LEMMA BlockOf ==
  ASSUME NEW off \in Nat, off < MAXFILE
  PROVE  /\ off \div EPB \in Nat /\ off \div EPB < NDIRECT + NINDIRECT
         /\ \A n \in Nat : n * EPB \in Nat /\ (n * EPB <= off <=> n <= off \div EPB)
<1> DEFINE q == off \div EPB
<1>1. EPB \in Nat \ {0} /\ NDIRECT \in Nat \ {0} /\ NINDIRECT \in Nat
  BY MkfsAssumption
<1>2. q \in Nat /\ off % EPB \in 0 .. EPB - 1
  BY <1>1
<1>3. off = EPB * q + (off % EPB)
  BY <1>1
<1>4. q * EPB = EPB * q /\ q * EPB \in Nat
  BY <1>1, <1>2
<1> HIDE DEF q
<1>5. PICK e \in 0 .. EPB - 1 : off = q * EPB + e
  BY <1>2, <1>3, <1>4
<1>6. PICK m \in Nat : m = NDIRECT + NINDIRECT /\ off < m * EPB
  BY <1>1 DEF MAXFILE
<1>7. q < m
  <2>1. m * EPB \in Nat /\ (m <= q => m * EPB <= q * EPB)
    BY <1>1, <1>2, <1>6, Multiples
  <2> QED
    BY <1>1, <1>2, <1>4, <1>5, <1>6, <2>1
<1>8. ASSUME NEW n \in Nat PROVE n * EPB \in Nat /\ (n * EPB <= off <=> n <= q)
  <2>1. n * EPB \in Nat /\ (n <= q => n * EPB <= q * EPB)
    BY <1>1, <1>2, Multiples
  <2>2. q < n => q * EPB + EPB <= n * EPB
    BY <1>1, <1>2, Multiples
  <2> QED
    BY <1>1, <1>2, <1>4, <1>5, <2>1, <2>2
<1> QED
  BY <1>2, <1>6, <1>7, <1>8 DEF q

-----------------------------------------------------------------------------
(* What an operation on the file system leaves alone.                      *)
SameDisk(s, t) == t.dinode = s.dinode /\ t.ents = s.ents /\ t.ind = s.ind /\ t.used = s.used
SameLocks(s, t) == \A i \in Inums : t.ic[i].lock = s.ic[i].lock
SameRefs(s, t) == \A i \in Inums : t.ic[i].ref = s.ic[i].ref
StaysValid(s, t) == \A i \in Inums : s.ic[i].valid => t.ic[i].valid /\ t.ic[i].d.type = s.ic[i].d.type
SameEnts(s, t, X) == \A i \in Inums \ X : t.ents[i] = s.ents[i]
AllCovered(s) == \A i \in Inums : Covered(s.dinode[i])

LEMMA Typed ==
  ASSUME NEW s \in FsTypes
  PROVE  /\ s.dinode \in [Inums -> Dinodes] /\ s.ents \in [Inums -> Seq(NamedEnts)]
         /\ s.ind \in [Blocks -> [0 .. NINDIRECT - 1 -> 0 .. NBlocks]] /\ s.used \subseteq Blocks
         /\ s.ic \in [Inums -> IcRecs] /\ s.panic \in {"no", "full", "type", "bug"}
BY DEF FsTypes

LEMMA TypedIc ==
  ASSUME NEW s \in FsTypes, NEW i \in Inums
  PROVE  /\ s.ic[i] \in IcRecs /\ s.ic[i].ref \in Nat /\ s.ic[i].valid \in BOOLEAN
         /\ s.ic[i].lock \in Procs \cup {NULL} /\ s.ic[i].d \in Dinodes /\ s.dinode[i] \in Dinodes
         /\ s.ents[i] \in Seq(NamedEnts)
<1>1. s.ic \in [Inums -> IcRecs] /\ s.dinode \in [Inums -> Dinodes] /\ s.ents \in [Inums -> Seq(NamedEnts)]
  BY Typed
<1>2. s.ic[i] \in IcRecs
  BY <1>1
<1> QED
  BY <1>1, <1>2 DEF IcRecs

\* The cache changes and the disk does not.
LEMMA CacheOnly ==
  ASSUME NEW s, NEW t, FsOk(s), t \in FsTypes, SameDisk(s, t),
         \A i \in Inums : t.ic[i].valid => t.ic[i].d = t.dinode[i],
         \A i \in Inums : t.ic[i].lock # NULL => t.ic[i].valid,
         t.panic = "no" => s.panic = "no" /\ \A i \in Inums : t.ic[i].valid => t.dinode[i].type # "FREE"
  PROVE  FsOk(t)
<1>1. Cached(t)
  BY DEF FsOk, Cached, SameDisk
<1>2. NoLoops(t)
  <2>1. \A i, j : Edge(t, i, j) <=> Edge(s, i, j)
    BY DEF Edge, SameDisk
  <2> QED
    BY <2>1 DEF FsOk, NoLoops
<1>3. Owned(t)
  <2>1. \A d : OwnBlocks(t, d) = OwnBlocks(s, d)
    BY DEF OwnBlocks, SameDisk
  <2> QED
    BY <2>1 DEF FsOk, Owned, SameDisk
<1> QED
  BY <1>1, <1>2, <1>3 DEF FsOk

LEMMA OwnedAgain ==
  ASSUME NEW s, NEW t, Owned(s), t.used = s.used,
         \A j \in Inums : OwnBlocks(t, t.dinode[j]) = OwnBlocks(s, s.dinode[j]),
         \A j \in Inums : t.dinode[j].type = "FREE" => s.dinode[j].type = "FREE"
  PROVE  Owned(t)
BY DEF Owned

LEMMA SameOwned ==
  ASSUME NEW s, NEW t, Owned(s), t.dinode = s.dinode, t.used = s.used, \A d : OwnBlocks(t, d) = OwnBlocks(s, d)
  PROVE  Owned(t)
BY DEF Owned

\* A panic, and nothing else.
LEMMA Panicked ==
  ASSUME NEW s, FsOk(s), NEW x \in {"full", "bug"}, NEW t, t = [s EXCEPT !.panic = x]
  PROVE  FsOk(t) /\ SameDisk(s, t) /\ t.ic = s.ic /\ t.panic = x
<1>1. t \in FsTypes /\ SameDisk(s, t) /\ t.ic = s.ic /\ t.panic = x
  BY DEF FsOk, FsTypes, SameDisk
<1>2. Cached(s)
  BY DEF FsOk
<1>3. FsOk(t)
  <2>1. \A i \in Inums : t.ic[i].valid => t.ic[i].d = t.dinode[i]
    BY <1>1, <1>2 DEF Cached, SameDisk
  <2>2. \A i \in Inums : t.ic[i].lock # NULL => t.ic[i].valid
    BY <1>1, <1>2 DEF Cached, SameDisk
  <2> QED
    BY <1>1, <2>1, <2>2, CacheOnly
<1> QED
  BY <1>1, <1>3

PanicDoes(s, t) ==
  /\ SameDisk(s, t) /\ t.ic = s.ic /\ (t.panic = "no" => s.panic = "no")
  /\ SameLocks(s, t) /\ SameRefs(s, t) /\ StaysValid(s, t)

LEMMA PanicIfIs ==
  ASSUME NEW s, FsOk(s), NEW b \in BOOLEAN, NEW t, t = PanicIf(s, b)
  PROVE  FsOk(t) /\ PanicDoes(s, t)
<1>1. CASE b
  <2>1. t = [s EXCEPT !.panic = "bug"]
    BY <1>1 DEF PanicIf
  <2>2. FsOk(t) /\ SameDisk(s, t) /\ t.ic = s.ic /\ t.panic = "bug"
    BY <2>1, Panicked
  <2> QED
    BY <2>2 DEF SameLocks, SameRefs, StaysValid, PanicDoes
<1>2. CASE ~b
  BY <1>2 DEF PanicIf, SameDisk, SameLocks, SameRefs, StaysValid, PanicDoes
<1> QED
  BY <1>1, <1>2

IlockDoes(s, t, i) ==
  /\ SameDisk(s, t) /\ SameLocks(s, t) /\ SameRefs(s, t) /\ StaysValid(s, t)
  /\ t.ic[i].valid /\ t.ic[i].d = t.dinode[i] /\ \A j \in Inums \ {i} : t.ic[j] = s.ic[j]

LEMMA IlockIs ==
  ASSUME NEW s, FsOk(s), NEW i \in Inums, NEW t, t = Ilock(s, i)
  PROVE  FsOk(t) /\ IlockDoes(s, t, i)
<1> DEFINE c == s.ic[i]
           d == IF c.valid THEN c.d ELSE s.dinode[i]
           b == c.ref < 1
           f == ~c.valid /\ s.dinode[i].type = "FREE" /\ c.ref > 0
           u == [s EXCEPT !.ic[i].valid = TRUE, !.ic[i].d = d]
<1>1. t = IF f THEN [u EXCEPT !.panic = "type"] ELSE PanicIf(u, b)
  BY DEF Ilock
<1>2. s \in FsTypes
  BY DEF FsOk
<1>3. /\ c \in IcRecs /\ s.dinode[i] \in Dinodes /\ s.ic \in [Inums -> IcRecs]
      /\ (c.valid => c.d = s.dinode[i])
  BY <1>2, Typed, TypedIc DEF FsOk, Cached
<1>4. d = s.dinode[i]
  BY <1>3
<1> HIDE DEF d, b, f
<1>5. u.ic = [s.ic EXCEPT ![i] = [c EXCEPT !.valid = TRUE, !.d = d]] /\ SameDisk(s, u) /\ u.panic = s.panic
  BY <1>2 DEF SameDisk, FsTypes
<1>6. [c EXCEPT !.valid = TRUE, !.d = d] \in IcRecs
  BY <1>3, <1>4 DEF IcRecs
<1>7. u \in FsTypes
  BY <1>2, <1>3, <1>6 DEF FsTypes
<1>8. /\ u.ic[i].valid /\ u.ic[i].d = s.dinode[i] /\ u.ic[i].ref = c.ref /\ u.ic[i].lock = c.lock
      /\ \A j \in Inums \ {i} : u.ic[j] = s.ic[j]
  BY <1>3, <1>4, <1>5 DEF IcRecs
<1> HIDE DEF u
<1>9. t \in FsTypes /\ SameDisk(s, t) /\ t.ic = u.ic /\ (t.panic = "no" => s.panic = "no" /\ ~f /\ ~b)
  <2>1. CASE f
    <3>1. t = [u EXCEPT !.panic = "type"]
      BY <1>1, <2>1
    <3> QED
      BY <1>5, <1>7, <2>1, <3>1 DEF FsTypes, SameDisk
  <2>2. CASE ~f /\ b
    <3>1. t = [u EXCEPT !.panic = "bug"]
      BY <1>1, <2>2 DEF PanicIf
    <3> QED
      BY <1>5, <1>7, <2>2, <3>1 DEF FsTypes, SameDisk
  <2>3. CASE ~f /\ ~b
    BY <1>1, <1>5, <1>7, <2>3 DEF PanicIf
  <2> QED
    BY <2>1, <2>2, <2>3
<1>10. FsOk(t)
  <2>1. \A j \in Inums : t.ic[j].valid => t.ic[j].d = t.dinode[j]
    BY <1>8, <1>9 DEF FsOk, Cached, SameDisk
  <2>2. \A j \in Inums : t.ic[j].lock # NULL => t.ic[j].valid
    BY <1>8, <1>9 DEF FsOk, Cached, SameDisk
  <2>3. t.panic = "no" => s.panic = "no" /\ \A j \in Inums : t.ic[j].valid => t.dinode[j].type # "FREE"
    <3>1. c.ref \in Nat
      BY <1>2, TypedIc
    <3> QED
      BY <1>8, <1>9, <3>1 DEF FsOk, Cached, SameDisk, b, f
  <2> QED
    BY <1>9, <2>1, <2>2, <2>3, CacheOnly
<1> QED
  BY <1>3, <1>8, <1>9, <1>10 DEF SameLocks, SameRefs, StaysValid, SameDisk, IlockDoes

SetLock(s, i, x) == [s EXCEPT !.ic[i].lock = x]

SetLockDoes(s, t, i, x) ==
  /\ SameDisk(s, t) /\ SameRefs(s, t) /\ StaysValid(s, t) /\ t.panic = s.panic
  /\ t.ic[i].lock = x /\ t.ic[i].valid = s.ic[i].valid /\ t.ic[i].d = s.ic[i].d
  /\ \A j \in Inums \ {i} : t.ic[j] = s.ic[j]

LEMMA SetLockIs ==
  ASSUME NEW s, FsOk(s), NEW i \in Inums, NEW x \in Procs \cup {NULL}, x # NULL => s.ic[i].valid,
         NEW t, t = SetLock(s, i, x)
  PROVE  FsOk(t) /\ SetLockDoes(s, t, i, x)
<1> DEFINE c == s.ic[i]
<1>1. s \in FsTypes
  BY DEF FsOk
<1>2. c \in IcRecs /\ s.ic \in [Inums -> IcRecs]
  BY <1>1, Typed, TypedIc
<1>3. t.ic = [s.ic EXCEPT ![i] = [c EXCEPT !.lock = x]] /\ SameDisk(s, t) /\ t.panic = s.panic
  BY <1>1 DEF SameDisk, FsTypes, SetLock
<1>4. [c EXCEPT !.lock = x] \in IcRecs
  BY <1>2 DEF IcRecs
<1>5. t \in FsTypes
  BY <1>1, <1>2, <1>4 DEF FsTypes, SetLock
<1>6. /\ t.ic[i].lock = x /\ t.ic[i].valid = c.valid /\ t.ic[i].d = c.d /\ t.ic[i].ref = c.ref
      /\ \A j \in Inums \ {i} : t.ic[j] = s.ic[j]
  BY <1>2, <1>3 DEF IcRecs
<1>7. FsOk(t)
  <2>1. \A j \in Inums : t.ic[j].valid => t.ic[j].d = t.dinode[j]
    BY <1>3, <1>6 DEF FsOk, Cached, SameDisk
  <2>2. \A j \in Inums : t.ic[j].lock # NULL => t.ic[j].valid
    BY <1>3, <1>6 DEF FsOk, Cached, SameDisk
  <2>3. t.panic = "no" => s.panic = "no" /\ \A j \in Inums : t.ic[j].valid => t.dinode[j].type # "FREE"
    BY <1>3, <1>6 DEF FsOk, Cached, SameDisk
  <2> QED
    BY <1>3, <1>5, <2>1, <2>2, <2>3, CacheOnly
<1> QED
  BY <1>3, <1>6, <1>7 DEF SameRefs, StaysValid, SetLockDoes

LockDoes(s, t, i, p) ==
  /\ SameDisk(s, t) /\ SameRefs(s, t) /\ StaysValid(s, t)
  /\ t.ic[i].lock = p /\ t.ic[i].valid /\ t.ic[i].d = t.dinode[i]
  /\ \A j \in Inums \ {i} : t.ic[j] = s.ic[j]

LEMMA LockIs ==
  ASSUME NEW s, FsOk(s), NEW i \in Inums, NEW p \in Procs, NEW t, t = Lock(s, i, p)
  PROVE  FsOk(t) /\ LockDoes(s, t, i, p)
<1> DEFINE u == Ilock(s, i)
<1> HIDE DEF u
<1>1. FsOk(u) /\ IlockDoes(s, u, i) /\ u.ic[i].valid
  <2>1. FsOk(u) /\ IlockDoes(s, u, i)
    BY IlockIs DEF u
  <2> QED
    BY <2>1 DEF IlockDoes
<1>2. t = SetLock(u, i, p) /\ p \in Procs \cup {NULL}
  BY DEF Lock, SetLock, u
<1>3. FsOk(t) /\ SetLockDoes(u, t, i, p)
  BY <1>1, <1>2, SetLockIs
<1> QED
  BY <1>1, <1>3 DEF SameDisk, SameRefs, StaysValid, IlockDoes, SetLockDoes, LockDoes

IunlockDoes(s, t, i) ==
  /\ SameDisk(s, t) /\ SameRefs(s, t) /\ StaysValid(s, t)
  /\ t.ic[i].lock = NULL /\ t.ic[i].valid = s.ic[i].valid /\ t.ic[i].d = s.ic[i].d
  /\ \A j \in Inums \ {i} : t.ic[j] = s.ic[j]

LEMMA IunlockIs ==
  ASSUME NEW s, FsOk(s), NEW i \in Inums, NEW t, t = Iunlock(s, i)
  PROVE  FsOk(t) /\ IunlockDoes(s, t, i)
<1> DEFINE u == SetLock(s, i, NULL)
           b == s.ic[i].ref < 1
<1>1. t = PanicIf(u, b) /\ b \in BOOLEAN
  BY DEF Iunlock, SetLock
<1> HIDE DEF u, b
<1>2. FsOk(u) /\ SetLockDoes(s, u, i, NULL)
  BY SetLockIs DEF u
<1>3. FsOk(t) /\ PanicDoes(u, t)
  BY <1>1, <1>2, PanicIfIs
<1> QED
  BY <1>2, <1>3 DEF SameDisk, SameRefs, StaysValid, SetLockDoes, PanicDoes, IunlockDoes

IgetDoes(s, t, i) ==
  /\ SameDisk(s, t) /\ SameLocks(s, t) /\ StaysValid(s, t) /\ (t.panic = "no" => s.panic = "no")
  /\ t.ic[i].ref = s.ic[i].ref + 1 /\ t.ic[i].valid = s.ic[i].valid /\ t.ic[i].d = s.ic[i].d
  /\ \A j \in Inums \ {i} : t.ic[j] = s.ic[j]

LEMMA IgetIs ==
  ASSUME NEW s, FsOk(s), NEW i \in Inums, NEW t, t = Iget(s, i)
  PROVE  FsOk(t) /\ IgetDoes(s, t, i)
<1> DEFINE c == s.ic[i]
<1>1. s \in FsTypes
  BY DEF FsOk
<1>2. c \in IcRecs /\ c.ref \in Nat /\ s.ic \in [Inums -> IcRecs]
  BY <1>1, Typed, TypedIc
<1> DEFINE v == [s EXCEPT !.ic[i].ref = @ + 1]
<1>0. t = v \/ t = [v EXCEPT !.panic = "full"]
  BY Zenon DEF Iget, Full
<1>4. [c EXCEPT !.ref = c.ref + 1] \in IcRecs
  BY <1>2 DEF IcRecs
<1>5. v \in FsTypes /\ v.ic = [s.ic EXCEPT ![i] = [c EXCEPT !.ref = c.ref + 1]] /\ SameDisk(s, v) /\ v.panic = s.panic
  BY <1>1, <1>2, <1>4 DEF FsTypes, SameDisk
<1> HIDE DEF v
<1>3. t \in FsTypes /\ t.ic = v.ic /\ SameDisk(s, t) /\ (t.panic = "no" => s.panic = "no")
  <2>1. CASE t = v
    BY <1>5, <2>1
  <2>2. CASE t = [v EXCEPT !.panic = "full"]
    BY <1>5, <2>2 DEF FsTypes, SameDisk
  <2> QED
    BY <1>0, <2>1, <2>2
<1>6. /\ t.ic[i].lock = c.lock /\ t.ic[i].valid = c.valid /\ t.ic[i].d = c.d /\ t.ic[i].ref = c.ref + 1
      /\ \A j \in Inums \ {i} : t.ic[j] = s.ic[j]
  BY <1>2, <1>3, <1>5 DEF IcRecs
<1>7. FsOk(t)
  <2>1. \A j \in Inums : t.ic[j].valid => t.ic[j].d = t.dinode[j]
    BY <1>3, <1>6 DEF FsOk, Cached, SameDisk
  <2>2. \A j \in Inums : t.ic[j].lock # NULL => t.ic[j].valid
    BY <1>3, <1>6 DEF FsOk, Cached, SameDisk
  <2>3. t.panic = "no" => s.panic = "no" /\ \A j \in Inums : t.ic[j].valid => t.dinode[j].type # "FREE"
    BY <1>3, <1>6 DEF FsOk, Cached, SameDisk
  <2> QED
    BY <1>3, <2>1, <2>2, <2>3, CacheOnly
<1> QED
  BY <1>3, <1>6, <1>7 DEF SameLocks, StaysValid, IgetDoes

IupdateDoes(s, t, i) ==
  /\ t.dinode = [s.dinode EXCEPT ![i] = s.ic[i].d] /\ t.ents = s.ents /\ t.ind = s.ind /\ t.used = s.used
  /\ t.ic = s.ic /\ t.panic = s.panic

LEMMA IupdateIs ==
  ASSUME NEW s \in FsTypes, NEW i \in Inums, NEW t, t = Iupdate(s, i)
  PROVE  t \in FsTypes /\ IupdateDoes(s, t, i)
<1>1. s.ic[i].d \in Dinodes /\ s.dinode \in [Inums -> Dinodes]
  BY Typed, TypedIc
<1>2. PICK d \in Dinodes : d = s.ic[i].d
  BY <1>1
<1>3. t = [s EXCEPT !.dinode[i] = d]
  BY <1>2 DEF Iupdate
<1>4. t \in FsTypes
  <2>1. [s.dinode EXCEPT ![i] = d] \in [Inums -> Dinodes]
    BY <1>1
  <2>2. t = [s EXCEPT !.dinode = [s.dinode EXCEPT ![i] = d]]
    BY <1>3
  <2>3. ASSUME NEW f \in [Inums -> Dinodes] PROVE [s EXCEPT !.dinode = f] \in FsTypes
    BY DEF FsTypes
  <2> QED
    BY <2>1, <2>2, <2>3
<1>5. t.dinode = [s.dinode EXCEPT ![i] = d] /\ t.ents = s.ents /\ t.ind = s.ind /\ t.used = s.used /\ t.ic = s.ic /\ t.panic = s.panic
  BY <1>3 DEF FsTypes
<1> QED
  BY <1>2, <1>4, <1>5 DEF IupdateDoes

\* A link more or less, with iupdate().
Relink(s, i, n) == Iupdate([s EXCEPT !.ic[i].d.nlink = n], i)

RelinkDoes(s, t, i) ==
  /\ t.ents = s.ents /\ SameLocks(s, t) /\ SameRefs(s, t) /\ StaysValid(s, t) /\ t.panic = s.panic
  /\ t.ic[i].valid /\ t.dinode[i].type = s.dinode[i].type /\ (AllCovered(s) => AllCovered(t))
  /\ t.dinode[i].size = s.dinode[i].size /\ t.dinode[i].addrs = s.dinode[i].addrs
  /\ \A j \in Inums \ {i} : t.ic[j] = s.ic[j] /\ t.dinode[j] = s.dinode[j]

LEMMA RelinkIs ==
  ASSUME NEW s, FsOk(s), NEW i \in Inums, s.ic[i].valid, NEW n \in Int, NEW t, t = Relink(s, i, n)
  PROVE  FsOk(t) /\ RelinkDoes(s, t, i)
<1> DEFINE c == s.ic[i]
           d == [c.d EXCEPT !.nlink = n]
           e == [c EXCEPT !.d = d]
<1>1. s \in FsTypes /\ c.d = s.dinode[i]
  BY DEF FsOk, Cached
<1>2. c \in IcRecs /\ c.d \in Dinodes /\ s.ic \in [Inums -> IcRecs] /\ s.dinode \in [Inums -> Dinodes]
  BY <1>1, Typed, TypedIc
<1>3. d \in Dinodes
  BY <1>2 DEF Dinodes
<1>4. d.type = c.d.type /\ d.size = c.d.size /\ d.addrs = c.d.addrs
  BY <1>2 DEF Dinodes
<1>5. e \in IcRecs /\ e.d = d /\ e.valid = c.valid /\ e.ref = c.ref /\ e.lock = c.lock
  BY <1>2, <1>3 DEF IcRecs
<1> DEFINE u == [s EXCEPT !.ic[i].d.nlink = n]
<1>6. t = Iupdate(u, i) /\ u = [s EXCEPT !.ic = [s.ic EXCEPT ![i] = e]]
  BY DEF Relink
<1> HIDE DEF d, e, u
<1>7. u \in FsTypes /\ u.ic = [s.ic EXCEPT ![i] = e] /\ SameDisk(s, u) /\ u.panic = s.panic
  BY <1>1, <1>2, <1>5, <1>6 DEF FsTypes, SameDisk
<1>8. u.ic[i].d = d
  BY <1>2, <1>5, <1>7
<1>9. /\ t \in FsTypes /\ t.ic = [s.ic EXCEPT ![i] = e] /\ t.dinode = [s.dinode EXCEPT ![i] = d]
      /\ t.ents = s.ents /\ t.ind = s.ind /\ t.used = s.used /\ t.panic = s.panic
  <2>1. t \in FsTypes /\ IupdateDoes(u, t, i)
    BY <1>6, <1>7, IupdateIs
  <2> QED
    BY <1>7, <1>8, <2>1 DEF IupdateDoes, SameDisk
<1>10. /\ t.ic[i] = e /\ t.dinode[i] = d
      /\ \A j \in Inums \ {i} : t.ic[j] = s.ic[j] /\ t.dinode[j] = s.dinode[j]
  BY <1>2, <1>9
<1>11. \A j \in Inums : /\ t.dinode[j].type = s.dinode[j].type /\ t.dinode[j].size = s.dinode[j].size
                       /\ t.dinode[j].addrs = s.dinode[j].addrs
  BY <1>1, <1>4, <1>10
<1>12. \A j \in Inums : Covered(t.dinode[j]) <=> Covered(s.dinode[j])
  BY <1>11 DEF Covered
<1>13. FsOk(t)
  <2>1. Cached(t)
    <3>1. \A j \in Inums : t.ic[j].valid => t.ic[j].d = t.dinode[j]
      BY <1>5, <1>10 DEF FsOk, Cached
    <3>2. \A j \in Inums : t.ic[j].lock # NULL => t.ic[j].valid
      BY <1>5, <1>10 DEF FsOk, Cached
    <3>3. \A j \in Inums : t.dinode[j].type # "DIR" => t.ents[j] = <<>>
      BY <1>9, <1>11 DEF FsOk, Cached
    <3>4. t.panic = "no" => \A j \in Inums : Covered(t.dinode[j]) /\ (t.ic[j].valid => t.dinode[j].type # "FREE")
      BY <1>5, <1>9, <1>10, <1>11, <1>12 DEF FsOk, Cached
    <3> QED
      BY <3>1, <3>2, <3>3, <3>4 DEF Cached
  <2>2. NoLoops(t)
    <3>1. \A j, k : Edge(t, j, k) <=> Edge(s, j, k)
      BY <1>9 DEF Edge
    <3> QED
      BY <3>1 DEF FsOk, NoLoops
  <2>3. Owned(t)
    <3>1. \A j \in Inums : OwnBlocks(t, t.dinode[j]) = OwnBlocks(s, s.dinode[j])
      BY <1>9, <1>11 DEF OwnBlocks
    <3> QED
      BY <1>9, <1>11, <3>1 DEF FsOk, Owned
  <2> QED
    BY <1>9, <2>1, <2>2, <2>3 DEF FsOk
<1>14. SameLocks(s, t) /\ SameRefs(s, t) /\ t.ic[i].valid
  BY <1>5, <1>10 DEF SameLocks, SameRefs
<1>15. StaysValid(s, t)
  BY <1>4, <1>5, <1>10 DEF StaysValid
<1> QED
  BY <1>9, <1>10, <1>11, <1>12, <1>13, <1>14, <1>15 DEF AllCovered, RelinkDoes

LEMMA NlinkInt ==
  ASSUME NEW s, FsOk(s), NEW i \in Inums
  PROVE  /\ s.ic[i].d.nlink \in Int
         /\ AddLink(s, i) = Relink(s, i, s.ic[i].d.nlink + 1) /\ DropLink(s, i) = Relink(s, i, s.ic[i].d.nlink - 1)
<1>1. s.ic[i].d \in Dinodes
  BY TypedIc DEF FsOk
<1> QED
  BY <1>1 DEF Dinodes, AddLink, DropLink, Relink

-----------------------------------------------------------------------------
(* Blocks: bmap() takes free ones for one inode, and those of the others   *)
(* stay as they are.                                                       *)
Inds == [Blocks -> [0 .. NINDIRECT - 1 -> 0 .. NBlocks]]

LEMMA InOwn ==
  ASSUME NEW s, NEW d, NEW b
  PROVE  b \in OwnBlocks(s, d) <=>
           /\ b # 0
           /\ \/ \E k \in 0 .. NDIRECT : b = d.addrs[k]
              \/ d.addrs[NDIRECT] # 0 /\ \E k \in 0 .. NINDIRECT - 1 : b = s.ind[d.addrs[NDIRECT]][k]
<1>1. CASE d.addrs[NDIRECT] = 0
  BY <1>1 DEF OwnBlocks
<1>2. CASE d.addrs[NDIRECT] # 0
  BY <1>2 DEF OwnBlocks
<1> QED
  BY <1>1, <1>2

LEMMA LastSlot ==
  ASSUME NEW d \in Dinodes
  PROVE  /\ NDIRECT \in 0 .. NDIRECT /\ d.addrs \in [0 .. NDIRECT -> 0 .. NBlocks]
         /\ d.addrs[NDIRECT] # 0 => d.addrs[NDIRECT] \in Blocks
<1>1. NDIRECT \in 0 .. NDIRECT /\ d.addrs \in [0 .. NDIRECT -> 0 .. NBlocks]
  BY MkfsAssumption DEF Dinodes
<1>2. d.addrs[NDIRECT] # 0 => d.addrs[NDIRECT] \in Blocks
  BY <1>1, MkfsAssumption DEF Blocks
<1> QED
  BY <1>1, <1>2

LEMMA OwnTyped ==
  ASSUME NEW s \in FsTypes, NEW d \in Dinodes
  PROVE  OwnBlocks(s, d) \subseteq Blocks
<1> SUFFICES ASSUME NEW b \in OwnBlocks(s, d) PROVE b \in Blocks
  OBVIOUS
<1>1. s.ind \in [Blocks -> [0 .. NINDIRECT - 1 -> 0 .. NBlocks]]
  BY Typed
<1>2. b \in 0 .. NBlocks
  <2>1. CASE \E k \in 0 .. NDIRECT : b = d.addrs[k]
    BY <2>1, LastSlot
  <2>2. CASE d.addrs[NDIRECT] # 0 /\ \E k \in 0 .. NINDIRECT - 1 : b = s.ind[d.addrs[NDIRECT]][k]
    <3>1. d.addrs[NDIRECT] \in Blocks
      BY <2>2, LastSlot
    <3>2. s.ind[d.addrs[NDIRECT]] \in [0 .. NINDIRECT - 1 -> 0 .. NBlocks]
      BY <1>1, <3>1
    <3> QED
      BY <2>2, <3>2
  <2> QED
    BY <2>1, <2>2, InOwn
<1>3. b # 0
  BY InOwn
<1> QED
  BY <1>2, <1>3, MkfsAssumption DEF Blocks

\* t comes from s by taking blocks for inode i.
Grown(s, t, i) ==
  /\ t \in FsTypes /\ t.dinode = s.dinode /\ t.ents = s.ents /\ (t.panic = "no" => s.panic = "no")
  /\ \A j \in Inums \ {i} : t.ic[j] = s.ic[j]
  /\ t.ic[i].ref = s.ic[i].ref /\ t.ic[i].valid = s.ic[i].valid /\ t.ic[i].lock = s.ic[i].lock
  /\ t.ic[i].d.type = s.ic[i].d.type /\ t.ic[i].d.size = s.ic[i].d.size
  /\ \A k \in 0 .. NDIRECT : s.ic[i].d.addrs[k] # 0 => t.ic[i].d.addrs[k] # 0
  /\ s.used \subseteq t.used
  /\ OwnBlocks(t, t.ic[i].d) = OwnBlocks(s, s.ic[i].d) \cup (t.used \ s.used)
  /\ \A e \in Dinodes : OwnBlocks(s, e) \subseteq s.used /\ OwnBlocks(s, e) \cap OwnBlocks(s, s.ic[i].d) = {}
                          => OwnBlocks(t, e) = OwnBlocks(s, e)

LEMMA GrownTwice ==
  ASSUME NEW s, NEW t, NEW u, NEW i \in Inums, s \in FsTypes, OwnBlocks(s, s.ic[i].d) \subseteq s.used,
         Grown(s, t, i), Grown(t, u, i)
  PROVE  Grown(s, u, i)
<1>1. \A e \in Dinodes : OwnBlocks(s, e) \subseteq s.used /\ OwnBlocks(s, e) \cap OwnBlocks(s, s.ic[i].d) = {}
                           => OwnBlocks(u, e) = OwnBlocks(s, e)
  <2> SUFFICES ASSUME NEW e \in Dinodes, OwnBlocks(s, e) \subseteq s.used, OwnBlocks(s, e) \cap OwnBlocks(s, s.ic[i].d) = {}
               PROVE  OwnBlocks(u, e) = OwnBlocks(s, e)
    OBVIOUS
  <2>1. OwnBlocks(t, e) = OwnBlocks(s, e)
    BY DEF Grown
  <2>2. OwnBlocks(t, e) \subseteq t.used /\ OwnBlocks(t, e) \cap OwnBlocks(t, t.ic[i].d) = {}
    BY <2>1 DEF Grown
  <2>3. OwnBlocks(u, e) = OwnBlocks(t, e)
    BY <2>2 DEF Grown
  <2> QED
    BY <2>1, <2>3
<1>2. OwnBlocks(u, u.ic[i].d) = OwnBlocks(s, s.ic[i].d) \cup (u.used \ s.used)
  <2>1. /\ OwnBlocks(t, t.ic[i].d) = OwnBlocks(s, s.ic[i].d) \cup (t.used \ s.used)
        /\ OwnBlocks(u, u.ic[i].d) = OwnBlocks(t, t.ic[i].d) \cup (u.used \ t.used)
        /\ s.used \subseteq t.used /\ t.used \subseteq u.used
    BY DEF Grown
  <2> QED
    BY <2>1
<1> QED
  BY <1>1, <1>2 DEF Grown

\* The first free block.
LEMMA FreeBlockIs ==
  ASSUME NEW s \in FsTypes, s.used # Blocks
  PROVE  FreeBlock(s) \in Blocks \ s.used /\ FreeBlock(s) # 0
<1>1. Blocks \ s.used \in SUBSET Nat /\ Blocks \ s.used # {}
  <2>1. s.used \subseteq Blocks
    BY Typed
  <2>2. Blocks \subseteq Nat
    BY MkfsAssumption DEF Blocks
  <2> QED
    BY <2>1, <2>2
<1>2. Lowest(Blocks \ s.used) \in Blocks \ s.used
  BY <1>1, LowestIs
<1> QED
  BY <1>2 DEF FreeBlock, Blocks

WithBlocks(s, u, n, g) == [s EXCEPT !.used = u, !.ind = n, !.ic = g]
BlocksDo(s, t, u, n, g) ==
  t.dinode = s.dinode /\ t.ents = s.ents /\ t.ind = n /\ t.used = u /\ t.panic = s.panic /\ t.ic = g

LEMMA WithBlocksIs ==
  ASSUME NEW s \in FsTypes, NEW u \in SUBSET Blocks, NEW n \in Inds, NEW g \in [Inums -> IcRecs],
         NEW t, t = WithBlocks(s, u, n, g)
  PROVE  t \in FsTypes /\ BlocksDo(s, t, u, n, g)
BY DEF FsTypes, Inds, WithBlocks, BlocksDo

TakeDirect(s, i, k) == [Balloc(s) EXCEPT !.ic[i].d.addrs[k] = FreeBlock(s)]
TakeIndirect(s, a, k) == [Balloc(s) EXCEPT !.ind[a][k] = FreeBlock(s)]

LEMMA TakeDirectIs ==
  ASSUME NEW s \in FsTypes, NEW i \in Inums, NEW k \in 0 .. NDIRECT, s.ic[i].d.addrs[k] = 0,
         OwnBlocks(s, s.ic[i].d) \subseteq s.used, NEW t, t = TakeDirect(s, i, k)
  PROVE  Grown(s, t, i) /\ (t.panic = "no" => t.ic[i].d.addrs[k] # 0)
<1> DEFINE c == s.ic[i]
           b == FreeBlock(s)
           d == [c.d EXCEPT !.addrs[k] = b]
           e == [c EXCEPT !.d = d]
<1>1. /\ c \in IcRecs /\ c.d \in Dinodes /\ s.ic \in [Inums -> IcRecs]
      /\ c.d.addrs \in [0 .. NDIRECT -> 0 .. NBlocks] /\ s.ind \in Inds /\ s.used \subseteq Blocks
  BY Typed, TypedIc, LastSlot DEF Inds
<1>2. b \in 0 .. NBlocks /\ (s.used # Blocks => b \in Blocks \ s.used /\ b # 0) /\ (s.used = Blocks => b = 0)
  <2>1. CASE s.used = Blocks
    BY <2>1, MkfsAssumption DEF FreeBlock
  <2>2. CASE s.used # Blocks
    BY <2>2, FreeBlockIs, MkfsAssumption DEF Blocks
  <2> QED
    BY <2>1, <2>2
<1>3. e = [c EXCEPT !.d.addrs[k] = b]
  OBVIOUS
<1> HIDE DEF b
<1>4. d \in Dinodes /\ d.type = c.d.type /\ d.size = c.d.size /\ d.addrs = [c.d.addrs EXCEPT ![k] = b]
  <2>1. [c.d.addrs EXCEPT ![k] = b] \in [0 .. NDIRECT -> 0 .. NBlocks]
    BY <1>1, <1>2
  <2> QED
    BY <1>1, <2>1 DEF Dinodes
<1>5. e \in IcRecs /\ e.d = d /\ e.valid = c.valid /\ e.ref = c.ref /\ e.lock = c.lock
  BY <1>1, <1>4 DEF IcRecs
<1>6. [s.ic EXCEPT ![i] = e] \in [Inums -> IcRecs]
  BY <1>1, <1>5
<1>7. d.addrs[k] = b /\ \A m \in 0 .. NDIRECT \ {k} : d.addrs[m] = c.d.addrs[m]
  BY <1>1, <1>4
<1>8. CASE s.used = Blocks
  <2>1. t = [Full(s) EXCEPT !.ic = [s.ic EXCEPT ![i] = e]]
    BY <1>3, <1>8 DEF TakeDirect, Balloc, Full, b
  <2> HIDE DEF e, d
  <2>2. /\ t \in FsTypes /\ t.dinode = s.dinode /\ t.ents = s.ents /\ t.ind = s.ind /\ t.used = s.used
        /\ t.panic = "full" /\ t.ic = [s.ic EXCEPT ![i] = e]
    BY <1>6, <2>1 DEF FsTypes, Full
  <2>3. t.ic[i] = e /\ \A j \in Inums \ {i} : t.ic[j] = s.ic[j]
    BY <1>1, <2>2
  <2>4. d.addrs = c.d.addrs
    BY <1>1, <1>2, <1>4, <1>8
  <2>5. \A x, y : x.addrs = y.addrs => OwnBlocks(t, x) = OwnBlocks(s, y)
    BY <2>2 DEF OwnBlocks
  <2>6. OwnBlocks(t, t.ic[i].d) = OwnBlocks(s, c.d) /\ \A x \in Dinodes : OwnBlocks(t, x) = OwnBlocks(s, x)
    BY <1>5, <2>3, <2>4, <2>5
  <2>7. \A m \in 0 .. NDIRECT : c.d.addrs[m] # 0 => t.ic[i].d.addrs[m] # 0
    BY <1>5, <2>3, <2>4
  <2> QED
    BY <1>4, <1>5, <2>2, <2>3, <2>6, <2>7 DEF Grown
<1>9. CASE s.used # Blocks
  <2> DEFINE n == [s.ind EXCEPT ![b] = NoIndirect]
  <2>1. t = [s EXCEPT !.used = s.used \cup {b}, !.ind = n, !.ic = [s.ic EXCEPT ![i] = e]]
    BY <1>3, <1>9 DEF TakeDirect, Balloc, b
  <2>2. n \in Inds
    <3>1. NoIndirect \in [0 .. NINDIRECT - 1 -> 0 .. NBlocks]
      BY MkfsAssumption DEF NoIndirect
    <3> QED
      BY <1>1, <3>1 DEF Inds
  <2>3. s.used \cup {b} \in SUBSET Blocks
    BY <1>1, <1>2, <1>9
  <2>4. (\A m \in Blocks \ {b} : n[m] = s.ind[m]) /\ n[b] = NoIndirect
    BY <1>1, <1>2, <1>9 DEF Inds
  <2> HIDE DEF e, d, n
  <2>5. /\ t \in FsTypes /\ t.dinode = s.dinode /\ t.ents = s.ents /\ t.ind = n /\ t.used = s.used \cup {b}
        /\ t.panic = s.panic /\ t.ic = [s.ic EXCEPT ![i] = e]
    <3>1. PICK g \in [Inums -> IcRecs] : g = [s.ic EXCEPT ![i] = e]
      BY <1>6
    <3>2. PICK u \in SUBSET Blocks : u = s.used \cup {b}
      BY <2>3
    <3>3. t = WithBlocks(s, u, n, g)
      BY <2>1, <3>1, <3>2 DEF WithBlocks
    <3>4. t \in FsTypes /\ BlocksDo(s, t, u, n, g)
      BY <2>2, <3>3, WithBlocksIs
    <3> QED
      BY <3>1, <3>2, <3>4 DEF BlocksDo
  <2>6. t.ic[i] = e /\ \A j \in Inums \ {i} : t.ic[j] = s.ic[j]
    BY <1>1, <2>5
  <2>7. ASSUME NEW x \in Dinodes, OwnBlocks(s, x) \subseteq s.used
        PROVE  OwnBlocks(t, x) = OwnBlocks(s, x)
    <3> DEFINE a == x.addrs[NDIRECT]
    <3>1. a # 0 => a \in Blocks \ {b}
      <4>1. a # 0 => a \in OwnBlocks(s, x) /\ a \in Blocks
        BY LastSlot, InOwn
      <4> QED
        BY <1>2, <1>9, <2>7, <4>1
    <3>2. a # 0 => t.ind[a] = s.ind[a]
      BY <2>4, <2>5, <3>1
    <3> QED
      BY <3>2 DEF OwnBlocks
  <2>8. OwnBlocks(t, d) = OwnBlocks(s, c.d) \cup {b}
    <3>1. CASE k = NDIRECT
      <4>1. c.d.addrs[NDIRECT] = 0 /\ d.addrs[NDIRECT] = b /\ t.ind[b] = NoIndirect /\ b # 0
        BY <1>2, <1>7, <1>9, <2>4, <2>5, <3>1
      <4>2. \A m \in 0 .. NINDIRECT - 1 : t.ind[b][m] = 0
        BY <4>1 DEF NoIndirect
      <4>3. ASSUME NEW x PROVE x \in OwnBlocks(t, d) <=> x \in OwnBlocks(s, c.d) \cup {b}
        <5>1. x \in OwnBlocks(t, d) <=> x # 0 /\ \E m \in 0 .. NDIRECT : x = d.addrs[m]
          BY <4>1, <4>2, InOwn
        <5>2. x \in OwnBlocks(s, c.d) <=> x # 0 /\ \E m \in 0 .. NDIRECT : x = c.d.addrs[m]
          BY <4>1, InOwn
        <5> QED
          BY <1>7, <4>1, <5>1, <5>2, <3>1
      <4> QED
        BY <4>3
    <3>2. CASE k # NDIRECT
      <4> DEFINE a == c.d.addrs[NDIRECT]
      <4>1. d.addrs[NDIRECT] = a /\ b # 0
        BY <1>2, <1>7, <1>9, <3>2, LastSlot, <1>1
      <4>2. a # 0 => t.ind[a] = s.ind[a]
        <5>1. a # 0 => a \in OwnBlocks(s, c.d) /\ a \in Blocks
          BY <1>1, LastSlot, InOwn
        <5> QED
          BY <1>2, <1>9, <2>4, <2>5, <5>1
      <4>3. ASSUME NEW x PROVE x \in OwnBlocks(t, d) <=> x \in OwnBlocks(s, c.d) \cup {b}
        <5>1. x \in OwnBlocks(t, d) <=>
                x # 0 /\ ((\E m \in 0 .. NDIRECT : x = d.addrs[m])
                            \/ (a # 0 /\ \E m \in 0 .. NINDIRECT - 1 : x = s.ind[a][m]))
          <6>1. x \in OwnBlocks(t, d) <=>
                  x # 0 /\ ((\E m \in 0 .. NDIRECT : x = d.addrs[m])
                              \/ (d.addrs[NDIRECT] # 0 /\ \E m \in 0 .. NINDIRECT - 1 : x = t.ind[d.addrs[NDIRECT]][m]))
            BY InOwn
          <6> HIDE DEF a
          <6> QED
            BY <4>1, <4>2, <6>1
        <5>2. x \in OwnBlocks(s, c.d) <=>
                x # 0 /\ ((\E m \in 0 .. NDIRECT : x = c.d.addrs[m])
                            \/ (a # 0 /\ \E m \in 0 .. NINDIRECT - 1 : x = s.ind[a][m]))
          BY InOwn
        <5>3. x # 0 => ((\E m \in 0 .. NDIRECT : x = d.addrs[m]) <=> x = b \/ \E m \in 0 .. NDIRECT : x = c.d.addrs[m])
          BY <1>7, <4>1
        <5> HIDE DEF a
        <5> QED
          BY <4>1, <5>1, <5>2, <5>3
      <4> QED
        BY <4>3
    <3> QED
      BY <3>1, <3>2
  <2>9. t.used \ s.used = {b}
    BY <1>2, <1>9, <2>5
  <2>10. \A m \in 0 .. NDIRECT : c.d.addrs[m] # 0 => t.ic[i].d.addrs[m] # 0
    BY <1>5, <1>7, <2>6
  <2>11. t.ic[i].d.addrs[k] # 0
    BY <1>2, <1>5, <1>7, <1>9, <2>6
  <2>12. t.ic[i].d = d /\ t.ic[i].ref = c.ref /\ t.ic[i].valid = c.valid /\ t.ic[i].lock = c.lock
    BY <1>5, <2>6
  <2> QED
    BY <1>4, <2>5, <2>6, <2>7, <2>8, <2>9, <2>10, <2>11, <2>12 DEF Grown
<1> QED
  BY <1>8, <1>9

IndirectAt(s, i, a, k) == a = s.ic[i].d.addrs[NDIRECT] /\ s.ind[a][k] = 0

LEMMA TakeIndirectIs ==
  ASSUME NEW s \in FsTypes, NEW i \in Inums, NEW a \in Blocks, NEW k \in 0 .. NINDIRECT - 1, IndirectAt(s, i, a, k),
         OwnBlocks(s, s.ic[i].d) \subseteq s.used, NEW t, t = TakeIndirect(s, a, k)
  PROVE  Grown(s, t, i) /\ t.ic = s.ic
<1> DEFINE d == s.ic[i].d
           b == FreeBlock(s)
<1>1. /\ d \in Dinodes /\ s.ic \in [Inums -> IcRecs] /\ s.ind \in Inds /\ s.used \subseteq Blocks
      /\ s.ind[a] \in [0 .. NINDIRECT - 1 -> 0 .. NBlocks]
  BY Typed, TypedIc DEF Inds
<1>2. a \in OwnBlocks(s, d) /\ a # 0
  <2>1. a # 0
    BY DEF Blocks
  <2> QED
    BY <1>1, <2>1, LastSlot, InOwn DEF IndirectAt
<1> HIDE DEF d
<1>3. CASE s.used = Blocks
  <2>1. [s.ind EXCEPT ![a][k] = 0] = s.ind
    <3>1. s.ind[a][k] = 0
      BY DEF IndirectAt
    <3>2. [s.ind[a] EXCEPT ![k] = 0] = s.ind[a]
      BY <1>1, <3>1
    <3>3. [s.ind EXCEPT ![a] = s.ind[a]] = s.ind
      BY <1>1 DEF Inds
    <3> QED
      BY <3>2, <3>3
  <2>2. t = [Full(s) EXCEPT !.ind = [s.ind EXCEPT ![a][k] = 0]]
    BY <1>3 DEF TakeIndirect, Balloc, FreeBlock, Full
  <2>3. t = [Full(s) EXCEPT !.ind = s.ind]
    BY <2>1, <2>2
  <2>4. /\ t \in FsTypes /\ t.dinode = s.dinode /\ t.ents = s.ents /\ t.ind = s.ind /\ t.used = s.used
        /\ t.panic = "full" /\ t.ic = s.ic
    BY <2>3 DEF FsTypes, Full
  <2>5. \A x : OwnBlocks(t, x) = OwnBlocks(s, x)
    BY <2>4 DEF OwnBlocks
  <2> QED
    BY <2>4, <2>5 DEF Grown
<1>4. CASE s.used # Blocks
  <2>1. b \in Blocks \ s.used /\ b # 0 /\ b # a
    <3>1. b \in Blocks \ s.used /\ b # 0
      BY <1>4, FreeBlockIs
    <3>2. a \in s.used
      BY <1>2 DEF d
    <3> QED
      BY <3>1, <3>2
  <2> DEFINE n == [s.ind EXCEPT ![b] = NoIndirect, ![a][k] = b]
             u == s.used \cup {b}
  <2>2. t = WithBlocks(s, u, n, s.ic)
    <3>1. t = [s EXCEPT !.used = u, !.ind = n]
      BY <1>4 DEF TakeIndirect, Balloc
    <3>2. [s EXCEPT !.used = u, !.ind = n] = WithBlocks(s, u, n, s.ic)
      BY DEF WithBlocks, FsTypes
    <3> QED
      BY <3>1, <3>2
  <2> HIDE DEF b
  <2>3. n = [s.ind EXCEPT ![b] = NoIndirect, ![a] = [s.ind[a] EXCEPT ![k] = b]]
    BY <1>1, <2>1 DEF Inds
  <2>4. n \in Inds /\ u \in SUBSET Blocks
    <3>1. NoIndirect \in [0 .. NINDIRECT - 1 -> 0 .. NBlocks]
      BY MkfsAssumption DEF NoIndirect
    <3>2. [s.ind[a] EXCEPT ![k] = b] \in [0 .. NINDIRECT - 1 -> 0 .. NBlocks]
      BY <1>1, <2>1, MkfsAssumption DEF Blocks
    <3> HIDE DEF n
    <3> QED
      BY <1>1, <2>1, <2>3, <3>1, <3>2 DEF Inds
  <2>5. /\ n[a][k] = b /\ \A m \in 0 .. NINDIRECT - 1 : m # k => n[a][m] = s.ind[a][m]
        /\ \A x \in Blocks : x # b /\ x # a => n[x] = s.ind[x]
    <3> HIDE DEF n
    <3>1. n[a] = [s.ind[a] EXCEPT ![k] = b] /\ \A x \in Blocks : x # b /\ x # a => n[x] = s.ind[x]
      BY <1>1, <2>1, <2>3 DEF Inds
    <3> QED
      BY <1>1, <3>1
  <2> HIDE DEF n, u
  <2>6. t \in FsTypes /\ BlocksDo(s, t, u, n, s.ic)
    BY <1>1, <2>2, <2>4, WithBlocksIs
  <2>7. ASSUME NEW x \in Dinodes, OwnBlocks(s, x) \subseteq s.used, OwnBlocks(s, x) \cap OwnBlocks(s, d) = {}
        PROVE  OwnBlocks(t, x) = OwnBlocks(s, x)
    <3> DEFINE c == x.addrs[NDIRECT]
    <3>1. c # 0 => c \in Blocks /\ c # b /\ c # a
      <4>1. c # 0 => c \in OwnBlocks(s, x) /\ c \in Blocks
        BY LastSlot, InOwn
      <4> QED
        BY <1>2, <2>1, <2>7, <4>1
    <3>2. c # 0 => t.ind[c] = s.ind[c]
      BY <2>5, <2>6, <3>1 DEF BlocksDo
    <3> QED
      BY <3>2 DEF OwnBlocks
  <2>8. OwnBlocks(t, d) = OwnBlocks(s, d) \cup {b}
    <3>1. ASSUME NEW x PROVE x \in OwnBlocks(t, d) <=> x \in OwnBlocks(s, d) \cup {b}
      <4> DEFINE D == \E m \in 0 .. NDIRECT : x = d.addrs[m]
      <4>1. d.addrs[NDIRECT] = a /\ a # 0 /\ t.ind = n
        BY <1>2, <2>6 DEF BlocksDo, IndirectAt, d
      <4>2. x \in OwnBlocks(t, d) <=> x # 0 /\ (D \/ \E m \in 0 .. NINDIRECT - 1 : x = n[a][m])
        <5>1. x \in OwnBlocks(t, d) <=>
                x # 0 /\ (D \/ (d.addrs[NDIRECT] # 0 /\ \E m \in 0 .. NINDIRECT - 1 : x = t.ind[d.addrs[NDIRECT]][m]))
          BY InOwn
        <5> HIDE DEF D
        <5> QED
          BY <4>1, <5>1
      <4>3. x \in OwnBlocks(s, d) <=> x # 0 /\ (D \/ \E m \in 0 .. NINDIRECT - 1 : x = s.ind[a][m])
        <5>1. x \in OwnBlocks(s, d) <=>
                x # 0 /\ (D \/ (d.addrs[NDIRECT] # 0 /\ \E m \in 0 .. NINDIRECT - 1 : x = s.ind[d.addrs[NDIRECT]][m]))
          BY InOwn
        <5> HIDE DEF D
        <5> QED
          BY <4>1, <5>1
      <4>4. x # 0 => ((\E m \in 0 .. NINDIRECT - 1 : x = n[a][m]) <=> x = b \/ \E m \in 0 .. NINDIRECT - 1 : x = s.ind[a][m])
        <5>1. s.ind[a][k] = 0
          BY DEF IndirectAt
        <5> QED
          BY <2>5, <5>1
      <4> HIDE DEF D
      <4> QED
        BY <2>1, <4>2, <4>3, <4>4
    <3> QED
      BY <3>1
  <2>9. t.used \ s.used = {b} /\ s.used \subseteq t.used
    BY <2>1, <2>6 DEF BlocksDo, u
  <2> QED
    BY <2>6, <2>7, <2>8, <2>9 DEF Grown, BlocksDo, d
<1> QED
  BY <1>3, <1>4

\* bmap(): the direct slot is filled unless the disk is full, and does not
\* change if it was.
Slot(bn) == IF bn < NDIRECT THEN bn ELSE NDIRECT
BmapDoes(s, t, i, bn) ==
  /\ Grown(s, t, i) /\ (t.panic = "no" => t.ic[i].d.addrs[Slot(bn)] # 0)
  /\ s.ic[i].d.addrs[Slot(bn)] # 0 => t.ic = s.ic

LEMMA BmapIs ==
  ASSUME NEW s \in FsTypes, NEW i \in Inums, NEW bn \in Nat, bn < NDIRECT + NINDIRECT,
         OwnBlocks(s, s.ic[i].d) \subseteq s.used, NEW t, t = Bmap(s, i, bn)
  PROVE  BmapDoes(s, t, i, bn)
<1> DEFINE k == Slot(bn)
           u == IF s.ic[i].d.addrs[k] # 0 THEN s ELSE TakeDirect(s, i, k)
           a == u.ic[i].d.addrs[NDIRECT]
           m == bn - NDIRECT
<1>1. t = IF bn < NDIRECT \/ u.panic # "no" \/ u.ind[a][m] # 0 THEN u ELSE TakeIndirect(u, a, m)
  BY DEF Bmap, Slot, TakeDirect, TakeIndirect
<1>2. k \in 0 .. NDIRECT /\ (bn >= NDIRECT => k = NDIRECT /\ m \in 0 .. NINDIRECT - 1)
  BY MkfsAssumption DEF Slot
<1>3. Grown(s, u, i) /\ (u.panic = "no" => u.ic[i].d.addrs[k] # 0) /\ (s.ic[i].d.addrs[k] # 0 => u.ic = s.ic)
  <2>1. CASE s.ic[i].d.addrs[k] # 0
    BY <2>1 DEF Grown
  <2>2. CASE s.ic[i].d.addrs[k] = 0
    <3>1. u = TakeDirect(s, i, k)
      BY <2>2
    <3> HIDE DEF u, k
    <3> QED
      BY <1>2, <2>2, <3>1, TakeDirectIs
  <2> QED
    BY <2>1, <2>2
<1> HIDE DEF u, k, m
<1>4. CASE t = u
  BY <1>3, <1>4 DEF BmapDoes, k
<1>5. CASE t # u
  <2>1. ~(bn < NDIRECT) /\ u.panic = "no" /\ u.ind[a][m] = 0 /\ t = TakeIndirect(u, a, m)
    BY <1>1, <1>5
  <2>2. u \in FsTypes /\ OwnBlocks(u, u.ic[i].d) \subseteq u.used
    BY <1>3 DEF Grown
  <2>3. k = NDIRECT /\ m \in 0 .. NINDIRECT - 1 /\ a # 0
    BY <1>2, <1>3, <2>1, MkfsAssumption
  <2>4. a \in Blocks
    BY <2>2, <2>3, LastSlot, TypedIc
  <2> HIDE DEF a
  <2>5. IndirectAt(u, i, a, m)
    BY <2>1 DEF a, IndirectAt
  <2>6. Grown(u, t, i) /\ t.ic = u.ic
    BY <2>1, <2>2, <2>3, <2>4, <2>5, TakeIndirectIs
  <2>7. Grown(s, t, i)
    BY <1>3, <2>6, GrownTwice
  <2> QED
    BY <1>3, <2>1, <2>6, <2>7 DEF BmapDoes, k
<1> QED
  BY <1>4, <1>5

-----------------------------------------------------------------------------
(* writei() and dirlink().                                                 *)
\* The inode is on disk as it is in the cache when they are done.
Written(s, t, i) ==
  /\ t \in FsTypes /\ t.ents = s.ents /\ (t.panic = "no" => s.panic = "no")
  /\ \A j \in Inums \ {i} : t.ic[j] = s.ic[j] /\ t.dinode[j] = s.dinode[j]
  /\ t.ic[i].ref = s.ic[i].ref /\ t.ic[i].valid = s.ic[i].valid /\ t.ic[i].lock = s.ic[i].lock
  /\ t.ic[i].d = t.dinode[i] /\ t.dinode[i].type = s.dinode[i].type
  /\ t.panic = "no" => Covered(t.dinode[i])
  /\ s.used \subseteq t.used
  /\ OwnBlocks(t, t.dinode[i]) = OwnBlocks(s, s.dinode[i]) \cup (t.used \ s.used)
  /\ \A j \in Inums \ {i} : OwnBlocks(t, s.dinode[j]) = OwnBlocks(s, s.dinode[j])

LEMMA UsedIs ==
  ASSUME NEW s, FsOk(s), NEW i \in Inums
  PROVE  OwnBlocks(s, s.dinode[i]) \subseteq s.used
<1> SUFFICES ASSUME NEW b \in OwnBlocks(s, s.dinode[i]) PROVE b \in s.used
  OBVIOUS
<1>1. s \in FsTypes /\ s.dinode[i] \in Dinodes
  BY TypedIc DEF FsOk
<1>2. b \in Blocks
  BY <1>1, OwnTyped
<1> QED
  BY <1>2 DEF FsOk, Owned

LEMMA WrittenOk ==
  ASSUME NEW s, FsOk(s), NEW i \in Inums, NEW t, Written(s, t, i), s.ic[i].valid, s.dinode[i].type # "FREE"
  PROVE  FsOk(t) /\ SameLocks(s, t) /\ SameRefs(s, t) /\ StaysValid(s, t)
<1>0. Cached(s) /\ s.ic[i].d = s.dinode[i]
  BY DEF FsOk, Cached
<1>1. Cached(t)
  <2>1. \A j \in Inums : t.ic[j].valid => t.ic[j].d = t.dinode[j]
    BY <1>0 DEF Written, Cached
  <2>2. \A j \in Inums : t.ic[j].lock # NULL => t.ic[j].valid
    BY <1>0 DEF Written, Cached
  <2>3. \A j \in Inums : t.dinode[j].type # "DIR" => t.ents[j] = <<>>
    BY <1>0 DEF Written, Cached
  <2>4. t.panic = "no" => \A j \in Inums : Covered(t.dinode[j]) /\ (t.ic[j].valid => t.dinode[j].type # "FREE")
    BY <1>0 DEF Written, Cached
  <2> QED
    BY <2>1, <2>2, <2>3, <2>4 DEF Cached
<1>2. NoLoops(t)
  <2>1. \A j, k : Edge(t, j, k) <=> Edge(s, j, k)
    BY DEF Edge, Written
  <2> QED
    BY <2>1 DEF FsOk, NoLoops
<1>3. Owned(t)
  <2>1. \A j \in Inums : OwnBlocks(s, s.dinode[j]) \subseteq s.used
    BY UsedIs
  <2>2. \A j \in Inums \ {i} : OwnBlocks(t, t.dinode[j]) = OwnBlocks(s, s.dinode[j])
    BY DEF Written
  <2>3. OwnBlocks(t, t.dinode[i]) = OwnBlocks(s, s.dinode[i]) \cup (t.used \ s.used) /\ s.used \subseteq t.used
    BY DEF Written
  <2>4. \A j, k \in Inums : j # k => OwnBlocks(t, t.dinode[j]) \cap OwnBlocks(t, t.dinode[k]) = {}
    <3> SUFFICES ASSUME NEW j \in Inums, NEW k \in Inums, j # k PROVE OwnBlocks(t, t.dinode[j]) \cap OwnBlocks(t, t.dinode[k]) = {}
      OBVIOUS
    <3>1. OwnBlocks(s, s.dinode[j]) \cap OwnBlocks(s, s.dinode[k]) = {}
      BY DEF FsOk, Owned
    <3> QED
      BY <2>1, <2>2, <2>3, <3>1
  <2>5. \A b \in Blocks : b \in t.used <=> \E j \in Inums : b \in OwnBlocks(t, t.dinode[j])
    <3> SUFFICES ASSUME NEW b \in Blocks PROVE b \in t.used <=> \E j \in Inums : b \in OwnBlocks(t, t.dinode[j])
      OBVIOUS
    <3>1. b \in s.used <=> \E j \in Inums : b \in OwnBlocks(s, s.dinode[j])
      BY DEF FsOk, Owned
    <3>2. CASE b \in s.used
      <4>1. PICK j \in Inums : b \in OwnBlocks(s, s.dinode[j])
        BY <3>1, <3>2
      <4>2. b \in OwnBlocks(t, t.dinode[j])
        BY <2>2, <2>3, <4>1
      <4> QED
        BY <2>3, <3>2, <4>2
    <3>3. CASE b \notin s.used
      BY <2>1, <2>2, <2>3, <3>3
    <3> QED
      BY <3>2, <3>3
  <2>6. \A j \in Inums : t.dinode[j].type = "FREE" => OwnBlocks(t, t.dinode[j]) = {}
    BY <2>2 DEF FsOk, Owned, Written
  <2> QED
    BY <2>4, <2>5, <2>6 DEF Owned
<1>4. SameLocks(s, t) /\ SameRefs(s, t)
  BY DEF Written, SameLocks, SameRefs
<1>5. StaysValid(s, t)
  BY <1>0 DEF Written, StaysValid
<1> QED
  BY <1>1, <1>2, <1>3, <1>4, <1>5 DEF FsOk, Written

\* The size after a record is written at off.
SizeOf(n, off) == IF off < n THEN n ELSE off + 1

LEMMA WriteiIs ==
  ASSUME NEW s, FsOk(s), NEW i \in Inums, s.ic[i].valid, NEW off \in Nat, Fits(s, i, off),
         off >= s.dinode[i].size \/ Covered(s.dinode[i]), NEW t, t = Writei(s, i, off)
  PROVE  Written(s, t, i) /\ t.dinode[i].size = SizeOf(s.dinode[i].size, off)
<1> DEFINE bn == off \div EPB
           k == Slot(bn)
           u == Bmap(s, i, bn)
<1>1. s \in FsTypes /\ s.ic[i].d = s.dinode[i]
  BY DEF FsOk, Cached
<1>2. s.dinode[i] \in Dinodes /\ s.dinode[i].size \in Nat /\ s.dinode \in [Inums -> Dinodes]
  BY <1>1, Typed, TypedIc DEF Dinodes
<1>3. off <= s.dinode[i].size /\ off < MAXFILE
  BY <1>1 DEF Fits
<1>4. bn \in Nat /\ bn < NDIRECT + NINDIRECT /\ \A n \in Nat : n * EPB \in Nat /\ (n * EPB <= off <=> n <= bn)
  BY <1>3, BlockOf
<1> HIDE DEF bn, u
<1>5. BmapDoes(s, u, i, bn)
  <2>1. OwnBlocks(s, s.ic[i].d) \subseteq s.used
    BY <1>1, UsedIs
  <2> QED
    BY <1>1, <1>4, <2>1, BmapIs DEF u
<1>6. Grown(s, u, i) /\ u \in FsTypes /\ (u.panic = "no" => u.ic[i].d.addrs[k] # 0) /\ (s.dinode[i].addrs[k] # 0 => u.ic = s.ic)
  BY <1>1, <1>5 DEF BmapDoes, Grown
<1>7. k \in 0 .. NDIRECT /\ NDIRECT \in Nat /\ (bn < NDIRECT => k = bn) /\ (bn >= NDIRECT => k = NDIRECT)
  BY <1>4, MkfsAssumption DEF Slot
<1> HIDE DEF k
<1>8. u.ic[i].d.size = s.dinode[i].size /\ u.ic[i].d.type = s.dinode[i].type
  BY <1>1, <1>6 DEF Grown
<1>9. \A j \in Inums : OwnBlocks(s, s.dinode[j]) \subseteq s.used /\ s.dinode[j] \in Dinodes
  BY <1>2, UsedIs
<1>10. \A j \in Inums \ {i} : OwnBlocks(u, s.dinode[j]) = OwnBlocks(s, s.dinode[j])
  <2> SUFFICES ASSUME NEW j \in Inums \ {i} PROVE OwnBlocks(u, s.dinode[j]) = OwnBlocks(s, s.dinode[j])
    OBVIOUS
  <2>1. OwnBlocks(s, s.dinode[j]) \cap OwnBlocks(s, s.ic[i].d) = {}
    BY <1>1 DEF FsOk, Owned
  <2> QED
    BY <1>6, <1>9, <2>1 DEF Grown
<1>11. OwnBlocks(u, u.ic[i].d) = OwnBlocks(s, s.dinode[i]) \cup (u.used \ s.used) /\ s.used \subseteq u.used
  BY <1>1, <1>6 DEF Grown
<1>12. CASE off < s.dinode[i].size
  <2>1. t = u
    BY <1>8, <1>12 DEF Writei, u, bn
  <2>2. s.dinode[i].addrs[k] # 0
    <3>1. k \in Nat /\ k <= bn
      BY <1>4, <1>7
    <3>2. k * EPB < s.dinode[i].size
      BY <1>2, <1>4, <1>12, <3>1
    <3> QED
      BY <1>2, <1>7, <1>12, <3>2 DEF Covered
  <2>3. u.ic = s.ic /\ u.dinode = s.dinode /\ u.ents = s.ents
    BY <1>6, <2>2 DEF Grown
  <2>4. Covered(s.dinode[i])
    BY <1>2, <1>12
  <2>5. Written(s, u, i)
    BY <1>1, <1>6, <1>10, <1>11, <2>3, <2>4 DEF Written, Grown
  <2> QED
    BY <1>12, <2>1, <2>3, <2>5 DEF SizeOf
<1>13. CASE ~(off < s.dinode[i].size)
  <2> DEFINE d == [u.ic[i].d EXCEPT !.size = off + 1]
             e == [u.ic[i] EXCEPT !.d = d]
             v == [u EXCEPT !.ic = [u.ic EXCEPT ![i] = e]]
  <2>1. t = Iupdate(v, i)
    BY <1>8, <1>13 DEF Writei, u, bn
  <2>2. off = s.dinode[i].size
    BY <1>2, <1>3, <1>13
  <2>3. u.ic[i].d \in Dinodes /\ u.ic[i] \in IcRecs /\ u.ic \in [Inums -> IcRecs]
    BY <1>6, Typed, TypedIc
  <2>4. d \in Dinodes /\ d.type = u.ic[i].d.type /\ d.addrs = u.ic[i].d.addrs /\ d.size = off + 1
    BY <2>3 DEF Dinodes
  <2>5. e \in IcRecs /\ e.d = d /\ e.valid = u.ic[i].valid /\ e.ref = u.ic[i].ref /\ e.lock = u.ic[i].lock
    BY <2>3, <2>4 DEF IcRecs
  <2> HIDE DEF d, e
  <2>6. PICK g \in [Inums -> IcRecs] : g = [u.ic EXCEPT ![i] = e]
    BY <2>3, <2>5
  <2>7. v \in FsTypes /\ v.ic = g /\ SameDisk(u, v) /\ v.panic = u.panic
    BY <1>6, <2>6 DEF FsTypes, SameDisk
  <2> HIDE DEF v
  <2>8. t \in FsTypes /\ IupdateDoes(v, t, i)
    BY <2>1, <2>7, IupdateIs
  <2>9. g[i] = e /\ \A j \in Inums \ {i} : g[j] = u.ic[j]
    BY <2>3, <2>6
  <2>10. t.ic = g /\ t.dinode = [u.dinode EXCEPT ![i] = d] /\ t.ents = u.ents /\ t.ind = u.ind /\ t.used = u.used /\ t.panic = u.panic
    BY <2>5, <2>7, <2>8, <2>9 DEF IupdateDoes, SameDisk
  <2>11. t.dinode[i] = d /\ \A j \in Inums \ {i} : t.dinode[j] = s.dinode[j]
    BY <1>2, <1>6, <2>10 DEF Grown
  <2>12. \A x, y : x.addrs = y.addrs => OwnBlocks(t, x) = OwnBlocks(u, y)
    BY <2>10 DEF OwnBlocks
  <2>13. t.panic = "no" => Covered(d)
    <3> SUFFICES ASSUME t.panic = "no", NEW n \in 0 .. NDIRECT, n * EPB < d.size PROVE d.addrs[n] # 0
      BY DEF Covered
    <3>1. u.panic = "no" /\ s.panic = "no"
      BY <1>6, <2>10 DEF Grown
    <3>2. n \in Nat /\ n * EPB \in Nat /\ n * EPB <= off
      BY <1>4, <2>4
    <3>3. CASE n * EPB < s.dinode[i].size
      <4>1. s.dinode[i].addrs[n] # 0
        BY <3>1, <3>3 DEF FsOk, Cached, Covered
      <4> QED
        BY <1>1, <1>6, <2>4, <4>1 DEF Grown
    <3>4. CASE n * EPB = off
      <4>1. n <= bn
        BY <1>4, <3>2
      <4>2. CASE n = k
        BY <1>6, <2>4, <3>1, <4>2
      <4>3. CASE n # k
        <5>1. n + 1 \in Nat /\ n + 1 <= bn
          BY <1>4, <1>7, <3>2, <4>1, <4>3
        <5>2. (n + 1) * EPB <= off
          BY <1>4, <5>1
        <5>3. n * EPB + EPB <= (n + 1) * EPB
          BY <3>2, <5>1, Multiples, MkfsAssumption
        <5> QED
          BY <1>4, <3>2, <3>4, <5>1, <5>2, <5>3, MkfsAssumption
      <4> QED
        BY <4>2, <4>3
    <3> QED
      BY <1>2, <2>2, <3>2, <3>3, <3>4
  <2>14. OwnBlocks(t, d) = OwnBlocks(s, s.dinode[i]) \cup (t.used \ s.used)
    BY <1>11, <2>4, <2>10, <2>12
  <2>15. \A j \in Inums \ {i} : OwnBlocks(t, s.dinode[j]) = OwnBlocks(s, s.dinode[j])
    BY <1>10, <2>12
  <2>16. Written(s, t, i)
    <3>1. /\ t.ents = s.ents /\ (t.panic = "no" => s.panic = "no")
          /\ u.ic[i].ref = s.ic[i].ref /\ u.ic[i].valid = s.ic[i].valid /\ u.ic[i].lock = s.ic[i].lock
          /\ \A j \in Inums \ {i} : u.ic[j] = s.ic[j]
      BY <1>6, <2>10 DEF Grown
    <3>2. t.ic[i] = e /\ \A j \in Inums \ {i} : t.ic[j] = s.ic[j]
      BY <2>9, <2>10, <3>1
    <3> QED
      BY <1>8, <1>11, <2>4, <2>5, <2>8, <2>10, <2>11, <2>13, <2>14, <2>15, <3>1, <3>2 DEF Written
  <2> QED
    BY <1>13, <2>4, <2>11, <2>16 DEF SizeOf
<1> QED
  BY <1>12, <1>13

\* A new entry leads to an inode that leads nowhere.
Leaf(s, i) == \A j \in Inums : ~Edge(s, i, j)

LEMMA NoLoopsStay ==
  ASSUME NEW s, NoLoops(s), NEW t, NEW a, NEW b,
         \A i, j \in Inums : Edge(t, i, j) => Edge(s, i, j) \/ (i = a /\ j = b /\ a # b /\ Leaf(s, b))
  PROVE  NoLoops(t)
<1> SUFFICES ASSUME NEW S \in SUBSET Inums, S # {} PROVE \E i \in S : \A j \in S : ~Edge(t, i, j)
  BY DEF NoLoops
<1>1. PICK i \in S : \A j \in S : ~Edge(s, i, j)
  BY DEF NoLoops
<1>2. CASE \A j \in S : ~Edge(t, i, j)
  BY <1>2
<1>3. CASE ~(\A j \in S : ~Edge(t, i, j))
  <2>1. b \in S /\ a # b /\ Leaf(s, b)
    BY <1>1, <1>3
  <2>2. \A j \in S : ~Edge(t, b, j)
    BY <2>1 DEF Leaf
  <2> QED
    BY <2>1, <2>2
<1> QED
  BY <1>2, <1>3

Packed(s, dp) == s.dinode[dp].size = Len(s.ents[dp]) /\ \A k \in DOMAIN s.ents[dp] : s.ents[dp][k].inum # 0
DirlinkDoes(s, t, dp, name, inum) ==
  /\ SameLocks(s, t) /\ SameRefs(s, t) /\ StaysValid(s, t) /\ SameEnts(s, t, {dp})
  /\ \A j \in Inums \ {dp} : t.ic[j] = s.ic[j] /\ t.dinode[j] = s.dinode[j]
  /\ t.dinode[dp].type = "DIR" /\ t.ic[dp].valid /\ (Packed(s, dp) => Packed(t, dp))
  /\ \A i, j \in Inums : Edge(t, i, j) => Edge(s, i, j) \/ (i = dp /\ j = inum /\ name \notin Dots)

\* Where dirlink() puts the entry, and what the directory becomes.
FreeAt(s, dp) == {k \in DOMAIN s.ents[dp] : s.ents[dp][k].inum = 0} \cup {Len(s.ents[dp]) + 1}
Linked(e, k, name, inum) ==
  [j \in 1 .. (IF k > Len(e) THEN k ELSE Len(e)) |-> IF j = k THEN Dirent(name, inum) ELSE e[j]]

LEMMA LinkedIs ==
  ASSUME NEW e \in Seq(NamedEnts), NEW k \in 1 .. Len(e) + 1, NEW name \in Names, NEW inum \in Inums,
         NEW f, f = Linked(e, k, name, inum)
  PROVE  /\ f \in Seq(NamedEnts) /\ Len(f) = (IF k > Len(e) THEN k ELSE Len(e)) /\ DOMAIN f = 1 .. Len(f)
         /\ f[k] = Dirent(name, inum) /\ k \in DOMAIN f
         /\ \A j \in DOMAIN f : j # k => j \in DOMAIN e /\ f[j] = e[j]
<1> DEFINE n == IF k > Len(e) THEN k ELSE Len(e)
<1>1. n \in Nat /\ k \in 1 .. n /\ DOMAIN e = 1 .. Len(e) /\ \A j \in 1 .. n : j # k => j \in 1 .. Len(e)
  OBVIOUS
<1>2. Dirent(name, inum) \in NamedEnts
  BY MkfsAssumption DEF Dirent, NamedEnts, Inums
<1>3. f = [j \in 1 .. n |-> IF j = k THEN Dirent(name, inum) ELSE e[j]]
  BY DEF Linked
<1> HIDE DEF n
<1>4. \A j \in 1 .. n : (IF j = k THEN Dirent(name, inum) ELSE e[j]) \in NamedEnts
  <2>1. \A j \in 1 .. Len(e) : e[j] \in NamedEnts
    OBVIOUS
  <2>2. PICK x \in NamedEnts : x = Dirent(name, inum)
    BY <1>2
  <2>3. ASSUME NEW j \in 1 .. n PROVE (IF j = k THEN x ELSE e[j]) \in NamedEnts
    BY <1>1, <2>1
  <2> QED
    BY <2>2, <2>3
<1>5. f \in Seq(NamedEnts) /\ Len(f) = n /\ DOMAIN f = 1 .. n
  <2>1. f \in [1 .. n -> NamedEnts]
    BY <1>3, <1>4
  <2>2. ASSUME NEW g \in [1 .. n -> NamedEnts] PROVE g \in Seq(NamedEnts) /\ Len(g) = n /\ DOMAIN g = 1 .. n
    BY <1>1, <2>2
  <2> QED
    BY <2>1, <2>2
<1>6. f[k] = Dirent(name, inum) /\ \A j \in 1 .. n : j # k => f[j] = e[j]
  BY <1>1, <1>3
<1> QED
  BY <1>1, <1>5, <1>6 DEF n

LEMMA FreeAtIs ==
  ASSUME NEW s \in FsTypes, NEW dp \in Inums
  PROVE  /\ Lowest(FreeAt(s, dp)) \in 1 .. Len(s.ents[dp]) + 1 /\ Len(s.ents[dp]) \in Nat
         /\ Packed(s, dp) => Lowest(FreeAt(s, dp)) = Len(s.ents[dp]) + 1
<1>1. s.ents[dp] \in Seq(NamedEnts)
  BY TypedIc
<1>2. PICK n \in Nat : n = Len(s.ents[dp]) /\ DOMAIN s.ents[dp] = 1 .. n
  BY <1>1
<1>3. FreeAt(s, dp) \in SUBSET Nat /\ FreeAt(s, dp) # {} /\ FreeAt(s, dp) \subseteq 1 .. n + 1
  BY <1>2 DEF FreeAt
<1>4. Lowest(FreeAt(s, dp)) \in FreeAt(s, dp)
  BY <1>3, LowestIs
<1>5. Packed(s, dp) => FreeAt(s, dp) = {n + 1}
  BY <1>2 DEF Packed, FreeAt
<1> QED
  BY <1>2, <1>3, <1>4, <1>5

LEMMA DirlinkIs ==
  ASSUME NEW s, FsOk(s), NEW dp \in Inums, s.ic[dp].valid, s.dinode[dp].type = "DIR",
         NEW name \in Names, NEW inum \in Inums, Covered(s.dinode[dp]) \/ Packed(s, dp),
         name \in Dots \/ (inum # dp /\ Leaf(s, inum)), NEW t, t = Dirlink(s, dp, name, inum)
  PROVE  FsOk(t) /\ DirlinkDoes(s, t, dp, name, inum)
<1> DEFINE k == Lowest(FreeAt(s, dp))
           e == s.ents[dp]
           u == Writei(s, dp, k - 1)
           f == Linked(e, k, name, inum)
<1>1. s \in FsTypes /\ s.ic[dp].d = s.dinode[dp] /\ e \in Seq(NamedEnts) /\ s.dinode[dp] \in Dinodes
  BY TypedIc DEF FsOk, Cached
<1>2. k \in 1 .. Len(e) + 1 /\ Len(e) \in Nat /\ (Packed(s, dp) => k = Len(e) + 1)
  BY <1>1, FreeAtIs
<1>3. t = IF ~Fits(s, dp, k - 1) THEN Full(s) ELSE [u EXCEPT !.ents[dp] = f]
  BY DEF Dirlink, FreeAt, Linked
<1> HIDE DEF k, u, f
<1>4. CASE ~Fits(s, dp, k - 1)
  <2>1. t = [s EXCEPT !.panic = "full"]
    BY <1>3, <1>4 DEF Full
  <2>2. FsOk(t) /\ SameDisk(s, t) /\ t.ic = s.ic
    BY <2>1, Panicked
  <2>3. \A i, j : Edge(t, i, j) <=> Edge(s, i, j)
    BY <2>2 DEF Edge, SameDisk
  <2>4. Packed(t, dp) <=> Packed(s, dp)
    BY <2>2 DEF Packed, SameDisk
  <2>5. DirlinkDoes(s, t, dp, name, inum)
    BY <2>2, <2>3, <2>4 DEF DirlinkDoes, SameDisk, SameLocks, SameRefs, StaysValid, SameEnts
  <2> QED
    BY <2>2, <2>5
<1>5. CASE Fits(s, dp, k - 1)
  <2>1. k - 1 \in Nat /\ s.dinode[dp].size \in Nat
    BY <1>1, <1>2 DEF Dinodes
  <2>2. k - 1 >= s.dinode[dp].size \/ Covered(s.dinode[dp])
    <3>1. CASE Packed(s, dp)
      BY <1>2, <2>1, <3>1 DEF Packed
    <3> QED
      BY <3>1
  <2>3. Written(s, u, dp) /\ u.dinode[dp].size = SizeOf(s.dinode[dp].size, k - 1)
    BY <1>5, <2>1, <2>2, WriteiIs DEF u
  <2>4. FsOk(u) /\ SameLocks(s, u) /\ SameRefs(s, u) /\ StaysValid(s, u)
    BY <2>3, WrittenOk
  <2>5. u \in FsTypes /\ u.ents = s.ents /\ u.ents \in [Inums -> Seq(NamedEnts)]
    BY <2>3, Typed DEF Written
  <2>6. /\ f \in Seq(NamedEnts) /\ Len(f) = (IF k > Len(e) THEN k ELSE Len(e)) /\ DOMAIN f = 1 .. Len(f)
        /\ f[k] = Dirent(name, inum) /\ k \in DOMAIN f
        /\ \A j \in DOMAIN f : j # k => j \in DOMAIN e /\ f[j] = e[j]
    BY <1>1, <1>2, LinkedIs DEF f
  <2>7. PICK g \in [Inums -> Seq(NamedEnts)] : g = [u.ents EXCEPT ![dp] = f]
    BY <2>5, <2>6
  <2>8. t = [u EXCEPT !.ents = g]
    BY <1>3, <1>5, <2>7
  <2>9. /\ t \in FsTypes /\ t.ents = g /\ t.dinode = u.dinode /\ t.ind = u.ind /\ t.used = u.used
        /\ t.ic = u.ic /\ t.panic = u.panic
    BY <2>5, <2>8 DEF FsTypes
  <2>10. g[dp] = f /\ \A j \in Inums \ {dp} : g[j] = s.ents[j]
    BY <2>5, <2>7
  <2>11. \A i, j \in Inums : Edge(t, i, j) => Edge(s, i, j) \/ (i = dp /\ j = inum /\ name \notin Dots)
    <3> SUFFICES ASSUME NEW i \in Inums, NEW j \in Inums, Edge(t, i, j) PROVE Edge(s, i, j) \/ (i = dp /\ j = inum /\ name \notin Dots)
      OBVIOUS
    <3>1. CASE i # dp
      <4>1. t.ents[i] = s.ents[i]
        BY <2>9, <2>10, <3>1
      <4> QED
        BY <4>1 DEF Edge
    <3>2. CASE i = dp
      <4>1. PICK m \in DOMAIN f : f[m].inum = j /\ f[m].name \notin Dots
        BY <2>9, <2>10, <3>2 DEF Edge
      <4>2. CASE m = k
        BY <2>6, <3>2, <4>1, <4>2 DEF Dirent
      <4>3. CASE m # k
        BY <2>6, <3>2, <4>1, <4>3 DEF Edge
      <4> QED
        BY <4>2, <4>3
    <3> QED
      BY <3>1, <3>2
  <2>12. FsOk(t)
    <3>1. Cached(t)
      <4>1. Cached(u) /\ u.dinode[dp].type = "DIR"
        BY <2>3, <2>4 DEF FsOk, Written
      <4>2. \A j \in Inums : t.ic[j].valid => t.ic[j].d = t.dinode[j]
        BY <2>9, <4>1 DEF Cached
      <4>3. \A j \in Inums : t.ic[j].lock # NULL => t.ic[j].valid
        BY <2>9, <4>1 DEF Cached
      <4>4. \A j \in Inums : t.dinode[j].type # "DIR" => t.ents[j] = <<>>
        BY <2>5, <2>9, <2>10, <4>1 DEF Cached
      <4>5. t.panic = "no" => \A j \in Inums : Covered(t.dinode[j]) /\ (t.ic[j].valid => t.dinode[j].type # "FREE")
        BY <2>9, <4>1 DEF Cached
      <4> QED
        BY <4>2, <4>3, <4>4, <4>5 DEF Cached
    <3>2. NoLoops(t)
      <4>1. NoLoops(s)
        BY DEF FsOk
      <4>2. \A i, j \in Inums : Edge(t, i, j) => Edge(s, i, j) \/ (i = dp /\ j = inum /\ dp # inum /\ Leaf(s, inum))
        BY <2>11
      <4> QED
        BY <4>1, <4>2, NoLoopsStay
    <3>3. Owned(t)
      <4>1. \A d : OwnBlocks(t, d) = OwnBlocks(u, d)
        BY <2>9 DEF OwnBlocks
      <4>2. Owned(u)
        BY <2>4 DEF FsOk
      <4> QED
        BY <2>9, <4>1, <4>2, SameOwned
    <3> QED
      BY <2>9, <3>1, <3>2, <3>3 DEF FsOk
  <2>13. Packed(s, dp) => Packed(t, dp)
    <3> SUFFICES ASSUME Packed(s, dp) PROVE Packed(t, dp)
      OBVIOUS
    <3>1. t.dinode[dp].size = Len(e) + 1 /\ Len(f) = Len(e) + 1
      BY <1>2, <2>1, <2>3, <2>6, <2>9 DEF Packed, SizeOf
    <3>2. \A j \in DOMAIN f : f[j].inum # 0
      <4>1. f[k].inum # 0
        BY <2>6 DEF Dirent, Inums
      <4> QED
        BY <2>6, <4>1 DEF Packed
    <3> QED
      BY <2>9, <2>10, <3>1, <3>2 DEF Packed
  <2>14. SameLocks(s, t) /\ SameRefs(s, t) /\ StaysValid(s, t)
    BY <2>4, <2>9 DEF SameLocks, SameRefs, StaysValid
  <2>15. DirlinkDoes(s, t, dp, name, inum)
    <3>1. SameEnts(s, t, {dp})
      BY <2>9, <2>10 DEF SameEnts
    <3>2. /\ \A j \in Inums \ {dp} : t.ic[j] = s.ic[j] /\ t.dinode[j] = s.dinode[j]
          /\ t.dinode[dp].type = "DIR" /\ t.ic[dp].valid
      BY <2>3, <2>9 DEF Written
    <3> QED
      BY <2>11, <2>13, <2>14, <3>1, <3>2 DEF DirlinkDoes
  <2> QED
    BY <2>12, <2>15
<1> QED
  BY <1>4, <1>5

-----------------------------------------------------------------------------
(* create(): the new inode.                                                *)
LEMMA NewInumIs ==
  ASSUME NEW s \in FsTypes, ~(NewInum(s) > NInodes)
  PROVE  NewInum(s) \in Inums /\ s.dinode[NewInum(s)].type = "FREE"
<1> DEFINE S == {i \in Inums : s.dinode[i].type = "FREE"} \cup {NInodes + 1}
<1>1. S \in SUBSET Nat /\ S # {}
  BY MkfsAssumption DEF Inums
<1>2. \A x \in S : (x \in Inums /\ s.dinode[x].type = "FREE") \/ x = NInodes + 1
  OBVIOUS
<1>3. NewInum(s) = Lowest(S)
  BY DEF NewInum
<1> HIDE DEF S
<1>4. NewInum(s) \in S
  BY <1>1, <1>3, LowestIs
<1> QED
  BY <1>2, <1>4, MkfsAssumption

IallocDoes(s, t, n, type) ==
  /\ t.ents = s.ents /\ SameLocks(s, t) /\ StaysValid(s, t) /\ (t.panic = "no" => s.panic = "no")
  /\ t.ic[n].ref = s.ic[n].ref + 1 /\ t.dinode[n].type = type /\ t.dinode[n].size = 0
  /\ \A j \in Inums \ {n} : t.ic[j] = s.ic[j] /\ t.dinode[j] = s.dinode[j]

LEMMA IallocIs ==
  ASSUME NEW s, FsOk(s), NEW n \in Inums, n = NewInum(s), s.dinode[n].type = "FREE", ~s.ic[n].valid,
         NEW type \in {"FILE", "DIR", "DEV"}, NEW t, t = Ialloc(s, type)
  PROVE  FsOk(t) /\ IallocDoes(s, t, n, type)
<1> DEFINE D == [FreeInode EXCEPT !.type = type]
           u == [s EXCEPT !.dinode[n] = D]
<1>1. t = Iget(u, n)
  BY DEF Ialloc
<1>2. /\ s \in FsTypes /\ s.dinode \in [Inums -> Dinodes] /\ s.ents[n] = <<>>
      /\ Cached(s) /\ s.ic[n].valid = FALSE
  <2>1. s \in FsTypes /\ Cached(s)
    BY DEF FsOk
  <2>2. s.ic[n].valid \in BOOLEAN
    BY <2>1, TypedIc
  <2> QED
    BY <2>1, <2>2, Typed DEF Cached
<1>3. /\ D \in Dinodes /\ D.type = type /\ D.size = 0 /\ D.addrs = NoBlocks
  BY MkfsAssumption DEF FreeInode, NoBlocks, Dinodes
<1> HIDE DEF D
<1>4. PICK g \in [Inums -> Dinodes] : g = [s.dinode EXCEPT ![n] = D]
  BY <1>2, <1>3
<1>5. u = [s EXCEPT !.dinode = g]
  BY <1>4
<1>6. /\ u \in FsTypes /\ u.dinode = g /\ u.ents = s.ents /\ u.ind = s.ind /\ u.used = s.used
      /\ u.ic = s.ic /\ u.panic = s.panic
  BY <1>2, <1>5 DEF FsTypes
<1> HIDE DEF u
<1>7. u.dinode[n] = D /\ \A j \in Inums \ {n} : u.dinode[j] = s.dinode[j]
  BY <1>2, <1>4, <1>6
<1>8. FsOk(u)
  <2>1. Cached(u)
    <3>1. \A j \in Inums : u.ic[j].valid => u.ic[j].d = u.dinode[j]
      BY <1>2, <1>6, <1>7 DEF Cached
    <3>2. \A j \in Inums : u.ic[j].lock # NULL => u.ic[j].valid
      BY <1>2, <1>6 DEF Cached
    <3>3. \A j \in Inums : u.dinode[j].type # "DIR" => u.ents[j] = <<>>
      BY <1>2, <1>6, <1>7 DEF Cached
    <3>4. Covered(D)
      BY <1>3, MkfsAssumption DEF Covered
    <3>5. u.panic = "no" => \A j \in Inums : Covered(u.dinode[j]) /\ (u.ic[j].valid => u.dinode[j].type # "FREE")
      BY <1>2, <1>3, <1>6, <1>7, <3>4 DEF Cached
    <3> QED
      BY <3>1, <3>2, <3>3, <3>5 DEF Cached
  <2>2. NoLoops(u)
    <3>1. \A j, k : Edge(u, j, k) <=> Edge(s, j, k)
      BY <1>6 DEF Edge
    <3> QED
      BY <3>1 DEF FsOk, NoLoops
  <2>3. Owned(u)
    <3>1. OwnBlocks(u, D) = {}
      <4>1. \A k \in 0 .. NDIRECT : D.addrs[k] = 0
        BY <1>3 DEF NoBlocks
      <4>2. D.addrs[NDIRECT] = 0
        BY <4>1, MkfsAssumption
      <4>3. ASSUME NEW b PROVE b \notin OwnBlocks(u, D)
        BY <4>1, <4>2, InOwn
      <4> QED
        BY <4>3
    <3>2. \A d : OwnBlocks(u, d) = OwnBlocks(s, d)
      BY <1>6 DEF OwnBlocks
    <3>3. OwnBlocks(s, s.dinode[n]) = {}
      BY DEF FsOk, Owned
    <3>4. \A j \in Inums : OwnBlocks(u, u.dinode[j]) = OwnBlocks(s, s.dinode[j])
      BY <1>7, <3>1, <3>2, <3>3
    <3>5. Owned(s)
      BY DEF FsOk
    <3>6. \A j \in Inums : u.dinode[j].type = "FREE" => s.dinode[j].type = "FREE"
      BY <1>7
    <3> QED
      BY <1>6, <3>4, <3>5, <3>6, OwnedAgain
  <2> QED
    BY <1>6, <2>1, <2>2, <2>3 DEF FsOk
<1>9. FsOk(t) /\ IgetDoes(u, t, n)
  BY <1>1, <1>8, IgetIs
<1>10. IallocDoes(s, t, n, type)
  BY <1>2, <1>3, <1>6, <1>7, <1>9 DEF IgetDoes, IallocDoes, SameDisk, SameLocks, StaysValid
<1> QED
  BY <1>9, <1>10

NewDoes(s, t, n, dp, p) ==
  /\ n # dp /\ s.ic[n].lock = NULL /\ t.ic[n].lock = p /\ t.ic[n].ref = s.ic[n].ref + 1
  /\ \A j \in Inums \ {n} : t.ic[j].lock = s.ic[j].lock /\ t.ic[j].ref = s.ic[j].ref
  /\ StaysValid(s, t) /\ SameEnts(s, t, {n, dp})

\* What the steps of create() keep true of the directory and of the new inode.
Making(s, t, n, dp, p) ==
  /\ NewDoes(s, t, n, dp, p) /\ t.ic[n].valid /\ t.ic[dp].valid /\ t.dinode[dp].type = "DIR"
  /\ Covered(t.dinode[dp]) /\ Packed(t, n) /\ Leaf(t, n)

LEMMA MadeInode ==
  ASSUME NEW s, FsOk(s), NEW dp \in Inums, s.ic[dp].valid, s.dinode[dp].type = "DIR", Covered(s.dinode[dp]),
         NEW n \in Inums, n = NewInum(s), s.dinode[n].type = "FREE", ~s.ic[n].valid,
         NEW type \in {"FILE", "DIR", "DEV"}, NEW p \in Procs, NEW t, t = Relink(Lock(Ialloc(s, type), n, p), n, 1)
  PROVE  FsOk(t) /\ Making(s, t, n, dp, p) /\ t.dinode[n].type = type
<1> DEFINE u == Ialloc(s, type)
           v == Lock(u, n, p)
<1> HIDE DEF u, v
<1>1. FsOk(u) /\ IallocDoes(s, u, n, type)
  BY IallocIs DEF u
<1>2. FsOk(v) /\ LockDoes(u, v, n, p)
  BY <1>1, LockIs DEF v
<1>3. v.ic[n].valid
  BY <1>2 DEF LockDoes
<1>4. FsOk(t) /\ RelinkDoes(v, t, n)
  BY <1>2, <1>3, RelinkIs DEF v, u
<1>5. n # dp
  OBVIOUS
<1>6. s.ic[n].lock = NULL /\ s.ents[n] = <<>>
  BY DEF FsOk, Cached
<1>7. t.ents = s.ents
  BY <1>1, <1>2, <1>4 DEF IallocDoes, LockDoes, RelinkDoes, SameDisk
<1>8. /\ t.dinode[dp] = s.dinode[dp] /\ t.ic[dp] = s.ic[dp]
      /\ \A j \in Inums \ {n} : t.ic[j].lock = s.ic[j].lock /\ t.ic[j].ref = s.ic[j].ref
  BY <1>1, <1>2, <1>4, <1>5 DEF IallocDoes, LockDoes, RelinkDoes, SameDisk
<1>9. t.dinode[n].type = type /\ t.dinode[n].size = 0 /\ t.ic[n].valid
  BY <1>1, <1>2, <1>4 DEF IallocDoes, LockDoes, RelinkDoes, SameDisk
<1>10. t.ic[n].lock = p /\ t.ic[n].ref = s.ic[n].ref + 1
  BY <1>1, <1>2, <1>4 DEF IallocDoes, LockDoes, RelinkDoes, SameLocks, SameRefs
<1>11. StaysValid(s, t)
  BY <1>1, <1>2, <1>4 DEF IallocDoes, LockDoes, RelinkDoes, StaysValid
<1>12. Packed(t, n) /\ Leaf(t, n)
  BY <1>6, <1>7, <1>9 DEF Packed, Leaf, Edge
<1> QED
  BY <1>4, <1>5, <1>6, <1>7, <1>8, <1>9, <1>10, <1>11, <1>12 DEF Making, NewDoes, SameEnts

\* The rest of create() changes neither locks nor references.
LEMMA MakingGoesOn ==
  ASSUME NEW s, NEW t, NEW u, NEW n \in Inums, NEW dp \in Inums, NEW p, Making(s, t, n, dp, p),
         SameLocks(t, u), SameRefs(t, u), StaysValid(t, u), SameEnts(t, u, {n, dp})
  PROVE  NewDoes(s, u, n, dp, p) /\ u.ic[n].valid /\ u.ic[dp].valid
<1>1. NewDoes(s, t, n, dp, p) /\ t.ic[n].valid /\ t.ic[dp].valid
  BY DEF Making
<1>2. u.ic[n].valid /\ u.ic[dp].valid
  BY <1>1 DEF StaysValid
<1>3. StaysValid(s, u)
  BY <1>1 DEF StaysValid, NewDoes
<1>4. SameEnts(s, u, {n, dp})
  BY <1>1 DEF SameEnts, NewDoes
<1> QED
  BY <1>1, <1>2, <1>3, <1>4 DEF NewDoes, SameLocks, SameRefs

LEMMA MadeDots ==
  ASSUME NEW s, NEW t, FsOk(t), NEW n \in Inums, NEW dp \in Inums, NEW p, Making(s, t, n, dp, p), t.dinode[n].type = "DIR",
         NEW u, u = MakeDots(AddLink(t, dp), n, dp)
  PROVE  FsOk(u) /\ Making(s, u, n, dp, p)
<1> DEFINE a == AddLink(t, dp)
           b == Dirlink(a, n, ".", n)
<1>1. u = Dirlink(b, n, "..", dp)
  BY DEF MakeDots
<1> HIDE DEF a, b
<1>2. n # dp /\ t.ic[dp].valid /\ t.dinode[dp].type = "DIR" /\ Covered(t.dinode[dp]) /\ Packed(t, n) /\ Leaf(t, n) /\ t.ic[n].valid
  BY DEF Making, NewDoes
<1>3. FsOk(a) /\ RelinkDoes(t, a, dp)
  <2>1. PICK x \in Int : a = Relink(t, dp, x)
    <3>1. t.ic[dp].d.nlink \in Int /\ a = Relink(t, dp, t.ic[dp].d.nlink + 1)
      BY NlinkInt DEF a
    <3> QED
      BY <3>1
  <2> QED
    BY <1>2, <2>1, RelinkIs
<1>4. /\ a.ic[n].valid /\ a.dinode[n].type = "DIR" /\ a.ic[dp].valid /\ a.dinode[dp].type = "DIR"
      /\ a.dinode[n] = t.dinode[n] /\ a.ents = t.ents
      /\ a.dinode[dp].size = t.dinode[dp].size /\ a.dinode[dp].addrs = t.dinode[dp].addrs
  BY <1>2, <1>3 DEF RelinkDoes
<1>5. Covered(a.dinode[dp]) /\ Packed(a, n) /\ Leaf(a, n)
  <2>1. Covered(a.dinode[dp])
    BY <1>2, <1>4 DEF Covered
  <2>2. Packed(a, n)
    BY <1>2, <1>4 DEF Packed
  <2>3. Leaf(a, n)
    BY <1>2, <1>4 DEF Leaf, Edge
  <2> QED
    BY <2>1, <2>2, <2>3
<1>6. "." \in Names /\ "." \in Dots /\ ".." \in Names /\ ".." \in Dots
  <2>1. "." \in Names /\ ".." \in Names
    BY DEF Names
  <2> QED
    BY <2>1 DEF Dots
<1>7. FsOk(b) /\ DirlinkDoes(a, b, n, ".", n)
  BY <1>3, <1>4, <1>5, <1>6, DirlinkIs DEF b
<1>8. b.ic[n].valid /\ b.dinode[n].type = "DIR" /\ Packed(b, n)
  BY <1>5, <1>7 DEF DirlinkDoes
<1>9. FsOk(u) /\ DirlinkDoes(b, u, n, "..", dp)
  BY <1>1, <1>6, <1>7, <1>8, DirlinkIs
<1>10. u.dinode[dp] = a.dinode[dp] /\ Packed(u, n)
  BY <1>2, <1>7, <1>8, <1>9 DEF DirlinkDoes
<1>11. Leaf(u, n)
  BY <1>5, <1>6, <1>7, <1>9 DEF DirlinkDoes, Leaf
<1>12. SameLocks(t, u) /\ SameRefs(t, u)
  BY <1>3, <1>7, <1>9 DEF RelinkDoes, DirlinkDoes, SameLocks, SameRefs
<1>13. StaysValid(t, u)
  BY <1>3, <1>7, <1>9 DEF RelinkDoes, DirlinkDoes, StaysValid
<1>14. SameEnts(t, u, {n, dp})
  BY <1>3, <1>7, <1>9 DEF RelinkDoes, DirlinkDoes, SameEnts
<1>15. NewDoes(s, u, n, dp, p) /\ u.ic[n].valid /\ u.ic[dp].valid
  BY <1>12, <1>13, <1>14, MakingGoesOn
<1> QED
  BY <1>4, <1>5, <1>9, <1>10, <1>11, <1>15 DEF Making

LEMMA NewInodeIs ==
  ASSUME NEW s, FsOk(s), NEW dp \in Inums, s.ic[dp].valid, s.dinode[dp].type = "DIR", Covered(s.dinode[dp]),
         NEW n \in Inums, n = NewInum(s), s.dinode[n].type = "FREE", ~s.ic[n].valid,
         NEW c, Creates(c), NEW name \in Names, NEW p \in Procs, NEW t, t = NewInode(s, c, dp, name, p)
  PROVE  FsOk(t) /\ NewDoes(s, t, n, dp, p)
<1> DEFINE type == TypeOf(c)
           s2 == Relink(Lock(Ialloc(s, type), n, p), n, 1)
           s3 == IF c.op = "mkdir" THEN MakeDots(AddLink(s2, dp), n, dp) ELSE s2
<1>1. t = Dirlink(s3, dp, name, n)
  BY DEF NewInode, Relink
<1>2. type \in {"FILE", "DIR", "DEV"} /\ (c.op = "mkdir" => type = "DIR")
  BY DEF Creates, TypeOf
<1> HIDE DEF type, s2, s3
<1>3. FsOk(s2) /\ Making(s, s2, n, dp, p) /\ s2.dinode[n].type = type
  BY <1>2, MadeInode DEF s2
<1>4. FsOk(s3) /\ Making(s, s3, n, dp, p)
  <2>1. CASE c.op = "mkdir"
    <3>1. s3 = MakeDots(AddLink(s2, dp), n, dp)
      BY <2>1 DEF s3
    <3> QED
      BY <1>2, <1>3, <2>1, <3>1, MadeDots
  <2>2. CASE c.op # "mkdir"
    BY <1>3, <2>2 DEF s3
  <2> QED
    BY <2>1, <2>2
<1>5. n # dp /\ s3.ic[dp].valid /\ s3.dinode[dp].type = "DIR" /\ Covered(s3.dinode[dp]) /\ Leaf(s3, n)
  BY <1>4 DEF Making, NewDoes
<1>6. FsOk(t) /\ DirlinkDoes(s3, t, dp, name, n)
  BY <1>1, <1>4, <1>5, DirlinkIs
<1>7. SameEnts(s3, t, {n, dp}) /\ SameLocks(s3, t) /\ SameRefs(s3, t) /\ StaysValid(s3, t)
  BY <1>6 DEF DirlinkDoes, SameEnts
<1>8. NewDoes(s, t, n, dp, p)
  BY <1>4, <1>7, MakingGoesOn
<1> QED
  BY <1>6, <1>8

-----------------------------------------------------------------------------
(* iput() and unlink(): an inode is freed, a reference given back, an      *)
(* entry erased.                                                           *)
WithIc(s, i, e) == [s EXCEPT !.ic = [s.ic EXCEPT ![i] = e]]
WithIcDoes(s, t, i, e) ==
  /\ SameDisk(s, t) /\ t.panic = s.panic /\ t.ic[i] = e /\ \A j \in Inums \ {i} : t.ic[j] = s.ic[j]

LEMMA WithIcIs ==
  ASSUME NEW s \in FsTypes, NEW i \in Inums, NEW e \in IcRecs, NEW t, t = WithIc(s, i, e)
  PROVE  t \in FsTypes /\ WithIcDoes(s, t, i, e)
<1>1. s.ic \in [Inums -> IcRecs]
  BY Typed
<1>2. PICK g \in [Inums -> IcRecs] : g = [s.ic EXCEPT ![i] = e]
  BY <1>1
<1>3. t = [s EXCEPT !.ic = g]
  BY <1>2 DEF WithIc
<1>4. t \in FsTypes /\ SameDisk(s, t) /\ t.panic = s.panic /\ t.ic = g
  BY <1>3 DEF FsTypes, SameDisk
<1>5. g[i] = e /\ \A j \in Inums \ {i} : g[j] = s.ic[j]
  BY <1>1, <1>2
<1> QED
  BY <1>4, <1>5 DEF WithIcDoes

Emptied(s, i, u, n, g) == [s EXCEPT !.used = u, !.ents = n, !.ic = g]
EmptiedDoes(s, t, u, n, g) ==
  t.dinode = s.dinode /\ t.ents = n /\ t.ind = s.ind /\ t.used = u /\ t.panic = s.panic /\ t.ic = g

LEMMA EmptiedIs ==
  ASSUME NEW s \in FsTypes, NEW i, NEW u \in SUBSET Blocks, NEW n \in [Inums -> Seq(NamedEnts)],
         NEW g \in [Inums -> IcRecs], NEW t, t = Emptied(s, i, u, n, g)
  PROVE  t \in FsTypes /\ EmptiedDoes(s, t, u, n, g)
BY DEF FsTypes, Emptied, EmptiedDoes

IfreeDoes(s, t, i) ==
  /\ SameLocks(s, t) /\ SameRefs(s, t) /\ SameEnts(s, t, {i}) /\ \A j \in Inums \ {i} : t.ic[j] = s.ic[j]

LEMMA IfreeFields ==
  ASSUME NEW s, FsOk(s), NEW i \in Inums, s.ic[i].valid, NEW t, t = Ifree(s, i)
  PROVE  /\ t \in FsTypes /\ t.ind = s.ind /\ t.panic = s.panic /\ t.used = s.used \ OwnBlocks(s, s.dinode[i])
         /\ t.ents[i] = <<>> /\ \A j \in Inums \ {i} : t.ents[j] = s.ents[j] /\ t.ic[j] = s.ic[j] /\ t.dinode[j] = s.dinode[j]
         /\ t.ic[i].ref = s.ic[i].ref /\ t.ic[i].lock = s.ic[i].lock /\ ~t.ic[i].valid
         /\ t.dinode[i].type = "FREE" /\ t.dinode[i].size = 0 /\ t.dinode[i].addrs = NoBlocks
<1> DEFINE c == s.ic[i]
           own == OwnBlocks(s, c.d)
           d1 == [c.d EXCEPT !.addrs = NoBlocks, !.size = 0]
           d2 == [d1 EXCEPT !.type = "FREE"]
           e1 == [c EXCEPT !.d = d1]
           e2 == [e1 EXCEPT !.d = d2]
           e3 == [e2 EXCEPT !.valid = FALSE]
           w == Emptied(s, i, s.used \ own, [s.ents EXCEPT ![i] = <<>>], [s.ic EXCEPT ![i] = e1])
           x == Iupdate(w, i)
           y == [x EXCEPT !.ic[i].d.type = "FREE"]
           z == Iupdate(y, i)
<1>1. s \in FsTypes /\ c.d = s.dinode[i]
  BY DEF FsOk, Cached
<1>2. /\ c \in IcRecs /\ c.d \in Dinodes /\ s.ic \in [Inums -> IcRecs] /\ s.ents \in [Inums -> Seq(NamedEnts)]
      /\ s.used \subseteq Blocks /\ s.dinode \in [Inums -> Dinodes]
  BY <1>1, Typed, TypedIc
<1>3. own \subseteq s.used
  BY <1>1, UsedIs
<1>4. t = [z EXCEPT !.ic[i].valid = FALSE]
  <2>1. Itrunc(s, i) = x
    <3> DEFINE W == [s EXCEPT !.used = @ \ own, !.ents[i] = <<>>, !.ic[i].d = [@ EXCEPT !.addrs = NoBlocks, !.size = 0]]
    <3>1. W = w
      BY <1>1, <1>2 DEF Emptied, FsTypes
    <3>2. Itrunc(s, i) = Iupdate(PanicIf(W, ~(own \subseteq s.used)), i)
      BY DEF Itrunc
    <3>3. PanicIf(W, ~(own \subseteq s.used)) = W
      BY <1>3 DEF PanicIf
    <3> QED
      BY <3>1, <3>2, <3>3
  <2> HIDE DEF x
  <2> QED
    BY <2>1 DEF Ifree
<1>5. NoBlocks \in [0 .. NDIRECT -> 0 .. NBlocks]
  BY MkfsAssumption DEF NoBlocks
<1>6. d1 \in Dinodes /\ d1.addrs = NoBlocks /\ d1.size = 0
  BY <1>2, <1>5 DEF Dinodes
<1> HIDE DEF d1
<1>7. d2 \in Dinodes /\ d2.addrs = NoBlocks /\ d2.size = 0 /\ d2.type = "FREE"
  BY <1>6 DEF Dinodes
<1> HIDE DEF d2
<1>8. e1 \in IcRecs /\ e1.d = d1 /\ e1.ref = c.ref /\ e1.lock = c.lock
  BY <1>2, <1>6 DEF IcRecs
<1> HIDE DEF e1
<1>9. e2 \in IcRecs /\ e2.d = d2 /\ e2.ref = c.ref /\ e2.lock = c.lock
  BY <1>7, <1>8 DEF IcRecs
<1> HIDE DEF e2
<1>10. e3 \in IcRecs /\ e3.d = d2 /\ e3.ref = c.ref /\ e3.lock = c.lock /\ e3.valid = FALSE
  BY <1>9 DEF IcRecs
<1> HIDE DEF e3, w, x, y, z, own
<1>11. PICK g \in [Inums -> IcRecs] : g = [s.ic EXCEPT ![i] = e1]
  BY <1>2, <1>8
<1>12. PICK n \in [Inums -> Seq(NamedEnts)] : n = [s.ents EXCEPT ![i] = <<>>]
  <2>1. <<>> \in Seq(NamedEnts)
    OBVIOUS
  <2> QED
    BY <1>2, <2>1
<1>13. PICK u \in SUBSET Blocks : u = s.used \ own
  BY <1>2
<1>14. w \in FsTypes /\ EmptiedDoes(s, w, u, n, g)
  <2>1. w = Emptied(s, i, u, n, g)
    BY <1>11, <1>12, <1>13 DEF w
  <2> QED
    BY <1>1, <2>1, EmptiedIs
<1>15. w.ic[i] = e1 /\ (\A j \in Inums \ {i} : w.ic[j] = s.ic[j]) /\ w.ents[i] = <<>> /\ \A j \in Inums \ {i} : w.ents[j] = s.ents[j]
  BY <1>2, <1>11, <1>12, <1>14 DEF EmptiedDoes
<1>16. x \in FsTypes /\ IupdateDoes(w, x, i)
  BY <1>14, IupdateIs DEF x
<1>17. y = WithIc(x, i, e2)
  <2>1. x.ic[i] = e1
    BY <1>15, <1>16 DEF IupdateDoes
  <2>2. e2 = [x.ic[i] EXCEPT !.d.type = "FREE"]
    BY <1>8, <2>1 DEF e2, d2
  <2> QED
    BY <2>2 DEF y, WithIc
<1>18. y \in FsTypes /\ WithIcDoes(x, y, i, e2)
  BY <1>9, <1>16, <1>17, WithIcIs
<1>19. z \in FsTypes /\ IupdateDoes(y, z, i)
  BY <1>18, IupdateIs DEF z
<1>20. t = WithIc(z, i, e3)
  <2>1. z.ic[i] = e2
    BY <1>18, <1>19 DEF IupdateDoes, WithIcDoes
  <2> QED
    BY <1>4, <2>1 DEF WithIc, e3
<1>21. t \in FsTypes /\ WithIcDoes(z, t, i, e3)
  BY <1>10, <1>19, <1>20, WithIcIs
<1>22. t.ind = s.ind /\ t.panic = s.panic /\ t.used = s.used \ own /\ t.ents = w.ents
  BY <1>13, <1>14, <1>16, <1>18, <1>19, <1>21 DEF EmptiedDoes, IupdateDoes, WithIcDoes, SameDisk
<1>23. t.ic[i] = e3 /\ \A j \in Inums \ {i} : t.ic[j] = s.ic[j]
  BY <1>15, <1>16, <1>18, <1>19, <1>21 DEF IupdateDoes, WithIcDoes
<1>24. t.dinode[i] = d2 /\ \A j \in Inums \ {i} : t.dinode[j] = s.dinode[j]
  <2>1. x.dinode = [s.dinode EXCEPT ![i] = d1]
    BY <1>8, <1>14, <1>15, <1>16 DEF EmptiedDoes, IupdateDoes
  <2>2. t.dinode = [x.dinode EXCEPT ![i] = d2]
    BY <1>9, <1>18, <1>19, <1>21 DEF WithIcDoes, IupdateDoes, SameDisk
  <2> QED
    BY <1>2, <2>1, <2>2
<1> QED
  BY <1>1, <1>7, <1>10, <1>15, <1>21, <1>22, <1>23, <1>24 DEF own

LEMMA IfreeIs ==
  ASSUME NEW s, FsOk(s), NEW i \in Inums, s.ic[i].valid, s.ic[i].lock = NULL, NEW t, t = Ifree(s, i)
  PROVE  FsOk(t) /\ IfreeDoes(s, t, i)
<1>1. /\ t \in FsTypes /\ t.ind = s.ind /\ t.panic = s.panic /\ t.used = s.used \ OwnBlocks(s, s.dinode[i])
      /\ t.ents[i] = <<>> /\ \A j \in Inums \ {i} : t.ents[j] = s.ents[j] /\ t.ic[j] = s.ic[j] /\ t.dinode[j] = s.dinode[j]
      /\ t.ic[i].ref = s.ic[i].ref /\ t.ic[i].lock = s.ic[i].lock /\ ~t.ic[i].valid
      /\ t.dinode[i].type = "FREE" /\ t.dinode[i].size = 0 /\ t.dinode[i].addrs = NoBlocks
  BY IfreeFields
<1>2. Cached(s) /\ NoLoops(s) /\ Owned(s)
  BY DEF FsOk
<1>3. Cached(t)
  <2>1. \A j \in Inums : t.ic[j].valid => t.ic[j].d = t.dinode[j]
    BY <1>1, <1>2 DEF Cached
  <2>2. \A j \in Inums : t.ic[j].lock # NULL => t.ic[j].valid
    BY <1>1, <1>2 DEF Cached
  <2>3. \A j \in Inums : t.dinode[j].type # "DIR" => t.ents[j] = <<>>
    BY <1>1, <1>2 DEF Cached
  <2>4. Covered(t.dinode[i])
    BY <1>1, MkfsAssumption DEF Covered
  <2>5. t.panic = "no" => \A j \in Inums : Covered(t.dinode[j]) /\ (t.ic[j].valid => t.dinode[j].type # "FREE")
    BY <1>1, <1>2, <2>4 DEF Cached
  <2> QED
    BY <2>1, <2>2, <2>3, <2>5 DEF Cached
<1>4. NoLoops(t)
  <2>1. \A j, k \in Inums : Edge(t, j, k) => Edge(s, j, k)
    BY <1>1 DEF Edge
  <2> QED
    BY <1>2, <2>1, NoLoopsStay
<1>5. Owned(t)
  <2>1. OwnBlocks(t, t.dinode[i]) = {}
    <3>1. \A k \in 0 .. NDIRECT : t.dinode[i].addrs[k] = 0
      BY <1>1 DEF NoBlocks
    <3>2. t.dinode[i].addrs[NDIRECT] = 0
      BY <3>1, MkfsAssumption
    <3>3. ASSUME NEW b PROVE b \notin OwnBlocks(t, t.dinode[i])
      BY <3>1, <3>2, InOwn
    <3> QED
      BY <3>3
  <2>2. \A d : OwnBlocks(t, d) = OwnBlocks(s, d)
    BY <1>1 DEF OwnBlocks
  <2>3. \A j \in Inums \ {i} : OwnBlocks(t, t.dinode[j]) = OwnBlocks(s, s.dinode[j])
    BY <1>1, <2>2
  <2>4. \A j, k \in Inums : j # k => OwnBlocks(t, t.dinode[j]) \cap OwnBlocks(t, t.dinode[k]) = {}
    <3> SUFFICES ASSUME NEW j \in Inums, NEW k \in Inums, j # k PROVE OwnBlocks(t, t.dinode[j]) \cap OwnBlocks(t, t.dinode[k]) = {}
      OBVIOUS
    <3>1. OwnBlocks(s, s.dinode[j]) \cap OwnBlocks(s, s.dinode[k]) = {}
      BY <1>2 DEF Owned
    <3> QED
      BY <2>1, <2>3, <3>1
  <2>5. \A b \in Blocks : b \in t.used <=> \E j \in Inums : b \in OwnBlocks(t, t.dinode[j])
    <3> SUFFICES ASSUME NEW b \in Blocks PROVE b \in t.used <=> \E j \in Inums : b \in OwnBlocks(t, t.dinode[j])
      OBVIOUS
    <3>1. b \in s.used <=> \E j \in Inums : b \in OwnBlocks(s, s.dinode[j])
      BY <1>2 DEF Owned
    <3>2. \A j \in Inums \ {i} : OwnBlocks(s, s.dinode[j]) \cap OwnBlocks(s, s.dinode[i]) = {}
      BY <1>2 DEF Owned
    <3>3. b \in t.used <=> b \in s.used /\ b \notin OwnBlocks(s, s.dinode[i])
      BY <1>1
    <3> QED
      BY <2>1, <2>3, <3>1, <3>2, <3>3
  <2>6. \A j \in Inums : t.dinode[j].type = "FREE" => OwnBlocks(t, t.dinode[j]) = {}
    BY <1>1, <1>2, <2>1, <2>3 DEF Owned
  <2> QED
    BY <2>4, <2>5, <2>6 DEF Owned
<1>6. IfreeDoes(s, t, i)
  BY <1>1 DEF IfreeDoes, SameLocks, SameRefs, SameEnts
<1> QED
  BY <1>1, <1>3, <1>4, <1>5, <1>6 DEF FsOk

DropRef(s, i) == [s EXCEPT !.ic[i] = Unref(@)]
DropDoes(s, t, i) ==
  /\ SameDisk(s, t) /\ SameLocks(s, t) /\ t.panic = s.panic /\ t.ic[i].ref = s.ic[i].ref - 1
  /\ \A j \in Inums \ {i} : t.ic[j] = s.ic[j]
  /\ s.ic[i].ref # 1 => t.ic[i].valid = s.ic[i].valid /\ t.ic[i].d = s.ic[i].d

LEMMA DropIs ==
  ASSUME NEW s, FsOk(s), NEW i \in Inums, s.ic[i].ref >= 1, s.ic[i].ref = 1 => s.ic[i].lock = NULL,
         NEW t, t = DropRef(s, i)
  PROVE  FsOk(t) /\ DropDoes(s, t, i)
<1> DEFINE c == s.ic[i]
           e == Unref(c)
<1>1. s \in FsTypes /\ Cached(s)
  BY DEF FsOk
<1>2. c \in IcRecs /\ c.ref \in Nat
  BY <1>1, TypedIc
<1>3. t = WithIc(s, i, e)
  BY DEF DropRef, WithIc
<1>4. /\ e \in IcRecs /\ e.ref = c.ref - 1 /\ e.lock = c.lock
      /\ c.ref = 1 => e.valid = FALSE
      /\ c.ref # 1 => e.valid = c.valid /\ e.d = c.d
  <2>1. CASE c.ref = 1
    <3>1. e = Uncached
      BY <2>1 DEF Unref
    <3>2. FreeInode \in Dinodes
      BY MkfsAssumption DEF FreeInode, NoBlocks, Dinodes
    <3>3. Uncached \in IcRecs /\ Uncached.ref = 0 /\ Uncached.valid = FALSE /\ Uncached.lock = NULL
      BY <3>2 DEF Uncached, IcRecs
    <3> QED
      BY <2>1, <3>1, <3>3
  <2>2. CASE c.ref # 1
    <3>1. e = [c EXCEPT !.ref = c.ref - 1]
      BY <2>2 DEF Unref
    <3>2. c.ref - 1 \in Nat
      BY <1>2
    <3> QED
      BY <1>2, <2>2, <3>1, <3>2 DEF IcRecs
  <2> QED
    BY <2>1, <2>2
<1> HIDE DEF e
<1>5. t \in FsTypes /\ WithIcDoes(s, t, i, e)
  BY <1>1, <1>3, <1>4, WithIcIs
<1>6. FsOk(t)
  <2>1. \A j \in Inums : t.ic[j].valid => t.ic[j].d = t.dinode[j]
    BY <1>1, <1>4, <1>5 DEF Cached, WithIcDoes, SameDisk
  <2>2. \A j \in Inums : t.ic[j].lock # NULL => t.ic[j].valid
    BY <1>1, <1>4, <1>5 DEF Cached, WithIcDoes, SameDisk
  <2>3. t.panic = "no" => s.panic = "no" /\ \A j \in Inums : t.ic[j].valid => t.dinode[j].type # "FREE"
    BY <1>1, <1>4, <1>5 DEF Cached, WithIcDoes, SameDisk
  <2>4. SameDisk(s, t)
    BY <1>5 DEF WithIcDoes
  <2> QED
    BY <1>5, <2>1, <2>2, <2>3, <2>4, CacheOnly
<1>7. DropDoes(s, t, i)
  BY <1>4, <1>5 DEF WithIcDoes, DropDoes, SameLocks
<1> QED
  BY <1>6, <1>7

\* The empty string is beyond the SMT solver.
NoEnt == Dirent("", 0)

LEMMA NoEntIs ==
  NoEnt \in NamedEnts /\ NoEnt.inum = 0
<1>1. 0 \in 0 .. NInodes
  BY MkfsAssumption
<1>2. "" \in Names
  BY Zenon DEF Names
<1>3. \A x \in Names : Dirent(x, 0) \in NamedEnts /\ Dirent(x, 0).inum = 0
  BY <1>1 DEF Dirent, NamedEnts
<1> QED
  BY <1>2, <1>3, Zenon DEF NoEnt

Erased(s, dp, k) == [s EXCEPT !.ents[dp][k] = NoEnt]

LEMMA EraseIs ==
  ASSUME NEW s, FsOk(s), NEW dp \in Inums, NEW k \in DOMAIN s.ents[dp], NEW t, t = Erased(s, dp, k)
  PROVE  FsOk(t) /\ SameEnts(s, t, {dp}) /\ t.ic = s.ic /\ t.dinode = s.dinode
<1> DEFINE e == s.ents[dp]
           f == [e EXCEPT ![k] = NoEnt]
<1>1. s \in FsTypes /\ Cached(s) /\ NoLoops(s) /\ Owned(s)
  BY DEF FsOk
<1>2. s.ents \in [Inums -> Seq(NamedEnts)] /\ e \in Seq(NamedEnts)
  BY <1>1, Typed, TypedIc
<1>3. NoEnt \in NamedEnts /\ NoEnt.inum = 0
  BY NoEntIs
<1>4. f \in Seq(NamedEnts) /\ DOMAIN f = DOMAIN e /\ f[k] = NoEnt /\ \A m \in DOMAIN e : m # k => f[m] = e[m]
  <2>1. PICK n \in Nat : e \in [1 .. n -> NamedEnts] /\ k \in 1 .. n
    BY <1>2
  <2>2. ASSUME NEW g \in [1 .. n -> NamedEnts]
        PROVE  LET h == [g EXCEPT ![k] = NoEnt] IN h \in Seq(NamedEnts) /\ DOMAIN h = DOMAIN g /\ h[k] = NoEnt /\ \A m \in DOMAIN g : m # k => h[m] = g[m]
    <3> DEFINE h == [g EXCEPT ![k] = NoEnt]
    <3>1. h \in [1 .. n -> NamedEnts] /\ DOMAIN h = DOMAIN g /\ h[k] = NoEnt /\ \A m \in DOMAIN g : m # k => h[m] = g[m]
      BY <1>3, <2>1
    <3> HIDE DEF h
    <3>2. h \in Seq(NamedEnts)
      BY <3>1
    <3> QED
      BY <3>1, <3>2 DEF h
  <2> HIDE DEF e
  <2> QED
    BY <2>1, <2>2
<1>5. t = [s EXCEPT !.ents = [s.ents EXCEPT ![dp] = f]]
  BY DEF Erased
<1> HIDE DEF f
<1>6. PICK g \in [Inums -> Seq(NamedEnts)] : g = [s.ents EXCEPT ![dp] = f]
  BY <1>2, <1>4
<1>7. t = [s EXCEPT !.ents = g]
  BY <1>5, <1>6
<1>8. /\ t \in FsTypes /\ t.ents = g /\ t.dinode = s.dinode /\ t.ind = s.ind /\ t.used = s.used
      /\ t.ic = s.ic /\ t.panic = s.panic
  BY <1>1, <1>7 DEF FsTypes
<1>9. g[dp] = f /\ \A j \in Inums \ {dp} : g[j] = s.ents[j]
  BY <1>2, <1>6
<1>10. \A i, j \in Inums : Edge(t, i, j) => Edge(s, i, j)
  <2> SUFFICES ASSUME NEW i \in Inums, NEW j \in Inums, Edge(t, i, j) PROVE Edge(s, i, j)
    OBVIOUS
  <2>1. CASE i # dp
    <3>1. t.ents[i] = s.ents[i]
      BY <1>8, <1>9, <2>1
    <3> QED
      BY <3>1 DEF Edge
  <2>2. CASE i = dp
    <3>1. PICK m \in DOMAIN f : f[m].inum = j /\ f[m].name \notin Dots
      BY <1>8, <1>9, <2>2 DEF Edge
    <3>2. m # k
      BY <1>3, <1>4, <3>1 DEF Inums
    <3> QED
      BY <1>4, <2>2, <3>1, <3>2 DEF Edge
  <2> QED
    BY <2>1, <2>2
<1>11. Cached(t)
  <2>1. \A j \in Inums : t.ic[j].valid => t.ic[j].d = t.dinode[j]
    BY <1>1, <1>8 DEF Cached
  <2>2. \A j \in Inums : t.ic[j].lock # NULL => t.ic[j].valid
    BY <1>1, <1>8 DEF Cached
  <2>3. \A j \in Inums : t.dinode[j].type # "DIR" => t.ents[j] = <<>>
    <3>1. e # <<>>
      OBVIOUS
    <3> QED
      BY <1>1, <1>8, <1>9, <3>1 DEF Cached
  <2>4. t.panic = "no" => \A j \in Inums : Covered(t.dinode[j]) /\ (t.ic[j].valid => t.dinode[j].type # "FREE")
    BY <1>1, <1>8 DEF Cached
  <2> QED
    BY <2>1, <2>2, <2>3, <2>4 DEF Cached
<1>12. NoLoops(t)
  BY <1>1, <1>10, NoLoopsStay
<1>13. Owned(t)
  <2>1. \A d : OwnBlocks(t, d) = OwnBlocks(s, d)
    BY <1>8 DEF OwnBlocks
  <2> QED
    BY <1>1, <1>8, <2>1, SameOwned
<1> QED
  BY <1>8, <1>9, <1>11, <1>12, <1>13 DEF FsOk, SameEnts

-----------------------------------------------------------------------------
(* A step of one process.                                                  *)
LEMMA ProcFields ==
  ASSUME NEW r \in ProcRecs
  PROVE  /\ r.pc \in PCs /\ r.call \in Calls \cup {NULL} /\ r.at \in Nums /\ r.elems \in Seq(Names)
         /\ r.parent \in BOOLEAN /\ r.ip \in Nums /\ r.dp \in Nums /\ r.puts \in Seq(Inums) /\ r.drop \in BOOLEAN
BY DEF ProcRecs

LEMMA Mine ==
  ASSUME FsInv, NEW p \in Procs
  PROVE  /\ pr[p] \in ProcRecs /\ ProcOk(pr[p], fd[p]) /\ Relies(fs, pr[p], p) /\ fd[p] \in Nums /\ cwd[p] \in Inums
         /\ FsOk(fs) /\ fs \in FsTypes
BY DEF FsInv, ProcsOk, FsOk

LEMMA NumIs ==
  ASSUME NEW n \in Nums
  PROVE  n # 0 <=> n \in Inums
BY MkfsAssumption DEF Nums, Inums

\* The first and the second inode to put.
Put1(r) == IF Len(r.puts) >= 1 THEN r.puts[1] ELSE 0
Put2(r) == IF Len(r.puts) >= 2 THEN r.puts[2] ELSE 0
Tally(f, c, a, b, d, x, y, i) == If(f = i) + If(c = i) + (If(a = i) + If(b = i) + If(d = i)) + (If(x = i) + If(y = i))

LEMMA CountIs ==
  ASSUME NEW f, NEW c, NEW r \in ProcRecs, NEW i \in Inums
  PROVE  Count(f, c, r, i) = Tally(f, c, r.at, r.ip, r.dp, Put1(r), Put2(r), i)
<1>1. r.puts \in Seq(Inums)
  BY ProcFields
<1>2. PICK n \in Nat : n = Len(r.puts) /\ DOMAIN r.puts = 1 .. n
  BY <1>1
<1>3. i # 0
  BY DEF Inums
<1>4. PutAt(r, 1, i) <=> Put1(r) = i
  BY <1>2, <1>3 DEF PutAt, Put1
<1>5. PutAt(r, 2, i) <=> Put2(r) = i
  BY <1>2, <1>3 DEF PutAt, Put2
<1>6. If(PutAt(r, 1, i)) = If(Put1(r) = i) /\ If(PutAt(r, 2, i)) = If(Put2(r) = i)
  BY <1>4, <1>5 DEF If
<1> QED
  BY <1>6 DEF Count, Tally

LEMMA PutsOf ==
  ASSUME NEW r
  PROVE  /\ r.puts = <<>> => Put1(r) = 0 /\ Put2(r) = 0
         /\ \A a : r.puts = <<a>> => Put1(r) = a /\ Put2(r) = 0
         /\ \A a, b : r.puts = <<a, b>> => Put1(r) = a /\ Put2(r) = b
<1>1. r.puts = <<>> => Put1(r) = 0 /\ Put2(r) = 0
  BY DEF Put1, Put2
<1>2. ASSUME NEW a, r.puts = <<a>> PROVE Put1(r) = a /\ Put2(r) = 0
  <2>1. Len(<<a>>) = 1 /\ <<a>>[1] = a
    OBVIOUS
  <2> QED
    BY <1>2, <2>1 DEF Put1, Put2
<1>3. ASSUME NEW a, NEW b, r.puts = <<a, b>> PROVE Put1(r) = a /\ Put2(r) = b
  <2>1. Len(<<a, b>>) = 2 /\ <<a, b>>[1] = a /\ <<a, b>>[2] = b
    OBVIOUS
  <2> QED
    BY <1>3, <2>1 DEF Put1, Put2
<1> QED
  BY <1>1, <1>2, <1>3

\* x is the open file of p after the step, y its directory, r its variables.
Steps(p, x, y, r) == fd' = [fd EXCEPT ![p] = x] /\ cwd' = [cwd EXCEPT ![p] = y] /\ pr' = [pr EXCEPT ![p] = r]

Tallied(p, x, y, r, i) ==
  Tally(x, y, r.at, r.ip, r.dp, Put1(r), Put2(r), i)
    - Tally(fd[p], cwd[p], pr[p].at, pr[p].ip, pr[p].dp, Put1(pr[p]), Put2(pr[p]), i)

\* What a step of p may change that another process looks at.
Others(s, t, p) ==
  \A i \in Inums :
    /\ t.ic[i].lock = s.ic[i].lock \/ (s.ic[i].lock \in {NULL, p} /\ t.ic[i].lock \in {NULL, p})
    /\ s.ic[i].lock \notin {NULL, p} => t.ents[i] = s.ents[i]
    /\ s.ic[i].valid /\ (\E q \in Procs : q # p /\ Has(q, i)) => t.ic[i].valid /\ t.ic[i].d.type = s.ic[i].d.type

LEMMA KeepsIs ==
  ASSUME NEW r \in ProcRecs
  PROVE  Keeps(r) \in Nums /\ Keeps(r) \in {0, r.ip, r.dp}
<1>1. r.ip \in Nums /\ r.dp \in Nums /\ 0 \in Nums
  BY ProcFields, MkfsAssumption DEF Nums
<1> QED
  BY <1>1 DEF Keeps

LEMMA OtherRelies ==
  ASSUME FsInv, NEW p \in Procs, NEW q \in Procs, q # p, NEW t, Others(fs, t, p)
  PROVE  Relies(t, pr[q], q)
<1>1. PICK r \in ProcRecs : r = pr[q]
  BY Mine
<1>2. ProcOk(r, fd[q]) /\ Relies(fs, r, q)
  BY <1>1, Mine
<1>3. q # NULL /\ p # NULL
  BY FsAssumption
<1>4. /\ Keeps(r) \in Nums /\ r.ip \in Nums /\ r.dp \in Nums
      /\ (Keeps(r) # 0 => Keeps(r) \in Inums) /\ (r.ip # 0 => r.ip \in Inums) /\ (r.dp # 0 => r.dp \in Inums)
  BY KeepsIs, ProcFields, NumIs
<1>5. Keeps(r) # 0 => t.ic[Keeps(r)].lock = q /\ t.ents[Keeps(r)] = fs.ents[Keeps(r)]
  BY <1>2, <1>3, <1>4 DEF Relies, Others
<1>6. \A i \in Inums : (r.ip = i \/ r.dp = i) /\ fs.ic[i].valid => t.ic[i].valid /\ t.ic[i].d.type = fs.ic[i].d.type
  BY <1>1 DEF Others, Has
<1>7. r.pc = "parent" => t.ic[r.dp].valid /\ t.ic[r.dp].d.type = "DIR"
  <2>1. r.pc = "parent" => r.dp # 0 /\ fs.ic[r.dp].valid /\ fs.ic[r.dp].d.type = "DIR"
    BY <1>2 DEF Relies, ProcOk
  <2> QED
    BY <1>4, <1>6, <2>1
<1>8. r.pc # "idle" /\ r.call.op = "link" /\ r.ip # 0 /\ r.pc # "found" => t.ic[r.ip].valid /\ t.ic[r.ip].d.type # "DIR"
  <2>1. r.pc # "idle" /\ r.call.op = "link" /\ r.ip # 0 /\ r.pc # "found" => fs.ic[r.ip].valid /\ fs.ic[r.ip].d.type # "DIR"
    BY <1>2 DEF Relies
  <2> QED
    BY <1>4, <1>6, <2>1
<1>9. r.pc = "unlink" => r.elems[1] \notin Dots /\ Lookup(t, r.dp, r.elems[1]) = r.ip
  <2> SUFFICES ASSUME r.pc = "unlink" PROVE r.elems[1] \notin Dots /\ Lookup(t, r.dp, r.elems[1]) = r.ip
    OBVIOUS
  <2>1. Keeps(r) = r.dp /\ r.dp # 0
    BY <1>2 DEF Keeps, ProcOk
  <2>2. t.ents[r.dp] = fs.ents[r.dp]
    BY <1>5, <2>1
  <2>3. Lookup(t, r.dp, r.elems[1]) = Lookup(fs, r.dp, r.elems[1])
    BY <2>2 DEF Lookup, Entry
  <2> QED
    BY <1>2, <2>3 DEF Relies
<1> QED
  BY <1>1, <1>5, <1>7, <1>8, <1>9 DEF Relies

LEMMA StepOk ==
  ASSUME FsInv, NEW p \in Procs, NEW x \in Nums, NEW y \in Inums, NEW r \in ProcRecs, Steps(p, x, y, r),
         ProcOk(r, x), FsOk(fs'), Relies(fs', r, p), Others(fs, fs', p),
         \A i \in Inums : fs'.ic[i].lock = p => Keeps(r) = i,
         \A i \in Inums : fs'.ic[i].ref = fs.ic[i].ref + Tallied(p, x, y, r, i)
  PROVE  FsInv'
<1>1. pr \in [Procs -> ProcRecs] /\ fd \in [Procs -> Nums] /\ cwd \in [Procs -> Inums]
  BY DEF FsInv, ProcsOk
<1>2. pr' \in [Procs -> ProcRecs] /\ fd' \in [Procs -> Nums] /\ cwd' \in [Procs -> Inums]
  BY <1>1 DEF Steps
<1>3. Moves(p, x, y, r)
  BY <1>1 DEF Steps, Moves
<1>4. \A q \in Procs : ProcOk(pr'[q], fd'[q]) /\ Relies(fs', pr'[q], q)
  <2> SUFFICES ASSUME NEW q \in Procs PROVE ProcOk(pr'[q], fd'[q]) /\ Relies(fs', pr'[q], q)
    OBVIOUS
  <2>1. CASE q = p
    BY <1>3, <2>1 DEF Moves
  <2>2. CASE q # p
    <3>1. pr'[q] = pr[q] /\ fd'[q] = fd[q]
      BY <1>3, <2>2 DEF Moves
    <3>2. ProcOk(pr[q], fd[q])
      BY Mine
    <3>3. PICK t : t = fs'
      OBVIOUS
    <3>4. Relies(t, pr[q], q)
      BY <2>2, <3>3, OtherRelies
    <3> QED
      BY <3>1, <3>2, <3>3, <3>4
  <2> QED
    BY <2>1, <2>2
<1>5. \A i \in Inums : fs'.ic[i].lock # NULL => Keeps(pr'[fs'.ic[i].lock]) = i
  <2> SUFFICES ASSUME NEW i \in Inums, fs'.ic[i].lock # NULL PROVE Keeps(pr'[fs'.ic[i].lock]) = i
    OBVIOUS
  <2>1. CASE fs'.ic[i].lock = p
    BY <1>3, <2>1 DEF Moves
  <2>2. CASE fs'.ic[i].lock # p
    <3>1. fs'.ic[i].lock = fs.ic[i].lock
      BY <2>2 DEF Others
    <3>2. fs.ic[i].lock \in Procs
      <4>1. fs.ic[i].lock \in Procs \cup {NULL}
        BY Mine, TypedIc
      <4> QED
        BY <3>1, <4>1
    <3>3. Keeps(pr[fs.ic[i].lock]) = i
      BY <3>1 DEF FsInv, ProcsOk
    <3> QED
      BY <1>3, <2>2, <3>1, <3>2, <3>3 DEF Moves
  <2> QED
    BY <2>1, <2>2
<1>6. RefsCounted'
  <2>1. ASSUME NEW i \in Inums PROVE fs'.ic[i].ref = fs.ic[i].ref + (Count(x, y, r, i) - Count(fd[p], cwd[p], pr[p], i))
    <3>1. pr[p] \in ProcRecs
      BY <1>1
    <3>2. Count(x, y, r, i) = Tally(x, y, r.at, r.ip, r.dp, Put1(r), Put2(r), i)
      BY CountIs
    <3>3. Count(fd[p], cwd[p], pr[p], i) = Tally(fd[p], cwd[p], pr[p].at, pr[p].ip, pr[p].dp, Put1(pr[p]), Put2(pr[p]), i)
      BY <3>1, CountIs
    <3> QED
      BY <3>2, <3>3 DEF Tallied
  <2> QED
    BY <1>3, <2>1, RefsMove
<1> QED
  BY <1>2, <1>4, <1>5, <1>6 DEF FsInv, ProcsOk

\* The pointers among the variables of a call.
Holds(r, i) == If(r.at = i) + If(r.ip = i) + If(r.dp = i) + If(Put1(r) = i) + If(Put2(r) = i)

LEMMA HoldsNat ==
  ASSUME NEW r, NEW i
  PROVE  Holds(r, i) \in 0 .. 5
BY DEF Holds, If

\* A step that leaves the open file and the current directory as they are.
LEMMA PlainStep ==
  ASSUME FsInv, NEW p \in Procs, NEW r \in ProcRecs, pr' = [pr EXCEPT ![p] = r], UNCHANGED <<fd, cwd>>,
         ProcOk(r, fd[p]), FsOk(fs'), Relies(fs', r, p), Others(fs, fs', p),
         \A i \in Inums : fs'.ic[i].lock = p => Keeps(r) = i,
         \A i \in Inums : fs'.ic[i].ref = fs.ic[i].ref + (Holds(r, i) - Holds(pr[p], i))
  PROVE  FsInv'
<1>1. fd \in [Procs -> Nums] /\ cwd \in [Procs -> Inums]
  BY DEF FsInv, ProcsOk
<1>2. Steps(p, fd[p], cwd[p], r)
  BY <1>1 DEF Steps
<1>3. PICK x \in Nums, y \in Inums : x = fd[p] /\ y = cwd[p]
  BY <1>1
<1>4. ASSUME NEW i \in Inums PROVE Tallied(p, x, y, r, i) = Holds(r, i) - Holds(pr[p], i)
  BY <1>3 DEF Tallied, Tally, Holds, If
<1>5. Steps(p, x, y, r) /\ ProcOk(r, x)
  BY <1>2, <1>3
<1>6. \A i \in Inums : fs'.ic[i].ref = fs.ic[i].ref + Tallied(p, x, y, r, i)
  BY <1>4
<1> QED
  BY <1>5, <1>6, StepOk

\* The lock that p has is the one it keeps.
LEMMA OwnLock ==
  ASSUME FsInv, NEW p \in Procs, NEW i \in Inums, fs.ic[i].lock = p
  PROVE  Keeps(pr[p]) = i
BY FsAssumption DEF FsInv, ProcsOk

LEMMA NoLock ==
  ASSUME FsInv, NEW p \in Procs, Keeps(pr[p]) = 0
  PROVE  \A i \in Inums : fs.ic[i].lock # p
BY OwnLock DEF Inums

LEMMA OthersOf ==
  ASSUME NEW p \in Procs, NEW s, NEW t, StaysValid(s, t),
         \A i \in Inums : t.ic[i].lock = s.ic[i].lock \/ (s.ic[i].lock \in {NULL, p} /\ t.ic[i].lock \in {NULL, p}),
         \A i \in Inums : t.ents[i] = s.ents[i] \/ s.ic[i].lock \in {NULL, p}
  PROVE  Others(s, t, p)
BY DEF Others, StaysValid

\* At a step of the call the process has nothing to put.
LEMMA AtIs ==
  ASSUME FsInv, NEW p \in Procs, NEW pc, At(p, pc), NEW r, r = pr[p]
  PROVE  /\ r \in ProcRecs /\ r.pc = pc /\ r.puts = <<>> /\ Put1(r) = 0 /\ Put2(r) = 0 /\ r.drop = FALSE
         /\ ProcOk(r, fd[p]) /\ Relies(fs, r, p)
<1>1. r \in ProcRecs /\ r.pc = pc /\ r.puts = <<>> /\ ProcOk(r, fd[p]) /\ Relies(fs, r, p)
  BY Mine DEF At
<1>2. r.drop = FALSE
  BY <1>1, ProcFields DEF ProcOk
<1> QED
  BY <1>1, <1>2, PutsOf

LEMMA EmptySeqs == <<>> \in Seq(Inums) /\ <<>> \in Seq(Names) /\ Len(<<>>) = 0
OBVIOUS

LEMMA InPCs ==
  /\ "idle" \in PCs /\ "walk" \in PCs /\ "found" \in PCs /\ "linked" \in PCs /\ "parent" \in PCs /\ "unlock" \in PCs
  /\ "bad" \in PCs /\ "unlink" \in PCs /\ "unlinked" \in PCs /\ "exists" \in PCs /\ "made" \in PCs
  /\ "write" \in PCs /\ "end" \in PCs /\ 0 \in Nums /\ \A i \in Inums : i \in Nums /\ i # 0
BY MkfsAssumption DEF PCs, Nums, Inums

LEMMA IdleIs ==
  /\ Idle \in ProcRecs /\ Keeps(Idle) = 0 /\ \A f : ProcOk(Idle, f)
  /\ Idle.pc = "idle" /\ Idle.at = 0 /\ Idle.ip = 0 /\ Idle.dp = 0 /\ Put1(Idle) = 0 /\ Put2(Idle) = 0
  /\ \A s, p : Relies(s, Idle, p)
<1>1. 0 \in Nums /\ NULL \in Calls \cup {NULL} /\ "idle" \in PCs
  BY MkfsAssumption DEF Nums, PCs
<1>2. Idle \in ProcRecs
  BY <1>1, EmptySeqs DEF Idle, ProcRecs
<1>3. /\ Idle.pc = "idle" /\ Idle.at = 0 /\ Idle.ip = 0 /\ Idle.dp = 0 /\ Idle.puts = <<>> /\ Idle.drop = FALSE
  BY DEF Idle
<1>4. Put1(Idle) = 0 /\ Put2(Idle) = 0
  BY <1>3, PutsOf
<1>5. Keeps(Idle) = 0 /\ ~OfLink(Idle)
  BY <1>3 DEF Keeps, OfLink
<1>6. \A f : ProcOk(Idle, f)
  BY <1>3, <1>5, EmptySeqs DEF ProcOk
<1>7. \A s, p : Relies(s, Idle, p)
  BY <1>3, <1>5 DEF Relies
<1> QED
  BY <1>2, <1>3, <1>4, <1>5, <1>6, <1>7

LEMMA EndStep ==
  ASSUME FsInv, NEW p \in Procs, End(p)
  PROVE  FsInv'
<1>1. At(p, "end") /\ fs' = fs /\ pr' = [pr EXCEPT ![p] = Idle] /\ UNCHANGED <<fd, cwd>>
  BY DEF End, To
<1>2. PICK r : r = pr[p]
  OBVIOUS
<1>3. /\ r \in ProcRecs /\ r.pc = "end" /\ Put1(r) = 0 /\ Put2(r) = 0 /\ ProcOk(r, fd[p])
  BY <1>1, <1>2, AtIs
<1>4. r.at = 0 /\ r.ip = 0 /\ r.dp = 0 /\ Keeps(r) = 0
  BY <1>3 DEF ProcOk, OfLink, Keeps
<1>5. FsOk(fs') /\ Others(fs, fs', p)
  BY <1>1, Mine DEF Others
<1>6. \A i \in Inums : fs'.ic[i].lock = p => Keeps(Idle) = i
  BY <1>1, <1>2, <1>4, NoLock
<1>7. \A i \in Inums : fs'.ic[i].ref = fs.ic[i].ref + (Holds(Idle, i) - Holds(pr[p], i))
  <2>1. ASSUME NEW i \in Inums PROVE Holds(Idle, i) = Holds(pr[p], i)
    BY <1>2, <1>3, <1>4, IdleIs DEF Holds
  <2>2. ASSUME NEW i \in Inums PROVE fs.ic[i].ref \in Nat
    BY Mine, TypedIc
  <2> QED
    BY <1>1, <2>1, <2>2, HoldsNat
<1> QED
  BY <1>1, <1>5, <1>6, <1>7, IdleIs, PlainStep

\* Nothing that a process relies on changes.
Mild(s, t) == SameLocks(s, t) /\ SameRefs(s, t) /\ StaysValid(s, t) /\ t.ents = s.ents

LEMMA MildIs ==
  ASSUME NEW s, NEW p \in Procs
  PROVE  /\ Mild(s, s)
         /\ \A t, i : IlockDoes(s, t, i) => Mild(s, t)
         /\ \A t : Mild(s, t) => Others(s, t, p)
<1>1. Mild(s, s)
  BY DEF Mild, SameLocks, SameRefs, StaysValid
<1>2. ASSUME NEW t, NEW i, IlockDoes(s, t, i) PROVE Mild(s, t)
  BY <1>2 DEF Mild, IlockDoes, SameDisk
<1>3. ASSUME NEW t, Mild(s, t) PROVE Others(s, t, p)
  BY <1>3, OthersOf DEF Mild, SameLocks
<1> QED
  BY <1>1, <1>2, <1>3

LEMMA RefNat ==
  ASSUME FsInv, NEW i \in Inums
  PROVE  fs.ic[i].ref \in Nat
BY TypedIc DEF FsInv, FsOk

\* A step that counts no pointer, from a state of the call that keeps no lock.
LEMMA MildStep ==
  ASSUME FsInv, NEW p \in Procs, NEW r \in ProcRecs, NEW s, To(p, s, r), UNCHANGED <<fd, cwd>>,
         ProcOk(r, fd[p]), FsOk(s), Relies(s, r, p), Mild(fs, s), Keeps(pr[p]) = 0,
         \A i \in Inums : Holds(r, i) = Holds(pr[p], i)
  PROVE  FsInv'
<1>1. fs' = s /\ pr' = [pr EXCEPT ![p] = r]
  BY DEF To
<1>2. Others(fs, s, p)
  BY MildIs
<1>3. \A i \in Inums : s.ic[i].lock # p
  BY NoLock DEF Mild, SameLocks
<1>4. \A i \in Inums : s.ic[i].ref = fs.ic[i].ref + (Holds(r, i) - Holds(pr[p], i))
  BY RefNat, HoldsNat DEF Mild, SameRefs
<1>5. FsOk(fs') /\ Relies(fs', r, p) /\ Others(fs, fs', p)
  BY <1>1, <1>2
<1>6. /\ \A i \in Inums : fs'.ic[i].lock = p => Keeps(r) = i
      /\ \A i \in Inums : fs'.ic[i].ref = fs.ic[i].ref + (Holds(r, i) - Holds(pr[p], i))
  BY <1>1, <1>3, <1>4
<1> QED
  BY <1>1, <1>5, <1>6, PlainStep

LEMMA OneSeq ==
  ASSUME NEW i \in Inums
  PROVE  <<i>> \in Seq(Inums) /\ Len(<<i>>) = 1 /\ <<i>> # <<>> /\ Head(<<i>>) = i
OBVIOUS

\* namex() returns 0.
LEMMA MissStep ==
  ASSUME FsInv, NEW p \in Procs, At(p, "walk"), NEW s, FsOk(s), Mild(fs, s),
         To(p, s, [pr[p] EXCEPT !.pc = Missed(pr[p]), !.at = 0, !.puts = <<pr[p].at>>]), UNCHANGED <<fd, cwd>>
  PROVE  FsInv'
<1>1. PICK r : r = pr[p]
  OBVIOUS
<1>2. /\ r \in ProcRecs /\ r.pc = "walk" /\ Put1(r) = 0 /\ Put2(r) = 0 /\ r.puts = <<>> /\ r.drop = FALSE
      /\ ProcOk(r, fd[p]) /\ Relies(fs, r, p)
  BY <1>1, AtIs
<1>3. r.at \in Inums /\ r.dp = 0 /\ Keeps(r) = 0 /\ r.call \in Calls /\ (r.ip # 0 <=> OfLink(r))
  BY <1>2, ProcFields, NumIs DEF ProcOk, Keeps
<1>4. PICK q : q = [r EXCEPT !.pc = Missed(r), !.at = 0, !.puts = <<r.at>>]
  OBVIOUS
<1>5. Missed(r) = IF OfLink(r) THEN "bad" ELSE "end"
  BY <1>2 DEF Missed, OfLink
<1>6. q \in ProcRecs
  BY <1>2, <1>3, <1>4, <1>5, OneSeq, InPCs DEF ProcRecs
<1>7. /\ q.pc = Missed(r) /\ q.at = 0 /\ q.puts = <<r.at>> /\ q.call = r.call /\ q.ip = r.ip /\ q.dp = r.dp /\ q.drop = r.drop
      /\ q.elems = r.elems /\ q.parent = r.parent
  BY <1>2, <1>4 DEF ProcRecs
<1>8. Put1(q) = r.at /\ Put2(q) = 0
  BY <1>7, PutsOf
<1>9. ProcOk(q, fd[p])
  BY <1>2, <1>3, <1>5, <1>7, OneSeq DEF ProcOk, OfLink
<1>10. Keeps(q) = 0
  BY <1>5, <1>7 DEF Keeps
<1>11. Relies(s, q, p)
  <2>1. q.pc \in {"bad", "end"} /\ (q.pc = "bad" => OfLink(r))
    BY <1>5, <1>7
  <2>2. OfLink(r) => fs.ic[r.ip].valid /\ fs.ic[r.ip].d.type # "DIR" /\ r.ip \in Inums
    BY <1>2, <1>3, ProcFields, NumIs DEF Relies, OfLink
  <2>3. OfLink(r) => s.ic[r.ip].valid /\ s.ic[r.ip].d.type # "DIR"
    BY <2>2 DEF Mild, StaysValid
  <2>4. q.ip # 0 => OfLink(r)
    BY <1>3, <1>7
  <2> QED
    BY <1>7, <1>10, <2>1, <2>3, <2>4 DEF Relies
<1>12. \A i \in Inums : Holds(q, i) = Holds(r, i)
  BY <1>2, <1>3, <1>7, <1>8 DEF Holds, If, Inums
<1>13. To(p, s, q) /\ Keeps(pr[p]) = 0 /\ \A i \in Inums : Holds(q, i) = Holds(pr[p], i)
  BY <1>1, <1>3, <1>4, <1>12
<1> QED
  BY <1>6, <1>9, <1>11, <1>13, MildStep

LEMMA WalkedStep ==
  ASSUME FsInv, NEW p \in Procs, Walked(p)
  PROVE  FsInv'
<1>1. PICK r : r = pr[p]
  OBVIOUS
<1>2. At(p, "walk") /\ UNCHANGED <<fd, cwd>>
  BY DEF Walked
<1>3. FsOk(fs) /\ Mild(fs, fs)
  BY Mine, MildIs
<1>4. CASE r.parent
  <2>1. To(p, fs, [pr[p] EXCEPT !.pc = Missed(pr[p]), !.at = 0, !.puts = <<pr[p].at>>])
    BY <1>1, <1>4 DEF Walked
  <2> QED
    BY <1>2, <1>3, <2>1, MissStep
<1>5. CASE ~r.parent
  <2>1. PICK q : q = [r EXCEPT !.pc = "found", !.at = 0, !.ip = r.at]
    OBVIOUS
  <2>2. To(p, fs, q)
    BY <1>1, <1>5, <2>1 DEF Walked
  <2>3. /\ r \in ProcRecs /\ r.pc = "walk" /\ Put1(r) = 0 /\ Put2(r) = 0 /\ r.puts = <<>> /\ r.drop = FALSE
        /\ ProcOk(r, fd[p])
    BY <1>1, <1>2, AtIs
  <2>4. r.at \in Inums /\ r.dp = 0 /\ Keeps(r) = 0 /\ r.call \in Calls /\ r.ip = 0
    BY <1>5, <2>3, ProcFields, NumIs DEF ProcOk, Keeps, OfLink
  <2>5. q \in ProcRecs
    BY <2>1, <2>3, InPCs DEF ProcRecs
  <2>6. /\ q.pc = "found" /\ q.at = 0 /\ q.puts = <<>> /\ q.call = r.call /\ q.ip = r.at /\ q.dp = 0 /\ q.drop = FALSE
        /\ Put1(q) = 0 /\ Put2(q) = 0
    <3>1. /\ q.pc = "found" /\ q.at = 0 /\ q.puts = r.puts /\ q.call = r.call /\ q.ip = r.at /\ q.dp = r.dp /\ q.drop = r.drop
      BY <2>1, <2>3 DEF ProcRecs
    <3> QED
      BY <2>3, <2>4, <3>1, PutsOf
  <2>7. ProcOk(q, fd[p])
    BY <2>3, <2>4, <2>6 DEF ProcOk, OfLink, Inums
  <2>8. Relies(fs, q, p)
    BY <2>6 DEF Relies, Keeps
  <2>9. \A i \in Inums : Holds(q, i) = Holds(pr[p], i)
    BY <1>1, <2>3, <2>4, <2>6 DEF Holds, If, Inums
  <2> QED
    BY <1>1, <1>2, <1>3, <2>2, <2>4, <2>5, <2>7, <2>8, <2>9, MildStep
<1> QED
  BY <1>4, <1>5

\* What dirlookup() finds.
LEMMA LookupIs ==
  ASSUME NEW s \in FsTypes, NEW dp \in Inums, NEW name
  PROVE  /\ Lookup(s, dp, name) \in Nums
         /\ Lookup(s, dp, name) # 0 => /\ Lookup(s, dp, name) \in Inums
                                       /\ Entry(s, dp, name) \in DOMAIN s.ents[dp]
                                       /\ name \notin Dots => Edge(s, dp, Lookup(s, dp, name))
<1> DEFINE at == {k \in DOMAIN s.ents[dp] : s.ents[dp][k].inum # 0 /\ s.ents[dp][k].name = name}
<1>1. PICK e \in Seq(NamedEnts) : e = s.ents[dp]
  BY TypedIc
<1>2. PICK n \in Nat : DOMAIN e = 1 .. n
  BY <1>1
<1>3. \A k \in DOMAIN e : e[k].inum \in Nums
  <2>1. \A k \in DOMAIN e : e[k] \in NamedEnts
    BY <1>1
  <2> QED
    BY <2>1 DEF NamedEnts, Nums
<1>4. CASE at = {}
  <2>1. Lookup(s, dp, name) = 0
    BY <1>4 DEF Lookup, Entry
  <2> QED
    BY <2>1, InPCs
<1>5. CASE at # {}
  <2>1. at \in SUBSET Nat
    BY <1>1, <1>2
  <2>2. Lowest(at) \in at
    BY <1>5, <2>1, LowestIs
  <2>3. PICK k \in at : k = Lowest(at)
    BY <2>2
  <2>4. Entry(s, dp, name) = k
    BY <1>5, <2>3 DEF Entry
  <2>5. k # 0 /\ k \in DOMAIN e /\ e[k].inum # 0 /\ e[k].name = name
    BY <1>1, <1>2
  <2>6. Lookup(s, dp, name) = e[k].inum
    BY <1>1, <2>4, <2>5 DEF Lookup
  <2> QED
    BY <1>1, <1>3, <2>4, <2>5, <2>6, NumIs DEF Edge
<1> QED
  BY <1>4, <1>5

\* A link() that has its inode has it as it found it.
LEMMA LinkIp ==
  ASSUME FsInv, NEW p \in Procs, NEW r, r = pr[p], r.pc \notin {"idle", "found"}, r.call.op = "link", r.ip # 0,
         NEW s, StaysValid(fs, s)
  PROVE  s.ic[r.ip].valid /\ s.ic[r.ip].d.type # "DIR"
<1>1. r \in ProcRecs /\ Relies(fs, r, p)
  BY Mine
<1>2. fs.ic[r.ip].valid /\ fs.ic[r.ip].d.type # "DIR" /\ r.ip \in Inums
  BY <1>1, ProcFields, NumIs DEF Relies
<1> QED
  BY <1>2 DEF StaysValid

\* iget() too.
LEMMA GetStep ==
  ASSUME FsInv, NEW p \in Procs, NEW r \in ProcRecs, NEW s, FsOk(s), Mild(fs, s), NEW n \in Inums,
         NEW t, t = Iget(s, n), To(p, t, r), UNCHANGED <<fd, cwd>>,
         ProcOk(r, fd[p]), Relies(t, r, p), Keeps(pr[p]) = 0,
         \A i \in Inums : Holds(r, i) = Holds(pr[p], i) + If(n = i)
  PROVE  FsInv'
<1>1. fs' = t /\ pr' = [pr EXCEPT ![p] = r]
  BY DEF To
<1>2. FsOk(t) /\ IgetDoes(s, t, n)
  BY IgetIs
<1>3. SameLocks(fs, t) /\ StaysValid(fs, t) /\ t.ents = fs.ents
  BY <1>2 DEF IgetDoes, Mild, SameLocks, StaysValid, SameDisk
<1>4. Others(fs, t, p)
  BY <1>3, OthersOf DEF SameLocks
<1>5. \A i \in Inums : t.ic[i].lock # p
  BY <1>3, NoLock DEF SameLocks
<1>6. \A i \in Inums : t.ic[i].ref = fs.ic[i].ref + (Holds(r, i) - Holds(pr[p], i))
  <2>1. ASSUME NEW i \in Inums PROVE t.ic[i].ref = fs.ic[i].ref + If(n = i)
    BY <1>2, RefNat DEF IgetDoes, Mild, SameRefs, If
  <2>2. ASSUME NEW i \in Inums PROVE If(n = i) \in Nat /\ Holds(r, i) = Holds(pr[p], i) + If(n = i)
    BY DEF If
  <2> QED
    BY <2>1, <2>2, RefNat, HoldsNat
<1>7. FsOk(fs') /\ Relies(fs', r, p) /\ Others(fs, fs', p)
  BY <1>1, <1>2, <1>4
<1>8. /\ \A i \in Inums : fs'.ic[i].lock = p => Keeps(r) = i
      /\ \A i \in Inums : fs'.ic[i].ref = fs.ic[i].ref + (Holds(r, i) - Holds(pr[p], i))
  BY <1>1, <1>5, <1>6
<1> QED
  BY <1>1, <1>7, <1>8, PlainStep

LEMMA IgetValid ==
  ASSUME NEW s, NEW n, NEW t, IgetDoes(s, t, n), Mild(fs, s)
  PROVE  StaysValid(fs, t)
BY DEF IgetDoes, Mild, StaysValid

LEMMA WalkStep ==
  ASSUME FsInv, NEW p \in Procs, Walk(p)
  PROVE  FsInv'
<1>1. PICK r : r = pr[p]
  OBVIOUS
<1>2. PICK s : s = Ilock(fs, r.at)
  OBVIOUS
<1>3. At(p, "walk") /\ UNCHANGED <<fd, cwd>> /\ r.elems # <<>>
  BY <1>1 DEF Walk
<1>4. /\ r \in ProcRecs /\ r.pc = "walk" /\ Put1(r) = 0 /\ Put2(r) = 0 /\ r.puts = <<>> /\ r.drop = FALSE
      /\ ProcOk(r, fd[p])
  BY <1>1, <1>3, AtIs
<1>5. r.at \in Inums /\ r.dp = 0 /\ Keeps(r) = 0 /\ r.call \in Calls /\ (r.ip # 0 <=> OfLink(r))
  BY <1>4, ProcFields, NumIs DEF ProcOk, Keeps
<1>6. FsOk(s) /\ IlockDoes(fs, s, r.at) /\ Mild(fs, s)
  <2>1. FsOk(fs)
    BY Mine
  <2>2. FsOk(s) /\ IlockDoes(fs, s, r.at)
    BY <1>2, <1>5, <2>1, IlockIs
  <2> QED
    BY <2>2, MildIs
<1>7. PICK next : next = Lookup(s, r.at, Head(r.elems))
  OBVIOUS
<1>8. next \in Nums
  BY <1>5, <1>6, <1>7, LookupIs DEF FsOk
<1> DEFINE Miss == To(p, s, [pr[p] EXCEPT !.pc = Missed(pr[p]), !.at = 0, !.puts = <<pr[p].at>>])
<1>9. CASE s.ic[r.at].d.type # "DIR"
  <2>1. Miss
    BY <1>1, <1>2, <1>9 DEF Walk
  <2> QED
    BY <1>3, <1>6, <2>1, MissStep
<1>10. CASE s.ic[r.at].d.type = "DIR" /\ r.parent /\ Len(r.elems) = 1
  <2>1. PICK q : q = [r EXCEPT !.pc = "parent", !.at = 0, !.dp = r.at]
    OBVIOUS
  <2>2. To(p, s, q)
    BY <1>1, <1>2, <1>10, <2>1 DEF Walk
  <2>3. q \in ProcRecs
    BY <1>4, <2>1, InPCs DEF ProcRecs
  <2>4. /\ q.pc = "parent" /\ q.at = 0 /\ q.puts = r.puts /\ q.call = r.call /\ q.ip = r.ip /\ q.dp = r.at /\ q.drop = r.drop
        /\ q.elems = r.elems
    BY <1>4, <2>1 DEF ProcRecs
  <2>5. Put1(q) = 0 /\ Put2(q) = 0
    BY <1>4, <2>4, PutsOf
  <2>6. OfLink(q) <=> OfLink(r)
    BY <1>4, <1>10, <2>4 DEF OfLink
  <2>7. ProcOk(q, fd[p])
    BY <1>3, <1>4, <1>5, <2>4, <2>6, InPCs DEF ProcOk
  <2>8. Relies(s, q, p)
    <3>1. s.ic[q.dp].valid /\ s.ic[q.dp].d.type = "DIR"
      BY <1>6, <1>10, <2>4 DEF IlockDoes
    <3>2. q.call.op = "link" /\ q.ip # 0 => s.ic[q.ip].valid /\ s.ic[q.ip].d.type # "DIR"
      BY <1>1, <1>4, <1>6, <2>4, LinkIp DEF Mild
    <3> QED
      BY <2>4, <3>1, <3>2 DEF Relies, Keeps
  <2>9. \A i \in Inums : Holds(q, i) = Holds(pr[p], i)
    BY <1>1, <1>4, <1>5, <2>4, <2>5 DEF Holds, If, Inums
  <2> QED
    BY <1>1, <1>3, <1>5, <1>6, <2>2, <2>3, <2>7, <2>8, <2>9, MildStep
<1>11. CASE s.ic[r.at].d.type = "DIR" /\ ~(r.parent /\ Len(r.elems) = 1) /\ next = 0
  <2>1. Miss
    BY <1>1, <1>2, <1>7, <1>11 DEF Walk
  <2> QED
    BY <1>3, <1>6, <2>1, MissStep
<1>12. CASE s.ic[r.at].d.type = "DIR" /\ ~(r.parent /\ Len(r.elems) = 1) /\ next # 0
  <2>1. PICK q : q = [r EXCEPT !.at = next, !.elems = Tail(r.elems), !.puts = <<r.at>>]
    OBVIOUS
  <2>2. PICK t : t = Iget(s, next)
    OBVIOUS
  <2>3. To(p, t, q)
    BY <1>1, <1>2, <1>7, <1>12, <2>1, <2>2 DEF Walk
  <2>4. next \in Inums
    BY <1>8, <1>12, NumIs
  <2>5. Tail(r.elems) \in Seq(Names)
    BY <1>3, <1>4, ProcFields
  <2>6. q \in ProcRecs
    BY <1>4, <1>5, <1>8, <2>1, <2>5, OneSeq DEF ProcRecs
  <2>7. /\ q.pc = r.pc /\ q.at = next /\ q.puts = <<r.at>> /\ q.call = r.call /\ q.ip = r.ip /\ q.dp = r.dp /\ q.drop = r.drop
        /\ q.parent = r.parent
    BY <1>4, <2>1 DEF ProcRecs
  <2>8. Put1(q) = r.at /\ Put2(q) = 0
    BY <2>7, PutsOf
  <2>9. OfLink(q) <=> OfLink(r)
    BY <1>4, <2>7 DEF OfLink
  <2>10. ProcOk(q, fd[p])
    BY <1>4, <1>5, <1>12, <2>7, <2>9, OneSeq DEF ProcOk
  <2>11. Relies(t, q, p)
    <3>1. StaysValid(fs, t)
      BY <1>6, <2>2, <2>4, IgetIs, IgetValid
    <3>2. q.call.op = "link" /\ q.ip # 0 => t.ic[q.ip].valid /\ t.ic[q.ip].d.type # "DIR"
      BY <1>1, <1>4, <2>7, <3>1, LinkIp
    <3> QED
      BY <1>4, <2>7, <3>2 DEF Relies, Keeps
  <2>12. \A i \in Inums : Holds(q, i) = Holds(pr[p], i) + If(next = i)
    BY <1>1, <1>4, <1>5, <2>7, <2>8 DEF Holds, If, Inums
  <2> QED
    BY <1>1, <1>3, <1>5, <1>6, <2>2, <2>3, <2>4, <2>6, <2>10, <2>11, <2>12, GetStep
<1> QED
  BY <1>9, <1>10, <1>11, <1>12

LEMMA IlockMild ==
  ASSUME FsInv, NEW p \in Procs, NEW i \in Inums, NEW s, s = Ilock(fs, i)
  PROVE  FsOk(s) /\ IlockDoes(fs, s, i) /\ Mild(fs, s)
<1>1. FsOk(fs)
  BY Mine
<1>2. FsOk(s) /\ IlockDoes(fs, s, i)
  BY <1>1, IlockIs
<1> QED
  BY <1>2, MildIs

\* A call that has only its iput()s left.
Ends(q) == q.pc = "end" /\ q.call \in Calls /\ q.at = 0 /\ q.ip = 0 /\ q.dp = 0 /\ Len(q.puts) <= 2 /\ q.drop = FALSE

LEMMA EndsOk ==
  ASSUME NEW q \in ProcRecs, Ends(q)
  PROVE  Keeps(q) = 0 /\ \A f, s, p : ProcOk(q, f) /\ Relies(s, q, p)
<1>1. Keeps(q) = 0 /\ ~OfLink(q)
  BY DEF Ends, Keeps, OfLink
<1>2. ASSUME NEW f PROVE ProcOk(q, f)
  BY <1>1 DEF Ends, ProcOk
<1>3. ASSUME NEW s, NEW p PROVE Relies(s, q, p)
  BY <1>1 DEF Ends, Relies
<1> QED
  BY <1>1, <1>2, <1>3

LEMMA FinishStep ==
  ASSUME FsInv, NEW p \in Procs, NEW q \in ProcRecs, Ends(q), NEW s, FsOk(s), Others(fs, s, p), SameRefs(fs, s),
         \A i \in Inums : s.ic[i].lock # p, To(p, s, q), UNCHANGED <<fd, cwd>>,
         \A i \in Inums : Holds(q, i) = Holds(pr[p], i)
  PROVE  FsInv'
<1>1. fs' = s /\ pr' = [pr EXCEPT ![p] = q]
  BY DEF To
<1>2. ProcOk(q, fd[p]) /\ Relies(fs', q, p)
  BY EndsOk
<1>3. FsOk(fs') /\ Others(fs, fs', p)
  BY <1>1
<1>4. /\ \A i \in Inums : fs'.ic[i].lock = p => Keeps(q) = i
      /\ \A i \in Inums : fs'.ic[i].ref = fs.ic[i].ref + (Holds(q, i) - Holds(pr[p], i))
  BY <1>1, RefNat, HoldsNat DEF SameRefs
<1> QED
  BY <1>1, <1>2, <1>3, <1>4, PlainStep

\* The pointer to an inode becomes one to put.
PutIp(r) == [r EXCEPT !.pc = "end", !.ip = 0, !.puts = <<r.ip>>]

LEMMA PutsIp ==
  ASSUME NEW r \in ProcRecs, r.puts = <<>>, r.drop = FALSE, r.call \in Calls, r.at = 0, r.dp = 0, r.ip \in Inums,
         NEW q, q = PutIp(r)
  PROVE  q \in ProcRecs /\ Ends(q) /\ \A i \in Inums : Holds(q, i) = Holds(r, i)
<1>1. q \in ProcRecs
  BY OneSeq, InPCs DEF ProcRecs, PutIp
<1>2. /\ q.pc = "end" /\ q.at = r.at /\ q.puts = <<r.ip>> /\ q.call = r.call /\ q.ip = 0 /\ q.dp = r.dp /\ q.drop = r.drop
  BY DEF ProcRecs, PutIp
<1>3. Put1(q) = r.ip /\ Put2(q) = 0 /\ Put1(r) = 0 /\ Put2(r) = 0
  BY <1>2, PutsOf
<1>4. Ends(q)
  BY <1>2, OneSeq DEF Ends
<1>5. \A i \in Inums : Holds(q, i) = Holds(r, i)
  BY <1>2, <1>3 DEF Holds, If, Inums
<1> QED
  BY <1>1, <1>4, <1>5

LEMMA KeepStep ==
  ASSUME FsInv, NEW p \in Procs, NEW r, r = pr[p], r.puts = <<>>, r.pc \in {"found", "exists", "made"},
         NEW s, FsOk(s), Others(fs, s, p), SameRefs(fs, s), \A i \in Inums : s.ic[i].lock # p,
         NEW opens, opens => fd[p] = 0, Keep(p, s, opens), UNCHANGED cwd
  PROVE  FsInv'
<1>1. r \in ProcRecs /\ r.drop = FALSE /\ ProcOk(r, fd[p])
  BY Mine, ProcFields DEF ProcOk
<1>2. r.at = 0 /\ r.dp = 0 /\ r.ip \in Inums /\ r.call \in Calls
  BY <1>1, ProcFields, NumIs DEF ProcOk
<1>3. fd \in [Procs -> Nums] /\ cwd \in [Procs -> Inums]
  BY DEF FsInv, ProcsOk
<1>4. CASE opens /\ To(p, s, [r EXCEPT !.pc = "end", !.ip = 0]) /\ fd' = [fd EXCEPT ![p] = r.ip]
  <2>1. PICK q : q = [r EXCEPT !.pc = "end", !.ip = 0]
    OBVIOUS
  <2>2. q \in ProcRecs
    BY <1>1, <2>1, InPCs DEF ProcRecs
  <2>3. /\ q.pc = "end" /\ q.at = r.at /\ q.puts = r.puts /\ q.call = r.call /\ q.ip = 0 /\ q.dp = r.dp /\ q.drop = r.drop
    BY <1>1, <2>1 DEF ProcRecs
  <2>4. Put1(q) = 0 /\ Put2(q) = 0 /\ Put1(r) = 0 /\ Put2(r) = 0
    BY <2>3, PutsOf
  <2>5. Ends(q)
    BY <1>1, <1>2, <2>3, EmptySeqs DEF Ends
  <2>6. fs' = s /\ pr' = [pr EXCEPT ![p] = q]
    BY <1>4, <2>1 DEF To
  <2>7. PICK y \in Inums : y = cwd[p]
    BY <1>3
  <2>8. PICK x \in Nums : x = r.ip
    BY <1>2, InPCs
  <2>9. Steps(p, x, y, q)
    BY <1>3, <1>4, <2>6, <2>7, <2>8 DEF Steps
  <2>10. ProcOk(q, x) /\ Relies(fs', q, p) /\ FsOk(fs') /\ Others(fs, fs', p)
    BY <2>2, <2>5, <2>6, EndsOk
  <2>11. ASSUME NEW i \in Inums PROVE Tallied(p, x, y, q, i) = 0
    BY <1>2, <1>4, <2>3, <2>4, <2>7, <2>8 DEF Tallied, Tally, If, Inums
  <2>12. \A i \in Inums : fs'.ic[i].ref = fs.ic[i].ref + Tallied(p, x, y, q, i)
    BY <2>6, <2>11, RefNat DEF SameRefs
  <2>13. \A i \in Inums : fs'.ic[i].lock = p => Keeps(q) = i
    BY <2>6
  <2> QED
    BY <2>2, <2>9, <2>10, <2>12, <2>13, StepOk
<1>5. CASE To(p, s, [r EXCEPT !.pc = "end", !.ip = 0, !.puts = <<r.ip>>]) /\ UNCHANGED fd
  <2>1. PICK q : q = PutIp(r)
    OBVIOUS
  <2>2. q \in ProcRecs /\ Ends(q) /\ \A i \in Inums : Holds(q, i) = Holds(r, i)
    BY <1>1, <1>2, <2>1, PutsIp
  <2>3. To(p, s, q)
    BY <1>5, <2>1 DEF PutIp
  <2> QED
    BY <1>5, <2>2, <2>3, FinishStep
<1> QED
  BY <1>4, <1>5 DEF Keep

LEMMA OpenFoundStep ==
  ASSUME FsInv, NEW p \in Procs, OpenFound(p)
  PROVE  FsInv'
<1>1. PICK r : r = pr[p]
  OBVIOUS
<1>2. PICK s : s = Ilock(fs, r.ip)
  OBVIOUS
<1>3. At(p, "found") /\ r.call.op = "open" /\ UNCHANGED cwd
  BY <1>1 DEF OpenFound
<1>4. r \in ProcRecs /\ r.pc = "found" /\ r.puts = <<>> /\ ProcOk(r, fd[p])
  BY <1>1, <1>3, AtIs
<1>5. r.ip \in Inums /\ fd[p] = 0 /\ Keeps(r) = 0
  BY <1>3, <1>4, ProcFields, NumIs DEF ProcOk, Keeps
<1>6. FsOk(s) /\ Mild(fs, s)
  BY <1>2, <1>5, IlockMild
<1>7. Others(fs, s, p) /\ SameRefs(fs, s) /\ \A i \in Inums : s.ic[i].lock # p
  BY <1>1, <1>5, <1>6, MildIs, NoLock DEF Mild, SameLocks
<1>8. PICK opens \in BOOLEAN : Keep(p, s, opens)
  BY <1>1, <1>2 DEF OpenFound
<1> QED
  BY <1>1, <1>3, <1>4, <1>5, <1>6, <1>7, <1>8, KeepStep

LEMMA ExistsStep ==
  ASSUME FsInv, NEW p \in Procs, Exists(p)
  PROVE  FsInv'
<1>1. PICK r : r = pr[p]
  OBVIOUS
<1>2. PICK s : s = Ilock(fs, r.ip)
  OBVIOUS
<1>3. PICK opens \in BOOLEAN : At(p, "exists") /\ UNCHANGED cwd /\ Keep(p, s, opens) /\ (opens => r.call.op = "create")
  BY <1>1, <1>2 DEF Exists
<1>4. r \in ProcRecs /\ r.pc = "exists" /\ r.puts = <<>> /\ ProcOk(r, fd[p])
  BY <1>1, <1>3, AtIs
<1>5. r.ip \in Inums /\ (opens => fd[p] = 0) /\ Keeps(r) = 0
  BY <1>3, <1>4, ProcFields, NumIs DEF ProcOk, Keeps
<1>6. FsOk(s) /\ Mild(fs, s)
  BY <1>2, <1>5, IlockMild
<1>7. Others(fs, s, p) /\ SameRefs(fs, s) /\ \A i \in Inums : s.ic[i].lock # p
  BY <1>1, <1>5, <1>6, MildIs, NoLock DEF Mild, SameLocks
<1> QED
  BY <1>1, <1>3, <1>4, <1>5, <1>6, <1>7, KeepStep

\* The release of the lock that the process keeps.
LEMMA IunlockOthers ==
  ASSUME FsInv, NEW p \in Procs, Keeps(pr[p]) # 0, NEW s, s = Iunlock(fs, Keeps(pr[p]))
  PROVE  /\ FsOk(s) /\ IunlockDoes(fs, s, Keeps(pr[p])) /\ Others(fs, s, p) /\ SameRefs(fs, s)
         /\ \A i \in Inums : s.ic[i].lock # p
<1>1. PICK k \in Inums : k = Keeps(pr[p])
  BY Mine, KeepsIs, NumIs
<1>2. FsOk(fs) /\ Relies(fs, pr[p], p)
  BY Mine
<1>3. FsOk(s) /\ IunlockDoes(fs, s, k)
  BY <1>1, <1>2, IunlockIs
<1>4. fs.ic[k].lock = p
  BY <1>1, <1>2 DEF Relies
<1>5. \A i \in Inums : i # k => s.ic[i] = fs.ic[i] /\ fs.ic[i].lock # p
  BY <1>1, <1>3, OwnLock DEF IunlockDoes
<1>6. \A i \in Inums : s.ic[i].lock # p
  BY <1>3, <1>5, FsAssumption DEF IunlockDoes
<1>7. Others(fs, s, p)
  <2>1. StaysValid(fs, s) /\ s.ents = fs.ents
    BY <1>3 DEF IunlockDoes, SameDisk
  <2>2. \A i \in Inums : s.ic[i].lock = fs.ic[i].lock \/ (fs.ic[i].lock \in {NULL, p} /\ s.ic[i].lock \in {NULL, p})
    BY <1>3, <1>4, <1>5 DEF IunlockDoes
  <2> QED
    BY <2>1, <2>2, OthersOf
<1> QED
  BY <1>1, <1>3, <1>6, <1>7 DEF IunlockDoes

LEMMA MadeStep ==
  ASSUME FsInv, NEW p \in Procs, Made(p)
  PROVE  FsInv'
<1>1. PICK r : r = pr[p]
  OBVIOUS
<1>2. PICK s : s = Iunlock(fs, r.ip)
  OBVIOUS
<1>3. PICK opens \in BOOLEAN : At(p, "made") /\ UNCHANGED cwd /\ Keep(p, s, opens) /\ (opens => r.call.op = "create")
  BY <1>1, <1>2 DEF Made
<1>4. r \in ProcRecs /\ r.pc = "made" /\ r.puts = <<>> /\ ProcOk(r, fd[p])
  BY <1>1, <1>3, AtIs
<1>5. r.ip # 0 /\ (opens => fd[p] = 0) /\ Keeps(r) = r.ip
  BY <1>3, <1>4 DEF ProcOk, Keeps
<1>6. FsOk(s) /\ Others(fs, s, p) /\ SameRefs(fs, s) /\ \A i \in Inums : s.ic[i].lock # p
  BY <1>1, <1>2, <1>5, IunlockOthers
<1> QED
  BY <1>1, <1>3, <1>4, <1>5, <1>6, KeepStep

LEMMA MildTrans ==
  ASSUME NEW s, NEW t, NEW u, Mild(s, t), Mild(t, u)
  PROVE  Mild(s, u)
BY DEF Mild, SameLocks, SameRefs, StaysValid

\* One link more or less.
LEMMA LinkMild ==
  ASSUME NEW s, FsOk(s), NEW i \in Inums, s.ic[i].valid, NEW t, t = AddLink(s, i) \/ t = DropLink(s, i)
  PROVE  FsOk(t) /\ RelinkDoes(s, t, i) /\ Mild(s, t)
<1>1. PICK n \in Int : t = Relink(s, i, n)
  BY NlinkInt
<1>2. FsOk(t) /\ RelinkDoes(s, t, i)
  BY <1>1, RelinkIs
<1> QED
  BY <1>2 DEF RelinkDoes, Mild

LEMMA ChdirStep ==
  ASSUME FsInv, NEW p \in Procs, Chdir(p)
  PROVE  FsInv'
<1>1. PICK r : r = pr[p]
  OBVIOUS
<1>2. PICK s : s = Ilock(fs, r.ip)
  OBVIOUS
<1>3. At(p, "found") /\ r.call.op = "chdir" /\ UNCHANGED fd
  BY <1>1 DEF Chdir
<1>4. /\ r \in ProcRecs /\ r.pc = "found" /\ r.puts = <<>> /\ ProcOk(r, fd[p]) /\ r.drop = FALSE /\ Put1(r) = 0 /\ Put2(r) = 0
  BY <1>1, <1>3, AtIs
<1>5. r.ip \in Inums /\ Keeps(r) = 0 /\ r.at = 0 /\ r.dp = 0 /\ r.call \in Calls
  BY <1>3, <1>4, ProcFields, NumIs DEF ProcOk, Keeps
<1>6. FsOk(s) /\ Mild(fs, s)
  BY <1>2, <1>5, IlockMild
<1>7. Others(fs, s, p) /\ SameRefs(fs, s) /\ \A i \in Inums : s.ic[i].lock # p
  BY <1>1, <1>5, <1>6, MildIs, NoLock DEF Mild, SameLocks
<1>8. CASE s.ic[r.ip].d.type # "DIR"
  <2>1. PICK q : q = PutIp(r)
    OBVIOUS
  <2>2. q \in ProcRecs /\ Ends(q) /\ \A i \in Inums : Holds(q, i) = Holds(r, i)
    BY <1>4, <1>5, <2>1, PutsIp
  <2>3. To(p, s, q) /\ UNCHANGED cwd
    BY <1>1, <1>2, <1>8, <2>1 DEF PutIp, Chdir
  <2> QED
    BY <1>1, <1>3, <1>6, <1>7, <2>2, <2>3, FinishStep
<1>9. CASE s.ic[r.ip].d.type = "DIR"
  <2>1. fd \in [Procs -> Nums] /\ cwd \in [Procs -> Inums]
    BY DEF FsInv, ProcsOk
  <2>2. PICK c \in Inums : c = cwd[p]
    BY <2>1
  <2>3. PICK q : q = [r EXCEPT !.pc = "end", !.ip = 0, !.puts = <<c>>]
    OBVIOUS
  <2>4. q \in ProcRecs
    BY <1>4, <2>3, OneSeq, InPCs DEF ProcRecs
  <2>5. /\ q.pc = "end" /\ q.at = r.at /\ q.puts = <<c>> /\ q.call = r.call /\ q.ip = 0 /\ q.dp = r.dp /\ q.drop = r.drop
    BY <1>4, <2>3 DEF ProcRecs
  <2>6. Put1(q) = c /\ Put2(q) = 0
    BY <2>5, PutsOf
  <2>7. Ends(q)
    BY <1>4, <1>5, <2>5, OneSeq DEF Ends
  <2>8. fs' = s /\ pr' = [pr EXCEPT ![p] = q] /\ cwd' = [cwd EXCEPT ![p] = r.ip]
    BY <1>1, <1>2, <1>9, <2>2, <2>3 DEF Chdir, To
  <2>9. PICK x \in Nums : x = fd[p]
    BY <2>1
  <2>10. PICK y \in Inums : y = r.ip
    BY <1>5
  <2>11. Steps(p, x, y, q)
    BY <1>3, <2>1, <2>8, <2>9, <2>10 DEF Steps
  <2>12. ProcOk(q, x) /\ Relies(fs', q, p) /\ FsOk(fs') /\ Others(fs, fs', p)
    BY <1>6, <1>7, <2>4, <2>7, <2>8, EndsOk
  <2>13. ASSUME NEW i \in Inums PROVE Tallied(p, x, y, q, i) = 0
    BY <1>1, <1>4, <1>5, <2>2, <2>5, <2>6, <2>9, <2>10 DEF Tallied, Tally, If, Inums
  <2>14. \A i \in Inums : fs'.ic[i].ref = fs.ic[i].ref + Tallied(p, x, y, q, i)
    BY <1>7, <2>8, <2>13, RefNat DEF SameRefs
  <2>15. \A i \in Inums : fs'.ic[i].lock = p => Keeps(q) = i
    BY <1>7, <2>8
  <2> QED
    BY <2>4, <2>11, <2>12, <2>14, <2>15, StepOk
<1> QED
  BY <1>8, <1>9

LEMMA LinkOldStep ==
  ASSUME FsInv, NEW p \in Procs, LinkOld(p)
  PROVE  FsInv'
<1>1. PICK r : r = pr[p]
  OBVIOUS
<1>2. PICK s : s = Ilock(fs, r.ip)
  OBVIOUS
<1>3. At(p, "found") /\ r.call.op = "link" /\ UNCHANGED <<fd, cwd>>
  BY <1>1 DEF LinkOld
<1>4. /\ r \in ProcRecs /\ r.pc = "found" /\ r.puts = <<>> /\ ProcOk(r, fd[p]) /\ r.drop = FALSE /\ Put1(r) = 0 /\ Put2(r) = 0
  BY <1>1, <1>3, AtIs
<1>5. r.ip \in Inums /\ Keeps(r) = 0 /\ r.at = 0 /\ r.dp = 0 /\ r.call \in Calls
  BY <1>3, <1>4, ProcFields, NumIs DEF ProcOk, Keeps
<1>6. FsOk(s) /\ Mild(fs, s) /\ IlockDoes(fs, s, r.ip)
  BY <1>2, <1>5, IlockMild
<1>7. Others(fs, s, p) /\ SameRefs(fs, s) /\ \A i \in Inums : s.ic[i].lock # p
  BY <1>1, <1>5, <1>6, MildIs, NoLock DEF Mild, SameLocks
<1>8. CASE s.ic[r.ip].d.type = "DIR"
  <2>1. PICK q : q = PutIp(r)
    OBVIOUS
  <2>2. q \in ProcRecs /\ Ends(q) /\ \A i \in Inums : Holds(q, i) = Holds(r, i)
    BY <1>4, <1>5, <2>1, PutsIp
  <2>3. To(p, s, q)
    BY <1>1, <1>2, <1>8, <2>1 DEF PutIp, LinkOld
  <2> QED
    BY <1>1, <1>3, <1>6, <1>7, <2>2, <2>3, FinishStep
<1>9. CASE s.ic[r.ip].d.type # "DIR"
  <2>1. PICK q : q = [r EXCEPT !.pc = "linked"]
    OBVIOUS
  <2>2. PICK t : t = AddLink(s, r.ip)
    OBVIOUS
  <2>3. To(p, t, q)
    BY <1>1, <1>2, <1>9, <2>1, <2>2 DEF LinkOld
  <2>4. s.ic[r.ip].valid
    BY <1>6 DEF IlockDoes
  <2>5. FsOk(t) /\ Mild(s, t)
    BY <1>5, <1>6, <2>2, <2>4, LinkMild
  <2>6. Mild(fs, t)
    BY <1>6, <2>5, MildTrans
  <2>7. t.ic[r.ip].valid /\ t.ic[r.ip].d.type # "DIR"
    BY <1>5, <1>9, <2>4, <2>5 DEF Mild, StaysValid
  <2>8. q \in ProcRecs
    BY <1>4, <2>1, InPCs DEF ProcRecs
  <2>9. /\ q.pc = "linked" /\ q.at = r.at /\ q.puts = r.puts /\ q.call = r.call /\ q.ip = r.ip /\ q.dp = r.dp /\ q.drop = r.drop
    BY <1>4, <2>1 DEF ProcRecs
  <2>10. Put1(q) = 0 /\ Put2(q) = 0
    BY <1>4, <2>9, PutsOf
  <2>11. ProcOk(q, fd[p])
    BY <1>3, <1>4, <1>5, <2>9, InPCs DEF ProcOk
  <2>12. Relies(t, q, p)
    BY <2>7, <2>9 DEF Relies, Keeps
  <2>13. \A i \in Inums : Holds(q, i) = Holds(pr[p], i)
    BY <1>1, <1>4, <2>9, <2>10 DEF Holds
  <2> QED
    BY <1>1, <1>3, <1>5, <2>3, <2>5, <2>6, <2>8, <2>11, <2>12, <2>13, MildStep
<1> QED
  BY <1>8, <1>9

LEMMA LinkBadStep ==
  ASSUME FsInv, NEW p \in Procs, LinkBad(p)
  PROVE  FsInv'
<1>1. PICK r : r = pr[p]
  OBVIOUS
<1>2. PICK s : s = Ilock(fs, r.ip)
  OBVIOUS
<1>3. At(p, "bad") /\ UNCHANGED <<fd, cwd>>
  BY <1>1 DEF LinkBad
<1>4. /\ r \in ProcRecs /\ r.pc = "bad" /\ r.puts = <<>> /\ ProcOk(r, fd[p]) /\ r.drop = FALSE
  BY <1>1, <1>3, AtIs
<1>5. r.ip \in Inums /\ Keeps(r) = 0 /\ r.at = 0 /\ r.dp = 0 /\ r.call \in Calls
  BY <1>3, <1>4, ProcFields, NumIs DEF ProcOk, Keeps
<1>6. FsOk(s) /\ Mild(fs, s) /\ IlockDoes(fs, s, r.ip)
  BY <1>2, <1>5, IlockMild
<1>7. PICK t : t = DropLink(s, r.ip)
  OBVIOUS
<1>8. s.ic[r.ip].valid
  BY <1>6 DEF IlockDoes
<1>9. FsOk(t) /\ Mild(s, t)
  BY <1>5, <1>6, <1>7, <1>8, LinkMild
<1>10. Mild(fs, t)
  BY <1>6, <1>9, MildTrans
<1>11. Others(fs, t, p) /\ SameRefs(fs, t) /\ \A i \in Inums : t.ic[i].lock # p
  BY <1>1, <1>5, <1>10, MildIs, NoLock DEF Mild, SameLocks
<1>12. PICK q : q = PutIp(r)
  OBVIOUS
<1>13. q \in ProcRecs /\ Ends(q) /\ \A i \in Inums : Holds(q, i) = Holds(r, i)
  BY <1>4, <1>5, <1>12, PutsIp
<1>14. To(p, t, q)
  BY <1>1, <1>2, <1>7, <1>12 DEF PutIp, LinkBad
<1> QED
  BY <1>1, <1>3, <1>9, <1>11, <1>13, <1>14, FinishStep

LEMMA UnlinkEndStep ==
  ASSUME FsInv, NEW p \in Procs, UnlinkEnd(p)
  PROVE  FsInv'
<1>1. PICK r : r = pr[p]
  OBVIOUS
<1>2. At(p, "unlinked") /\ UNCHANGED <<fd, cwd>>
  BY <1>1 DEF UnlinkEnd
<1>3. /\ r \in ProcRecs /\ r.pc = "unlinked" /\ r.puts = <<>> /\ ProcOk(r, fd[p]) /\ r.drop = FALSE /\ Relies(fs, r, p)
  BY <1>1, <1>2, AtIs
<1>4. r.ip \in Inums /\ Keeps(r) = r.ip /\ r.at = 0 /\ r.dp = 0 /\ r.call \in Calls /\ fs.ic[r.ip].lock = p
  BY <1>3, ProcFields, NumIs DEF ProcOk, Keeps, Relies
<1>5. FsOk(fs) /\ fs.ic[r.ip].valid
  BY <1>4, Mine, FsAssumption DEF FsOk, Cached
<1>6. PICK s : s = DropLink(fs, r.ip)
  OBVIOUS
<1>7. FsOk(s) /\ Mild(fs, s)
  BY <1>4, <1>5, <1>6, LinkMild
<1>8. PICK t : t = Iunlock(s, r.ip)
  OBVIOUS
<1>9. FsOk(t) /\ IunlockDoes(s, t, r.ip)
  BY <1>4, <1>7, <1>8, IunlockIs
<1>10. \A i \in Inums : i # r.ip => fs.ic[i].lock # p /\ t.ic[i].lock = fs.ic[i].lock
  BY <1>1, <1>4, <1>7, <1>9, OwnLock DEF IunlockDoes, Mild, SameLocks
<1>11. t.ic[r.ip].lock = NULL /\ t.ents = fs.ents /\ StaysValid(fs, t) /\ SameRefs(fs, t)
  BY <1>7, <1>9 DEF IunlockDoes, Mild, StaysValid, SameRefs, SameDisk
<1>12. \A i \in Inums : t.ic[i].lock # p
  BY <1>10, <1>11, FsAssumption
<1>13. Others(fs, t, p)
  <2>1. \A i \in Inums : t.ic[i].lock = fs.ic[i].lock \/ (fs.ic[i].lock \in {NULL, p} /\ t.ic[i].lock \in {NULL, p})
    BY <1>4, <1>10, <1>11
  <2> QED
    BY <1>11, <2>1, OthersOf
<1>14. PICK q : q = PutIp(r)
  OBVIOUS
<1>15. q \in ProcRecs /\ Ends(q) /\ \A i \in Inums : Holds(q, i) = Holds(r, i)
  BY <1>3, <1>4, <1>14, PutsIp
<1>16. To(p, t, q)
  BY <1>1, <1>6, <1>8, <1>14 DEF PutIp, UnlinkEnd
<1> QED
  BY <1>1, <1>2, <1>9, <1>11, <1>12, <1>13, <1>15, <1>16, FinishStep

LEMMA UnlockDpStep ==
  ASSUME FsInv, NEW p \in Procs, UnlockDp(p)
  PROVE  FsInv'
<1>1. PICK r : r = pr[p]
  OBVIOUS
<1>2. At(p, "unlock") /\ UNCHANGED <<fd, cwd>>
  BY <1>1 DEF UnlockDp
<1>3. /\ r \in ProcRecs /\ r.pc = "unlock" /\ r.puts = <<>> /\ ProcOk(r, fd[p]) /\ r.drop = FALSE
      /\ Put1(r) = 0 /\ Put2(r) = 0
  BY <1>1, <1>2, AtIs
<1>4. r.dp \in Inums /\ Keeps(r) = r.dp /\ r.dp # 0 /\ r.at = 0 /\ r.call \in Calls /\ (r.ip # 0 <=> r.call.op = "link")
  BY <1>3, ProcFields, NumIs DEF ProcOk, Keeps, OfLink
<1>5. PICK s : s = Iunlock(fs, r.dp)
  OBVIOUS
<1>6. /\ FsOk(s) /\ IunlockDoes(fs, s, r.dp) /\ Others(fs, s, p) /\ SameRefs(fs, s)
      /\ \A i \in Inums : s.ic[i].lock # p
  BY <1>1, <1>4, <1>5, IunlockOthers
<1>7. PICK to \in {"bad", "end"} : to = IF r.call.op = "link" THEN "bad" ELSE "end"
  OBVIOUS
<1>8. PICK q : q = [r EXCEPT !.pc = to, !.dp = 0, !.puts = <<r.dp>>]
  OBVIOUS
<1>9. fs' = s /\ pr' = [pr EXCEPT ![p] = q]
  BY <1>1, <1>5, <1>7, <1>8 DEF UnlockDp, To
<1>10. q \in ProcRecs
  BY <1>3, <1>4, <1>7, <1>8, OneSeq, InPCs DEF ProcRecs
<1>11. /\ q.pc = to /\ q.at = r.at /\ q.puts = <<r.dp>> /\ q.call = r.call /\ q.ip = r.ip /\ q.dp = 0 /\ q.drop = r.drop
  BY <1>3, <1>8 DEF ProcRecs
<1>12. Put1(q) = r.dp /\ Put2(q) = 0
  BY <1>11, PutsOf
<1>13. ProcOk(q, fd[p])
  BY <1>3, <1>4, <1>7, <1>11, OneSeq DEF ProcOk, OfLink
<1>14. Relies(s, q, p)
  <2>1. q.call.op = "link" /\ q.ip # 0 => s.ic[q.ip].valid /\ s.ic[q.ip].d.type # "DIR"
    BY <1>1, <1>3, <1>6, <1>11, LinkIp DEF IunlockDoes
  <2> QED
    BY <1>7, <1>11, <2>1 DEF Relies, Keeps
<1>15. \A i \in Inums : Holds(q, i) = Holds(pr[p], i)
  BY <1>1, <1>3, <1>4, <1>11, <1>12 DEF Holds, If, Inums
<1>16. /\ \A i \in Inums : fs'.ic[i].lock = p => Keeps(q) = i
       /\ \A i \in Inums : fs'.ic[i].ref = fs.ic[i].ref + (Holds(q, i) - Holds(pr[p], i))
  BY <1>6, <1>9, <1>15, RefNat, HoldsNat DEF SameRefs
<1>17. FsOk(fs') /\ Relies(fs', q, p) /\ Others(fs, fs', p)
  BY <1>6, <1>9, <1>14
<1> QED
  BY <1>2, <1>9, <1>10, <1>13, <1>16, <1>17, PlainStep

LEMMA SeqWider ==
  ASSUME NEW A, NEW B, A \subseteq B, NEW e \in Seq(A)
  PROVE  e \in Seq(B)
<1>1. PICK n \in Nat : n = Len(e) /\ DOMAIN e = 1 .. n
  OBVIOUS
<1>2. \A k \in 1 .. n : e[k] \in A
  BY <1>1
<1> QED
  BY <1>1, <1>2

LEMMA NamesOf ==
  ASSUME NEW e \in Seq(STRING)
  PROVE  e \in Seq(Names)
<1>1. STRING \subseteq Names
  BY Zenon DEF Names
<1> QED
  BY <1>1, SeqWider

LEMMA LinkNewStep ==
  ASSUME FsInv, NEW p \in Procs, LinkNew(p)
  PROVE  FsInv'
<1>1. PICK r : r = pr[p]
  OBVIOUS
<1>2. At(p, "linked") /\ UNCHANGED <<fd, cwd>> /\ Namex(p, r, r.call.new, TRUE)
  BY <1>1 DEF LinkNew
<1>3. /\ r \in ProcRecs /\ r.pc = "linked" /\ r.puts = <<>> /\ ProcOk(r, fd[p]) /\ r.drop = FALSE
      /\ Put1(r) = 0 /\ Put2(r) = 0
  BY <1>1, <1>2, AtIs
<1>4. r.dp = 0 /\ Keeps(r) = 0 /\ r.at = 0 /\ r.call \in Calls /\ r.ip # 0 /\ r.call.op = "link"
  BY <1>3 DEF ProcOk, Keeps
<1>5. PICK e \in Seq(Names) : e = r.call.new.elems
  <2>1. r.call.new.elems \in Seq(STRING)
    BY <1>4, FsAssumption
  <2> QED
    BY <2>1, NamesOf
<1>6. PICK n \in Inums : n = IF r.call.new.root THEN Root ELSE cwd[p]
  BY Mine, MkfsAssumption DEF Root, Inums
<1>7. PICK q : q = [r EXCEPT !.pc = "walk", !.at = n, !.elems = e, !.parent = TRUE]
  OBVIOUS
<1>8. PICK t : t = Iget(fs, n)
  OBVIOUS
<1>9. To(p, t, q)
  BY <1>2, <1>5, <1>6, <1>7, <1>8 DEF Namex
<1>10. q \in ProcRecs
  BY <1>3, <1>7, InPCs DEF ProcRecs
<1>11. /\ q.pc = "walk" /\ q.at = n /\ q.puts = r.puts /\ q.call = r.call /\ q.ip = r.ip /\ q.dp = r.dp /\ q.drop = r.drop
       /\ q.parent = TRUE
  BY <1>3, <1>7 DEF ProcRecs
<1>12. Put1(q) = 0 /\ Put2(q) = 0
  BY <1>3, <1>11, PutsOf
<1>13. ProcOk(q, fd[p])
  BY <1>3, <1>4, <1>11, InPCs DEF ProcOk, OfLink
<1>14. FsOk(fs) /\ Mild(fs, fs)
  BY Mine, MildIs
<1>15. Relies(t, q, p)
  <2>1. StaysValid(fs, t)
    BY <1>8, <1>14, IgetIs, IgetValid
  <2>2. t.ic[q.ip].valid /\ t.ic[q.ip].d.type # "DIR"
    BY <1>1, <1>3, <1>4, <1>11, <2>1, LinkIp
  <2> QED
    BY <1>11, <2>2 DEF Relies, Keeps
<1>16. \A i \in Inums : Holds(q, i) = Holds(pr[p], i) + If(n = i)
  BY <1>1, <1>3, <1>4, <1>11, <1>12 DEF Holds, If, Inums
<1> QED
  BY <1>1, <1>2, <1>4, <1>8, <1>9, <1>10, <1>13, <1>14, <1>15, <1>16, GetStep

LEMMA WriteStep ==
  ASSUME FsInv, fs.panic = "no", NEW p \in Procs, Write(p)
  PROVE  FsInv'
<1>1. PICK r : r = pr[p]
  OBVIOUS
<1>2. At(p, "write") /\ UNCHANGED <<fd, cwd>>
  BY <1>1 DEF Write
<1>3. /\ r \in ProcRecs /\ r.pc = "write" /\ ProcOk(r, fd[p]) /\ Put1(r) = 0 /\ Put2(r) = 0
  BY <1>1, <1>2, AtIs
<1>4. fd[p] \in Inums /\ r.at = 0 /\ r.ip = 0 /\ r.dp = 0 /\ Keeps(r) = 0
  BY <1>3, Mine, NumIs DEF ProcOk, OfLink, Keeps
<1>5. PICK n \in Inums : n = fd[p]
  BY <1>4
<1>6. PICK s : s = Ilock(fs, n)
  OBVIOUS
<1>7. FsOk(s) /\ Mild(fs, s) /\ IlockDoes(fs, s, n)
  BY <1>6, IlockMild
<1>8. PICK off \in 0 .. s.ic[n].d.size :
        To(p, IF s.ic[n].d.type = "FILE" /\ Fits(s, n, off) THEN Writei(s, n, off) ELSE s, Idle)
  BY <1>5, <1>6 DEF Write
<1>9. \A i \in Inums : Holds(Idle, i) = Holds(pr[p], i)
  BY <1>1, <1>3, <1>4, IdleIs DEF Holds
<1>10. CASE s.ic[n].d.type = "FILE" /\ Fits(s, n, off)
  <2>1. PICK t : t = Writei(s, n, off)
    OBVIOUS
  <2>2. s.ic[n].valid /\ s.ic[n].d = s.dinode[n] /\ s.dinode[n] = fs.dinode[n]
    BY <1>7 DEF IlockDoes, SameDisk
  <2>3. Covered(s.dinode[n])
    BY <2>2, Mine DEF FsOk, Cached
  <2>4. off \in Nat
    BY <1>7, <1>8, TypedIc DEF FsOk, Dinodes
  <2>5. Written(s, t, n)
    BY <1>7, <1>10, <2>1, <2>2, <2>3, <2>4, WriteiIs
  <2>6. s.dinode[n].type # "FREE"
    BY <1>10, <2>2
  <2>7. FsOk(t) /\ SameLocks(s, t) /\ SameRefs(s, t) /\ StaysValid(s, t)
    BY <1>7, <2>2, <2>5, <2>6, WrittenOk
  <2>8. Mild(s, t)
    BY <2>5, <2>7 DEF Mild, Written
  <2>9. Mild(fs, t)
    BY <1>7, <2>8, MildTrans
  <2>10. To(p, t, Idle)
    BY <1>8, <1>10, <2>1
  <2> QED
    BY <1>1, <1>2, <1>4, <1>9, <2>7, <2>9, <2>10, IdleIs, MildStep
<1>11. CASE ~(s.ic[n].d.type = "FILE" /\ Fits(s, n, off))
  <2>1. To(p, s, Idle)
    BY <1>8, <1>11
  <2> QED
    BY <1>1, <1>2, <1>4, <1>7, <1>9, <2>1, IdleIs, MildStep
<1> QED
  BY <1>10, <1>11

\* A step that leaves a call where it is.
SameCall(r, q) ==
  q.pc = r.pc /\ q.call = r.call /\ q.elems = r.elems /\ q.parent = r.parent /\ q.at = r.at /\ q.ip = r.ip /\ q.dp = r.dp

LEMMA ReliesStay ==
  ASSUME FsInv, NEW p \in Procs, NEW r, r = pr[p], NEW q, SameCall(r, q), NEW t, SameLocks(fs, t),
         \A j \in Inums : (j = r.ip \/ j = r.dp) /\ fs.ic[j].valid => t.ic[j].valid /\ t.ic[j].d.type = fs.ic[j].d.type,
         Keeps(r) # 0 => t.ents[Keeps(r)] = fs.ents[Keeps(r)]
  PROVE  Relies(t, q, p) /\ Keeps(q) = Keeps(r)
<1>1. r \in ProcRecs /\ Relies(fs, r, p) /\ ProcOk(r, fd[p])
  BY Mine
<1>2. /\ (Keeps(r) # 0 => Keeps(r) \in Inums) /\ (r.ip # 0 => r.ip \in Inums) /\ (r.dp # 0 => r.dp \in Inums)
  BY <1>1, KeepsIs, ProcFields, NumIs
<1>3. Keeps(q) = Keeps(r)
  BY DEF Keeps, SameCall
<1>4. Keeps(r) # 0 => t.ic[Keeps(r)].lock = p
  BY <1>1, <1>2 DEF Relies, SameLocks
<1>5. r.pc = "parent" => t.ic[r.dp].valid /\ t.ic[r.dp].d.type = "DIR"
  <2>1. r.pc = "parent" => r.dp # 0 /\ fs.ic[r.dp].valid /\ fs.ic[r.dp].d.type = "DIR"
    BY <1>1 DEF Relies, ProcOk
  <2> QED
    BY <1>2, <2>1
<1>6. r.pc # "idle" /\ r.call.op = "link" /\ r.ip # 0 /\ r.pc # "found" => t.ic[r.ip].valid /\ t.ic[r.ip].d.type # "DIR"
  <2>1. r.pc # "idle" /\ r.call.op = "link" /\ r.ip # 0 /\ r.pc # "found" => fs.ic[r.ip].valid /\ fs.ic[r.ip].d.type # "DIR"
    BY <1>1 DEF Relies
  <2> QED
    BY <1>2, <2>1
<1>7. r.pc = "unlink" => r.elems[1] \notin Dots /\ Lookup(t, r.dp, r.elems[1]) = r.ip
  <2> SUFFICES ASSUME r.pc = "unlink" PROVE r.elems[1] \notin Dots /\ Lookup(t, r.dp, r.elems[1]) = r.ip
    OBVIOUS
  <2>1. Keeps(r) = r.dp /\ r.dp # 0
    BY <1>1 DEF Keeps, ProcOk
  <2>2. t.ents[r.dp] = fs.ents[r.dp]
    BY <2>1
  <2>3. Lookup(t, r.dp, r.elems[1]) = Lookup(fs, r.dp, r.elems[1])
    BY <2>2 DEF Lookup, Entry
  <2> QED
    BY <1>1, <2>3 DEF Relies
<1>8. Relies(t, q, p)
  <2>1. Keeps(q) # 0 => t.ic[Keeps(q)].lock = p
    BY <1>3, <1>4
  <2>2. q.pc = "parent" => t.ic[q.dp].valid /\ t.ic[q.dp].d.type = "DIR"
    BY <1>5 DEF SameCall
  <2>3. q.pc # "idle" /\ q.call.op = "link" /\ q.ip # 0 /\ q.pc # "found" => t.ic[q.ip].valid /\ t.ic[q.ip].d.type # "DIR"
    BY <1>6 DEF SameCall
  <2>4. q.pc = "unlink" => q.elems[1] \notin Dots /\ Lookup(t, q.dp, q.elems[1]) = q.ip
    BY <1>7 DEF SameCall
  <2> QED
    BY <2>1, <2>2, <2>3, <2>4 DEF Relies
<1> QED
  BY <1>3, <1>8

LEMMA ProcOkStays ==
  ASSUME NEW r, NEW q, NEW f, ProcOk(r, f), SameCall(r, q), Len(q.puts) <= 2, q.puts = <<>> => ~q.drop
  PROVE  ProcOk(q, f)
<1>1. OfLink(q) <=> OfLink(r)
  BY DEF OfLink, SameCall
<1> QED
  BY <1>1 DEF ProcOk, SameCall

\* The last pointer to an inode is the one to put: no other process has one,
\* and nobody has its lock.
LEMMA SoleRef ==
  ASSUME FsInv, NEW p \in Procs, NEW i \in Inums, PutAt(pr[p], 1, i)
  PROVE  /\ fs.ic[i].ref \in Nat /\ fs.ic[i].ref >= 1
         /\ fs.ic[i].ref = 1 => /\ pr[p].ip # i /\ pr[p].dp # i /\ fs.ic[i].lock = NULL
                                /\ \A q \in Procs : q # p => ~Has(q, i)
<1>1. Has(p, i)
  BY DEF Has
<1>2. fs.ic[i].ref \in Nat /\ fs.ic[i].ref >= Count(fd[p], cwd[p], pr[p], i)
  BY Referenced
<1>3. Count(fd[p], cwd[p], pr[p], i) \in Nat /\ Count(fd[p], cwd[p], pr[p], i) >= 1
  BY <1>1, HasCounts, CountNat
<1>4. ASSUME fs.ic[i].ref = 1 PROVE pr[p].ip # i /\ pr[p].dp # i
  <2>1. pr[p].ip = i \/ pr[p].dp = i => Count(fd[p], cwd[p], pr[p], i) >= 2
    BY DEF Count, If
  <2> QED
    BY <1>2, <1>3, <1>4, <2>1
<1>5. ASSUME fs.ic[i].ref = 1, NEW q \in Procs, q # p PROVE ~Has(q, i)
  BY <1>3, <1>5, Referenced
<1>6. ASSUME fs.ic[i].ref = 1 PROVE fs.ic[i].lock = NULL
  <2> SUFFICES ASSUME fs.ic[i].lock # NULL PROVE FALSE
    OBVIOUS
  <2>1. PICK q \in Procs : q = fs.ic[i].lock
    BY Mine, TypedIc
  <2>2. Keeps(pr[q]) = i
    BY <2>1, OwnLock
  <2>3. i # 0
    BY DEF Inums
  <2>4. pr[q].ip = i \/ pr[q].dp = i
    BY <2>2, <2>3, Mine, KeepsIs
  <2>5. q # p
    BY <1>4, <1>6, <2>4
  <2> QED
    BY <1>5, <1>6, <2>4, <2>5 DEF Has
<1> QED
  BY <1>2, <1>3, <1>4, <1>5, <1>6

LEMMA FirstPut ==
  ASSUME NEW r \in ProcRecs, r.puts # <<>>
  PROVE  /\ Head(r.puts) \in Inums /\ PutAt(r, 1, Head(r.puts)) /\ Tail(r.puts) \in Seq(Inums) /\ Put1(r) = Head(r.puts)
         /\ Len(r.puts) <= 2 => /\ Len(Tail(r.puts)) <= 2
                                /\ \A q : q.puts = Tail(r.puts) => Put1(q) = Put2(r) /\ Put2(q) = 0
<1>1. PICK s \in Seq(Inums) : s = r.puts
  BY ProcFields
<1>2. PICK n \in Nat \ {0} : n = Len(s) /\ DOMAIN s = 1 .. n
  BY <1>1
<1>3. Head(s) = s[1] /\ Head(s) \in Inums /\ Tail(s) \in Seq(Inums) /\ 1 \in DOMAIN s /\ Len(Tail(s)) = n - 1
  BY <1>1, <1>2
<1>4. ASSUME n <= 2, NEW q, q.puts = Tail(s) PROVE Put1(q) = Put2(r) /\ Put2(q) = 0
  <2>1. CASE n = 1
    BY <1>1, <1>2, <1>3, <1>4, <2>1 DEF Put1, Put2
  <2>2. CASE n = 2
    <3>1. Tail(s)[1] = s[2]
      BY <1>2, <2>2
    <3> QED
      BY <1>1, <1>2, <1>3, <1>4, <2>2, <3>1 DEF Put1, Put2
  <2> QED
    BY <1>2, <1>4, <2>1, <2>2
<1> QED
  BY <1>1, <1>2, <1>3, <1>4 DEF PutAt, Put1

LEMMA IputStep ==
  ASSUME FsInv, NEW p \in Procs, Iput(p)
  PROVE  FsInv'
<1>1. PICK r : r = pr[p]
  OBVIOUS
<1>2. PICK i : i = Head(r.puts)
  OBVIOUS
<1>3. r.puts # <<>> /\ ~r.drop /\ fs.ic[i].lock = NULL /\ UNCHANGED <<fd, cwd>>
  BY <1>1, <1>2 DEF Iput, Free
<1>4. r \in ProcRecs /\ ProcOk(r, fd[p]) /\ FsOk(fs)
  BY <1>1, Mine
<1>5. i \in Inums /\ PutAt(r, 1, i)
  BY <1>2, <1>3, <1>4, FirstPut
<1>6. PICK q : q = [r EXCEPT !.drop = TRUE]
  OBVIOUS
<1>7. q \in ProcRecs /\ SameCall(r, q) /\ q.puts = r.puts
  BY <1>4, <1>6 DEF ProcRecs, SameCall
<1>8. PICK t : t = IF LastRef(fs.ic[i]) THEN Ifree(fs, i) ELSE fs
  OBVIOUS
<1>9. fs' = t /\ pr' = [pr EXCEPT ![p] = q]
  BY <1>1, <1>2, <1>6, <1>8 DEF Iput, To
<1>10. ProcOk(q, fd[p])
  <2>1. Len(q.puts) <= 2 /\ q.puts # <<>>
    BY <1>3, <1>4, <1>7 DEF ProcOk
  <2> QED
    BY <1>4, <1>7, <2>1, ProcOkStays
<1>11. /\ FsOk(t) /\ SameLocks(fs, t) /\ SameRefs(fs, t) /\ SameEnts(fs, t, {i})
       /\ \A j \in Inums \ {i} : t.ic[j] = fs.ic[j]
       /\ t.ic[i] = fs.ic[i] \/ (r.ip # i /\ r.dp # i /\ \A g \in Procs : g # p => ~Has(g, i))
       /\ t.ents[i] = fs.ents[i] \/ (r.ip # i /\ r.dp # i)
  <2>1. CASE LastRef(fs.ic[i])
    <3>1. t = Ifree(fs, i) /\ fs.ic[i].valid /\ fs.ic[i].ref = 1
      BY <1>8, <2>1 DEF LastRef
    <3>2. FsOk(t) /\ IfreeDoes(fs, t, i)
      BY <1>3, <1>4, <1>5, <3>1, IfreeIs
    <3>3. r.ip # i /\ r.dp # i /\ \A g \in Procs : g # p => ~Has(g, i)
      BY <1>1, <1>5, <3>1, SoleRef
    <3> QED
      BY <3>2, <3>3 DEF IfreeDoes
  <2>2. CASE ~LastRef(fs.ic[i])
    <3>1. t = fs
      BY <1>8, <2>2
    <3>2. FsOk(t)
      BY <1>4, <3>1, Zenon
    <3>3. SameLocks(fs, t) /\ SameRefs(fs, t) /\ SameEnts(fs, t, {i})
      BY <3>1 DEF SameLocks, SameRefs, SameEnts
    <3> QED
      BY <3>1, <3>2, <3>3, Zenon
  <2> QED
    BY <2>1, <2>2
<1>12. Others(fs, t, p)
  BY <1>3, <1>5, <1>11 DEF Others, SameLocks, SameEnts
<1>13. Relies(t, q, p) /\ Keeps(q) = Keeps(r)
  <2>1. \A j \in Inums : (j = r.ip \/ j = r.dp) => t.ic[j] = fs.ic[j]
    BY <1>11
  <2>2. Keeps(r) # 0 => t.ents[Keeps(r)] = fs.ents[Keeps(r)]
    <3>1. Keeps(r) # 0 => Keeps(r) \in Inums /\ Keeps(r) \in {r.ip, r.dp}
      BY <1>4, KeepsIs, NumIs
    <3> QED
      BY <1>11, <3>1 DEF SameEnts
  <2>3. \A j \in Inums : (j = r.ip \/ j = r.dp) /\ fs.ic[j].valid => t.ic[j].valid /\ t.ic[j].d.type = fs.ic[j].d.type
    BY <2>1
  <2> QED
    BY <1>1, <1>7, <1>11, <2>2, <2>3, ReliesStay
<1>14. \A j \in Inums : Holds(q, j) = Holds(pr[p], j)
  BY <1>1, <1>7 DEF Holds, SameCall, Put1, Put2
<1>15. \A j \in Inums : t.ic[j].lock = p => Keeps(q) = j
  BY <1>1, <1>11, <1>13, OwnLock DEF SameLocks
<1>16. /\ \A j \in Inums : fs'.ic[j].lock = p => Keeps(q) = j
       /\ \A j \in Inums : fs'.ic[j].ref = fs.ic[j].ref + (Holds(q, j) - Holds(pr[p], j))
  BY <1>9, <1>11, <1>14, <1>15, RefNat, HoldsNat DEF SameRefs
<1>17. FsOk(fs') /\ Relies(fs', q, p) /\ Others(fs, fs', p)
  BY <1>9, <1>11, <1>12, <1>13
<1> QED
  BY <1>3, <1>7, <1>9, <1>10, <1>16, <1>17, PlainStep

LEMMA IputDropStep ==
  ASSUME FsInv, NEW p \in Procs, IputDrop(p)
  PROVE  FsInv'
<1>1. PICK r : r = pr[p]
  OBVIOUS
<1>2. PICK i : i = Head(r.puts)
  OBVIOUS
<1>3. r.puts # <<>> /\ UNCHANGED <<fd, cwd>>
  BY <1>1 DEF IputDrop
<1>4. r \in ProcRecs /\ ProcOk(r, fd[p]) /\ FsOk(fs)
  BY <1>1, Mine
<1>5. i \in Inums /\ PutAt(r, 1, i) /\ Put1(r) = i
  BY <1>2, <1>3, <1>4, FirstPut
<1>6. PICK q : q = [r EXCEPT !.puts = Tail(r.puts), !.drop = FALSE]
  OBVIOUS
<1>7. q \in ProcRecs /\ SameCall(r, q) /\ q.puts = Tail(r.puts) /\ q.drop = FALSE
  <2>1. Tail(r.puts) \in Seq(Inums)
    BY <1>3, <1>4, FirstPut
  <2> QED
    BY <1>4, <1>6, <2>1 DEF ProcRecs, SameCall
<1>8. Len(r.puts) <= 2
  BY <1>4 DEF ProcOk
<1>9. Len(q.puts) <= 2 /\ Put1(q) = Put2(r) /\ Put2(q) = 0
  BY <1>3, <1>4, <1>7, <1>8, FirstPut
<1>10. PICK t : t = DropRef(fs, i)
  OBVIOUS
<1>11. fs' = t /\ pr' = [pr EXCEPT ![p] = q]
  BY <1>1, <1>2, <1>6, <1>10 DEF IputDrop, To, DropRef
<1>12. ProcOk(q, fd[p])
  BY <1>4, <1>7, <1>9, ProcOkStays
<1>13. /\ fs.ic[i].ref \in Nat /\ fs.ic[i].ref >= 1
       /\ fs.ic[i].ref = 1 => r.ip # i /\ r.dp # i /\ fs.ic[i].lock = NULL /\ \A g \in Procs : g # p => ~Has(g, i)
  BY <1>1, <1>5, SoleRef
<1>14. FsOk(t) /\ DropDoes(fs, t, i)
  BY <1>4, <1>5, <1>10, <1>13, DropIs
<1>15. Others(fs, t, p)
  BY <1>5, <1>13, <1>14 DEF Others, DropDoes, SameLocks, SameDisk
<1>16. Relies(t, q, p) /\ Keeps(q) = Keeps(r)
  <2>1. \A j \in Inums : (j = r.ip \/ j = r.dp) /\ fs.ic[j].valid => t.ic[j].valid /\ t.ic[j].d.type = fs.ic[j].d.type
    BY <1>13, <1>14 DEF DropDoes
  <2>2. t.ents = fs.ents /\ SameLocks(fs, t)
    BY <1>14 DEF DropDoes, SameDisk
  <2> QED
    BY <1>1, <1>7, <2>1, <2>2, ReliesStay
<1>17. \A j \in Inums : Holds(q, j) = Holds(pr[p], j) - If(i = j)
  BY <1>1, <1>5, <1>7, <1>9 DEF Holds, SameCall, If, Inums
<1>18. \A j \in Inums : t.ic[j].ref = fs.ic[j].ref - If(i = j)
  BY <1>13, <1>14, RefNat DEF DropDoes, If
<1>19. \A j \in Inums : t.ic[j].lock = p => Keeps(q) = j
  BY <1>1, <1>14, <1>16, OwnLock DEF DropDoes, SameLocks
<1>20. \A j \in Inums : t.ic[j].ref = fs.ic[j].ref + (Holds(q, j) - Holds(pr[p], j))
  <2>1. ASSUME NEW j \in Inums PROVE If(i = j) \in Nat
    BY DEF If
  <2> QED
    BY <1>17, <1>18, <2>1, RefNat, HoldsNat
<1>21. /\ \A j \in Inums : fs'.ic[j].lock = p => Keeps(q) = j
       /\ \A j \in Inums : fs'.ic[j].ref = fs.ic[j].ref + (Holds(q, j) - Holds(pr[p], j))
  BY <1>11, <1>19, <1>20
<1>22. FsOk(fs') /\ Relies(fs', q, p) /\ Others(fs, fs', p)
  BY <1>11, <1>14, <1>15, <1>16
<1> QED
  BY <1>3, <1>7, <1>11, <1>12, <1>21, <1>22, PlainStep

LEMMA BeginStep ==
  ASSUME FsInv, NEW p \in Procs, NEW c \in Calls, Begin(p, c)
  PROVE  FsInv'
<1>1. PICK r : r = [Idle EXCEPT !.call = c]
  OBVIOUS
<1>2. /\ r \in ProcRecs /\ r.pc = "idle" /\ r.call = c /\ r.at = 0 /\ r.ip = 0 /\ r.dp = 0 /\ r.puts = <<>> /\ r.drop = FALSE
  <2>1. Idle \in ProcRecs
    BY IdleIs
  <2> QED
    BY <1>1, <2>1 DEF ProcRecs, Idle
<1>3. PICK o : o = pr[p]
  OBVIOUS
<1>4. At(p, "idle") /\ UNCHANGED cwd /\ (c.op \in {"close", "write"} => fd[p] # 0) /\ (c.op \in {"open", "create"} => fd[p] = 0)
  BY DEF Begin
<1>5. o \in ProcRecs /\ o.pc = "idle" /\ Put1(o) = 0 /\ Put2(o) = 0 /\ ProcOk(o, fd[p])
  BY <1>3, <1>4, AtIs
<1>6. o.at = 0 /\ o.ip = 0 /\ o.dp = 0 /\ Keeps(o) = 0
  BY <1>5 DEF ProcOk, OfLink, Keeps
<1>7. FsOk(fs) /\ Mild(fs, fs)
  BY Mine, MildIs
<1>8. CASE c.op = "close"
  <2>1. fd \in [Procs -> Nums] /\ cwd \in [Procs -> Inums]
    BY DEF FsInv, ProcsOk
  <2>2. PICK f \in Inums : f = fd[p]
    BY <1>4, <1>8, <2>1, NumIs
  <2>3. PICK q : q = [r EXCEPT !.pc = "end", !.puts = <<f>>]
    OBVIOUS
  <2>4. q \in ProcRecs
    BY <1>2, <2>3, OneSeq, InPCs DEF ProcRecs
  <2>5. /\ q.pc = "end" /\ q.at = r.at /\ q.puts = <<f>> /\ q.call = r.call /\ q.ip = r.ip /\ q.dp = r.dp /\ q.drop = r.drop
    BY <1>2, <2>3 DEF ProcRecs
  <2>6. Put1(q) = f /\ Put2(q) = 0
    BY <2>5, PutsOf
  <2>7. Ends(q)
    BY <1>2, <2>5, OneSeq DEF Ends
  <2>8. fs' = fs /\ pr' = [pr EXCEPT ![p] = q] /\ fd' = [fd EXCEPT ![p] = 0]
    BY <1>1, <1>8, <2>2, <2>3 DEF Begin, To
  <2>9. PICK x \in Nums : x = 0
    BY InPCs
  <2>10. PICK y \in Inums : y = cwd[p]
    BY <2>1
  <2>11. Steps(p, x, y, q)
    BY <1>4, <2>1, <2>8, <2>9, <2>10 DEF Steps
  <2>12. ProcOk(q, x) /\ Relies(fs', q, p)
    BY <2>4, <2>7, EndsOk
  <2>13. FsOk(fs') /\ Others(fs, fs', p)
    BY <1>7, <2>8, MildIs
  <2>14. ASSUME NEW i \in Inums PROVE Tallied(p, x, y, q, i) = 0
    BY <1>2, <1>3, <1>5, <1>6, <2>2, <2>5, <2>6, <2>9, <2>10 DEF Tallied, Tally, If, Inums
  <2>15. \A i \in Inums : fs'.ic[i].ref = fs.ic[i].ref + Tallied(p, x, y, q, i)
    BY <2>8, <2>14, RefNat
  <2>16. \A i \in Inums : fs'.ic[i].lock = p => Keeps(q) = i
    BY <1>3, <1>6, <2>8, NoLock
  <2> QED
    BY <2>4, <2>11, <2>12, <2>13, <2>15, <2>16, StepOk
<1>9. CASE c.op = "write"
  <2>1. PICK q : q = [r EXCEPT !.pc = "write"]
    OBVIOUS
  <2>2. To(p, fs, q) /\ UNCHANGED fd
    BY <1>1, <1>9, <2>1 DEF Begin
  <2>3. q \in ProcRecs
    BY <1>2, <2>1, InPCs DEF ProcRecs
  <2>4. /\ q.pc = "write" /\ q.at = r.at /\ q.puts = r.puts /\ q.call = r.call /\ q.ip = r.ip /\ q.dp = r.dp /\ q.drop = r.drop
    BY <1>2, <2>1 DEF ProcRecs
  <2>5. Put1(q) = 0 /\ Put2(q) = 0
    BY <1>2, <2>4, PutsOf
  <2>6. ProcOk(q, fd[p])
    BY <1>2, <1>4, <1>9, <2>4, EmptySeqs DEF ProcOk, OfLink
  <2>7. Relies(fs, q, p)
    BY <1>2, <2>4 DEF Relies, Keeps
  <2>8. \A i \in Inums : Holds(q, i) = Holds(pr[p], i)
    BY <1>2, <1>3, <1>5, <1>6, <2>4, <2>5 DEF Holds
  <2> QED
    BY <1>3, <1>4, <1>6, <1>7, <2>2, <2>3, <2>6, <2>7, <2>8, MildStep
<1>10. CASE c.op # "close" /\ c.op # "write"
  <2>1. PICK b \in BOOLEAN : b = (Creates(c) \/ c.op = "unlink")
    OBVIOUS
  <2>2. Namex(p, r, c.path, b) /\ UNCHANGED fd
    BY <1>1, <1>10, <2>1 DEF Begin
  <2>3. PICK e \in Seq(Names) : e = c.path.elems
    <3>1. c.path.elems \in Seq(STRING)
      BY FsAssumption
    <3> QED
      BY <3>1, NamesOf
  <2>4. PICK n \in Inums : n = IF c.path.root THEN Root ELSE cwd[p]
    BY Mine, MkfsAssumption DEF Root, Inums
  <2>5. PICK q : q = [r EXCEPT !.pc = "walk", !.at = n, !.elems = e, !.parent = b]
    OBVIOUS
  <2>6. PICK t : t = Iget(fs, n)
    OBVIOUS
  <2>7. To(p, t, q)
    BY <2>2, <2>3, <2>4, <2>5, <2>6 DEF Namex
  <2>8. q \in ProcRecs
    BY <1>2, <2>5, InPCs DEF ProcRecs
  <2>9. /\ q.pc = "walk" /\ q.at = n /\ q.puts = r.puts /\ q.call = r.call /\ q.ip = r.ip /\ q.dp = r.dp /\ q.drop = r.drop
        /\ q.parent = b
    BY <1>2, <2>5 DEF ProcRecs
  <2>10. Put1(q) = 0 /\ Put2(q) = 0
    BY <1>2, <2>9, PutsOf
  <2>11. ~OfLink(q)
    BY <1>2, <2>1, <2>9 DEF OfLink, Creates
  <2>12. ProcOk(q, fd[p])
    BY <1>2, <1>4, <2>9, <2>11, InPCs, EmptySeqs DEF ProcOk
  <2>13. Relies(t, q, p)
    BY <1>2, <2>9 DEF Relies, Keeps
  <2>14. \A i \in Inums : Holds(q, i) = Holds(pr[p], i) + If(n = i)
    BY <1>2, <1>3, <1>5, <1>6, <2>9, <2>10 DEF Holds, If, Inums
  <2> QED
    BY <1>3, <1>4, <1>6, <1>7, <2>2, <2>6, <2>7, <2>8, <2>12, <2>13, <2>14, GetStep
<1> QED
  BY <1>8, <1>9, <1>10

\* A directory is locked, and stays so, with a reference to what is in it.
LockGetDoes(s, t, dp, n, p) ==
  /\ StaysValid(s, t) /\ t.ents = s.ents /\ t.ic[dp].lock = p
  /\ \A i \in Inums \ {dp} : t.ic[i].lock = s.ic[i].lock
  /\ \A i \in Inums : t.ic[i].ref = s.ic[i].ref + If(n = i)

LEMMA LockGetIs ==
  ASSUME NEW s, FsOk(s), NEW dp \in Inums, NEW n \in Inums, NEW p \in Procs, NEW t, t = Iget(Lock(s, dp, p), n)
  PROVE  FsOk(t) /\ LockGetDoes(s, t, dp, n, p)
<1>1. PICK u : u = Lock(s, dp, p)
  OBVIOUS
<1>2. FsOk(u) /\ LockDoes(s, u, dp, p)
  BY <1>1, LockIs
<1>3. FsOk(t) /\ IgetDoes(u, t, n)
  BY <1>1, <1>2, IgetIs
<1>4. StaysValid(s, t)
  BY <1>2, <1>3 DEF LockDoes, IgetDoes, StaysValid
<1>5. t.ents = s.ents
  BY <1>2, <1>3 DEF LockDoes, IgetDoes, SameDisk
<1>6. t.ic[dp].lock = p /\ \A i \in Inums \ {dp} : t.ic[i].lock = s.ic[i].lock
  BY <1>2, <1>3 DEF LockDoes, IgetDoes, SameLocks
<1>7. ASSUME NEW i \in Inums PROVE t.ic[i].ref = s.ic[i].ref + If(n = i)
  <2>1. s.ic[i].ref \in Nat /\ u.ic[i].ref = s.ic[i].ref
    BY <1>2, TypedIc DEF FsOk, LockDoes, SameRefs
  <2> QED
    BY <1>3, <2>1 DEF IgetDoes, If
<1> QED
  BY <1>3, <1>4, <1>5, <1>6, <1>7 DEF LockGetDoes

LEMMA LockGetStep ==
  ASSUME FsInv, NEW p \in Procs, NEW q \in ProcRecs, NEW dp \in Inums, fs.ic[dp].lock = NULL, NEW n \in Inums,
         NEW t, FsOk(t), LockGetDoes(fs, t, dp, n, p), To(p, t, q), UNCHANGED <<fd, cwd>>,
         ProcOk(q, fd[p]), Relies(t, q, p), Keeps(pr[p]) = 0, Keeps(q) = dp,
         \A i \in Inums : Holds(q, i) = Holds(pr[p], i) + If(n = i)
  PROVE  FsInv'
<1>1. fs' = t /\ pr' = [pr EXCEPT ![p] = q]
  BY DEF To
<1>2. Others(fs, t, p)
  <2>1. \A i \in Inums : t.ic[i].lock = fs.ic[i].lock \/ (fs.ic[i].lock \in {NULL, p} /\ t.ic[i].lock \in {NULL, p})
    BY DEF LockGetDoes
  <2> QED
    BY <2>1, OthersOf DEF LockGetDoes
<1>3. \A i \in Inums : t.ic[i].lock = p => Keeps(q) = i
  BY NoLock DEF LockGetDoes
<1>4. \A i \in Inums : t.ic[i].ref = fs.ic[i].ref + (Holds(q, i) - Holds(pr[p], i))
  <2>1. ASSUME NEW i \in Inums PROVE If(n = i) \in Nat /\ Holds(q, i) = Holds(pr[p], i) + If(n = i) /\ t.ic[i].ref = fs.ic[i].ref + If(n = i)
    BY DEF If, LockGetDoes
  <2> QED
    BY <2>1, RefNat, HoldsNat
<1>5. FsOk(fs') /\ Relies(fs', q, p) /\ Others(fs, fs', p)
  BY <1>1, <1>2
<1>6. /\ \A i \in Inums : fs'.ic[i].lock = p => Keeps(q) = i
      /\ \A i \in Inums : fs'.ic[i].ref = fs.ic[i].ref + (Holds(q, i) - Holds(pr[p], i))
  BY <1>1, <1>3, <1>4
<1> QED
  BY <1>1, <1>5, <1>6, PlainStep

\* A call that has the directory of its path.
InParent(r, p) ==
  /\ r.dp \in Inums /\ r.at = 0 /\ Keeps(r) = 0 /\ r.call \in Calls /\ (r.ip # 0 <=> r.call.op = "link")
  /\ r.elems[1] \in Names /\ fs.ic[r.dp].valid /\ fs.ic[r.dp].d.type = "DIR" /\ fs.dinode[r.dp].type = "DIR"

LEMMA ParentIs ==
  ASSUME FsInv, NEW p \in Procs, NEW r \in ProcRecs, r.pc = "parent", ProcOk(r, fd[p]), Relies(fs, r, p)
  PROVE  InParent(r, p)
<1>1. r.dp \in Inums /\ r.at = 0 /\ Keeps(r) = 0 /\ r.call \in Calls /\ (r.ip # 0 <=> r.call.op = "link")
  BY ProcFields, NumIs DEF ProcOk, Keeps, OfLink
<1>2. r.elems[1] \in Names
  <2>1. r.elems \in Seq(Names) /\ r.elems # <<>>
    BY ProcFields DEF ProcOk
  <2> QED
    BY <2>1
<1>3. fs.ic[r.dp].valid /\ fs.ic[r.dp].d.type = "DIR"
  BY DEF Relies
<1>4. fs.dinode[r.dp].type = "DIR"
  BY <1>1, <1>3, Mine DEF FsOk, Cached
<1> QED
  BY <1>1, <1>2, <1>3, <1>4 DEF InParent

\* Its ilock().
LEMMA ParentLocked ==
  ASSUME FsInv, fs.panic = "no", NEW p \in Procs, NEW r \in ProcRecs, InParent(r, p), NEW s, s = Ilock(fs, r.dp)
  PROVE  /\ FsOk(s) /\ IlockDoes(fs, s, r.dp) /\ Mild(fs, s) /\ s.ic[r.dp].valid /\ s.dinode[r.dp].type = "DIR"
         /\ Covered(s.dinode[r.dp]) /\ s.dinode = fs.dinode
<1>1. FsOk(s) /\ IlockDoes(fs, s, r.dp) /\ Mild(fs, s)
  BY IlockMild DEF InParent
<1>2. s.dinode = fs.dinode /\ s.ic[r.dp].valid
  BY <1>1 DEF IlockDoes, SameDisk
<1>3. Covered(fs.dinode[r.dp])
  BY Mine DEF InParent, FsOk, Cached
<1> QED
  BY <1>1, <1>2, <1>3 DEF InParent

LEMMA TwoSeq ==
  ASSUME NEW i \in Inums, NEW j \in Inums
  PROVE  <<i, j>> \in Seq(Inums) /\ Len(<<i, j>>) = 2
OBVIOUS

LEMMA LinkStep ==
  ASSUME FsInv, fs.panic = "no", NEW p \in Procs, Link(p)
  PROVE  FsInv'
<1>1. PICK r : r = pr[p]
  OBVIOUS
<1>2. PICK s : s = Ilock(fs, r.dp)
  OBVIOUS
<1>3. At(p, "parent") /\ UNCHANGED <<fd, cwd>> /\ r.call.op = "link" /\ fs.ic[r.dp].lock = NULL
  BY <1>1 DEF Link, Free
<1>4. /\ r \in ProcRecs /\ r.pc = "parent" /\ r.puts = <<>> /\ ProcOk(r, fd[p]) /\ r.drop = FALSE
      /\ Put1(r) = 0 /\ Put2(r) = 0 /\ Relies(fs, r, p)
  BY <1>1, <1>3, AtIs
<1>5. InParent(r, p)
  BY <1>4, ParentIs
<1>6. /\ FsOk(s) /\ IlockDoes(fs, s, r.dp) /\ Mild(fs, s) /\ s.ic[r.dp].valid /\ s.dinode[r.dp].type = "DIR"
      /\ Covered(s.dinode[r.dp])
  BY <1>2, <1>4, <1>5, ParentLocked
<1>7. r.dp \in Inums /\ r.at = 0 /\ Keeps(r) = 0 /\ r.call \in Calls /\ r.ip \in Inums /\ r.elems[1] \in Names
  BY <1>3, <1>4, <1>5, ProcFields, NumIs DEF InParent
<1>8. s.ic[r.ip].valid /\ s.ic[r.ip].d.type # "DIR"
  BY <1>1, <1>3, <1>4, <1>6, <1>7, InPCs, LinkIp DEF Mild
<1>9. PICK old \in Nums : old = Lookup(s, r.dp, r.elems[1])
  BY <1>6, <1>7, LookupIs DEF FsOk
<1>10. CASE old = 0
  <2>1. PICK q : q = [r EXCEPT !.pc = "end", !.ip = 0, !.dp = 0, !.puts = <<r.dp, r.ip>>]
    OBVIOUS
  <2>2. PICK t : t = Dirlink(s, r.dp, r.elems[1], r.ip)
    OBVIOUS
  <2>3. To(p, t, q)
    BY <1>1, <1>2, <1>9, <1>10, <2>1, <2>2 DEF Link
  <2>4. r.ip # r.dp /\ Leaf(s, r.ip)
    <3>1. s.dinode[r.ip].type # "DIR" /\ s.ents[r.ip] = <<>>
      BY <1>6, <1>7, <1>8 DEF FsOk, Cached
    <3>2. \A j \in Inums : ~Edge(s, r.ip, j)
      BY <3>1 DEF Edge
    <3> QED
      BY <1>6, <3>1, <3>2 DEF Leaf
  <2>5. FsOk(t) /\ DirlinkDoes(s, t, r.dp, r.elems[1], r.ip)
    BY <1>6, <1>7, <2>2, <2>4, DirlinkIs
  <2>6. SameRefs(fs, t) /\ StaysValid(fs, t) /\ SameLocks(fs, t)
    BY <1>6, <2>5 DEF Mild, DirlinkDoes, SameRefs, StaysValid, SameLocks
  <2>7. \A i \in Inums : t.ents[i] = fs.ents[i] \/ fs.ic[i].lock \in {NULL, p}
    BY <1>3, <1>6, <2>5 DEF DirlinkDoes, SameEnts, Mild
  <2>8. Others(fs, t, p)
    BY <2>6, <2>7, OthersOf DEF SameLocks
  <2>9. \A i \in Inums : t.ic[i].lock # p
    BY <1>1, <1>7, <2>6, NoLock DEF SameLocks
  <2>10. q \in ProcRecs
    BY <1>4, <1>7, <2>1, TwoSeq, InPCs DEF ProcRecs
  <2>11. /\ q.pc = "end" /\ q.at = r.at /\ q.puts = <<r.dp, r.ip>> /\ q.call = r.call /\ q.ip = 0 /\ q.dp = 0 /\ q.drop = r.drop
    BY <1>4, <2>1 DEF ProcRecs
  <2>12. Put1(q) = r.dp /\ Put2(q) = r.ip
    BY <2>11, PutsOf
  <2>13. Ends(q)
    BY <1>4, <1>7, <2>11, TwoSeq DEF Ends
  <2>14. \A i \in Inums : Holds(q, i) = Holds(pr[p], i)
    BY <1>1, <1>4, <1>7, <2>11, <2>12 DEF Holds, If, Inums
  <2> QED
    BY <1>3, <2>3, <2>5, <2>6, <2>8, <2>9, <2>10, <2>13, <2>14, FinishStep
<1>11. CASE old # 0
  <2>1. old \in Inums
    BY <1>11, NumIs
  <2>2. PICK q : q = [r EXCEPT !.pc = "unlock", !.puts = <<old>>]
    OBVIOUS
  <2>3. PICK t : t = Iget(Lock(fs, r.dp, p), old)
    OBVIOUS
  <2>4. To(p, t, q)
    BY <1>1, <1>2, <1>9, <1>11, <2>2, <2>3 DEF Link
  <2>5. FsOk(t) /\ LockGetDoes(fs, t, r.dp, old, p)
    BY <1>7, <2>1, <2>3, Mine, LockGetIs
  <2>6. q \in ProcRecs
    BY <1>4, <2>1, <2>2, OneSeq, InPCs DEF ProcRecs
  <2>7. /\ q.pc = "unlock" /\ q.at = r.at /\ q.puts = <<old>> /\ q.call = r.call /\ q.ip = r.ip /\ q.dp = r.dp /\ q.drop = r.drop
    BY <1>4, <2>2 DEF ProcRecs
  <2>8. Put1(q) = old /\ Put2(q) = 0
    BY <2>7, PutsOf
  <2>9. Keeps(q) = r.dp
    BY <2>7 DEF Keeps
  <2>10. ProcOk(q, fd[p])
    BY <1>3, <1>4, <1>7, <2>7, OneSeq, InPCs DEF ProcOk, OfLink
  <2>11. Relies(t, q, p)
    <3>1. t.ic[r.ip].valid /\ t.ic[r.ip].d.type # "DIR"
      BY <1>1, <1>3, <1>4, <1>7, <2>5, InPCs, LinkIp DEF LockGetDoes
    <3>2. t.ic[r.dp].lock = p
      BY <2>5 DEF LockGetDoes
    <3> QED
      BY <2>7, <2>9, <3>1, <3>2 DEF Relies
  <2>12. \A i \in Inums : Holds(q, i) = Holds(pr[p], i) + If(old = i)
    BY <1>1, <1>4, <2>7, <2>8 DEF Holds, If, Inums
  <2>13. Keeps(pr[p]) = 0
    BY <1>1, <1>7
  <2> QED
    BY <1>3, <1>7, <2>1, <2>4, <2>5, <2>6, <2>9, <2>10, <2>11, <2>12, <2>13, LockGetStep
<1> QED
  BY <1>10, <1>11

LEMMA UnlinkDpStep ==
  ASSUME FsInv, fs.panic = "no", NEW p \in Procs, UnlinkDp(p)
  PROVE  FsInv'
<1>1. PICK r : r = pr[p]
  OBVIOUS
<1>2. PICK s : s = Ilock(fs, r.dp)
  OBVIOUS
<1>3. At(p, "parent") /\ UNCHANGED <<fd, cwd>> /\ r.call.op = "unlink" /\ fs.ic[r.dp].lock = NULL
  BY <1>1 DEF UnlinkDp, Free
<1>4. /\ r \in ProcRecs /\ r.pc = "parent" /\ r.puts = <<>> /\ ProcOk(r, fd[p]) /\ r.drop = FALSE
      /\ Put1(r) = 0 /\ Put2(r) = 0 /\ Relies(fs, r, p)
  BY <1>1, <1>3, AtIs
<1>5. InParent(r, p)
  BY <1>4, ParentIs
<1>6. FsOk(s) /\ Mild(fs, s)
  BY <1>2, <1>4, <1>5, ParentLocked
<1>7. r.dp \in Inums /\ r.at = 0 /\ Keeps(r) = 0 /\ r.call \in Calls /\ r.ip = 0
  BY <1>3, <1>5 DEF InParent
<1>8. PICK ip \in Nums : ip = Lookup(fs, r.dp, r.elems[1])
  BY <1>7, LookupIs, Mine
<1>9. CASE r.elems[1] \in Dots \/ ip = 0
  <2>1. PICK q : q = [r EXCEPT !.pc = "end", !.dp = 0, !.puts = <<r.dp>>]
    OBVIOUS
  <2>2. To(p, s, q)
    BY <1>1, <1>2, <1>8, <1>9, <2>1 DEF UnlinkDp, Dots
  <2>3. q \in ProcRecs
    BY <1>4, <1>7, <2>1, OneSeq, InPCs DEF ProcRecs
  <2>4. /\ q.pc = "end" /\ q.at = r.at /\ q.puts = <<r.dp>> /\ q.call = r.call /\ q.ip = r.ip /\ q.dp = 0 /\ q.drop = r.drop
    BY <1>4, <2>1 DEF ProcRecs
  <2>5. Put1(q) = r.dp /\ Put2(q) = 0
    BY <2>4, PutsOf
  <2>6. Ends(q)
    BY <1>4, <1>7, <2>4, OneSeq DEF Ends
  <2>7. \A i \in Inums : Holds(q, i) = Holds(pr[p], i)
    BY <1>1, <1>4, <1>7, <2>4, <2>5 DEF Holds, If, Inums
  <2>8. Others(fs, s, p) /\ SameRefs(fs, s) /\ \A i \in Inums : s.ic[i].lock # p
    BY <1>1, <1>6, <1>7, MildIs, NoLock DEF Mild, SameLocks
  <2> QED
    BY <1>3, <1>6, <2>2, <2>3, <2>6, <2>7, <2>8, FinishStep
<1>10. CASE r.elems[1] \notin Dots /\ ip # 0
  <2>1. ip \in Inums
    BY <1>10, NumIs
  <2>2. PICK q : q = [r EXCEPT !.pc = "unlink", !.ip = ip]
    OBVIOUS
  <2>3. PICK t : t = Iget(Lock(fs, r.dp, p), ip)
    OBVIOUS
  <2>4. To(p, t, q)
    BY <1>1, <1>2, <1>8, <1>10, <2>2, <2>3 DEF UnlinkDp, Dots
  <2>5. FsOk(t) /\ LockGetDoes(fs, t, r.dp, ip, p)
    BY <1>7, <2>1, <2>3, Mine, LockGetIs
  <2>6. q \in ProcRecs
    BY <1>4, <2>1, <2>2, InPCs DEF ProcRecs
  <2>7. /\ q.pc = "unlink" /\ q.at = r.at /\ q.puts = r.puts /\ q.call = r.call /\ q.ip = ip /\ q.dp = r.dp /\ q.drop = r.drop
        /\ q.elems = r.elems
    BY <1>4, <2>2 DEF ProcRecs
  <2>8. Put1(q) = 0 /\ Put2(q) = 0
    BY <1>4, <2>7, PutsOf
  <2>9. Keeps(q) = r.dp
    BY <2>7 DEF Keeps
  <2>10. ProcOk(q, fd[p])
    BY <1>3, <1>4, <1>7, <1>10, <2>7, InPCs DEF ProcOk, OfLink
  <2>11. Relies(t, q, p)
    <3>1. Lookup(t, r.dp, r.elems[1]) = ip
      <4>1. t.ents[r.dp] = fs.ents[r.dp]
        BY <2>5 DEF LockGetDoes
      <4>2. Lookup(t, r.dp, r.elems[1]) = Lookup(fs, r.dp, r.elems[1])
        BY <4>1 DEF Lookup, Entry
      <4> QED
        BY <1>8, <4>2
    <3>2. t.ic[r.dp].lock = p
      BY <2>5 DEF LockGetDoes
    <3> QED
      BY <1>3, <1>10, <2>7, <2>9, <3>1, <3>2 DEF Relies
  <2>12. \A i \in Inums : Holds(q, i) = Holds(pr[p], i) + If(ip = i)
    BY <1>1, <1>4, <1>7, <2>7, <2>8 DEF Holds, If, Inums
  <2>13. Keeps(pr[p]) = 0
    BY <1>1, <1>7
  <2> QED
    BY <1>3, <1>7, <2>1, <2>4, <2>5, <2>6, <2>9, <2>10, <2>11, <2>12, <2>13, LockGetStep
<1> QED
  BY <1>9, <1>10

\* An inode is locked with the directory locked already, its entry is erased
\* and the directory let go.
UnlinkTo(p, r, s, t, q) ==
  \E s1, s2 :
    /\ s1 = Erased(s, r.dp, Entry(s, r.dp, r.elems[1]))
    /\ s2 = IF s.ic[r.ip].d.type = "DIR" THEN DropLink(s1, r.dp) ELSE s1
    /\ t = PanicIf(Iunlock(s2, r.dp), s.ic[r.ip].d.nlink < 1)
    /\ q = [r EXCEPT !.pc = "unlinked", !.dp = 0, !.puts = <<r.dp>>]

LEMMA UnlinkCases ==
  ASSUME NEW p, UnlinkIp(p), NEW r, r = pr[p], NEW s, s = Lock(fs, r.ip, p)
  PROVE  \/ To(p, PanicIf(Ilock(fs, r.ip), s.ic[r.ip].d.nlink < 1), [r EXCEPT !.pc = "unlock", !.ip = 0, !.puts = <<r.ip>>])
         \/ \E t, q : UnlinkTo(p, r, s, t, q) /\ To(p, t, q)
BY Zenon DEF UnlinkIp, UnlinkTo, Erased, NoEnt

Unlinks(r, p) ==
  /\ r \in ProcRecs /\ r = pr[p] /\ r.pc = "unlink" /\ r.ip \in Inums /\ r.dp \in Inums /\ Keeps(r) = r.dp
  /\ fs.ic[r.ip].lock = NULL /\ fs.ic[r.dp].lock = p /\ Lookup(fs, r.dp, r.elems[1]) = r.ip

LEMMA SameLookup ==
  ASSUME NEW s, NEW t, NEW dp, NEW name, t.ents[dp] = s.ents[dp]
  PROVE  Lookup(t, dp, name) = Lookup(s, dp, name)
BY DEF Lookup, Entry

UnlinkDoes(t, r, p) ==
  FsOk(t) /\ Others(fs, t, p) /\ SameRefs(fs, t) /\ \A i \in Inums : t.ic[i].lock = p <=> i = r.ip

LEMMA UnlinkToIs ==
  ASSUME FsInv, NEW p \in Procs, NEW r, Unlinks(r, p), NEW s, s = Lock(fs, r.ip, p), NEW t, NEW q, UnlinkTo(p, r, s, t, q)
  PROVE  UnlinkDoes(t, r, p)
<1>0. /\ r \in ProcRecs /\ r = pr[p] /\ r.pc = "unlink" /\ r.ip \in Inums /\ r.dp \in Inums /\ Keeps(r) = r.dp
      /\ fs.ic[r.ip].lock = NULL /\ fs.ic[r.dp].lock = p /\ Lookup(fs, r.dp, r.elems[1]) = r.ip
  BY DEF Unlinks
<1>1. p # NULL /\ r.ip # r.dp /\ FsOk(fs) /\ r.ip # 0
  BY <1>0, FsAssumption, Mine DEF Inums
<1>2. FsOk(s) /\ LockDoes(fs, s, r.ip, p)
  BY <1>0, <1>1, LockIs
<1>3. PICK k : k = Entry(s, r.dp, r.elems[1])
  OBVIOUS
<1>4. k \in DOMAIN s.ents[r.dp]
  <2>1. s.ents = fs.ents
    BY <1>2 DEF LockDoes, SameDisk
  <2>2. Lookup(s, r.dp, r.elems[1]) = Lookup(fs, r.dp, r.elems[1])
    BY <2>1, SameLookup
  <2>3. s \in FsTypes
    BY <1>2 DEF FsOk
  <2> QED
    BY <1>0, <1>1, <1>3, <2>2, <2>3, LookupIs
<1>5. PICK u : u = Erased(s, r.dp, k)
  OBVIOUS
<1>6. FsOk(u) /\ SameEnts(s, u, {r.dp}) /\ u.ic = s.ic
  <2>1. r.dp \in Inums
    BY <1>0
  <2> QED
    BY <1>2, <1>4, <1>5, <2>1, EraseIs, Zenon
<1>7. fs.ic[r.dp].valid
  BY <1>0, <1>1 DEF FsOk, Cached
<1>8. u.ic[r.dp].valid
  BY <1>0, <1>1, <1>2, <1>6, <1>7 DEF LockDoes
<1>9. PICK v : v = IF s.ic[r.ip].d.type = "DIR" THEN DropLink(u, r.dp) ELSE u
  OBVIOUS
<1>10. FsOk(v) /\ Mild(u, v)
  <2>1. CASE s.ic[r.ip].d.type = "DIR"
    BY <1>0, <1>6, <1>8, <1>9, <2>1, LinkMild
  <2>2. CASE s.ic[r.ip].d.type # "DIR"
    BY <1>6, <1>9, <2>2, MildIs
  <2> QED
    BY <2>1, <2>2
<1>11. PICK w : w = Iunlock(v, r.dp)
  OBVIOUS
<1>12. FsOk(w) /\ IunlockDoes(v, w, r.dp)
  BY <1>0, <1>10, <1>11, IunlockIs
<1>13. t = PanicIf(w, s.ic[r.ip].d.nlink < 1)
  BY <1>3, <1>5, <1>9, <1>11 DEF UnlinkTo
<1>14. PICK b \in BOOLEAN : t = PanicIf(w, b)
  BY <1>13 DEF PanicIf
<1>15. FsOk(t) /\ PanicDoes(w, t)
  BY <1>12, <1>14, PanicIfIs
<1>16. SameRefs(fs, t)
  BY <1>2, <1>6, <1>10, <1>12, <1>15 DEF SameRefs, LockDoes, Mild, IunlockDoes, PanicDoes
<1>17. StaysValid(fs, t)
  <2>1. StaysValid(fs, u)
    BY <1>2, <1>6 DEF StaysValid, LockDoes
  <2>2. StaysValid(u, w)
    BY <1>10, <1>12 DEF StaysValid, Mild, IunlockDoes
  <2> QED
    BY <1>15, <2>1, <2>2 DEF StaysValid, PanicDoes
<1>18. /\ t.ic[r.ip].lock = p /\ t.ic[r.dp].lock = NULL
       /\ \A i \in Inums : i # r.ip /\ i # r.dp => t.ic[i].lock = fs.ic[i].lock
  <2>1. u.ic[r.ip].lock = p /\ \A i \in Inums : i # r.ip => u.ic[i].lock = fs.ic[i].lock
    BY <1>2, <1>6 DEF LockDoes
  <2>2. \A i \in Inums : v.ic[i].lock = u.ic[i].lock
    BY <1>10 DEF Mild, SameLocks
  <2>3. w.ic[r.dp].lock = NULL /\ \A i \in Inums : i # r.dp => w.ic[i].lock = v.ic[i].lock
    BY <1>12 DEF IunlockDoes
  <2>4. \A i \in Inums : t.ic[i].lock = w.ic[i].lock
    BY <1>15 DEF PanicDoes
  <2> QED
    BY <1>0, <1>1, <2>1, <2>2, <2>3, <2>4
<1>19. \A i \in Inums : t.ents[i] = fs.ents[i] \/ fs.ic[i].lock \in {NULL, p}
  <2>1. s.ents = fs.ents /\ v.ents = u.ents /\ w.ents = v.ents /\ t.ents = w.ents
    BY <1>2, <1>10, <1>12, <1>15 DEF LockDoes, Mild, IunlockDoes, PanicDoes, SameDisk
  <2> QED
    BY <1>0, <1>6, <2>1 DEF SameEnts
<1>20. Others(fs, t, p)
  <2>1. \A i \in Inums : t.ic[i].lock = fs.ic[i].lock \/ (fs.ic[i].lock \in {NULL, p} /\ t.ic[i].lock \in {NULL, p})
    BY <1>0, <1>18
  <2> QED
    BY <1>17, <1>19, <2>1, OthersOf
<1>21. \A i \in Inums : t.ic[i].lock = p <=> i = r.ip
  <2>1. \A i \in Inums : i # r.dp => fs.ic[i].lock # p
    BY <1>0, OwnLock
  <2> QED
    BY <1>0, <1>1, <1>18, <2>1
<1> QED
  BY <1>15, <1>16, <1>20, <1>21 DEF UnlinkDoes

LEMMA UnlinkIpStep ==
  ASSUME FsInv, NEW p \in Procs, UnlinkIp(p)
  PROVE  FsInv'
<1>1. PICK r : r = pr[p]
  OBVIOUS
<1>2. PICK s : s = Lock(fs, r.ip, p)
  OBVIOUS
<1>3. At(p, "unlink") /\ UNCHANGED <<fd, cwd>> /\ fs.ic[r.ip].lock = NULL
  BY <1>1, Zenon DEF UnlinkIp, Free
<1>4. /\ r \in ProcRecs /\ r.pc = "unlink" /\ r.puts = <<>> /\ ProcOk(r, fd[p]) /\ r.drop = FALSE
      /\ Put1(r) = 0 /\ Put2(r) = 0 /\ Relies(fs, r, p)
  BY <1>1, <1>3, AtIs
<1>5. r.dp \in Inums /\ r.ip \in Inums /\ r.at = 0 /\ Keeps(r) = r.dp /\ r.call \in Calls /\ r.call.op = "unlink"
  BY <1>4, ProcFields, NumIs DEF ProcOk, Keeps
<1>6. fs.ic[r.dp].lock = p /\ r.elems[1] \notin Dots /\ Lookup(fs, r.dp, r.elems[1]) = r.ip
  BY <1>4, <1>5, InPCs DEF Relies
<1>7. CASE To(p, PanicIf(Ilock(fs, r.ip), s.ic[r.ip].d.nlink < 1), [r EXCEPT !.pc = "unlock", !.ip = 0, !.puts = <<r.ip>>])
  <2>1. PICK q : q = [r EXCEPT !.pc = "unlock", !.ip = 0, !.puts = <<r.ip>>]
    OBVIOUS
  <2>2. PICK t, u : u = Ilock(fs, r.ip) /\ t = PanicIf(u, s.ic[r.ip].d.nlink < 1)
    OBVIOUS
  <2>3. fs' = t /\ pr' = [pr EXCEPT ![p] = q]
    BY <1>7, <2>1, <2>2 DEF To
  <2>4. FsOk(t) /\ Mild(fs, t)
    <3>1. FsOk(u) /\ Mild(fs, u)
      BY <1>5, <2>2, IlockMild
    <3>2. FsOk(t) /\ PanicDoes(u, t)
      <4>1. PICK b \in BOOLEAN : t = PanicIf(u, b)
        BY <2>2 DEF PanicIf
      <4> QED
        BY <3>1, <4>1, PanicIfIs
    <3> QED
      BY <3>1, <3>2 DEF Mild, PanicDoes, SameDisk, SameLocks, SameRefs, StaysValid
  <2>5. q \in ProcRecs
    BY <1>4, <1>5, <2>1, OneSeq, InPCs DEF ProcRecs
  <2>6. /\ q.pc = "unlock" /\ q.at = r.at /\ q.puts = <<r.ip>> /\ q.call = r.call /\ q.ip = 0 /\ q.dp = r.dp /\ q.drop = r.drop
    BY <1>4, <2>1 DEF ProcRecs
  <2>7. Put1(q) = r.ip /\ Put2(q) = 0
    BY <2>6, PutsOf
  <2>8. Keeps(q) = r.dp
    BY <2>6 DEF Keeps
  <2>9. ProcOk(q, fd[p])
    BY <1>4, <1>5, <2>6, OneSeq, InPCs DEF ProcOk, OfLink
  <2>10. Relies(t, q, p)
    <3>1. t.ic[r.dp].lock = p
      BY <1>5, <1>6, <2>4 DEF Mild, SameLocks
    <3> QED
      BY <1>5, <2>6, <2>8, <3>1 DEF Relies
  <2>11. \A i \in Inums : Holds(q, i) = Holds(pr[p], i)
    BY <1>1, <1>4, <1>5, <2>6, <2>7 DEF Holds, If, Inums
  <2>12. Others(fs, t, p) /\ \A i \in Inums : t.ic[i].lock = p => Keeps(q) = i
    BY <1>1, <1>5, <2>4, <2>8, MildIs, OwnLock DEF Mild, SameLocks
  <2>13. /\ \A i \in Inums : fs'.ic[i].lock = p => Keeps(q) = i
         /\ \A i \in Inums : fs'.ic[i].ref = fs.ic[i].ref + (Holds(q, i) - Holds(pr[p], i))
    BY <2>3, <2>4, <2>11, <2>12, RefNat, HoldsNat DEF Mild, SameRefs
  <2>14. FsOk(fs') /\ Relies(fs', q, p) /\ Others(fs, fs', p)
    BY <2>3, <2>4, <2>10, <2>12
  <2> QED
    BY <1>3, <2>3, <2>5, <2>9, <2>13, <2>14, PlainStep
<1>8. CASE \E t, q : UnlinkTo(p, r, s, t, q) /\ To(p, t, q)
  <2>1. PICK t, q : UnlinkTo(p, r, s, t, q) /\ To(p, t, q)
    BY <1>8
  <2>2. /\ FsOk(t) /\ Others(fs, t, p) /\ SameRefs(fs, t)
        /\ \A i \in Inums : t.ic[i].lock = p <=> i = r.ip
    <3>1. Unlinks(r, p)
      BY <1>1, <1>3, <1>4, <1>5, <1>6 DEF Unlinks
    <3>2. UnlinkDoes(t, r, p)
      BY <1>2, <2>1, <3>1, UnlinkToIs
    <3> QED
      BY <3>2 DEF UnlinkDoes
  <2>3. fs' = t /\ pr' = [pr EXCEPT ![p] = q]
    BY <2>1 DEF To
  <2>4. q = [r EXCEPT !.pc = "unlinked", !.dp = 0, !.puts = <<r.dp>>]
    BY <2>1 DEF UnlinkTo
  <2>5. q \in ProcRecs
    BY <1>4, <1>5, <2>4, OneSeq, InPCs DEF ProcRecs
  <2>6. /\ q.pc = "unlinked" /\ q.at = r.at /\ q.puts = <<r.dp>> /\ q.call = r.call /\ q.ip = r.ip /\ q.dp = 0 /\ q.drop = r.drop
    BY <1>4, <2>4 DEF ProcRecs
  <2>7. Put1(q) = r.dp /\ Put2(q) = 0
    BY <2>6, PutsOf
  <2>8. Keeps(q) = r.ip
    BY <2>6 DEF Keeps
  <2>9. ProcOk(q, fd[p])
    BY <1>4, <1>5, <2>6, OneSeq, InPCs DEF ProcOk, OfLink
  <2>10. Relies(t, q, p)
    BY <1>5, <2>2, <2>6, <2>8 DEF Relies
  <2>11. \A i \in Inums : Holds(q, i) = Holds(pr[p], i)
    BY <1>1, <1>4, <1>5, <2>6, <2>7 DEF Holds, If, Inums
  <2>12. /\ \A i \in Inums : fs'.ic[i].lock = p => Keeps(q) = i
         /\ \A i \in Inums : fs'.ic[i].ref = fs.ic[i].ref + (Holds(q, i) - Holds(pr[p], i))
    BY <2>2, <2>3, <2>8, <2>11, RefNat, HoldsNat DEF SameRefs
  <2>13. FsOk(fs') /\ Relies(fs', q, p) /\ Others(fs, fs', p)
    BY <2>2, <2>3, <2>10
  <2> QED
    BY <1>3, <2>3, <2>5, <2>9, <2>12, <2>13, PlainStep
<1> QED
  BY <1>1, <1>2, <1>7, <1>8, UnlinkCases

\* The inode that create() takes is in nobody's hands.
LEMMA NewIsFree ==
  ASSUME FsInv, fs.panic = "no", NEW dp \in Inums, fs.dinode[dp].type = "DIR", NEW s, FsOk(s), IlockDoes(fs, s, dp),
         NEW n \in Inums, s.dinode[n].type = "FREE"
  PROVE  ~s.ic[n].valid
<1>1. s.dinode = fs.dinode
  BY DEF IlockDoes, SameDisk
<1>2. n # dp
  BY <1>1
<1>3. s.ic[n] = fs.ic[n]
  BY <1>2 DEF IlockDoes
<1>4. fs.ic[n].valid => fs.dinode[n].type # "FREE"
  BY DEF FsInv, FsOk, Cached
<1> QED
  BY <1>1, <1>3, <1>4

LEMMA CreateStep ==
  ASSUME FsInv, fs.panic = "no", NEW p \in Procs, Create(p)
  PROVE  FsInv'
<1>1. PICK r : r = pr[p]
  OBVIOUS
<1>2. PICK s : s = Ilock(fs, r.dp)
  OBVIOUS
<1>3. At(p, "parent") /\ UNCHANGED <<fd, cwd>> /\ Creates(r.call) /\ fs.ic[r.dp].lock = NULL
  BY <1>1 DEF Create, Free
<1>4. /\ r \in ProcRecs /\ r.pc = "parent" /\ r.puts = <<>> /\ ProcOk(r, fd[p]) /\ r.drop = FALSE
      /\ Put1(r) = 0 /\ Put2(r) = 0 /\ Relies(fs, r, p)
  BY <1>1, <1>3, AtIs
<1>5. InParent(r, p)
  BY <1>4, ParentIs
<1>6. /\ FsOk(s) /\ IlockDoes(fs, s, r.dp) /\ Mild(fs, s) /\ s.ic[r.dp].valid /\ s.dinode[r.dp].type = "DIR"
      /\ Covered(s.dinode[r.dp]) /\ s.dinode = fs.dinode
  BY <1>2, <1>4, <1>5, ParentLocked
<1>7. r.dp \in Inums /\ r.at = 0 /\ Keeps(r) = 0 /\ r.call \in Calls /\ r.ip = 0 /\ r.elems[1] \in Names /\ r.call.op # "link"
  BY <1>3, <1>5 DEF InParent, Creates
<1>8. PICK old \in Nums : old = Lookup(s, r.dp, r.elems[1])
  BY <1>6, <1>7, LookupIs DEF FsOk
<1>9. CASE old # 0
  <2>1. old \in Inums
    BY <1>9, NumIs
  <2>2. PICK q : q = [r EXCEPT !.pc = "exists", !.ip = old, !.dp = 0, !.puts = <<r.dp>>]
    OBVIOUS
  <2>3. PICK t : t = Iget(s, old)
    OBVIOUS
  <2>4. To(p, t, q)
    BY <1>1, <1>2, <1>8, <1>9, <2>2, <2>3 DEF Create
  <2>5. q \in ProcRecs
    BY <1>4, <1>7, <2>1, <2>2, OneSeq, InPCs DEF ProcRecs
  <2>6. /\ q.pc = "exists" /\ q.at = r.at /\ q.puts = <<r.dp>> /\ q.call = r.call /\ q.ip = old /\ q.dp = 0 /\ q.drop = r.drop
    BY <1>4, <2>2 DEF ProcRecs
  <2>7. Put1(q) = r.dp /\ Put2(q) = 0
    BY <2>6, PutsOf
  <2>8. ProcOk(q, fd[p])
    BY <1>4, <1>7, <1>9, <2>6, OneSeq DEF ProcOk, OfLink
  <2>9. Relies(t, q, p)
    BY <1>7, <2>6 DEF Relies, Keeps
  <2>10. \A i \in Inums : Holds(q, i) = Holds(pr[p], i) + If(old = i)
    BY <1>1, <1>4, <1>7, <2>6, <2>7 DEF Holds, If, Inums
  <2> QED
    BY <1>1, <1>3, <1>6, <1>7, <2>1, <2>3, <2>4, <2>5, <2>8, <2>9, <2>10, GetStep
<1>10. CASE old = 0 /\ NewInum(s) > NInodes
  <2>1. PICK t : t = Full(s)
    OBVIOUS
  <2>2. To(p, t, r)
    BY <1>1, <1>2, <1>8, <1>10, <2>1 DEF Create
  <2>3. FsOk(t) /\ SameDisk(s, t) /\ t.ic = s.ic
    <3>1. t = [s EXCEPT !.panic = "full"]
      BY <2>1 DEF Full
    <3> QED
      BY <1>6, <3>1, Panicked
  <2>4. Mild(s, t)
    BY <2>3 DEF Mild, SameDisk, SameLocks, SameRefs, StaysValid
  <2>5. Mild(fs, t)
    BY <1>6, <2>4, MildTrans
  <2>6. Relies(t, r, p)
    <3>1. t.ic[r.dp].valid /\ t.ic[r.dp].d.type = "DIR"
      BY <1>5, <1>7, <2>5 DEF InParent, Mild, StaysValid
    <3> QED
      BY <1>4, <1>7, <3>1 DEF Relies
  <2>7. \A i \in Inums : Holds(r, i) = Holds(pr[p], i)
    BY <1>1
  <2> QED
    BY <1>1, <1>3, <1>4, <1>7, <2>2, <2>3, <2>5, <2>6, <2>7, MildStep
<1>11. CASE old = 0 /\ ~(NewInum(s) > NInodes)
  <2>1. PICK n \in Inums : n = NewInum(s) /\ s.dinode[n].type = "FREE"
    BY <1>6, <1>11, NewInumIs DEF FsOk
  <2>2. PICK q : q = [r EXCEPT !.pc = "made", !.ip = n, !.dp = 0, !.puts = <<r.dp>>]
    OBVIOUS
  <2>3. PICK t : t = NewInode(s, r.call, r.dp, r.elems[1], p)
    OBVIOUS
  <2>4. fs' = t /\ pr' = [pr EXCEPT ![p] = q]
    BY <1>1, <1>2, <1>8, <1>11, <2>1, <2>2, <2>3 DEF Create, To
  <2>5. ~s.ic[n].valid
    BY <1>6, <1>7, <2>1, NewIsFree
  <2>6. FsOk(t) /\ NewDoes(s, t, n, r.dp, p)
    BY <1>3, <1>6, <1>7, <2>1, <2>3, <2>5, NewInodeIs
  <2>7. q \in ProcRecs
    BY <1>4, <1>7, <2>1, <2>2, OneSeq, InPCs DEF ProcRecs
  <2>8. /\ q.pc = "made" /\ q.at = r.at /\ q.puts = <<r.dp>> /\ q.call = r.call /\ q.ip = n /\ q.dp = 0 /\ q.drop = r.drop
    BY <1>4, <2>2 DEF ProcRecs
  <2>9. Put1(q) = r.dp /\ Put2(q) = 0 /\ Keeps(q) = n
    BY <2>8, PutsOf DEF Keeps
  <2>10. ProcOk(q, fd[p])
    BY <1>4, <1>7, <2>1, <2>8, OneSeq, InPCs DEF ProcOk, OfLink
  <2>11. Relies(t, q, p)
    BY <1>7, <2>6, <2>8, <2>9 DEF Relies, NewDoes
  <2>12. \A i \in Inums : Holds(q, i) = Holds(pr[p], i) + If(n = i)
    BY <1>1, <1>4, <1>7, <2>8, <2>9 DEF Holds, If, Inums
  <2>13. \A i \in Inums : t.ic[i].ref = fs.ic[i].ref + If(n = i)
    BY <1>6, <2>6, RefNat DEF Mild, SameRefs, NewDoes, If
  <2>14. \A i \in Inums : t.ic[i].ref = fs.ic[i].ref + (Holds(q, i) - Holds(pr[p], i))
    <3>1. ASSUME NEW i \in Inums PROVE If(n = i) \in Nat
      BY DEF If
    <3> QED
      BY <2>12, <2>13, <3>1, RefNat, HoldsNat
  <2>15. \A i \in Inums : i # n => t.ic[i].lock = fs.ic[i].lock
    BY <1>6, <2>6 DEF NewDoes, Mild, SameLocks
  <2>16. t.ic[n].lock = p /\ fs.ic[n].lock = NULL
    BY <1>6, <2>6 DEF NewDoes, Mild, SameLocks
  <2>17. Others(fs, t, p)
    <3>1. StaysValid(fs, t)
      BY <1>6, <2>6 DEF NewDoes, Mild, StaysValid
    <3>2. \A i \in Inums : t.ents[i] = fs.ents[i] \/ fs.ic[i].lock \in {NULL, p}
      BY <1>3, <1>6, <2>6, <2>16 DEF NewDoes, Mild, SameEnts
    <3>3. \A i \in Inums : t.ic[i].lock = fs.ic[i].lock \/ (fs.ic[i].lock \in {NULL, p} /\ t.ic[i].lock \in {NULL, p})
      BY <2>15, <2>16
    <3> QED
      BY <3>1, <3>2, <3>3, OthersOf
  <2>18. \A i \in Inums : t.ic[i].lock = p => Keeps(q) = i
    BY <1>1, <1>7, <2>9, <2>15, NoLock
  <2>19. FsOk(fs') /\ Relies(fs', q, p) /\ Others(fs, fs', p)
    BY <2>4, <2>6, <2>11, <2>17
  <2>20. /\ \A i \in Inums : fs'.ic[i].lock = p => Keeps(q) = i
         /\ \A i \in Inums : fs'.ic[i].ref = fs.ic[i].ref + (Holds(q, i) - Holds(pr[p], i))
    BY <2>4, <2>14, <2>18
  <2> QED
    BY <1>3, <2>4, <2>7, <2>10, <2>19, <2>20, PlainStep
<1> QED
  BY <1>9, <1>10, <1>11

-----------------------------------------------------------------------------
(* The image that mkfs leaves, and the invariant.                          *)
LEMMA UncachedIs ==
  ASSUME NEW n \in Nat, NEW e, e = [Uncached EXCEPT !.ref = n]
  PROVE  e \in IcRecs /\ e.ref = n /\ e.valid = FALSE /\ e.lock = NULL
<1>1. FreeInode \in Dinodes
  <2>1. NoBlocks \in [0 .. NDIRECT -> 0 .. NBlocks]
    BY MkfsAssumption DEF NoBlocks
  <2> QED
    BY <2>1 DEF FreeInode, Dinodes
<1>2. PICK u : u = Uncached
  OBVIOUS
<1>3. u \in IcRecs /\ u.ref = 0 /\ u.valid = FALSE /\ u.lock = NULL
  BY <1>1, <1>2 DEF Uncached, IcRecs
<1>4. e = [u EXCEPT !.ref = n]
  BY <1>2
<1> QED
  BY <1>3, <1>4 DEF IcRecs

\* The file system that Init leaves.
InitIc == [i \in Inums |-> [Uncached EXCEPT !.ref = IF i = Root THEN Cardinality(Procs) ELSE 0]]
InitFs ==
  [dinode |-> Image.dinode, ents |-> Image.ents, ind |-> Image.ind, used |-> Image.used, ic |-> InitIc, panic |-> "no"]

LEMMA ImageTyped ==
  /\ Image.dinode \in [Inums -> Dinodes] /\ Image.ents \in [Inums -> Seq(NamedEnts)]
  /\ Image.ind \in [Blocks -> [0 .. NINDIRECT - 1 -> 0 .. NBlocks]] /\ Image.used \in SUBSET Blocks
<1>1. PICK m \in Disks : m = Image
  BY ImageAssumption
<1>2. /\ m.dinode \in [Inums -> Dinodes] /\ m.ents \in [Inums -> Seq(Dirents)]
      /\ m.ind \in [Blocks -> [0 .. NINDIRECT - 1 -> 0 .. NBlocks]] /\ m.used \in SUBSET Blocks
  BY <1>1 DEF Disks
<1>3. Dirents \subseteq NamedEnts
  <2>1. STRING \subseteq Names
    BY Zenon DEF Names
  <2> QED
    BY <2>1 DEF Dirents, NamedEnts
<1>4. \A i \in Inums : m.ents[i] \in Seq(NamedEnts)
  BY <1>2, <1>3, SeqWider
<1>5. m.ents \in [Inums -> Seq(NamedEnts)]
  BY <1>2, <1>4
<1> QED
  BY <1>1, <1>2, <1>5

LEMMA InitIcIs ==
  /\ InitIc \in [Inums -> IcRecs]
  /\ \A i \in Inums : /\ InitIc[i].ref = (IF i = Root THEN Cardinality(Procs) ELSE 0)
                      /\ InitIc[i].valid = FALSE /\ InitIc[i].lock = NULL
<1>1. Cardinality(Procs) \in Nat
  BY FsAssumption, FS_CardinalityType
<1>2. ASSUME NEW i \in Inums
      PROVE  /\ InitIc[i] \in IcRecs /\ InitIc[i].ref = (IF i = Root THEN Cardinality(Procs) ELSE 0)
             /\ InitIc[i].valid = FALSE /\ InitIc[i].lock = NULL
  <2>1. PICK n \in Nat : n = IF i = Root THEN Cardinality(Procs) ELSE 0
    BY <1>1
  <2>2. InitIc[i] = [Uncached EXCEPT !.ref = n]
    BY <2>1 DEF InitIc
  <2> QED
    BY <2>1, <2>2, UncachedIs
<1>3. InitIc \in [Inums -> IcRecs]
  BY <1>2 DEF InitIc
<1> QED
  BY <1>2, <1>3

LEMMA InitOk ==
  ASSUME NEW s, s = InitFs
  PROVE  FsOk(s)
<1>1. /\ s.dinode = Image.dinode /\ s.ents = Image.ents /\ s.ind = Image.ind /\ s.used = Image.used
      /\ s.ic = InitIc /\ s.panic = "no"
  BY DEF InitFs
<1>2. s \in FsTypes
  BY ImageTyped, InitIcIs DEF InitFs, FsTypes
<1>3. Cached(s)
  <2>1. \A i \in Inums : s.ic[i].valid = FALSE /\ s.ic[i].lock = NULL
    BY <1>1, InitIcIs
  <2>2. \A i \in Inums : s.dinode[i].type # "DIR" => s.ents[i] = <<>>
    BY <1>1, ImageAssumption
  <2>3. \A i \in Inums : Covered(s.dinode[i])
    BY <1>1, ImageAssumption
  <2> QED
    BY <2>1, <2>2, <2>3 DEF Cached
<1>4. NoLoops(s)
  <2> SUFFICES ASSUME NEW S \in SUBSET Inums, S # {} PROVE \E i \in S : \A j \in S : ~Edge(s, i, j)
    BY DEF NoLoops
  <2>1. CASE \E i \in S : i # Root
    <3>1. PICK i \in S : i # Root
      BY <2>1
    <3>2. s.ents[i] = <<>>
      BY <1>1, <3>1, ImageAssumption
    <3>3. \A j \in S : ~Edge(s, i, j)
      BY <3>2 DEF Edge
    <3> QED
      BY <3>3
  <2>2. CASE \A i \in S : i = Root
    <3>1. ~Edge(s, Root, Root)
      BY <1>1, ImageAssumption DEF Edge, Dots
    <3> QED
      BY <2>2, <3>1
  <2> QED
    BY <2>1, <2>2
<1>5. Owned(s)
  <2>1. \A i \in Inums : OwnBlocks(s, s.dinode[i]) = OwnBlocks(Image, Image.dinode[i])
    BY <1>1 DEF OwnBlocks
  <2>2. \A b \in Blocks : b \in Image.used <=> \E i \in Inums : b \in OwnBlocks(Image, Image.dinode[i])
    BY ImageAssumption
  <2>3. \A i, j \in Inums : i # j => OwnBlocks(Image, Image.dinode[i]) \cap OwnBlocks(Image, Image.dinode[j]) = {}
    BY ImageAssumption
  <2>4. \A i \in Inums : Image.dinode[i].type = "FREE" => OwnBlocks(Image, Image.dinode[i]) = {}
    BY ImageAssumption
  <2> QED
    BY <1>1, <2>1, <2>2, <2>3, <2>4 DEF Owned
<1> QED
  BY <1>2, <1>3, <1>4, <1>5 DEF FsOk

LEMMA InitInv ==
  ASSUME Init
  PROVE  FsInv
<1>1. /\ fs = InitFs /\ pr = [p \in Procs |-> Idle] /\ fd = [p \in Procs |-> 0] /\ cwd = [p \in Procs |-> Root]
  BY DEF Init, InitFs, InitIc
<1>2. Root \in Inums /\ 0 \in Nums
  BY MkfsAssumption DEF Root, Inums, Nums
<1>3. fs.ic = InitIc
  BY <1>1 DEF InitFs
<1>4. FsOk(fs)
  BY <1>1, InitOk
<1>5. ProcsOk
  <2>1. pr \in [Procs -> ProcRecs] /\ fd \in [Procs -> Nums] /\ cwd \in [Procs -> Inums]
    BY <1>1, <1>2, IdleIs
  <2>2. \A p \in Procs : ProcOk(pr[p], fd[p]) /\ Relies(fs, pr[p], p)
    BY <1>1, IdleIs
  <2>3. \A i \in Inums : fs.ic[i].lock = NULL
    BY <1>3, InitIcIs
  <2> QED
    BY <2>1, <2>2, <2>3 DEF ProcsOk
<1>6. RefsCounted
  <2> SUFFICES ASSUME NEW i \in Inums PROVE fs.ic[i].ref = Pointers(i)
    BY DEF RefsCounted
  <2>1. i # 0
    BY DEF Inums
  <2>2. Where(fd, i, Procs) = {}
    BY <1>1, <2>1 DEF Where
  <2>3. Where(cwd, i, Procs) = IF i = Root THEN Procs ELSE {}
    BY <1>1 DEF Where
  <2>4. Vars(pr, i, Procs) = {}
    <3>1. \A q \in Procs : pr[q].at # i /\ pr[q].ip # i /\ pr[q].dp # i
      BY <1>1, <2>1, IdleIs
    <3> QED
      BY <3>1 DEF Vars
  <2>5. Puts(pr, i, Procs) = {}
    <3>1. \A q \in Procs : pr[q].puts = <<>>
      BY <1>1 DEF Idle
    <3> QED
      BY <3>1 DEF Puts, PutAt
  <2>6. Cardinality({}) = 0 /\ Cardinality(Procs) \in Nat
    BY FsAssumption, FS_EmptySet, FS_CardinalityType
  <2>7. Points(fd, cwd, pr, i, Procs) = IF i = Root THEN Cardinality(Procs) ELSE 0
    BY <2>2, <2>3, <2>4, <2>5, <2>6 DEF Points
  <2> QED
    BY <1>3, <2>7, InitIcIs, PointersAre
<1> QED
  BY <1>4, <1>5, <1>6 DEF FsInv

LEMMA NextInv ==
  ASSUME FsInv, [Next]_vars
  PROVE  FsInv'
<1>1. CASE UNCHANGED vars
  BY <1>1 DEF vars, FsInv, ProcsOk, RefsCounted, Pointers
<1>2. CASE Next
  <2>1. fs.panic = "no"
    BY <1>2 DEF Next
  <2>2. PICK p \in Procs : Step(p) \/ \E c \in Calls : Begin(p, c)
    BY <1>2 DEF Next
  <2>3. CASE \E c \in Calls : Begin(p, c)
    BY <2>3, BeginStep
  <2>4. CASE Step(p)
    BY <2>1, <2>4, WalkStep, WalkedStep, IputStep, IputDropStep, OpenFoundStep, ChdirStep, LinkOldStep, LinkNewStep,
       LinkStep, UnlockDpStep, LinkBadStep, UnlinkDpStep, UnlinkIpStep, UnlinkEndStep, CreateStep, ExistsStep, MadeStep,
       WriteStep, EndStep DEF Step
  <2> QED
    BY <2>2, <2>3, <2>4
<1> QED
  BY <1>1, <1>2

\* FsInv holds: every file system call, interleaved with those of the other
\* processes, keeps what the inode cache, the blocks, the directories and the
\* calls in progress rely on.
THEOREM FsInvariant == Spec => []FsInv
<1>1. Init => FsInv
  BY InitInv
<1>2. FsInv /\ [Next]_vars => FsInv'
  BY NextInv
<1> QED
  BY <1>1, <1>2, PTL DEF Spec

-----------------------------------------------------------------------------
\* The inode cache is right: the reference count of an inode is the number of
\* pointers to it, of open files, current directories and calls in progress,
\* and an entry that is valid and not locked is what is on the disk.
THEOREM CacheIsRight == Spec => []CacheRight
<1>1. FsInv => CacheRight
  BY DEF FsInv, FsOk, Cached, CacheRight, WriteThrough
<1> QED
  BY <1>1, FsInvariant, PTL

\* A process that waits for an inode's lock outside an iput(), with a lock of
\* its own, is unlink(): the inode it waits for is in the directory it has.
LEMMA WaitsDown ==
  ASSUME FsInv, NEW p \in Procs, NEW q \in Procs, WaitsFor(p, q), pr[p].puts = <<>>, pr[q].puts = <<>>, Wants(q) # 0
  PROVE  pr[q].pc = "unlink" /\ pr[q].dp \in Inums /\ Wants(p) = pr[q].dp
<1>1. PICK r : r = pr[p]
  OBVIOUS
<1>2. r \in ProcRecs /\ ProcOk(r, fd[p])
  BY <1>1, Mine
<1>3. Wants(p) \in {0, r.at, r.ip, r.dp}
  BY <1>1, Zenon DEF Wants
<1>4. r.at \in Nums /\ r.ip \in Nums /\ r.dp \in Nums /\ Wants(p) # 0
  BY <1>2, ProcFields DEF WaitsFor
<1>5. PICK i \in Inums : i = Wants(p)
  BY <1>3, <1>4, NumIs
<1>6. Keeps(pr[q]) = i
  BY <1>5, OwnLock DEF WaitsFor
<1>7. PICK o : o = pr[q]
  OBVIOUS
<1>8. o \in ProcRecs /\ ProcOk(o, fd[q])
  BY <1>7, Mine
<1>9. o.pc \in {"unlink", "unlock", "unlinked", "made"} /\ i # 0
  BY <1>6, <1>7 DEF Keeps, Inums
<1>10. o.pc = "unlink"
  <2>1. o.pc \in {"unlock", "unlinked", "made"} => Wants(q) = 0
    BY <1>7 DEF Wants
  <2> QED
    BY <1>9, <2>1
<1>11. o.dp = i
  BY <1>6, <1>7, <1>10 DEF Keeps
<1> QED
  BY <1>5, <1>7, <1>10, <1>11

LEMMA NoCircle ==
  ASSUME FsInv
  PROVE  LockOrder
<1> SUFFICES ASSUME NEW S \in (SUBSET Procs) \ {{}}, \A p \in S : \E q \in S : WaitsFor(p, q)
             PROVE  \E p \in S : pr[p].puts # <<>>
  BY DEF LockOrder
<1> SUFFICES ASSUME \A p \in S : pr[p].puts = <<>> PROVE FALSE
  OBVIOUS
<1>1. \A p \in S : Wants(p) # 0
  BY DEF WaitsFor
<1> DEFINE D == {i \in Inums : \E p \in S : pr[p].pc = "unlink" /\ pr[p].dp = i}
<1>2. ASSUME NEW p \in S PROVE Wants(p) \in D
  <2>1. PICK q \in S : WaitsFor(p, q)
    OBVIOUS
  <2>2. pr[q].pc = "unlink" /\ pr[q].dp \in Inums /\ Wants(p) = pr[q].dp
    BY <1>1, <2>1, WaitsDown
  <2> QED
    BY <2>2
<1>3. D # {} /\ D \in SUBSET Inums
  <2>0. S # {}
    OBVIOUS
  <2>1. PICK p : p \in S
    BY <2>0
  <2>2. Wants(p) \in D
    BY <1>2, <2>1
  <2> QED
    BY <2>2
<1>4. NoLoops(fs)
  BY DEF FsInv, FsOk
<1>5. PICK i \in D : \A j \in D : ~Edge(fs, i, j)
  BY <1>3, <1>4 DEF NoLoops
<1>6. PICK p \in S : pr[p].pc = "unlink" /\ pr[p].dp = i
  BY <1>5
<1>7. PICK r : r = pr[p]
  OBVIOUS
<1>8. r \in ProcRecs /\ ProcOk(r, fd[p]) /\ Relies(fs, r, p) /\ fs \in FsTypes
  BY <1>7, Mine
<1>9. r.ip # 0 /\ r.elems[1] \notin Dots /\ Lookup(fs, i, r.elems[1]) = r.ip
  BY <1>6, <1>7, <1>8 DEF ProcOk, Relies
<1>10. Edge(fs, i, r.ip)
  BY <1>5, <1>8, <1>9, LookupIs
<1>11. Wants(p) = r.ip
  BY <1>6, <1>7 DEF Wants
<1>12. r.ip \in D
  BY <1>2, <1>11
<1> QED
  BY <1>5, <1>10, <1>12

\* No processes wait in a circle for each other's inode locks unless one of
\* them is in an iput(): ilock() goes from a directory to what is in it, and
\* directories have no circles.
THEOREM NoLockCycle == Spec => []LockOrder
<1>1. FsInv => LockOrder
  BY NoCircle
<1> QED
  BY <1>1, FsInvariant, PTL

LEMMA OwnedBlocks ==
  ASSUME FsInv
  PROVE  BlocksOwned
<1>1. Owned(fs) /\ fs \in FsTypes
  BY DEF FsInv, FsOk
<1> DEFINE A == {j \in Inums : Allocated(j)}
           own == [i \in A |-> OwnBlocks(fs, fs.dinode[i])]
<1>2. \A i, j \in A : i < j => own[i] \cap own[j] = {}
  <2> SUFFICES ASSUME NEW i \in A, NEW j \in A, i < j PROVE own[i] \cap own[j] = {}
    OBVIOUS
  <2>1. i # j
    BY DEF Inums
  <2> QED
    BY <1>1, <2>1 DEF Owned
<1>3. \A i \in Inums : OwnBlocks(fs, fs.dinode[i]) # {} => i \in A
  BY <1>1 DEF Owned, Allocated
<1>4. fs.used = UNION {own[i] : i \in A}
  <2>1. ASSUME NEW b \in fs.used PROVE b \in UNION {own[i] : i \in A}
    <3>1. b \in Blocks
      BY <1>1, Typed
    <3>2. PICK i \in Inums : b \in OwnBlocks(fs, fs.dinode[i])
      BY <1>1, <3>1 DEF Owned
    <3>3. i \in A /\ b \in own[i]
      BY <1>3, <3>2
    <3> QED
      BY <3>3
  <2>2. ASSUME NEW b \in UNION {own[i] : i \in A} PROVE b \in fs.used
    <3>1. PICK i \in A : b \in own[i]
      OBVIOUS
    <3>2. own[i] \subseteq fs.used
      BY UsedIs DEF FsInv
    <3> QED
      BY <3>1, <3>2
  <2> QED
    BY <2>1, <2>2
<1>5. DOMAIN own = A
  OBVIOUS
<1> QED
  BY <1>2, <1>4, <1>5 DEF BlocksOwned

\* Every block in use belongs to one inode, as data or as its indirect block,
\* and no block of an inode is free, however balloc(), bmap(), itrunc() and
\* the last iput() of several processes follow each other.
THEOREM BlocksAreOwned == Spec => []BlocksOwned
<1>1. FsInv => BlocksOwned
  BY OwnedBlocks
<1> QED
  BY <1>1, FsInvariant, PTL

=============================================================================
