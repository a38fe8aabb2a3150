--------------------------------- MODULE Fs ---------------------------------
(***************************************************************************)
(* Inodes, directories and path names: fs.c and the calls of sysfile.c     *)
(* that use them.                                                          *)
(*                                                                         *)
(* fs is the file system: the inodes, directories, indirect blocks and the *)
(* bitmap as the buffer cache has them (modules Bio and Log see to disk    *)
(* and crash), and ic, the inode cache.  The functions of fs.c are         *)
(* operators from one fs to the next.  A section under an inode's sleep    *)
(* lock is one step unless it asks for another such lock; a lock held from *)
(* one step to the next is in ic[i].lock.  The cache is indexed by inode   *)
(* number: an entry with no reference is not in the cache.                 *)
(***************************************************************************)
EXTENDS Mkfs, FiniteSets

CONSTANTS Procs, NULL,
          NINODE,   \* entries of the inode cache
          Calls,    \* the system calls that processes make
          MaxCalls  \* bound on their number

CallNames == {"open", "create", "mkdir", "mknod", "link", "unlink", "chdir", "write", "close"}

ASSUME FsAssumption ==
  /\ IsFiniteSet(Procs) /\ NULL \notin Procs /\ NINODE \in Nat
  /\ \A c \in Calls :
       /\ c.op \in CallNames /\ c.path.elems \in Seq(STRING)
       /\ c.op = "link" => c.new.elems \in Seq(STRING)

\* struct dinode, struct dirent, and what is on a disk.
Dinodes == [type : {"FREE", "FILE", "DIR", "DEV"}, nlink : Int, size : Nat, addrs : [0 .. NDIRECT -> 0 .. NBlocks]]
Dirents == [name : STRING, inum : 0 .. NInodes]
Disks == [dinode : [Inums -> Dinodes], ents : [Inums -> Seq(Dirents)],
          ind : [Blocks -> [0 .. NINDIRECT - 1 -> 0 .. NBlocks]], used : SUBSET Blocks]

\* The blocks that an inode points to, through its indirect block too, and
\* that every record below its size has one.
OwnBlocks(s, d) ==
  LET a == d.addrs[NDIRECT] IN
  ({d.addrs[k] : k \in 0 .. NDIRECT}
     \cup (IF a = 0 THEN {} ELSE {s.ind[a][k] : k \in 0 .. NINDIRECT - 1})) \ {0}

Covered(d) == \A n \in 0 .. NDIRECT : n * EPB < d.size => d.addrs[n] # 0

\* What mkfs was given has room on its disk, and the entries of the root do
\* not fill their last block: mkfs counts a block more then, which it does not
\* make.
ASSUME ImageAssumption ==
  /\ Image \in Disks
  /\ \A i \in Inums : Covered(Image.dinode[i]) /\ (i # Root => Image.ents[i] = <<>>)
  /\ Image.dinode[Root].type = "DIR"
  /\ \A k \in DOMAIN Image.ents[Root] : Image.ents[Root][k].inum = Root => Image.ents[Root][k].name \in {".", ".."}
  /\ \A i, j \in Inums : i # j => OwnBlocks(Image, Image.dinode[i]) \cap OwnBlocks(Image, Image.dinode[j]) = {}
  /\ \A i \in Inums : Image.dinode[i].type = "FREE" => OwnBlocks(Image, Image.dinode[i]) = {}
  /\ Image.used = UNION {OwnBlocks(Image, Image.dinode[i]) : i \in Inums}

VARIABLES fs,
          pr,       \* where a process is in its call
          fd,       \* the inode of its open file, or 0
          cwd,
          calls     \* calls begun

vars == <<fs, pr, fd, cwd, calls>>

\* panic(): because the disk or a table is full, because an inode has no type,
\* or because something else is wrong.
Full(s) == [s EXCEPT !.panic = "full"]
PanicIf(s, cond) == IF cond THEN [s EXCEPT !.panic = "bug"] ELSE s
Lowest(S) == CHOOSE x \in S : \A y \in S : x <= y

-----------------------------------------------------------------------------
\* balloc(), bfree().
FreeBlock(s) == IF s.used = Blocks THEN 0 ELSE Lowest(Blocks \ s.used)
Balloc(s) ==
  IF s.used = Blocks THEN Full(s)
  ELSE [s EXCEPT !.used = @ \cup {FreeBlock(s)}, !.ind[FreeBlock(s)] = NoIndirect]

Iupdate(s, i) == [s EXCEPT !.dinode[i] = s.ic[i].d]

\* One link more, or less.
AddLink(s, i) == Iupdate([s EXCEPT !.ic[i].d.nlink = @ + 1], i)

DropLink(s, i) == Iupdate([s EXCEPT !.ic[i].d.nlink = @ - 1], i)

Uncached == [ref |-> 0, valid |-> FALSE, lock |-> NULL, d |-> FreeInode]

IgetUncounted(s, i) == IF s.ic[i].ref > 0 THEN s ELSE [s EXCEPT !.ic[i].ref = 1]

\* iget(), which panics when it needs an entry and has none, and idup().
InUse(s) == {j \in Inums : s.ic[j].ref > 0}
Iget(s, i) ==
  LET t == [s EXCEPT !.ic[i].ref = @ + 1]
  IN  IF i \notin InUse(s) /\ Cardinality(InUse(s)) >= NINODE THEN Full(t) ELSE t

\* ialloc(), and the number of the inode it takes.
NewInum(s) == Lowest({i \in Inums : s.dinode[i].type = "FREE"} \cup {NInodes + 1})
Ialloc(s, type) == Iget([s EXCEPT !.dinode[NewInum(s)] = [FreeInode EXCEPT !.type = type]], NewInum(s))

\* What ilock() does once it has the lock; Lock keeps it.
Ilock(s, i) ==
  LET c == s.ic[i]
      t == [s EXCEPT !.ic[i].valid = TRUE, !.ic[i].d = IF c.valid THEN @ ELSE s.dinode[i]]
  IN  IF ~c.valid /\ s.dinode[i].type = "FREE" /\ c.ref > 0 THEN [t EXCEPT !.panic = "type"]
      ELSE PanicIf(t, c.ref < 1)
Lock(s, i, p) == [Ilock(s, i) EXCEPT !.ic[i].lock = p]
Iunlock(s, i) == PanicIf([s EXCEPT !.ic[i].lock = NULL], s.ic[i].ref < 1)

\* bmap(), for its effect.
Bmap(s, i, bn) ==
  LET a == s.ic[i].d.addrs
      slot == IF bn < NDIRECT THEN bn ELSE NDIRECT
      s1 == IF a[slot] # 0 THEN s ELSE [Balloc(s) EXCEPT !.ic[i].d.addrs[slot] = FreeBlock(s)]
      b == s1.ic[i].d.addrs[NDIRECT]
  IN  IF bn < NDIRECT \/ s1.panic # "no" \/ s1.ind[b][bn - NDIRECT] # 0 THEN s1
      ELSE [Balloc(s1) EXCEPT !.ind[b][bn - NDIRECT] = FreeBlock(s1)]

ItruncDirect(s, i) ==
  Iupdate([s EXCEPT !.used = @ \ {s.ic[i].d.addrs[k] : k \in 0 .. NDIRECT},
                    !.ic[i].d.addrs = NoBlocks, !.ic[i].d.size = 0, !.ents[i] = <<>>], i)

\* itrunc(): bfree() of every block, which panics on one that is free.
Itrunc(s, i) ==
  LET own == OwnBlocks(s, s.ic[i].d) IN
  Iupdate(PanicIf([s EXCEPT !.used = @ \ own, !.ents[i] = <<>>,
                            !.ic[i].d = [@ EXCEPT !.addrs = NoBlocks, !.size = 0]],
                  ~(own \subseteq s.used)), i)

\* writei() of one record at off; Fits is its check of the range.
MAXFILE == (NDIRECT + NINDIRECT) * EPB
Fits(s, i, off) == off <= s.ic[i].d.size /\ off < MAXFILE
Writei(s, i, off) ==
  LET s1 == Bmap(s, i, off \div EPB)
  IN  IF off < s1.ic[i].d.size THEN s1 ELSE Iupdate([s1 EXCEPT !.ic[i].d.size = off + 1], i)

\* dirlookup(): the offset of a name (from 1, or 0) and its inode.
Entry(s, dp, name) ==
  LET at == {k \in DOMAIN s.ents[dp] : s.ents[dp][k].inum # 0 /\ s.ents[dp][k].name = name}
  IN  IF at = {} THEN 0 ELSE Lowest(at)
Lookup(s, dp, name) == IF Entry(s, dp, name) = 0 THEN 0 ELSE s.ents[dp][Entry(s, dp, name)].inum

\* dirlink() of a name that is not there: the first free entry, or a new one.
Dirlink(s, dp, name, inum) ==
  LET k == Lowest({k \in DOMAIN s.ents[dp] : s.ents[dp][k].inum = 0} \cup {Len(s.ents[dp]) + 1})
      e == s.ents[dp]
  IN  IF ~Fits(s, dp, k - 1) THEN Full(s)
      ELSE [Writei(s, dp, k - 1) EXCEPT !.ents[dp] = [j \in 1 .. (IF k > Len(e) THEN k ELSE Len(e)) |->
                                                        IF j = k THEN Dirent(name, inum) ELSE e[j]]]

\* isdirempty(): the entries after "." and "..".
IsDirEmpty(s, dp) == \A k \in DOMAIN s.ents[dp] : k > 2 => s.ents[dp][k].inum = 0

-----------------------------------------------------------------------------
\* at is the inode that namex() has reached, elems the rest of the path,
\* puts the inodes to iput() before the next step of the call, and drop says
\* that the first of them has only its reference to give back.
Idle == [pc |-> "idle", call |-> NULL, at |-> 0, elems |-> <<>>, parent |-> FALSE,
         ip |-> 0, dp |-> 0, puts |-> <<>>, drop |-> FALSE]

Init ==
  /\ fs = [dinode |-> Image.dinode, ents |-> Image.ents, ind |-> Image.ind, used |-> Image.used,
           ic |-> [i \in Inums |-> [Uncached EXCEPT !.ref = IF i = Root THEN Cardinality(Procs) ELSE 0]],
           panic |-> "no"]
  /\ pr = [p \in Procs |-> Idle]
  /\ fd = [p \in Procs |-> 0]
  /\ cwd = [p \in Procs |-> Root]
  /\ calls = 0

To(p, s, r) == fs' = s /\ pr' = [pr EXCEPT ![p] = r]
At(p, pc) == pr[p].pc = pc /\ pr[p].puts = <<>>
Free(i) == fs.ic[i].lock = NULL

Creates(c) == c.op \in {"create", "mkdir", "mknod"}
TypeOf(c) == CASE c.op = "create" -> "FILE" [] c.op = "mkdir" -> "DIR" [] c.op = "mknod" -> "DEV"

\* namex() of a path from the root or the current directory.
Namex(p, r, path, parent) ==
  LET i == IF path.root THEN Root ELSE cwd[p]
  IN  To(p, Iget(fs, i), [r EXCEPT !.pc = "walk", !.at = i, !.elems = path.elems, !.parent = parent])

\* A call begins, with begin_op().
Begin(p, c) ==
  LET r == [Idle EXCEPT !.call = c] IN
  /\ At(p, "idle") /\ calls < MaxCalls
  /\ calls' = calls + 1
  /\ c.op \in {"close", "write"} => fd[p] # 0
  /\ c.op \in {"open", "create"} => fd[p] = 0
  /\ IF c.op = "close"
     THEN To(p, fs, [r EXCEPT !.pc = "end", !.puts = <<fd[p]>>]) /\ fd' = [fd EXCEPT ![p] = 0]
     ELSE /\ IF c.op = "write" THEN To(p, fs, [r EXCEPT !.pc = "write"])
             ELSE Namex(p, r, c.path, Creates(c) \/ c.op = "unlink")
          /\ UNCHANGED fd
  /\ UNCHANGED cwd

\* Where a call goes when namex() returns 0.
Missed(r) == IF r.pc = "walk" /\ r.call.op = "link" /\ r.parent THEN "bad" ELSE "end"

\* One round of the loop of namex(), under the lock of the directory.
Walk(p) ==
  LET r == pr[p]
      s == Ilock(fs, r.at)
      next == Lookup(s, r.at, Head(r.elems))
  IN
  /\ At(p, "walk") /\ r.elems # <<>> /\ Free(r.at)
  /\ IF s.ic[r.at].d.type # "DIR"
     THEN To(p, s, [r EXCEPT !.pc = Missed(r), !.at = 0, !.puts = <<r.at>>])
     ELSE IF r.parent /\ Len(r.elems) = 1
     THEN To(p, s, [r EXCEPT !.pc = "parent", !.at = 0, !.dp = r.at])
     ELSE IF next = 0
     THEN To(p, s, [r EXCEPT !.pc = Missed(r), !.at = 0, !.puts = <<r.at>>])
     ELSE To(p, Iget(s, next), [r EXCEPT !.at = next, !.elems = Tail(@), !.puts = <<r.at>>])
  /\ UNCHANGED <<fd, cwd>>

\* The end of namex().
Walked(p) ==
  LET r == pr[p] IN
  /\ At(p, "walk") /\ r.elems = <<>>
  /\ To(p, fs, IF r.parent THEN [r EXCEPT !.pc = Missed(r), !.at = 0, !.puts = <<r.at>>]
               ELSE [r EXCEPT !.pc = "found", !.at = 0, !.ip = r.at])
  /\ UNCHANGED <<fd, cwd>>

\* iput() up to the release of the sleep lock.
LastLink(c) == c.valid /\ c.d.nlink = 0

LastRef(c) == c.valid /\ c.d.nlink = 0 /\ c.ref = 1
Ifree(s, i) == [Iupdate([Itrunc(s, i) EXCEPT !.ic[i].d.type = "FREE"], i) EXCEPT !.ic[i].valid = FALSE]

Iput(p) ==
  LET r == pr[p]
      i == Head(r.puts)
  IN
  /\ r.puts # <<>> /\ ~r.drop /\ Free(i)
  /\ To(p, IF LastRef(fs.ic[i]) THEN Ifree(fs, i) ELSE fs, [r EXCEPT !.drop = TRUE])
  /\ UNCHANGED <<fd, cwd>>

\* ip->ref--, under icache.lock.
Unref(c) == IF c.ref = 1 THEN Uncached ELSE [c EXCEPT !.ref = @ - 1]

IputDrop(p) ==
  LET r == pr[p] IN
  /\ r.puts # <<>> /\ r.drop
  /\ To(p, [fs EXCEPT !.ic[Head(r.puts)] = Unref(@)], [r EXCEPT !.puts = Tail(@), !.drop = FALSE])
  /\ UNCHANGED <<fd, cwd>>

-----------------------------------------------------------------------------
\* A call is done with its inode: open() keeps it in a file, unless
\* filealloc() or fdalloc() fails.
Keep(p, s, opens) ==
  LET r == pr[p] IN
  \/ /\ opens
     /\ To(p, s, [r EXCEPT !.pc = "end", !.ip = 0])
     /\ fd' = [fd EXCEPT ![p] = r.ip]
  \/ /\ To(p, s, [r EXCEPT !.pc = "end", !.ip = 0, !.puts = <<r.ip>>])
     /\ UNCHANGED fd

\* open() without O_CREATE, from ilock(ip) on.
OpenFound(p) ==
  LET r == pr[p]
      s == Ilock(fs, r.ip)
  IN
  /\ At(p, "found") /\ r.call.op = "open" /\ Free(r.ip)
  /\ Keep(p, s, s.ic[r.ip].d.type # "DIR" \/ ~r.call.write)
  /\ UNCHANGED cwd

Chdir(p) ==
  LET r == pr[p]
      s == Ilock(fs, r.ip)
      dir == s.ic[r.ip].d.type = "DIR"
  IN
  /\ At(p, "found") /\ r.call.op = "chdir" /\ Free(r.ip)
  /\ To(p, s, [r EXCEPT !.pc = "end", !.ip = 0, !.puts = <<IF dir THEN cwd[p] ELSE r.ip>>])
  /\ cwd' = IF dir THEN [cwd EXCEPT ![p] = r.ip] ELSE cwd
  /\ UNCHANGED fd

LinkOldKeeps(p) ==
  LET r == pr[p] IN
  /\ At(p, "found") /\ r.call.op = "link" /\ Free(r.ip)
  /\ To(p, [AddLink(Ilock(fs, r.ip), r.ip) EXCEPT !.ic[r.ip].lock = p], [r EXCEPT !.pc = "linked"])
  /\ UNCHANGED <<fd, cwd>>

\* link(): one more link of ip, then the directory of the new name.
LinkOld(p) ==
  LET r == pr[p]
      s == Ilock(fs, r.ip)
  IN
  /\ At(p, "found") /\ r.call.op = "link" /\ Free(r.ip)
  /\ IF s.ic[r.ip].d.type = "DIR"
     THEN To(p, s, [r EXCEPT !.pc = "end", !.ip = 0, !.puts = <<r.ip>>])
     ELSE To(p, AddLink(s, r.ip), [r EXCEPT !.pc = "linked"])
  /\ UNCHANGED <<fd, cwd>>

LinkNew(p) ==
  /\ At(p, "linked")
  /\ Namex(p, pr[p], pr[p].call.new, TRUE)
  /\ UNCHANGED <<fd, cwd>>

\* dirlink() into dp, which puts the inode of a name that is there already,
\* with dp locked.
Link(p) ==
  LET r == pr[p]
      s == Ilock(fs, r.dp)
      name == r.elems[1]
      old == Lookup(s, r.dp, name)
  IN
  /\ At(p, "parent") /\ r.call.op = "link" /\ Free(r.dp)
  /\ IF old = 0
     THEN To(p, Dirlink(s, r.dp, name, r.ip), [r EXCEPT !.pc = "end", !.ip = 0, !.dp = 0, !.puts = <<r.dp, r.ip>>])
     ELSE To(p, Iget(Lock(fs, r.dp, p), old), [r EXCEPT !.pc = "unlock", !.puts = <<old>>])
  /\ UNCHANGED <<fd, cwd>>

\* iunlockput(dp) on a way that fails.
UnlockDp(p) ==
  LET r == pr[p] IN
  /\ At(p, "unlock")
  /\ To(p, Iunlock(fs, r.dp), [r EXCEPT !.pc = IF r.call.op = "link" THEN "bad" ELSE "end",
                                        !.dp = 0, !.puts = <<r.dp>>])
  /\ UNCHANGED <<fd, cwd>>

\* bad: takes the link back.
LinkBad(p) ==
  LET r == pr[p]
      s == Ilock(fs, r.ip)
  IN
  /\ At(p, "bad") /\ Free(r.ip)
  /\ To(p, DropLink(s, r.ip),
        [r EXCEPT !.pc = "end", !.ip = 0, !.puts = <<r.ip>>])
  /\ UNCHANGED <<fd, cwd>>

\* unlink(), under the lock of dp up to the lock of ip.
UnlinkDp(p) ==
  LET r == pr[p]
      name == r.elems[1]
      ip == Lookup(fs, r.dp, name)
  IN
  /\ At(p, "parent") /\ r.call.op = "unlink" /\ Free(r.dp)
  /\ IF name \in {".", ".."} \/ ip = 0
     THEN To(p, Ilock(fs, r.dp), [r EXCEPT !.pc = "end", !.dp = 0, !.puts = <<r.dp>>])
     ELSE To(p, Iget(Lock(fs, r.dp, p), ip), [r EXCEPT !.pc = "unlink", !.ip = ip])
  /\ UNCHANGED <<fd, cwd>>

\* ... up to the iput() of dp, with ip locked.
UnlinkIp(p) ==
  LET r == pr[p]
      s == Lock(fs, r.ip, p)
      d == s.ic[r.ip].d
      s1 == [s EXCEPT !.ents[r.dp][Entry(s, r.dp, r.elems[1])] = Dirent("", 0)]
      s2 == IF d.type = "DIR" THEN DropLink(s1, r.dp) ELSE s1
  IN
  /\ At(p, "unlink") /\ Free(r.ip)
  /\ IF d.type = "DIR" /\ ~IsDirEmpty(s, r.ip)
     THEN To(p, PanicIf(Ilock(fs, r.ip), d.nlink < 1), [r EXCEPT !.pc = "unlock", !.ip = 0, !.puts = <<r.ip>>])
     ELSE To(p, PanicIf(Iunlock(s2, r.dp), d.nlink < 1),
             [r EXCEPT !.pc = "unlinked", !.dp = 0, !.puts = <<r.dp>>])
  /\ UNCHANGED <<fd, cwd>>

UnlinkEnd(p) ==
  LET r == pr[p] IN
  /\ At(p, "unlinked")
  /\ To(p, Iunlock(DropLink(fs, r.ip), r.ip),
        [r EXCEPT !.pc = "end", !.ip = 0, !.puts = <<r.ip>>])
  /\ UNCHANGED <<fd, cwd>>

\* create(): the name is there, or a new inode with its entries is made and
\* stays locked.
MakeDots(s, i, dp) == Dirlink(Dirlink(s, i, ".", i), i, "..", dp)

NewInode(s, c, dp, name, p) ==
  LET i == NewInum(s)
      s1 == Lock(Ialloc(s, TypeOf(c)), i, p)
      s2 == Iupdate([s1 EXCEPT !.ic[i].d.nlink = 1], i)
      s3 == IF c.op = "mkdir" THEN MakeDots(AddLink(s2, dp), i, dp) ELSE s2
  IN  Dirlink(s3, dp, name, i)

Create(p) ==
  LET r == pr[p]
      s == Ilock(fs, r.dp)
      name == r.elems[1]
      old == Lookup(s, r.dp, name)
  IN
  /\ At(p, "parent") /\ Creates(r.call) /\ Free(r.dp)
  /\ IF old # 0
     THEN To(p, Iget(s, old), [r EXCEPT !.pc = "exists", !.ip = old, !.dp = 0, !.puts = <<r.dp>>])
     ELSE IF NewInum(s) > NInodes THEN To(p, Full(s), r)
     ELSE To(p, NewInode(s, r.call, r.dp, name, p),
             [r EXCEPT !.pc = "made", !.ip = NewInum(s), !.dp = 0, !.puts = <<r.dp>>])
  /\ UNCHANGED <<fd, cwd>>

\* What follows create().
Exists(p) ==
  LET r == pr[p]
      s == Ilock(fs, r.ip)
  IN
  /\ At(p, "exists") /\ Free(r.ip)
  /\ Keep(p, s, r.call.op = "create" /\ s.ic[r.ip].d.type = "FILE")
  /\ UNCHANGED cwd

Made(p) ==
  /\ At(p, "made")
  /\ Keep(p, Iunlock(fs, pr[p].ip), pr[p].call.op = "create")
  /\ UNCHANGED cwd

\* filewrite() of one record at an offset that the file has.
Write(p) ==
  LET i == fd[p]
      s == Ilock(fs, i)
  IN
  /\ At(p, "write") /\ Free(i)
  /\ \E off \in 0 .. s.ic[i].d.size :
       To(p, IF s.ic[i].d.type = "FILE" /\ Fits(s, i, off) THEN Writei(s, i, off) ELSE s, Idle)
  /\ UNCHANGED <<fd, cwd>>

\* end_op().
End(p) == At(p, "end") /\ To(p, fs, Idle) /\ UNCHANGED <<fd, cwd>>

Step(p) ==
  \/ Walk(p) \/ Walked(p) \/ Iput(p) \/ IputDrop(p)
  \/ OpenFound(p) \/ Chdir(p) \/ LinkOld(p) \/ LinkNew(p) \/ Link(p) \/ UnlockDp(p) \/ LinkBad(p)
  \/ UnlinkDp(p) \/ UnlinkIp(p) \/ UnlinkEnd(p) \/ Create(p) \/ Exists(p) \/ Made(p) \/ Write(p) \/ End(p)

Next ==
  /\ fs.panic = "no"
  /\ \E p \in Procs : (Step(p) /\ UNCHANGED calls) \/ \E c \in Calls : Begin(p, c)

Spec == Init /\ [][Next]_vars

-----------------------------------------------------------------------------
\* Processes that wait in a circle for each other's inode locks, or for their
\* own: one of them is in an iput() that create(), unlink() or dirlink() calls
\* with another inode locked.  ilock() alone, which goes from a directory to
\* what is in it, never closes a circle.
Wants(p) ==
  LET r == pr[p] IN
  IF r.puts # <<>> THEN IF r.drop THEN 0 ELSE Head(r.puts)
  ELSE CASE r.pc = "walk" /\ r.elems # <<>> -> r.at
         [] r.pc \in {"found", "bad", "exists", "unlink"} -> r.ip
         [] r.pc = "parent" -> r.dp
         [] OTHER -> 0

WaitsFor(p, q) == Wants(p) # 0 /\ fs.ic[Wants(p)].lock = q

LockOrder ==
  \A S \in (SUBSET Procs) \ {{}} :
    (\A p \in S : \E q \in S : WaitsFor(p, q)) => \E p \in S : pr[p].puts # <<>>

\* ip->ref counts the pointers to an inode: open files, current directories
\* and the variables of the calls in progress.
Pointers(i) ==
  Cardinality({p \in Procs : fd[p] = i}) + Cardinality({p \in Procs : cwd[p] = i})
    + Cardinality({x \in Procs \X {"at", "ip", "dp"} : pr[x[1]][x[2]] = i})
    + Cardinality({x \in Procs \X (1 .. 2) : x[2] \in DOMAIN pr[x[1]].puts /\ pr[x[1]].puts[x[2]] = i})

RefsCounted == \A i \in Inums : fs.ic[i].ref = Pointers(i)

\* No panic but for want of room, and for one thing: a ".." of a directory that
\* has been removed still leads to its parent when that is gone too, and then
\* ilock() finds "no type".  Every other name leads to an inode that was not
\* freed: whoever holds a pointer finds the inode allocated, unlink() finds a
\* link to take away, and no block is freed twice.
NoPanic ==
  /\ fs.panic # "bug"
  /\ fs.panic = "type" =>
       \E p \in Procs : pr[p].call # NULL /\ ".." \in ToSet(pr[p].call.path.elems)

Allocated(i) == fs.dinode[i].type # "FREE"

\* Every block in use belongs to one inode, as data or as its indirect
\* block, and no block of an inode is free.
BlocksOwned ==
  LET own == [i \in {j \in Inums : Allocated(j)} |-> OwnBlocks(fs, fs.dinode[i])] IN
  /\ \A i, j \in DOMAIN own : i < j => own[i] \cap own[j] = {}
  /\ fs.used = UNION {own[i] : i \in DOMAIN own}

\* Between transactions, which is what a crash leaves: a directory entry
\* leads to an inode that is allocated and counts it as a link.  "." does not
\* count, nor does ".." in a directory that has been removed, to which no other
\* name leads.
Quiet == \A p \in Procs : pr[p].pc = "idle"
Named(i) ==
  i = Root \/ \E j \in Inums : \E k \in DOMAIN fs.ents[j] :
                fs.ents[j][k].inum = i /\ fs.ents[j][k].name \notin {".", ".."}
Counts(i, name) == name # "." /\ (name = ".." => Named(i))
Entries(i) ==
  {x \in Inums \X (1 .. MAXFILE) :
     /\ Allocated(x[1]) /\ x[2] \in DOMAIN fs.ents[x[1]]
     /\ fs.ents[x[1]][x[2]].inum = i /\ Counts(x[1], fs.ents[x[1]][x[2]].name)}

LinksCounted ==
  Quiet => \A i \in Inums : LET n == Cardinality(Entries(i)) IN
             IF Allocated(i) THEN fs.dinode[i].nlink >= n ELSE n = 0

\* The cache is write-through: an entry that is valid and not locked is what
\* is on the disk.
WriteThrough ==
  \A i \in Inums : fs.ic[i].ref > 0 /\ fs.ic[i].valid /\ fs.ic[i].lock = NULL => fs.ic[i].d = fs.dinode[i]

\* The inode cache, across iget(), ilock(), iupdate() and iput() of several
\* processes.
CacheRight == RefsCounted /\ WriteThrough

\* What a check of the file system would look at: blocks and links.
Consistent == BlocksOwned /\ LinksCounted
=============================================================================
