-------------------------------- MODULE Mkfs --------------------------------
(***************************************************************************)
(* The file system image of mkfs.c: the inodes, the content of directories *)
(* and of indirect blocks, and the bitmap that fs.c starts from.           *)
(*                                                                         *)
(* Blocks are the data blocks.  Files and directories are counted in       *)
(* records, EPB of them in a block: a directory entry is one record, and   *)
(* the content of the records of other files is left out.                  *)
(***************************************************************************)
EXTENDS Integers, Sequences, SequencesExt

CONSTANTS NInodes, NBlocks, NDIRECT, NINDIRECT, EPB,
          Files     \* mkfs's arguments: a sequence of [name, size]

ASSUME MkfsAssumption ==
  /\ NInodes \in Nat \ {0} /\ NBlocks \in Nat /\ EPB \in Nat \ {0}
  /\ NDIRECT \in Nat \ {0} /\ NINDIRECT \in Nat

Inums == 1 .. NInodes
Blocks == 1 .. NBlocks
Root == 1
NoBlocks == [k \in 0 .. NDIRECT |-> 0]
NoIndirect == [k \in 0 .. NINDIRECT - 1 |-> 0]
FreeInode == [type |-> "FREE", nlink |-> 0, size |-> 0, addrs |-> NoBlocks]
Dirent(name, inum) == [name |-> name, inum |-> inum]

\* The image before anything is in it.
Zeroes == [dinode |-> [i \in Inums |-> FreeInode], ents |-> [i \in Inums |-> <<>>],
           ind |-> [b \in Blocks |-> NoIndirect], freeinode |-> Root, freeblock |-> 1]

\* ialloc(): the next inode, with one link.
MkInode(m, type) ==
  [m EXCEPT !.dinode[m.freeinode] = [FreeInode EXCEPT !.type = type, !.nlink = 1],
            !.freeinode = @ + 1]

\* iappend() of one record: the block it falls in is made if it is new.
Append1(m, i) ==
  LET d == m.dinode[i]
      fbn == d.size \div EPB
      direct == IF fbn < NDIRECT THEN fbn ELSE NDIRECT
      new == d.addrs[direct] = 0
      a == IF new THEN m.freeblock ELSE d.addrs[direct]
      free == IF new THEN m.freeblock + 1 ELSE m.freeblock
      m1 == [m EXCEPT !.dinode[i].addrs[direct] = a, !.dinode[i].size = @ + 1, !.freeblock = free]
  IN  IF fbn < NDIRECT \/ m1.ind[a][fbn - NDIRECT] # 0 THEN m1
      ELSE [m1 EXCEPT !.ind[a][fbn - NDIRECT] = free, !.freeblock = free + 1]

AppendDirent(m, de) == [Append1(m, Root) EXCEPT !.ents[Root] = Append(@, de)]

\* One round of the loop over the arguments.
AddFile(m, f) ==
  LET i == m.freeinode
      m1 == AppendDirent(MkInode(m, "FILE"), Dirent(f.name, i))
  IN  FoldLeft(LAMBDA x, k : Append1(x, i), m1, [k \in 1 .. f.size |-> k])

\* main(): the root, the files, the size of the root fixed to whole blocks
\* and the bitmap.
Image ==
  LET dots == AppendDirent(AppendDirent(MkInode(Zeroes, "DIR"), Dirent(".", Root)), Dirent("..", Root))
      m == FoldLeft(AddFile, dots, Files)
      size == (m.dinode[Root].size \div EPB + 1) * EPB
  IN  [dinode |-> [m.dinode EXCEPT ![Root].size = size],
       ents |-> [m.ents EXCEPT ![Root] = @ \o [k \in 1 .. size - Len(@) |-> Dirent("", 0)]],
       ind |-> m.ind,
       used |-> 1 .. m.freeblock - 1]
=============================================================================
