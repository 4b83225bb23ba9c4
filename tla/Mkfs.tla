-------------------------------- MODULE Mkfs --------------------------------
(***************************************************************************)
(* The disk that xv6/mkfs/mkfs.c makes: the root directory and the files   *)
(* it is given, with their blocks.  Blocks are numbered from the first     *)
(* that is no metadata (nmeta is block 1 here); a directory entry has the  *)
(* size of a byte.                                                         *)
(***************************************************************************)
EXTENDS Integers, Sequences, FiniteSets, FiniteSetsExt, SequencesExt

CONSTANTS
  Inode,                \* strings; the ends of the one pipe are "r" and "w"
  root,                 \* ROOTINO
  Files,                \* the arguments: [inum, size] of each file
  NBlocks,              \* data blocks of the disk
  BSIZE, NDIRECT, NINDIRECT

Block == 1 .. NBlocks
MAXFILE == NDIRECT + NINDIRECT
Zero == "zero"
Entry == "entry"
Given == "given"     \* a byte of a file that mkfs was given

(* The entries of the root must not fill its last block: its size is then  *)
(* rounded up to a block that it does not have.                            *)
ASSUME MkfsAssumption ==
  /\ {NBlocks, BSIZE, NDIRECT, NINDIRECT} \subseteq Nat \ {0}
  /\ root \in Inode /\ \A k \in DOMAIN Files : Files[k].inum \in Inode \ {root}
  /\ (2 + Len(Files)) % BSIZE # 0

Bytes == [k \in 0 .. BSIZE - 1 |-> Zero]
NoPtrs == [k \in 0 .. NINDIRECT - 1 |-> 0]

(* Zeroes everywhere, inodes included: there is nothing for ialloc to do   *)
(* but to count.                                                           *)
Blank == [size |-> [i \in Inode |-> 0],
          addrs |-> [i \in Inode |-> [k \in 0 .. NDIRECT |-> 0]],
          used |-> {}, log |-> {},
          data |-> [b \in Block |-> Bytes], ind |-> [b \in Block |-> NoPtrs]]

(* iappend: ip->addrs[k], and entry k of the indirect block, are given an  *)
(* address if they have none.                                              *)
direct(m, i, k) ==
  IF m.d.addrs[i][k] # 0 THEN m
  ELSE [m EXCEPT !.d.addrs[i][k] = m.freeblock, !.freeblock = @ + 1]
indirect(m, i, k) ==
  LET ib == m.d.addrs[i][NDIRECT] IN
  IF m.d.ind[ib][k] # 0 THEN m
  ELSE [m EXCEPT !.d.ind[ib][k] = m.freeblock, !.freeblock = @ + 1]

Placed(m, i, fbn) ==
  IF fbn < NDIRECT THEN direct(m, i, fbn)
  ELSE indirect(direct(m, i, NDIRECT), i, fbn - NDIRECT)

(* n1 bytes v are put into block fbn, once it has an address. *)
put_block(m, i, fbn, n1, v) ==
  LET x == IF fbn < NDIRECT THEN m.d.addrs[i][fbn]
           ELSE m.d.ind[m.d.addrs[i][NDIRECT]][fbn - NDIRECT]
      at == m.d.size[i] - fbn * BSIZE
  IN [m EXCEPT !.d.size[i] = @ + n1,
               !.d.data[x] = [k \in 0 .. BSIZE - 1 |->
                  IF k \in at .. at + n1 - 1 THEN v ELSE @[k]]]

(* The turn of its loop that puts the next bytes v into one block. *)
append_block(w, i, v) ==
  LET off == w.m.d.size[i]  fbn == off \div BSIZE
      n1 == Min({w.n, (fbn + 1) * BSIZE - off})
  IN IF w.n = 0 THEN w
     ELSE [m |-> put_block(Placed(w.m, i, fbn), i, fbn, n1, v), n |-> w.n - n1]

iappend(m, i, v, n) ==
  FoldLeft(LAMBDA w, j : append_block(w, i, v), [m |-> m, n |-> n],
           [j \in 1 .. n |-> j]).m

(* A file: its entry in the root, then its content. *)
AddFile(m, f) == iappend(iappend(m, root, Entry, 1), f.inum, Given, f.size)

(* balloc(freeblock): the bitmap. *)
Bitmap(m) == 1 .. m.freeblock - 1

RootSize(size) == (size \div BSIZE + 1) * BSIZE

Finished(m) == [m.d EXCEPT !.size[root] = RootSize(@), !.used = Bitmap(m)]

(* main: "." and "..", the files, the size of the root, the bitmap. *)
Image ==
  Finished(FoldLeft(AddFile,
    iappend([d |-> Blank, freeblock |-> 1], root, Entry, 2), Files))

(* What the image should hold. *)
Shipped == [i \in Inode |->
  IF i = root THEN [k \in 1 .. RootSize(2 + Len(Files)) |->
                      IF k <= 2 + Len(Files) THEN Entry ELSE Zero]
  ELSE [k \in 1 .. Max({0} \cup {Files[j].size : j \in {j \in DOMAIN Files : Files[j].inum = i}})
          |-> Given]]
=============================================================================
