-------------------------------- MODULE File --------------------------------
(***************************************************************************)
(* Open files (xv6/kernel/file.c and the descriptor calls of sysfile.c)    *)
(* and the content of inodes (the block allocator, bmap, itrunc, readi and *)
(* writei of fs.c): processes that share open files after dup and fork     *)
(* read and write them, with a disk that may be full and user memory that  *)
(* may be bad.  They begin with the disk that mkfs has made.               *)
(*                                                                         *)
(* A step is a critical section of ftable.lock (sys_pipe's two filealloc   *)
(* are one), or what a process does with an inode locked.  How an inode is *)
(* found and freed is in Fs, what a pipe does in Pipe, how a group of      *)
(* writes is committed in Log; here the log is the set of blocks that the  *)
(* last transaction wrote.                                                 *)
(***************************************************************************)
EXTENDS Mkfs

CONSTANTS
  Proc, init,
  NFILE, NOFILE,
  BPB,                  \* blocks per block of the bitmap
  MAXOPBLOCKS,
  Sizes,                \* byte counts of read and write
  MaxCalls              \* bound

Fd == 1 .. NOFILE

ASSUME FileAssumption ==
  /\ init \in Proc /\ Zero \notin Proc
  /\ {NFILE, NOFILE, BPB} \subseteq Nat \ {0}
  /\ {"r", "w"} \cap Inode = {}
  /\ MAXOPBLOCKS \in Nat /\ MAXOPBLOCKS >= 6    \* or filewrite writes nothing
  /\ Sizes \subseteq 1 .. MAXFILE * BSIZE

VARIABLES
  ftable, ofile,
  state,        \* "none", "run" or "exit"
  write,        \* filewrite's n, i and f; n = 0: none under way
  closing,      \* the files each process will call fileclose on
  ends,         \* what it still has to give back in fileclose
  refs,         \* inode references that open files hold
  pipe,         \* the ends of the pipe that are open; {}: it is freed
  fs,           \* inodes, bitmap, blocks, and the log
  content,      \* history: the bytes each inode should have
  calls

vars == <<ftable, ofile, state, write, closing, ends, refs, pipe, fs, content, calls>>
tables == <<ftable, ofile, closing, ends, refs, pipe>>

NoFile == [type |-> "FD_NONE", ref |-> 0, obj |-> "r", off |-> 0]
NoWrite == [n |-> 0, i |-> 0, f |-> 1]

Init ==
  /\ ftable = [f \in 1 .. NFILE |-> NoFile]
  /\ ofile = [p \in Proc |-> [fd \in Fd |-> 0]]
  /\ state = [p \in Proc |-> IF p = init THEN "run" ELSE "none"]
  /\ write = [p \in Proc |-> NoWrite]
  /\ closing = [p \in Proc |-> <<>>] /\ ends = [p \in Proc |-> <<>>]
  /\ refs = [i \in Inode |-> 0]
  /\ pipe = {}
  /\ fs = Image
  /\ content = Shipped
  /\ calls = 0

-----------------------------------------------------------------------------
(* Blocks.  An operation on the disk d that returns a block (0: the disk   *)
(* is full) yields the disk and the block.                                 *)

Logged(d, blocks) == [d EXCEPT !.log = @ \cup blocks]

(* bzero *)
Zeroed(d, b) ==
  Logged([d EXCEPT !.data[b] = Bytes, !.ind[b] = NoPtrs], {<<"data", b>>})

(* Its bit is set, then it is cleared. *)
Taken(d, b) ==
  [d |-> Zeroed(Logged([d EXCEPT !.used = @ \cup {b}],
                       {<<"bitmap", b \div BPB>>}), b),
   addr |-> b]

balloc(d) ==
  IF Block \subseteq d.used THEN [d |-> d, addr |-> 0]
  ELSE Taken(d, Min(Block \ d.used))

(* A new block a is linked as ip->addrs[k], or in the indirect block ib. *)
link_addr(a, i, k) ==
  IF a.addr = 0 THEN a ELSE [a EXCEPT !.d.addrs[i][k] = a.addr]
link_ind(a, ib, k) ==
  IF a.addr = 0 THEN a
  ELSE [a EXCEPT !.d.ind[ib][k] = a.addr, !.d.log = @ \cup {<<"data", ib>>}]

(* ip->addrs[k], and entry k of the indirect block a *)
addr_of(d, i, k) ==
  IF d.addrs[i][k] # 0 THEN [d |-> d, addr |-> d.addrs[i][k]]
  ELSE link_addr(balloc(d), i, k)
ind_of(a, k) ==
  IF a.addr = 0 THEN a
  ELSE IF a.d.ind[a.addr][k] # 0 THEN [a EXCEPT !.addr = a.d.ind[a.addr][k]]
  ELSE link_ind(balloc(a.d), a.addr, k)

bmap(d, i, bn) ==
  IF bn < NDIRECT THEN addr_of(d, i, bn)
  ELSE ind_of(addr_of(d, i, NDIRECT), bn - NDIRECT)

(* The blocks of inode i: data, the indirect block, both. *)
Indirect(d, i) == {d.addrs[i][NDIRECT]} \ {0}
Data(d, i) ==
  ({d.addrs[i][k] : k \in 0 .. NDIRECT - 1}
     \cup UNION {{d.ind[b][k] : k \in DOMAIN d.ind[b]} : b \in Indirect(d, i)})
  \ {0}

(* The blocks itrunc gives back. *)
Freed(d, i) == Data(d, i) \cup Indirect(d, i)

itrunc(d, i) ==
  Logged([d EXCEPT !.used = @ \ Freed(d, i),
                   !.addrs[i] = [k \in 0 .. NDIRECT |-> 0],
                   !.size[i] = 0],
         {<<"inode", i>>} \cup {<<"bitmap", b \div BPB>> : b \in Freed(d, i)})

(* What readi returns for n bytes at off. *)
readi(d, i, off, n) ==
  IF off > d.size[i] THEN 0 ELSE Min({n, d.size[i] - off})

(* Mutant of Full: the block counts as written. *)
MutFull(w, d) == [w EXCEPT !.d = d, !.stop = TRUE, !.tot = @ + 1]
(* writei stops: bmap has no block for it. *)
Full(w, d) == [w EXCEPT !.d = d, !.stop = TRUE]

(* Of m bytes v for block a from `at' on, `copied' are in memory the      *)
(* process may read; either_copyin fails at the first that is not.         *)
copy_in(w, a, at, m, copied, v) ==
  IF a.addr = 0 THEN Full(w, a.d)
  ELSE [w EXCEPT
          !.d = Logged([a.d EXCEPT !.data[a.addr] =
                         [k \in 0 .. BSIZE - 1 |->
                            IF k \in at .. at + copied - 1 THEN v ELSE @[k]]],
                       {<<"data", a.addr>>}),
          !.stop = copied < m,
          !.tot = IF copied < m THEN @ ELSE @ + m,
          !.copied = @ + copied]

(* One turn of writei's loop, w.tot bytes into a write of n bytes v at off, *)
(* of which the first `good` are in memory the process may read.           *)
write_block(w, i, off, n, v, good) ==
  LET at == (off + w.tot) % BSIZE
      m == Min({n - w.tot, BSIZE - at})
  IN IF w.stop THEN w
     ELSE copy_in(w, bmap(w.d, i, (off + w.tot) \div BSIZE), at, m,
                  Min({m, good - w.tot}), v)

(* Mutant of NewSize: the size is that of the request. *)
MutNewSize(size, off, tot, n) == Max({size, off + n})
NewSize(size, off, tot, n) == Max({size, off + tot})

(* The end of writei: the size, and iupdate even if it did not change. *)
iupdated(w, i, off, n) ==
  [d |-> Logged([w.d EXCEPT !.size[i] = NewSize(@, off, w.tot, n)],
                {<<"inode", i>>}),
   tot |-> w.tot, copied |-> w.copied]

(* writei: the disk it leaves, the bytes written, and those copied. *)
writei(d, i, off, n, v, good) ==
  IF off > d.size[i] \/ off + n > MAXFILE * BSIZE
  THEN [d |-> d, tot |-> -1, copied |-> 0]
  ELSE LET last == (off + n - 1) \div BSIZE - off \div BSIZE + 1
           Turn(w, j) == write_block(w, i, off, n, v, good)
       IN iupdated(FoldLeft(Turn,
                     [d |-> d, tot |-> 0, copied |-> 0, stop |-> FALSE],
                     [j \in 1 .. last |-> j]), i, off, n)

-----------------------------------------------------------------------------
(* Open files *)

Settled(p) == write[p].n = 0 /\ closing[p] = <<>> /\ ends[p] = <<>>
Runs(p) == state[p] = "run" /\ Settled(p)
Call(p) == Runs(p) /\ calls < MaxCalls /\ calls' = calls + 1

FreeFiles == {f \in 1 .. NFILE : ftable[f].ref = 0}
FreeFds(p) == {fd \in Fd : ofile[p][fd] = 0}

(* Mutant of Closed: the type stays. *)
MutClosed(e) == [e EXCEPT !.ref = 0]
(* A file once its last reference is gone. *)
Closed(e) == [e EXCEPT !.ref = 0, !.type = "FD_NONE"]

(* The first part of fileclose, and what is left to give back. *)
Dropped(e) == IF e.ref > 1 THEN [e EXCEPT !.ref = @ - 1] ELSE Closed(e)
Released(e) == IF e.ref > 1 \/ e.type = "FD_NONE" THEN <<>> ELSE <<e.obj>>

(* fileclose of the next file on an error path, up to the release of       *)
(* ftable.lock.                                                            *)
fileclose(p) ==
  /\ ends[p] = <<>> /\ closing[p] # <<>>
  /\ LET f == Head(closing[p]) IN
     /\ ftable' = [ftable EXCEPT ![f] = Dropped(@)]
     /\ ends' = [ends EXCEPT ![p] = Released(ftable[f])]
  /\ closing' = [closing EXCEPT ![p] = Tail(@)]
  /\ UNCHANGED <<ofile, state, write, refs, pipe, fs, content, calls>>

(* The rest of fileclose: iput in a transaction of its own, or pipeclose. *)
give_back(p) ==
  /\ ends[p] # <<>>
  /\ LET o == Head(ends[p]) IN
     IF o \in Inode
     THEN refs' = [refs EXCEPT ![o] = @ - 1] /\ UNCHANGED pipe
     ELSE pipe' = pipe \ {o} /\ UNCHANGED refs
  /\ ends' = [ends EXCEPT ![p] = Tail(@)]
  /\ UNCHANGED <<ftable, ofile, state, write, closing, fs, content, calls>>

(* sys_open of inode i, which namei or create has referenced and locked.   *)
(* A file that was allocated in vain is closed before it has a type.       *)
sys_open(p, i, trunc) ==
  /\ Call(p)
  /\ IF FreeFiles = {}
     THEN UNCHANGED <<tables, fs, content>>
     ELSE LET f == Min(FreeFiles)
              e == [ftable[f] EXCEPT !.ref = 1]
          IN IF FreeFds(p) = {}
             THEN /\ ftable' = [ftable EXCEPT ![f] = Dropped(e)]
                  /\ ends' = [ends EXCEPT ![p] = Released(e)]
                  /\ UNCHANGED <<ofile, closing, refs, pipe, fs, content>>
             ELSE /\ ftable' = [ftable EXCEPT ![f] =
                        [type |-> "FD_INODE", ref |-> 1, obj |-> i, off |-> 0]]
                  /\ ofile' = [ofile EXCEPT ![p][Min(FreeFds(p))] = f]
                  /\ refs' = [refs EXCEPT ![i] = @ + 1]
                  /\ fs' = IF trunc /\ i # root THEN itrunc([fs EXCEPT !.log = {}], i) ELSE fs
                  /\ content' = IF trunc /\ i # root THEN [content EXCEPT ![i] = <<>>]
                                         ELSE content
                  /\ UNCHANGED <<closing, ends, pipe>>
  /\ UNCHANGED <<state, write>>

sys_close(p, fd) ==
  /\ Call(p) /\ ofile[p][fd] # 0
  /\ LET f == ofile[p][fd] IN
     /\ ofile' = [ofile EXCEPT ![p][fd] = 0]
     /\ ftable' = [ftable EXCEPT ![f] = Dropped(@)]
     /\ ends' = [ends EXCEPT ![p] = Released(ftable[f])]
  /\ UNCHANGED <<closing, refs, pipe, state, write, fs, content>>

sys_dup(p, fd) ==
  /\ Call(p) /\ ofile[p][fd] # 0 /\ FreeFds(p) # {}
  /\ ofile' = [ofile EXCEPT ![p][Min(FreeFds(p))] = ofile[p][fd]]
  /\ ftable' = [ftable EXCEPT ![ofile[p][fd]].ref = @ + 1]
  /\ UNCHANGED <<closing, ends, refs, pipe, state, write, fs, content>>

(* pipealloc fails: the table has one free file or none, or kalloc has no  *)
(* page.  What was allocated, of no type yet, is closed again.             *)
pipealloc_bad(p) ==
  LET r == Min(FreeFiles)  w == Min(FreeFiles \ {r})
      got == IF FreeFiles = {} THEN <<>>
             ELSE IF FreeFiles = {r} THEN <<r>> ELSE <<r, w>>
  IN /\ ftable' = [f \in 1 .. NFILE |->
                     IF f \in Range(got) THEN [ftable[f] EXCEPT !.ref = 1] ELSE ftable[f]]
     /\ closing' = [closing EXCEPT ![p] = got]
     /\ UNCHANGED <<ofile, pipe>>

(* The file of an end of the pipe that pipealloc returns. *)
pipealloc(o) == [type |-> "FD_PIPE", ref |-> 1, obj |-> o, off |-> 0]

(* sys_pipe: with too few descriptors, or a bad address for the two        *)
(* numbers, both files are closed again.  (There is one pipe at a time.)   *)
sys_pipe(p) ==
  /\ Call(p) /\ pipe = {}
  /\ LET r == Min(FreeFiles)  w == Min(FreeFiles \ {r})
         fd0 == Min(FreeFds(p))  fd1 == Min(FreeFds(p) \ {fd0})
     IN \/ pipealloc_bad(p)
        \/ /\ Cardinality(FreeFiles) > 1
           /\ ftable' = [ftable EXCEPT ![r] = pipealloc("r"), ![w] = pipealloc("w")]
           /\ pipe' = {"r", "w"}
           /\ \/ closing' = [closing EXCEPT ![p] = <<r, w>>] /\ UNCHANGED ofile
              \/ /\ Cardinality(FreeFds(p)) > 1
                 /\ ofile' = [ofile EXCEPT ![p][fd0] = r, ![p][fd1] = w]
                 /\ UNCHANGED closing
  /\ UNCHANGED <<ends, refs, state, write, fs, content>>

(* kfork's part: filedup of every descriptor. *)
kfork(p, q) ==
  /\ Call(p) /\ state[q] = "none"
  /\ state' = [state EXCEPT ![q] = "run"]
  /\ ofile' = [ofile EXCEPT ![q] = ofile[p]]
  /\ ftable' = [f \in 1 .. NFILE |-> [ftable[f] EXCEPT !.ref =
                  @ + Cardinality({fd \in Fd : ofile[p][fd] = f})]]
  /\ UNCHANGED <<closing, ends, refs, pipe, write, fs, content>>

(* kexit's part: descriptors are closed one after the other. *)
kexit(p) ==
  /\ p # init /\ state[p] \in {"run", "exit"} /\ Settled(p)
  /\ LET open == Fd \ FreeFds(p)  fd == Min(open)  f == ofile[p][fd] IN
     IF open = {}
     THEN state' = [state EXCEPT ![p] = "none"] /\ UNCHANGED <<ofile, ftable, ends>>
     ELSE /\ state' = [state EXCEPT ![p] = "exit"]
          /\ ofile' = [ofile EXCEPT ![p][fd] = 0]
          /\ ftable' = [ftable EXCEPT ![f] = Dropped(@)]
          /\ ends' = [ends EXCEPT ![p] = Released(ftable[f])]
  /\ UNCHANGED <<closing, refs, pipe, write, fs, content, calls>>

OpenInode(p, fd) == ofile[p][fd] # 0 /\ ftable[ofile[p][fd]].type = "FD_INODE"

(* fileread of an inode: the offset moves under the inode's lock. *)
fileread(p, fd, n) ==
  /\ Call(p) /\ OpenInode(p, fd)
  /\ LET f == ofile[p][fd] IN
     ftable' = [ftable EXCEPT ![f].off = @ + readi(fs, ftable[f].obj, @, n)]
  /\ UNCHANGED <<ofile, closing, ends, refs, pipe, state, write, fs, content>>

(* filewrite of an inode begins; the root is open for reading only. *)
filewrite(p, fd, n) ==
  /\ Call(p) /\ OpenInode(p, fd) /\ ftable[ofile[p][fd]].obj # root
  /\ write' = [write EXCEPT ![p] = [n |-> n, i |-> 0, f |-> ofile[p][fd]]]
  /\ UNCHANGED <<tables, state, fs, content>>

(* Mutant of max: without room for the bitmap blocks. *)
Mutmax == (MAXOPBLOCKS - 1 - 1 - 2) * BSIZE
max == ((MAXOPBLOCKS - 1 - 1 - 2) \div 2) * BSIZE

(* What is done with writei's result w for n1 bytes of file f, inode i. *)
Written(p, f, i, off, n1, w) ==
  LET tot == Max({w.tot, 0}) IN
  /\ fs' = w.d
  /\ ftable' = [ftable EXCEPT ![f].off = @ + tot]
  /\ content' = [content EXCEPT ![i] =
       [k \in 1 .. (IF tot > 0 THEN Max({Len(@), off + tot}) ELSE Len(@)) |->
          IF k > off /\ k <= off + w.copied THEN p
          ELSE IF k <= Len(@) THEN @[k] ELSE Zero]]
  /\ write' = [write EXCEPT ![p] =
       IF w.tot # n1 \/ @.i + n1 = @.n THEN NoWrite
       ELSE [@ EXCEPT !.i = @ + n1]]

(* One turn of its loop, a transaction: a few blocks at a time. *)
filewrite_turn(p) ==
  /\ write[p].n > 0
  /\ LET n1 == Min({write[p].n - write[p].i, max})
         f == write[p].f
         i == ftable[f].obj  off == ftable[f].off
     IN \E good \in 0 .. n1 :
          Written(p, f, i, off, n1,
                  writei([fs EXCEPT !.log = {}], i, off, n1, p, good))
  /\ UNCHANGED <<ofile, closing, ends, refs, pipe, state, calls>>

Next ==
  \E p \in Proc :
    \/ \E i \in Inode, trunc \in BOOLEAN : sys_open(p, i, trunc)
    \/ \E fd \in Fd :
         \/ sys_close(p, fd) \/ sys_dup(p, fd)
         \/ \E n \in Sizes : fileread(p, fd, n) \/ filewrite(p, fd, n)
    \/ sys_pipe(p) \/ kexit(p) \/ fileclose(p) \/ give_back(p) \/ filewrite_turn(p)
    \/ \E q \in Proc : kfork(p, q)

Spec == Init /\ [][Next]_vars

-----------------------------------------------------------------------------
(* Types; a pipe ends when both ends are closed, and file sizes are in     *)
(* bounds.                                                                 *)
TypeOK ==
  /\ \A f \in 1 .. NFILE :
       /\ ftable[f].type \in {"FD_NONE", "FD_INODE", "FD_PIPE"}
       /\ ftable[f].ref \in Nat /\ ftable[f].obj \in Inode \cup {"r", "w"}
       /\ ftable[f].off \in 0 .. MAXFILE * BSIZE
  /\ ofile \in [Proc -> [Fd -> 0 .. NFILE]]
  /\ refs \in [Inode -> Nat] /\ pipe \subseteq {"r", "w"}
  /\ fs.size \in [Inode -> 0 .. MAXFILE * BSIZE] /\ fs.used \subseteq Block

(* Who refers to file f; who, or what, still names object o. *)
Fds(f) == {x \in Proc \X Fd : ofile[x[1]][x[2]] = f}
Closers(f) == {p \in Proc : f \in Range(closing[p])}
Pending(o) == {p \in Proc : \E k \in DOMAIN ends[p] : ends[p][k] = o}
Named(o) == {f \in 1 .. NFILE : ftable[f].ref > 0 /\ ftable[f].obj = o
                                /\ ftable[f].type # "FD_NONE"}

(* A file has as many references as descriptors, and one for a call that   *)
(* will close it on its way out with an error; an inode is put, and an end *)
(* of the pipe closed, just when the last file that names it is, whatever  *)
(* order processes dup, fork, close and exit in.                           *)
RefsExact ==
  /\ TypeOK
  /\ \A f \in 1 .. NFILE : ftable[f].ref = Cardinality(Fds(f)) + Cardinality(Closers(f))
  /\ \A i \in Inode : refs[i] = Cardinality(Named(i)) + Cardinality(Pending(i))
  /\ \A o \in {"r", "w"} : o \in pipe <=> Named(o) \cup Pending(o) # {}

(* Every block is free or belongs to one inode in one role: nothing is     *)
(* shared, and nothing leaks, also when the disk is full half-way through. *)
BlocksOwnedOnce ==
  LET Owned(i) == Data(fs, i) \cup Indirect(fs, i) IN
  /\ fs.used = UNION {Owned(i) : i \in Inode}
  /\ \A i, j \in Inode : i # j => Owned(i) \cap Owned(j) = {}
  /\ \A i \in Inode : Data(fs, i) \cap Indirect(fs, i) = {}

(* Every block below the size is there, so that readi, which runs outside  *)
(* of any transaction, never makes bmap allocate one.                      *)
ReadsAllocateNothing ==
  \A i \in Inode : \A off \in 0 .. fs.size[i] - 1 :
    LET a == bmap(fs, i, off \div BSIZE) IN a.addr # 0 /\ a.d = fs

(* The blocks of the disk are where they should be, after failures too. *)
BlocksSound == BlocksOwnedOnce /\ ReadsAllocateNothing

(* What can be read is what was written: every byte below the size is the  *)
(* last that a write copied there, or mkfs's.  Of a write that fails the   *)
(* bytes it copied below the size count, since writei logs the block it    *)
(* partly updated (fs.c:560); those it copied beyond the size never show,  *)
(* however the file grows later, nor does anything of an earlier file in   *)
(* the same blocks or of another file.                                     *)
ContentIsWritten ==
  \A i \in Inode :
    content[i] = [k \in 1 .. fs.size[i] |->
      fs.data[bmap(fs, i, (k - 1) \div BSIZE).addr][(k - 1) % BSIZE]]

(* A transaction of filewrite or sys_open writes no more blocks than       *)
(* begin_op reserved for it, even if each allocation marks another block   *)
(* of the bitmap.                                                          *)
OpFits == Cardinality(fs.log) <= MAXOPBLOCKS

=============================================================================
