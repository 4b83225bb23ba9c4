--------------------------------- MODULE Fs ---------------------------------
(***************************************************************************)
(* The inodes and directories of xv6/kernel/fs.c and the system calls of   *)
(* sysfile.c on path names, run by concurrent processes, with crashes and  *)
(* the reclaiming of orphans at boot.                                      *)
(*                                                                         *)
(* The log is taken at its promise, which Log is shown to keep: the last   *)
(* end_op of a group makes all writes of the group durable at once.        *)
(*                                                                         *)
(* A step is what a process does between two moments at which another can  *)
(* get hold of something it needs: it takes an inode's sleep-lock, works   *)
(* on what the lock protects, calls iget at most once and may unlock.      *)
(* iput runs in steps of its own: puts lists the inodes that a process has *)
(* yet to put before it goes on at pc.  A pointer to an in-memory inode is *)
(* the number of its slot in itable; 0 is the null pointer.                *)
(***************************************************************************)
EXTENDS Integers, Sequences, FiniteSets, FiniteSetsExt

CONSTANTS
  Proc,        \* processes that make system calls
  initproc,    \* the process that boots
  NInodes,     \* inode numbers 1 .. NInodes; 1 is the root
  NINODE,      \* entries of itable
  NLINK_MAX,
  Name,        \* names of directory entries, besides "." and ".."
  Image,       \* the file system at the start: see FsType
  Call,        \* the system calls processes make
  MaxCalls, MaxCrashes   \* bounds

Inum == 1 .. NInodes
Slot == 1 .. NINODE
Elem == Name \cup {".", ".."}
None == "none"
Procs == Proc \cup {initproc}

Links == 0 .. NLINK_MAX
Type == {"free", "dir", "file", "dev"}
FsType == [type : [Inum -> Type], nlink : [Inum -> Links],
           dir : [Inum -> [Elem -> 0 .. NInodes]]]

ASSUME FsAssumption ==
  /\ initproc \notin Proc /\ None \notin Proc \cup {initproc}
  /\ NInodes \in Nat \ {0}
  /\ NINODE \in Nat /\ NINODE >= NInodes   \* iget never panics
  /\ NLINK_MAX \in Nat \ {0}
  /\ {".", "..", "/"} \cap Name = {}
  /\ Image \in FsType
  /\ \A c \in Call : c.op \in {"open", "create", "mkdir", "mknod", "link",
                               "unlink", "chdir"}

VARIABLES
  disk,         \* the dinodes and directories, as the buffer cache has them
  durable,      \* the same, as of the last commit
  itable, outstanding,
  t,            \* where each process is: see Idle
  cwd, file,    \* its directory, and its one open file (NOFILE is 1)
  scan,         \* ireclaim's inum
  calls, crashes

bounds == <<calls, crashes>>
vars == <<disk, durable, itable, outstanding, t, cwd, file, scan, bounds>>

Empty == [ref |-> 0, inum |-> 1, valid |-> FALSE, type |-> "free", nlink |-> 0,
          lock |-> None]
Idle == [pc |-> "idle", op |-> None, path |-> <<>>, new |-> <<>>, name |-> ".",
         parent |-> FALSE, cur |-> 0, ip |-> 0, dp |-> 0, puts |-> <<>>,
         put |-> "start", inum |-> 1]

Reclaiming == [Idle EXCEPT !.pc = "reclaim", !.op = "reclaim"]

NoDir == [e \in Elem |-> 0]

(* Processes that start in the root, while initproc runs ireclaim. *)
Boot ==
  [itable |-> [s \in Slot |-> IF s = 1
                THEN [Empty EXCEPT !.ref = Cardinality(Procs)] ELSE Empty],
   t |-> [p \in Procs |-> IF p = initproc THEN Reclaiming ELSE Idle],
   cwd |-> [p \in Procs |-> 1],
   file |-> [p \in Proc |-> 0]]

Init ==
  /\ disk = Image /\ durable = Image
  /\ itable = Boot.itable /\ t = Boot.t /\ cwd = Boot.cwd /\ file = Boot.file
  /\ outstanding = 0 /\ scan = 1
  /\ calls = 0 /\ crashes = 0

-----------------------------------------------------------------------------
(* itable *)

Holders(i) == {s \in Slot : itable[s].ref > 0 /\ itable[s].inum = i}

(* The slot iget(i) returns, and the table it leaves. *)
igetSlot(i) == IF Holders(i) # {} THEN Min(Holders(i))
               ELSE Min({s \in Slot : itable[s].ref = 0})

Recycled(s, i) == [Empty EXCEPT !.ref = 1, !.inum = i, !.lock = itable[s].lock]

iget(i) ==
  LET s == igetSlot(i)
  IN [itable EXCEPT ![s] = IF Holders(i) # {} THEN [@ EXCEPT !.ref = @ + 1]
                                              ELSE Recycled(s, i)]

(* The fields of the inode in slot s once it is locked. *)
Loaded(s) ==
  LET e == itable[s]
  IN IF e.valid THEN e
     ELSE [e EXCEPT !.valid = TRUE, !.type = disk.type[e.inum],
                    !.nlink = disk.nlink[e.inum]]

Free(s) == itable[s].lock = None

(* ip's fields become e's; iupdate(ip) *)
Put(tab, s, e) == [tab EXCEPT ![s] = [e EXCEPT !.ref = tab[s].ref]]
iupdate(d, e) == [d EXCEPT !.type[e.inum] = e.type, !.nlink[e.inum] = e.nlink]

(* What is left of the table after ilock(s) ... iunlock(s). *)
Touched(tab, s) == Put(tab, s, Loaded(s))

(* ilock(s) without iunlock. *)
Held(tab, s, p) == [Touched(tab, s) EXCEPT ![s].lock = p]

Unlocked(tab, s) == [tab EXCEPT ![s].lock = None]

(* dirlookup(dp, name, 0), as an inode number *)
dirlookup(s, name) == disk.dir[itable[s].inum][name]

(* isdirempty: nothing but "." and ".." *)
isdirempty(s) == \A n \in Name : dirlookup(s, n) = 0

Go(p, l) == [t[p] EXCEPT !.pc = l]
Set(p, r) == t' = [t EXCEPT ![p] = r]

(* Process p may take its next step, at l. *)
At(p, l) == t[p].pc = l /\ t[p].puts = <<>>

(* Boot is over: processes make system calls. *)
Up == t[initproc].op # "reclaim"

(* The inode that process p has to lock next, if any. *)
Wanted(p) ==
  LET r == t[p] IN
  IF \/ r.pc \in {"open", "create", "link", "link2", "unlink", "chdir"}
     \/ r.pc = "namex" /\ r.path # <<>> THEN r.cur
  ELSE IF r.pc \in {"create2", "create_have", "link_bad", "unlink2"} THEN r.ip
  ELSE 0

(* ilock gets the lock, and the inode has a type; else it panics. *)
NoType(s) == Loaded(s).type = "free"
Locks(p, l) ==
  At(p, l) /\ Wanted(p) # 0 /\ Free(Wanted(p)) /\ ~NoType(Wanted(p))

kept == <<durable, outstanding, cwd, file, scan, bounds>>

-----------------------------------------------------------------------------
(* iput *)

(* The last reference to an unlinked inode. *)
Last(e) == e.ref = 1 /\ e.valid /\ e.nlink = 0

(* The first critical section.  To wait for the sleep-lock here, with      *)
(* itable.lock held, would be a panic.                                     *)
iput(p) ==
  /\ t[p].puts # <<>> /\ t[p].put = "start"
  /\ LET s == Head(t[p].puts) IN
     \/ /\ Last(itable[s]) /\ Free(s)
        /\ itable' = [itable EXCEPT ![s].lock = p]
        /\ Set(p, [t[p] EXCEPT !.put = "trunc", !.inum = itable[s].inum])
        /\ UNCHANGED <<disk, kept>>
     \/ /\ ~Last(itable[s])
        /\ itable' = [itable EXCEPT ![s].ref = @ - 1]
        /\ Set(p, [t[p] EXCEPT !.puts = Tail(@)])
        /\ UNCHANGED <<disk, kept>>

(* Mutant of Truncated: the inode is marked free before it is dropped. *)
MutTruncated(e) == [disk EXCEPT !.dir[e.inum] = NoDir, !.type[e.inum] = "free"]
(* itrunc(ip): type stays nonzero on disk *)
Truncated(e) == [iupdate(disk, e) EXCEPT !.dir[e.inum] = NoDir]

(* itrunc(ip); ip->valid = 0; releasesleep *)
iput_trunc(p) ==
  /\ t[p].puts # <<>> /\ t[p].put = "trunc"
  /\ LET s == Head(t[p].puts) IN
     /\ disk' = Truncated(itable[s])
     /\ itable' = Put(itable, s, [Empty EXCEPT !.inum = t[p].inum])
     /\ Set(p, [t[p] EXCEPT !.put = "drop"])
  /\ UNCHANGED kept

iput_drop(p) ==
  /\ t[p].puts # <<>> /\ t[p].put = "drop"
  /\ itable' = [itable EXCEPT ![Head(t[p].puts)].ref = @ - 1]
  /\ Set(p, [t[p] EXCEPT !.put = "free"])
  /\ UNCHANGED <<disk, kept>>

ifree(p) ==
  /\ t[p].puts # <<>> /\ t[p].put = "free"
  /\ disk' = [disk EXCEPT !.type[t[p].inum] = "free"]
  /\ Set(p, [t[p] EXCEPT !.put = "start", !.inum = 1, !.puts = Tail(@)])
  /\ UNCHANGED <<itable, kept>>

-----------------------------------------------------------------------------
(* Path names *)

Rooted(path) == path # <<>> /\ Head(path) = "/"

(* The start of namex on path by process p, with its other fields from r. *)
Start(p, path, r) ==
  /\ itable' = IF Rooted(path) THEN iget(1)
                ELSE [itable EXCEPT ![cwd[p]].ref = @ + 1]
  /\ Set(p, [r EXCEPT !.pc = "namex",
                      !.path = IF Rooted(path) THEN Tail(path) ELSE path,
                      !.cur = IF Rooted(path) THEN igetSlot(1) ELSE cwd[p]])

Creates(op) == op \in {"create", "mkdir", "mknod"}

(* A system call: begin_op, and the start of its first namex. *)
Enter(p, c) ==
  /\ At(p, "idle") /\ Up
  /\ calls < MaxCalls /\ calls' = calls + 1
  /\ outstanding' = outstanding + 1
  /\ Start(p, c.path, [Idle EXCEPT !.op = c.op, !.new = c.new,
                       !.parent = Creates(c.op) \/ c.op = "unlink"])
  /\ UNCHANGED <<disk, durable, cwd, file, scan, crashes>>

(* Where a system call goes on once namex has returned an inode, or 0. *)
Found(op) == IF Creates(op) THEN "create" ELSE op
NotFound(op) == IF op = "link2" THEN "link_bad" ELSE "end"

(* An unlinked directory is neither searched nor added to. *)
Orphan(e) == e.nlink = 0

(* One turn of namex's loop, up to the iput of the directory searched. *)
namex(p) ==
  /\ Locks(p, "namex")
  /\ LET r == t[p]  s == r.cur
         searched == Loaded(s).type = "dir" /\ ~Orphan(Loaded(s))
         stop == searched /\ r.parent /\ Len(r.path) = 1
         next == IF searched /\ ~stop THEN dirlookup(s, Head(r.path)) ELSE 0
     IN \/ /\ stop
           /\ itable' = Touched(itable, s)
           /\ Set(p, [Go(p, Found(r.op)) EXCEPT !.name = Head(r.path),
                                                !.path = <<>>])
        \/ /\ next # 0
           /\ itable' = Touched(iget(next), s)
           /\ Set(p, [r EXCEPT !.path = Tail(@), !.cur = igetSlot(next),
                               !.puts = <<s>>])
        \/ /\ ~stop /\ next = 0
           /\ itable' = Touched(itable, s)
           /\ Set(p, [Go(p, NotFound(r.op)) EXCEPT !.path = <<>>, !.cur = 0,
                                                   !.puts = <<s>>])
  /\ UNCHANGED <<disk, kept>>

(* What follows the loop: there is no parent to return. *)
namex_end(p) ==
  /\ At(p, "namex") /\ t[p].path = <<>>
  /\ Set(p, IF t[p].parent
              THEN [Go(p, NotFound(t[p].op)) EXCEPT !.cur = 0,
                                                    !.puts = <<t[p].cur>>]
              ELSE Go(p, Found(t[p].op)))
  /\ UNCHANGED <<disk, itable, kept>>

(* end_op; sys_chdir then changes the directory. *)
end_op(p) ==
  /\ At(p, "end")
  /\ outstanding' = outstanding - 1
  /\ durable' = IF outstanding = 1 THEN disk ELSE durable
  /\ cwd' = [cwd EXCEPT ![p] = IF t[p].op = "chdir" /\ t[p].ip # 0
                                  THEN t[p].ip ELSE @]
  /\ Set(p, IF t[p].op = "reclaim" THEN Reclaiming ELSE Idle)
  /\ UNCHANGED <<disk, itable, file, scan, bounds>>

-----------------------------------------------------------------------------
(* The system calls.  Those that fail put what they hold and go to end_op. *)

Fail(p, puts) == [Go(p, "end") EXCEPT !.puts = puts, !.ip = 0]

(* sys_open without O_CREATE; a directory is opened for reading only. *)
sys_open(p) ==
  /\ Locks(p, "open")
  /\ LET s == t[p].cur IN
     \/ /\ itable' = Held(itable, s, p)
        /\ Set(p, [Go(p, "opened") EXCEPT !.ip = s])
     \/ /\ Loaded(s).type = "dir"
        /\ itable' = Touched(itable, s)
        /\ Set(p, Fail(p, <<s>>))
  /\ UNCHANGED <<disk, kept>>

(* The end of sys_open, with ip locked: the inode is kept in a file, or     *)
(* put when it is a device without a driver, or filealloc or fdalloc fails *)
(* (others fill ftable).  sys_mkdir and sys_mknod only put it.             *)
opened(p) ==
  /\ At(p, "opened")
  /\ LET s == t[p].ip  opens == t[p].op \in {"open", "create"} IN
     /\ itable' = Unlocked(itable, s)
     /\ \/ /\ opens /\ file[p] = 0
           /\ file' = [file EXCEPT ![p] = s] /\ Set(p, Fail(p, <<>>))
        \/ UNCHANGED file /\ Set(p, Fail(p, <<s>>))
  /\ UNCHANGED <<disk, durable, outstanding, cwd, scan, bounds>>

(* sys_close, fileclose of the last descriptor *)
sys_close(p) ==
  /\ At(p, "idle") /\ Up /\ file[p] # 0
  /\ outstanding' = outstanding + 1
  /\ file' = [file EXCEPT ![p] = 0]
  /\ Set(p, Fail(p, <<file[p]>>))
  /\ UNCHANGED <<disk, durable, itable, cwd, scan, bounds>>

(* Mutant of OldDir: the old directory is not put. *)
MutOldDir(p) == <<>>
OldDir(p) == <<cwd[p]>>

sys_chdir(p) ==
  /\ Locks(p, "chdir")
  /\ LET s == t[p].cur  isdir == Loaded(s).type = "dir" IN
     /\ itable' = Touched(itable, s)
     /\ Set(p, IF isdir THEN [Fail(p, OldDir(p)) EXCEPT !.ip = s]
                        ELSE Fail(p, <<s>>))
  /\ UNCHANGED <<disk, kept>>

NewType(op) == CASE op = "create" -> "file" [] op = "mkdir" -> "dir"
                 [] op = "mknod" -> "dev"

FreeInodes == {i \in Inum : disk.type[i] = "free"}

(* create, with dp locked: up to ialloc, or to the ilock of what is there. *)
create(p) ==
  /\ Locks(p, "create")
  /\ LET s == t[p].cur  e == Loaded(s)  i == dirlookup(s, t[p].name)
         refused == \/ Orphan(e)
                    \/ NewType(t[p].op) = "dir" /\ e.nlink >= NLINK_MAX
         new == Min(FreeInodes)
     IN \/ /\ refused \/ (i = 0 /\ FreeInodes = {})
           /\ itable' = Touched(itable, s)
           /\ Set(p, Fail(p, <<s>>))
           /\ UNCHANGED disk
        \/ /\ ~refused /\ i # 0
           /\ itable' = Touched(iget(i), s)
           /\ Set(p, [Go(p, "create_have") EXCEPT !.ip = igetSlot(i),
                                                  !.puts = <<s>>])
           /\ UNCHANGED disk
        \/ /\ ~refused /\ i = 0 /\ FreeInodes # {}
           /\ disk' = [disk EXCEPT !.type[new] = NewType(t[p].op),
                                   !.nlink[new] = 0, !.dir[new] = NoDir]
           /\ itable' = Held(iget(new), s, p)
           /\ Set(p, [Go(p, "create2") EXCEPT !.ip = igetSlot(new), !.dp = s])
  /\ UNCHANGED kept

(* create, when the name is there already *)
create_have(p) ==
  /\ Locks(p, "create_have")
  /\ LET s == t[p].ip IN
     IF t[p].op = "create" /\ Loaded(s).type \in {"file", "dev"}
     THEN itable' = Held(itable, s, p) /\ Set(p, Go(p, "opened"))
     ELSE itable' = Touched(itable, s) /\ Set(p, Fail(p, <<s>>))
  /\ UNCHANGED <<disk, kept>>

Abandon(e) == [e EXCEPT !.nlink = 0]

(* create, with dp locked, fills the new inode.  The disk may be full when *)
(* dirlink needs a block for the new directory, or one more for dp.        *)
create2(p) ==
  /\ Locks(p, "create2")
  /\ LET s == t[p].ip  d == t[p].dp
         e == [Loaded(s) EXCEPT !.nlink = 1, !.lock = p]
         isdir == e.type = "dir"
         self == IF isdir THEN [NoDir EXCEPT !["."] = e.inum,
                                             ![".."] = itable[d].inum]
                          ELSE NoDir
         up == [itable[d] EXCEPT !.nlink = IF isdir THEN @ + 1 ELSE @,
                                 !.lock = None]
     IN \/ /\ itable' = Put(Put(itable, s, e), d, up)
           /\ disk' = [iupdate(iupdate(disk, e), up) EXCEPT
                         !.dir[e.inum] = self,
                         !.dir[up.inum][t[p].name] = e.inum]
           /\ Set(p, [Go(p, "opened") EXCEPT !.puts = <<d>>])
        \/ \E dots \in {self, NoDir} :
             /\ itable' = Put(itable, s, [Abandon(e) EXCEPT !.lock = None])
             /\ disk' = [iupdate(disk, Abandon(e)) EXCEPT !.dir[e.inum] = dots]
             /\ Set(p, [Go(p, "drop_dp") EXCEPT !.puts = <<s>>])
  /\ UNCHANGED kept

(* iunlockput(dp) on the way out of a call that fails *)
drop_dp(p) ==
  /\ At(p, "drop_dp")
  /\ itable' = Unlocked(itable, t[p].dp)
  /\ Set(p, [Fail(p, <<t[p].dp>>) EXCEPT !.pc = NotFound(t[p].op),
                                         !.ip = t[p].ip])
  /\ UNCHANGED <<disk, kept>>

(* sys_link: the link is counted before the entry is made. *)
MayLink(e) == e.type # "dir" /\ e.nlink < NLINK_MAX
sys_link(p) ==
  /\ Locks(p, "link")
  /\ LET s == t[p].cur  e == [Loaded(s) EXCEPT !.nlink = @ + 1] IN
     IF MayLink(Loaded(s))
     THEN /\ itable' = Put(itable, s, e)
          /\ disk' = iupdate(disk, e)
          /\ Set(p, [Go(p, "link_parent") EXCEPT !.ip = s])
     ELSE /\ itable' = Touched(itable, s)
          /\ Set(p, Fail(p, <<s>>))
          /\ UNCHANGED disk
  /\ UNCHANGED kept

(* nameiparent(new, name) *)
link_parent(p) ==
  /\ At(p, "link_parent")
  /\ Start(p, t[p].new, [t[p] EXCEPT !.op = "link2", !.parent = TRUE,
                                     !.new = <<>>])
  /\ UNCHANGED <<disk, kept>>

(* dirlink(dp, name, ip->inum): the name may be taken, the disk full. *)
link2(p) ==
  /\ Locks(p, "link2")
  /\ LET d == t[p].cur  i == dirlookup(d, t[p].name) IN
     \/ /\ i = 0 /\ ~Orphan(Loaded(d))
        /\ disk' = [disk EXCEPT !.dir[itable[d].inum][t[p].name]
                                  = itable[t[p].ip].inum]
        /\ itable' = Touched(itable, d)
        /\ Set(p, Fail(p, <<d, t[p].ip>>))
     \/ /\ i = 0 \/ Orphan(Loaded(d))
        /\ itable' = Touched(itable, d)
        /\ Set(p, [Go(p, "link_bad") EXCEPT !.puts = <<d>>])
        /\ UNCHANGED disk
     \/ /\ i # 0 /\ ~Orphan(Loaded(d))
        /\ itable' = Held(iget(i), d, p)
        /\ Set(p, [Go(p, "drop_dp") EXCEPT !.puts = <<igetSlot(i)>>, !.dp = d])
        /\ UNCHANGED disk
  /\ UNCHANGED kept

(* An inode in slot s that process p has locked, with one link less *)
Unlink(p, s) ==
  LET e == [Loaded(s) EXCEPT !.nlink = @ - 1, !.lock = None]
  IN /\ itable' = Put(itable, s, e)
     /\ disk' = iupdate(disk, e)
     /\ Set(p, Fail(p, <<s>>))

link_bad(p) == Locks(p, "link_bad") /\ Unlink(p, t[p].ip) /\ UNCHANGED kept

(* Mutant of MayUnlink: any name. *)
MutMayUnlink(name) == TRUE
(* namecmp(name, ".") and namecmp(name, "..") *)
MayUnlink(name) == name \notin {".", ".."}

(* sys_unlink, with dp locked, up to the ilock of the inode it found *)
sys_unlink(p) ==
  /\ Locks(p, "unlink")
  /\ LET d == t[p].cur
         i == IF MayUnlink(t[p].name) THEN dirlookup(d, t[p].name) ELSE 0
     IN IF i = 0
        THEN itable' = Touched(itable, d) /\ Set(p, Fail(p, <<d>>))
        ELSE /\ itable' = Held(iget(i), d, p)
             /\ Set(p, [Go(p, "unlink2") EXCEPT !.ip = igetSlot(i), !.dp = d])
  /\ UNCHANGED <<disk, kept>>

Detached(d, isdir) == [itable[d] EXCEPT !.lock = None,
                                        !.nlink = IF isdir THEN @ - 1 ELSE @]

(* With both locked, unless panic("unlink: nlink < 1") *)
unlink2(p) ==
  /\ Locks(p, "unlink2")
  /\ LET s == t[p].ip  d == t[p].dp  e == Loaded(s)
         up == Detached(d, e.type = "dir")
     IN \/ /\ e.nlink >= 1 /\ e.type = "dir" /\ ~isdirempty(s)
           /\ itable' = Touched(itable, s)
           /\ Set(p, [Go(p, "drop_dp") EXCEPT !.puts = <<s>>])
           /\ UNCHANGED disk
        \/ /\ e.nlink >= 1 /\ (e.type = "dir" => isdirempty(s))
           /\ itable' = Put(Held(itable, s, p), d, up)
           /\ disk' = [iupdate(disk, up) EXCEPT !.dir[up.inum][t[p].name] = 0]
           /\ Set(p, [Go(p, "unlink3") EXCEPT !.puts = <<d>>])
  /\ UNCHANGED kept

unlink3(p) == At(p, "unlink3") /\ Unlink(p, t[p].ip) /\ UNCHANGED kept

-----------------------------------------------------------------------------
(* Mutant of OrphanInode: nothing is reclaimed. *)
MutOrphanInode(i) == FALSE
OrphanInode(i) == disk.type[i] # "free" /\ disk.nlink[i] = 0

(* One turn of ireclaim's loop. *)
ireclaim(p) ==
  /\ At(p, "reclaim")
  /\ IF scan > NInodes
     THEN Set(p, Idle) /\ UNCHANGED <<itable, outstanding, scan>>
     ELSE /\ scan' = scan + 1
          /\ IF OrphanInode(scan)
             THEN LET s == igetSlot(scan) IN
                  /\ itable' = [iget(scan) EXCEPT
                                  ![s].valid = TRUE,
                                  ![s].type = disk.type[scan]]
                  /\ outstanding' = outstanding + 1
                  /\ Set(p, Fail(p, <<s>>))
             ELSE UNCHANGED <<itable, outstanding, t>>
  /\ UNCHANGED <<disk, durable, cwd, file, bounds>>

(* Memory is lost; recovery leaves the last commit on the disk. *)
Crash ==
  /\ crashes < MaxCrashes
  /\ crashes' = crashes + 1
  /\ disk' = durable
  /\ UNCHANGED <<durable, calls>>
  /\ itable' = Boot.itable /\ t' = Boot.t
  /\ cwd' = Boot.cwd /\ file' = Boot.file
  /\ outstanding' = 0 /\ scan' = 1

Next ==
  \/ \E p \in Proc :
       \/ \E c \in Call : Enter(p, c)
       \/ namex(p) \/ namex_end(p)
       \/ sys_open(p) \/ opened(p) \/ sys_close(p) \/ sys_chdir(p)
       \/ create(p) \/ create_have(p) \/ create2(p) \/ drop_dp(p)
       \/ sys_link(p) \/ link_parent(p) \/ link2(p) \/ link_bad(p)
       \/ sys_unlink(p) \/ unlink2(p) \/ unlink3(p)
  \/ \E p \in Procs :
       iput(p) \/ iput_trunc(p) \/ iput_drop(p) \/ ifree(p) \/ end_op(p)
  \/ ireclaim(initproc)
  \/ Crash

Spec == Init /\ [][Next]_vars

-----------------------------------------------------------------------------
(* Types; a link count never exceeds NLINK_MAX, whatever links are made    *)
(* and undone concurrently (nlink is a short).                             *)
TypeOK ==
  /\ disk \in FsType /\ durable \in FsType
  /\ \A s \in Slot :
       /\ itable[s].ref \in Nat /\ itable[s].inum \in Inum
       /\ itable[s].nlink \in Links /\ itable[s].lock \in Procs \cup {None}
  /\ cwd \in [Procs -> Slot] /\ file \in [Proc -> Slot \cup {0}]
  /\ outstanding \in 0 .. Cardinality(Proc)

(* ilock never reads an inode that is free on disk, sys_unlink never finds *)
(* an inode without links (two panics), and iput never has to wait for the *)
(* sleep-lock of an inode it is about to free ("ref == 1 means no other     *)
(* process can have ip locked", fs.c:361).                                 *)
NoPanic ==
  \A p \in Procs :
    /\ t[p].puts = <<>> /\ Wanted(p) # 0 /\ Free(Wanted(p))
         => /\ ~NoType(Wanted(p))
            /\ t[p].pc = "unlink2" => Loaded(t[p].ip).nlink >= 1
    /\ t[p].puts # <<>> /\ t[p].put = "start" /\ Last(itable[Head(t[p].puts)])
         => Free(Head(t[p].puts))

(* An inode has at most one entry in itable, and while the entry is valid  *)
(* it agrees with the inode on disk.                                       *)
CopiesAgree ==
  /\ \A i \in Inum : Cardinality(Holders(i)) <= 1
  /\ \A s \in Slot :
       itable[s].ref > 0 /\ itable[s].valid
         => /\ itable[s].type = disk.type[itable[s].inum]
            /\ itable[s].nlink = disk.nlink[itable[s].inum]

(* No circle of processes that each hold an inode another one waits for,   *)
(* which the order of locks (a directory before what is in it) prevents.   *)
NoCircularWait ==
  \A S \in (SUBSET Procs) \ {{}} :
    \E p \in S : \/ Wanted(p) = 0 \/ t[p].puts # <<>>
                \/ itable[Wanted(p)].lock \notin S

(* The entries for inode i, other than "." and "..", and the directories   *)
(* whose ".." it is.                                                       *)
Entries(d, i) ==
  {e \in Inum \X Name : d.type[e[1]] = "dir" /\ d.dir[e[1]][e[2]] = i}
Subdirs(d, i) ==
  {k \in Inum \ {1} : d.type[k] = "dir" /\ d.nlink[k] > 0 /\ d.dir[k][".."] = i}

(* What is durable is a consistent file system, whatever groups of system  *)
(* calls were committed and wherever a crash struck: every entry names an  *)
(* inode in use, and every link count is the number of entries and of      *)
(* subdirectories, so that nothing is freed early or kept for ever.        *)
DiskConsistent ==
  \A i \in Inum :
    LET n == Cardinality(Entries(durable, i)) IN
    /\ durable.type[i] = "free" => n = 0 /\ Subdirs(durable, i) = {}
    /\ durable.type[i] # "free" =>
         durable.nlink[i] = n + Cardinality(Subdirs(durable, i))
                            + (IF i = 1 THEN 1 ELSE 0)

(* When no system call is under way, every entry of itable is held by just *)
(* the working directories and open files that point to it.                *)
RefsBalance ==
  (\A p \in Procs : t[p].pc = "idle") =>
    \A s \in Slot : itable[s].ref =
      Cardinality({p \in Procs : cwd[p] = s}) + Cardinality({p \in Proc : file[p] = s})

(* The table of inodes in memory agrees with the disk and with those who   *)
(* point into it.                                                          *)
TableConsistent == TypeOK /\ CopiesAgree /\ RefsBalance

(* When no system call is under way, an inode without links is in use only *)
(* if something points to it; after a crash, ireclaim has freed the rest.  *)
NoOrphans ==
  (\A p \in Procs : t[p].pc = "idle") =>
    \A i \in Inum : disk.type[i] # "free" /\ disk.nlink[i] = 0
                    => Holders(i) # {}

(* No crash and no interleaving of create, link, unlink and close leaves   *)
(* a wrong link count or an inode nobody will free.                        *)
LinksSound == DiskConsistent /\ NoOrphans

=============================================================================
