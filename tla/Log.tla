-------------------------------- MODULE Log ---------------------------------
(***************************************************************************)
(* The redo log of xv6/kernel/log.c over the buffer cache and the disk:    *)
(* begin_op, log_write and end_op of concurrent system calls, the group    *)
(* commit, sys_sync, and recovery after a crash at any moment.             *)
(*                                                                         *)
(* A step is a critical section of log.lock, or one disk write, which the  *)
(* device does as a whole or not at all (the header's count and block      *)
(* numbers lie within its first sector).  sleep_prepare(&log), release,    *)
(* sleep is one step that joins asleep: wakeup(&log), called with log.lock *)
(* held, finds the caller either before the critical section or prepared.  *)
(*                                                                         *)
(* phase is where the one thread in commit() is, or recovery at boot:      *)
(*   "none"        committing = 0                                          *)
(*   "write_log", "write_head", "install", "clear", "done"                 *)
(*   "read_head"   the first step of recovery                              *)
(***************************************************************************)
EXTENDS Integers, Sequences, FiniteSets

CONSTANTS
  Block, Val, InitVal,
  NoVal,         \* not in the buffer cache
  Thread,
  LOGBLOCKS,     \* data blocks of the on-disk log (30)
  MAXOPBLOCKS,   \* blocks reserved for each system call (10)
  OpBlocks       \* the most distinct blocks a system call writes: fewer than
                 \* it reserves (filewrite splits its work to that end), so
                 \* that it may write a block again when the log is full of
                 \* other reservations

ASSUME LogAssumption ==
  /\ InitVal \in Val /\ NoVal \notin Val
  /\ IsFiniteSet(Thread)
  /\ MAXOPBLOCKS \in Nat \ {0}
  /\ LOGBLOCKS \in Nat /\ LOGBLOCKS >= MAXOPBLOCKS
  /\ OpBlocks \in 1 .. MAXOPBLOCKS - 1

VARIABLES
  disk,         \* home locations
  dlog,         \* the log's data blocks on disk
  dhead,        \* the block numbers in the header on disk
  cached,       \* the buffer cache's copies
  pin,          \* what bpin and bunpin contribute to b->refcnt
  lh,           \* log.lh
  outstanding,  \* log.outstanding
  phase, tail,  \* progress of commit() or of recovery
  up,           \* recovery is over
  pc,           \* where each thread is: "idle", "begin", "op", "commit", "sync"
  asleep,       \* the threads that sleep on &log
  wr,           \* the distinct blocks the thread's open system call has written
  left,         \* n - log.ncommit in sys_sync
  owed          \* history: something that ended before sys_sync is not durable

onDisk == <<disk, dlog, dhead>>
cache == <<cached, pin>>
calls == <<pc, asleep, wr>>
sync == <<left, owed>>
vars == <<onDisk, cache, lh, outstanding, phase, tail, up, calls, sync>>

committing == phase # "none"

(* bread: the cached copy, or the disk's. *)
bread(b) == IF cached[b] # NoVal THEN cached[b] ELSE disk[b]

InLog(b) == \E i \in DOMAIN lh : lh[i] = b

Init ==
  /\ disk = [b \in Block |-> InitVal]
  /\ dlog = [i \in 1 .. LOGBLOCKS |-> InitVal]
  /\ dhead = <<>>
  /\ cached = [b \in Block |-> NoVal]
  /\ pin = [b \in Block |-> 0]
  /\ lh = <<>> /\ outstanding = 0
  /\ phase = "read_head" /\ tail = 1 /\ up = FALSE
  /\ pc = [p \in Thread |-> "idle"]
  /\ asleep = {}
  /\ wr = [p \in Thread |-> {}]
  /\ left = [p \in Thread |-> 0]
  /\ owed = [p \in Thread |-> FALSE]

-----------------------------------------------------------------------------
(* Would the reservation of one more system call exhaust the log? *)
NoSpace == Len(lh) + (outstanding + 1) * MAXOPBLOCKS > LOGBLOCKS

(* One turn of begin_op's loop. *)
begin_op(p) ==
  /\ up /\ pc[p] \in {"idle", "begin"} /\ p \notin asleep
  /\ IF committing \/ NoSpace
       THEN /\ pc' = [pc EXCEPT ![p] = "begin"]
            /\ asleep' = asleep \cup {p}
            /\ UNCHANGED <<outstanding, wr>>
       ELSE /\ pc' = [pc EXCEPT ![p] = "op"]
            /\ outstanding' = outstanding + 1
            /\ wr' = [wr EXCEPT ![p] = {}]
            /\ UNCHANGED asleep
  /\ UNCHANGED <<onDisk, cache, lh, phase, tail, up, sync>>

(* Mutant of bpin: pinned also when absorbed. *)
MutBpinAlways(b) == pin' = [pin EXCEPT ![b] = @ + 1]

(* The buffer stays in the cache until its block is installed. *)
bpin(b) == pin' = [pin EXCEPT ![b] = IF InLog(b) THEN @ ELSE @ + 1]

(* The system call of thread p may write block b: it keeps to OpBlocks. *)
MayWrite(p, b) == pc[p] = "op" /\ Cardinality(wr[p] \cup {b}) <= OpBlocks

(* Mutant of Absorbed: the block is logged again. *)
MutAbsorbed(b) == Append(lh, b)

(* The log with block b, which is absorbed when it is there already. *)
Absorbed(b) == IF InLog(b) THEN lh ELSE Append(lh, b)

(* The caller changes the buffer of b to v and calls log_write. *)
log_write(p, b, v) ==
  /\ MayWrite(p, b)
  /\ Len(lh) < LOGBLOCKS                   \* panic: too big a transaction
  /\ cached' = [cached EXCEPT ![b] = v]
  /\ bpin(b)
  /\ lh' = Absorbed(b)
  /\ wr' = [wr EXCEPT ![p] = @ \cup {b}]
  /\ UNCHANGED <<onDisk, outstanding, phase, tail, up, pc, asleep, sync>>

(* wakeup(&log) *)
wakeup_log == asleep' = {}

(* Mutant of wakeup_room: only the end of a commit wakes. *)
MutWakeupRoom == UNCHANGED asleep

(* end_op has given up a reservation: begin_op may be waiting for it. *)
wakeup_room == wakeup_log

(* Mutant of CommitStart: the header is written before the log. *)
MutCommitStart == IF lh = <<>> THEN "done" ELSE "write_head"

(* commit() begins with write_log if there is anything to commit. *)
CommitStart == IF lh = <<>> THEN "done" ELSE "write_log"

(* end_op: the last one out commits. *)
end_op(p) ==
  /\ pc[p] = "op"
  /\ outstanding' = outstanding - 1
  /\ IF outstanding = 1
       THEN /\ phase' = CommitStart
            /\ tail' = 1
            /\ pc' = [pc EXCEPT ![p] = "commit"]
            /\ UNCHANGED asleep
       ELSE /\ pc' = [pc EXCEPT ![p] = "idle"]
            /\ wakeup_room
            /\ UNCHANGED <<phase, tail>>
  /\ wr' = [wr EXCEPT ![p] = {}]
  /\ UNCHANGED <<onDisk, cache, lh, up, sync>>

(* The loops over the log advance, and go on to phase ph at the end. *)
Advance(ph) ==
  IF tail < Len(lh) THEN tail' = tail + 1 /\ UNCHANGED phase
                    ELSE tail' = 1 /\ phase' = ph

(* write_log: one block from the cache to the log. *)
write_log ==
  /\ phase = "write_log"
  /\ dlog' = [dlog EXCEPT ![tail] = bread(lh[tail])]
  /\ Advance("write_head")
  /\ UNCHANGED <<disk, dhead, cache, lh, outstanding, up, calls, sync>>

(* write_head: the commit point; what sys_sync callers wait for is safe. *)
write_head ==
  /\ phase = "write_head"
  /\ dhead' = lh
  /\ phase' = "install"
  /\ owed' = [p \in Thread |-> FALSE]
  /\ UNCHANGED <<disk, dlog, cache, lh, outstanding, tail, up, calls, left>>

bunpin(b) == IF up THEN pin[b] - 1 ELSE pin[b]

(* install_trans: one block from the log to its home, in the cache too. *)
install_trans ==
  /\ phase = "install"
  /\ LET b == lh[tail]
     IN  /\ disk' = [disk EXCEPT ![b] = dlog[tail]]
         /\ cached' = [cached EXCEPT ![b] = dlog[tail]]
         /\ pin' = [pin EXCEPT ![b] = bunpin(b)]
  /\ Advance("clear")
  /\ UNCHANGED <<dlog, dhead, lh, outstanding, up, calls, sync>>

(* log.lh.n = 0; write_head: the transaction is erased from the log.  At   *)
(* boot this ends recover_from_log.                                        *)
clear_head ==
  /\ phase = "clear"
  /\ lh' = <<>> /\ dhead' = <<>>
  /\ IF up THEN phase' = "done" /\ UNCHANGED up
           ELSE phase' = "none" /\ up' = TRUE
  /\ UNCHANGED <<disk, dlog, cache, outstanding, tail, calls, sync>>

(* The end of end_op: log.committing = 0; log.ncommit += 1; wakeup. *)
end_commit(p) ==
  /\ pc[p] = "commit" /\ phase = "done"
  /\ phase' = "none"
  /\ left' = [q \in Thread |-> IF left[q] > 0 THEN left[q] - 1 ELSE 0]
  /\ pc' = [pc EXCEPT ![p] = "idle"]
  /\ wakeup_log
  /\ UNCHANGED <<onDisk, cache, lh, outstanding, tail, up, wr, owed>>

(* sys_sync must wait for the commit under way, or the next one. *)
MutMustSync == outstanding > 0
MustSync == committing \/ outstanding > 0

sys_sync(p) ==
  /\ up /\ pc[p] = "idle" /\ MustSync
  /\ left' = [left EXCEPT ![p] = 1]
  /\ owed' = [owed EXCEPT ![p] = lh # <<>> /\ dhead = <<>>]
  /\ pc' = [pc EXCEPT ![p] = "sync"]
  /\ asleep' = asleep \cup {p}
  /\ UNCHANGED <<onDisk, cache, lh, outstanding, phase, tail, up, wr>>

(* A turn of its loop after a wakeup. *)
sync_wake(p) ==
  /\ pc[p] = "sync" /\ p \notin asleep
  /\ IF left[p] > 0
       THEN asleep' = asleep \cup {p} /\ UNCHANGED <<pc, owed>>
       ELSE /\ pc' = [pc EXCEPT ![p] = "idle"]
            /\ owed' = [owed EXCEPT ![p] = FALSE]
            /\ UNCHANGED asleep
  /\ UNCHANGED <<onDisk, cache, lh, outstanding, phase, tail, up, wr, left>>

-----------------------------------------------------------------------------
(* The buffer cache reads a block, or recycles the buffer of one that      *)
(* nobody holds.                                                           *)
bget_fill(b) ==
  /\ up /\ cached[b] = NoVal
  /\ cached' = [cached EXCEPT ![b] = disk[b]]
  /\ UNCHANGED <<onDisk, pin, lh, outstanding, phase, tail, up, calls, sync>>

bget_recycle(b) ==
  /\ cached[b] # NoVal /\ pin[b] = 0
  /\ cached' = [cached EXCEPT ![b] = NoVal]
  /\ UNCHANGED <<onDisk, pin, lh, outstanding, phase, tail, up, calls, sync>>

(* The machine stops; memory is lost. *)
Crash ==
  /\ cached' = [b \in Block |-> NoVal]
  /\ pin' = [b \in Block |-> 0]
  /\ lh' = <<>> /\ outstanding' = 0
  /\ phase' = "read_head" /\ tail' = 1 /\ up' = FALSE
  /\ pc' = [p \in Thread |-> "idle"]
  /\ asleep' = {}
  /\ wr' = [p \in Thread |-> {}]
  /\ left' = [p \in Thread |-> 0]
  /\ owed' = [p \in Thread |-> FALSE]
  /\ UNCHANGED onDisk

(* recover_from_log: read_head. *)
read_head ==
  /\ phase = "read_head"
  /\ lh' = dhead
  /\ phase' = IF dhead = <<>> THEN "clear" ELSE "install"
  /\ UNCHANGED <<onDisk, cache, outstanding, tail, up, calls, sync>>

-----------------------------------------------------------------------------
Commit == write_log \/ write_head \/ install_trans \/ clear_head \/ read_head

Next ==
  \/ \E p \in Thread : \/ begin_op(p) \/ end_op(p) \/ end_commit(p)
                       \/ sys_sync(p) \/ sync_wake(p)
  \/ \E p \in Thread, b \in Block, v \in Val : log_write(p, b, v)
  \/ Commit
  \/ \E b \in Block : bget_fill(b) \/ bget_recycle(b)
  \/ Crash

Spec == Init /\ [][Next]_vars

(* A system call that has begun ends, and disk writes complete. *)
FairSpec ==
  /\ Spec
  /\ WF_vars(Commit)
  /\ \A p \in Thread : WF_vars(end_op(p)) /\ WF_vars(end_commit(p))

-----------------------------------------------------------------------------
Phases == {"none", "write_log", "write_head", "install", "clear", "done",
           "read_head"}

TypeOK ==
  /\ disk \in [Block -> Val]
  /\ dlog \in [1 .. LOGBLOCKS -> Val]
  /\ dhead \in Seq(Block)
  /\ cached \in [Block -> Val \cup {NoVal}]
  /\ pin \in [Block -> Nat]
  /\ lh \in Seq(Block) /\ Len(lh) <= LOGBLOCKS
  /\ outstanding \in Nat
  /\ phase \in Phases /\ tail \in Nat \ {0} /\ up \in BOOLEAN
  /\ pc \in [Thread -> {"idle", "begin", "op", "commit", "sync"}]
  /\ asleep \subseteq Thread
  /\ wr \in [Thread -> SUBSET Block]
  /\ left \in [Thread -> Nat]
  /\ owed \in [Thread -> BOOLEAN]

(* What recovery would leave on the disk after a crash now. *)
Recovered ==
  [b \in Block |-> IF \E i \in DOMAIN dhead : dhead[i] = b
                     THEN dlog[CHOOSE i \in DOMAIN dhead : dhead[i] = b]
                     ELSE disk[b]]

(* What a system call would read now; recovery runs before the first one. *)
View == IF up THEN [b \in Block |-> bread(b)] ELSE Recovered

Open == {p \in Thread : pc[p] = "op"}

AD == INSTANCE AtomicDisk WITH durable <- Recovered, view <- View, open <- Open

(* The log implements an atomic disk: whole groups of system calls become  *)
(* durable, at the write of the header, and no crash, before, during or    *)
(* after a commit or a recovery, leaves anything else.                     *)
Atomic == AD!ASpec

(* None of the panics of log_write and end_op: as long as system calls     *)
(* keep to OpBlocks, the log has room for them, and none is open while a   *)
(* commit runs.                                                            *)
NoLogPanic ==
  /\ \A p \in Thread : (\E b \in Block : MayWrite(p, b)) => Len(lh) < LOGBLOCKS
  /\ committing => Open = {}

(* A buffer is pinned, once, exactly while its block is in the log and not *)
(* yet installed: none is recycled too early, and none is lost to the      *)
(* cache for good.                                                         *)
ToInstall(b) ==
  \E i \in DOMAIN lh : /\ lh[i] = b
                       /\ phase # "clear"
                       /\ phase = "install" => i >= tail

PinsMatchLog ==
  /\ TypeOK
  /\ up => \A b \in Block : pin[b] = IF ToInstall(b) THEN 1 ELSE 0

(* When sys_sync returns, at once or after a commit, what had ended before *)
(* the call is durable.                                                    *)
SyncDurable ==
  /\ up /\ ~MustSync => lh = <<>>
  /\ \A p \in Thread : pc[p] = "sync" /\ left[p] = 0 => ~owed[p]

(* Every sleeper on &log, for room, for the end of a commit or in sys_sync, *)
(* is woken, who waits for room also when calls follow each other so that  *)
(* no commit ever comes (whether it then finds room is another matter).    *)
SleepersWoken == \A p \in Thread : p \in asleep ~> p \notin asleep
=============================================================================
