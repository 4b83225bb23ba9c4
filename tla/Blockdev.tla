------------------------------ MODULE Blockdev ------------------------------
(***************************************************************************)
(* The buffer cache (xv6/kernel/bio.c) over the virtio disk driver         *)
(* (virtio_disk.c) and the device: processes that read and write blocks,   *)
(* the interrupt handler, and a device that completes requests in any      *)
(* order.                                                                  *)
(*                                                                         *)
(* A process reads a block (bread), may change it and write it (bwrite),   *)
(* and releases it (brelse).  A step is a critical section of bcache.lock  *)
(* or of vdisk_lock, or of the spinlock of a sleep-lock; of the handler,   *)
(* one turn of its loop, between which the device goes on.  sleep_prepare  *)
(* is in the same critical section as the test before it (see Proc for     *)
(* what follows); asleep[p] is then what p sleeps on, and a wakeup makes   *)
(* it None: p tests again, when others may have been faster.               *)
(***************************************************************************)
EXTENDS Integers, FiniteSets, FiniteSetsExt

CONSTANTS
  Proc, Block, Val,
  Request,    \* pairs of a block and a value to write in it, or None
  InitVal, None,
  NBUF,
  NUM,        \* descriptors, and entries of either ring
  IDX,        \* the rings' index counters wrap at IDX (2^16 in the code)
  MaxOps      \* bound

Buf == 1 .. NBUF
Desc == 0 .. NUM - 1
Free0 == 0          \* &disk.free[0], as a channel
Lk(x) == -x         \* the sleep-lock of buffer x, as a channel
Channel == {Free0} \cup Buf \cup {Lk(x) : x \in Buf}

ASSUME BlockdevAssumption ==
  /\ InitVal \in Val /\ None \notin Proc \cup Val \cup Block \cup Int
  /\ Request \subseteq Block \X (Val \cup {None})
  /\ IsFiniteSet(Proc) /\ NBUF \in Nat \ {0}
  /\ NUM \in Nat /\ NUM >= 3
  /\ IDX \in Nat \ {0} /\ IDX % NUM = 0

VARIABLES
  buf, lru,          \* bcache; lru is its list from head.next
  pc, b, op, asleep, \* where each process is, its buffer and operation
  held,              \* who has the sleep-lock of each buffer
  free, desc, info,  \* disk.free, disk.desc with disk.ops, disk.info
  avail, used,       \* the rings, with their idx
  used_idx,
  intr,              \* the handler: "off", or "loop" with vdisk_lock held
  line,              \* the device's interrupt line
  seen, doing,       \* the device: entries of avail it has taken
  store,             \* what is on the disk
  ops,
  panic              \* bget has found no buffer

cache == <<buf, lru, held>>
driver == <<free, desc, info, avail, used_idx>>
device == <<used, line, seen, doing, store>>
state == <<cache, pc, b, op, asleep, driver, intr, device, ops>>
vars == <<state, panic>>

NoOp == [block |-> None, val |-> None, idx |-> 0]

Init ==
  /\ buf = [x \in Buf |-> [block |-> None, refcnt |-> 0, valid |-> FALSE,
                           disk |-> FALSE, data |-> InitVal]]
  /\ lru = [x \in Buf |-> NBUF + 1 - x]
  /\ held = [x \in Buf |-> None]
  /\ pc = [p \in Proc |-> "idle"] /\ b = [p \in Proc |-> 1]
  /\ op = [p \in Proc |-> NoOp] /\ asleep = [p \in Proc |-> None]
  /\ free = Desc
  /\ desc = [d \in Desc |-> [next |-> 0, more |-> FALSE]]
  /\ info = [d \in Desc |-> [b |-> 0, status |-> 0, write |-> FALSE,
                           block |-> None, addr |-> 1]]
  /\ avail = [idx |-> 0, ring |-> [d \in Desc |-> 0]]
  /\ used = [idx |-> 0, ring |-> [d \in Desc |-> 0]]
  /\ used_idx = 0 /\ intr = "off" /\ line = FALSE
  /\ seen = 0 /\ doing = {}
  /\ store = [k \in Block |-> InitVal]
  /\ ops = 0 /\ panic = FALSE

Goto(p, l) == pc' = [pc EXCEPT ![p] = l]

Woken(c) == [p \in Proc |-> IF asleep[p] = c THEN None ELSE asleep[p]]

-----------------------------------------------------------------------------
(* bio.c *)

Cached(k) == {x \in Buf : buf[x].block = k}

Unused == {x \in Buf : buf[x].refcnt = 0}

(* The buffer bget recycles: the last of the list that nobody uses. *)
Victim == lru[Max({i \in Buf : buf[lru[i]].refcnt = 0})]

(* Mutant of Taken: the recycled buffer passes for the new block's. *)
MutTaken(x, k) == [buf[x] EXCEPT !.block = k, !.refcnt = 1]
Taken(x, k) == [buf[x] EXCEPT !.block = k, !.valid = FALSE, !.refcnt = 1]

(* bget, up to the release of bcache.lock, for an operation on block k that *)
(* writes v, or only reads if v is None.                                   *)
bget(p, k, v) ==
  /\ pc[p] = "idle" /\ ops < MaxOps
  /\ Cached(k) # {} \/ Unused # {}
  /\ ops' = ops + 1
  /\ op' = [op EXCEPT ![p] = [block |-> k, val |-> v, idx |-> 0]]
  /\ IF Cached(k) # {}
     THEN LET x == Min(Cached(k)) IN
          /\ buf' = [buf EXCEPT ![x].refcnt = @ + 1]
          /\ b' = [b EXCEPT ![p] = x]
     ELSE /\ buf' = [buf EXCEPT ![Victim] = Taken(Victim, k)]
          /\ b' = [b EXCEPT ![p] = Victim]
  /\ Goto(p, "lock")
  /\ UNCHANGED <<lru, held, asleep, driver, intr, device>>

(* ... which panics when the block is in no buffer and all are in use. *)
bget_panic(p, k) ==
  /\ pc[p] = "idle" /\ ops < MaxOps
  /\ Cached(k) = {} /\ Unused = {}
  /\ panic' = TRUE
  /\ UNCHANGED state

(* acquiresleep(&b->lock): a turn of its loop, or its end; bread then reads *)
(* the block unless it is valid.                                           *)
acquiresleep(p) ==
  /\ pc[p] = "lock" /\ asleep[p] = None
  /\ IF held[b[p]] # None
     THEN /\ asleep' = [asleep EXCEPT ![p] = Lk(b[p])]
          /\ UNCHANGED <<held, pc>>
     ELSE /\ held' = [held EXCEPT ![b[p]] = p]
          /\ Goto(p, IF buf[b[p]].valid THEN "have" ELSE "read")
          /\ UNCHANGED asleep
  /\ UNCHANGED <<buf, lru, b, op, driver, intr, device, ops>>

(* The caller of bread has the block; it may change it and call bwrite. *)
modify(p) ==
  /\ pc[p] = "have"
  /\ IF op[p].val = None
     THEN Goto(p, "release") /\ UNCHANGED buf
     ELSE /\ buf' = [buf EXCEPT ![b[p]].data = op[p].val]
          /\ Goto(p, "write")
  /\ UNCHANGED <<lru, held, b, op, asleep, driver, intr, device, ops>>

(* The list with buffer x moved to its head. *)
MoveToFront(x) ==
  LET at == CHOOSE i \in Buf : lru[i] = x
  IN [i \in Buf |-> IF i = 1 THEN x ELSE IF i <= at THEN lru[i - 1] ELSE lru[i]]

(* brelse: releasesleep, and then the critical section of bcache.lock. *)
releasesleep(p) ==
  /\ pc[p] = "release"
  /\ held' = [held EXCEPT ![b[p]] = None]
  /\ asleep' = Woken(Lk(b[p]))
  /\ Goto(p, "drop")
  /\ UNCHANGED <<buf, lru, b, op, driver, intr, device, ops>>

brelse(p) ==
  /\ pc[p] = "drop"
  /\ LET x == b[p] IN
     /\ buf' = [buf EXCEPT ![x].refcnt = @ - 1]
     /\ lru' = IF buf[x].refcnt = 1 THEN MoveToFront(x) ELSE lru
  /\ op' = [op EXCEPT ![p] = NoOp]
  /\ b' = [b EXCEPT ![p] = 1]
  /\ Goto(p, "idle")
  /\ UNCHANGED <<held, asleep, driver, intr, device, ops>>

-----------------------------------------------------------------------------
(* virtio_disk.c; intr = "off" when vdisk_lock is free *)

Inc(i) == (i + 1) % IDX

(* The first three free descriptors. *)
alloc3_desc ==
  LET i0 == Min(free)  i1 == Min(free \ {i0})  i2 == Min(free \ {i0, i1})
  IN <<i0, i1, i2>>

(* virtio_disk_rw up to the first sleep: with three descriptors, the       *)
(* request is put in avail and p sleeps on b; else it gives back those it  *)
(* got, which wakes the others, and sleeps on &disk.free[0].               *)
virtio_disk_rw(p) ==
  /\ pc[p] \in {"read", "write"} /\ asleep[p] = None /\ intr = "off"
  /\ IF Cardinality(free) < 3
     THEN /\ asleep' = [IF free = {} THEN asleep ELSE Woken(Free0)
                         EXCEPT ![p] = Free0]
          /\ UNCHANGED <<buf, op, pc, driver>>
     ELSE LET i0 == alloc3_desc[1]  i1 == alloc3_desc[2]  i2 == alloc3_desc[3]
          IN /\ free' = free \ {i0, i1, i2}
             /\ desc' = [desc EXCEPT ![i0] = [next |-> i1, more |-> TRUE],
                                     ![i1] = [next |-> i2, more |-> TRUE],
                                     ![i2] = [next |-> 0, more |-> FALSE]]
             /\ info' = [info EXCEPT ![i0] = [b |-> b[p], status |-> 255,
                                              write |-> pc[p] = "write",
                                              block |-> buf[b[p]].block,
                                              addr |-> b[p]]]
             /\ avail' = [idx |-> Inc(avail.idx),
                          ring |-> [avail.ring EXCEPT ![avail.idx % NUM] = i0]]
             /\ buf' = [buf EXCEPT ![b[p]].disk = TRUE]
             /\ op' = [op EXCEPT ![p].idx = i0]
             /\ asleep' = [asleep EXCEPT ![p] = b[p]]
             /\ Goto(p, IF pc[p] = "write" THEN "written" ELSE "wait")
             /\ UNCHANGED used_idx
  /\ UNCHANGED <<lru, held, b, intr, device, ops>>

(* The chain of descriptors from d on, as free_chain follows it. *)
Chain(d) ==
  {d} \cup (IF desc[d].more
            THEN LET e == desc[d].next IN
                 {e} \cup (IF desc[e].more THEN {desc[e].next} ELSE {})
            ELSE {})

Given(d) == Chain(d)

(* The rest of virtio_disk_rw, once the disk is done with b. *)
rw_done(p) ==
  /\ pc[p] \in {"wait", "written"} /\ asleep[p] = None /\ intr = "off"
  /\ LET x == b[p]  d == op[p].idx IN
     IF buf[x].disk
     THEN /\ asleep' = [asleep EXCEPT ![p] = x]
          /\ UNCHANGED <<buf, pc, free, desc, info>>
     ELSE /\ free' = free \cup Given(d)
          /\ desc' = [e \in Desc |-> IF e \in Given(d)
                        THEN [next |-> 0, more |-> FALSE] ELSE desc[e]]
          /\ info' = [info EXCEPT ![d].b = 0]
          /\ asleep' = Woken(Free0)
          /\ buf' = [buf EXCEPT ![x].valid = TRUE]
          /\ Goto(p, IF pc[p] = "wait" THEN "have" ELSE "release")
  /\ UNCHANGED <<lru, held, b, op, avail, used_idx, intr, device, ops>>

-----------------------------------------------------------------------------
(* virtio_disk_intr *)

(* The interrupt is taken, vdisk_lock acquired, the device acknowledged. *)
virtio_disk_intr ==
  /\ line /\ intr = "off"
  /\ intr' = "loop" /\ line' = FALSE
  /\ UNCHANGED <<cache, pc, b, op, asleep, driver, used, seen, doing, store, ops>>

(* Mutant of More: off by one, the last entry is left. *)
MutMore == Inc(used_idx) # used.idx
More == used_idx # used.idx

(* Mutant of Id: used_idx is incremented before the entry is read. *)
MutId == used.ring[(used_idx + 1) % NUM]
Id == used.ring[used_idx % NUM]

(* One turn of the handler's loop; status # 0 or no buffer would panic. *)
intr_turn ==
  /\ intr = "loop" /\ More
  /\ LET x == info[Id].b IN
     /\ info[Id].status = 0 /\ x # 0
     /\ buf' = [buf EXCEPT ![x].disk = FALSE]
     /\ asleep' = Woken(x)
  /\ used_idx' = Inc(used_idx)
  /\ UNCHANGED <<lru, held, pc, b, op, free, desc, info, avail, intr, device, ops>>

intr_end ==
  /\ intr = "loop" /\ ~More
  /\ intr' = "off"
  /\ UNCHANGED <<cache, pc, b, op, asleep, driver, device, ops>>

-----------------------------------------------------------------------------
(* The device *)

(* It takes the next entry of avail. *)
take ==
  /\ seen # avail.idx
  /\ doing' = doing \cup {avail.ring[seen % NUM]}
  /\ seen' = (seen + 1) % IDX
  /\ UNCHANGED <<cache, pc, b, op, asleep, driver, intr, used, line, store, ops>>

(* It completes one of the requests it has: moves the data, sets the       *)
(* status, adds the head to used, raises the line.                         *)
complete(d) ==
  LET r == info[d] IN
  /\ d \in doing
  /\ doing' = doing \ {d}
  /\ IF r.write
     THEN store' = [store EXCEPT ![r.block] = buf[r.addr].data] /\ UNCHANGED buf
     ELSE buf' = [buf EXCEPT ![r.addr].data = store[r.block]] /\ UNCHANGED store
  /\ info' = [info EXCEPT ![d].status = 0]
  /\ used' = [idx |-> (used.idx + 1) % IDX,
              ring |-> [used.ring EXCEPT ![used.idx % NUM] = d]]
  /\ line' = TRUE
  /\ UNCHANGED <<lru, held, pc, b, op, asleep, free, desc, avail, used_idx, intr,
                 seen, ops>>

-----------------------------------------------------------------------------

step(p) ==
  \/ acquiresleep(p)
  \/ modify(p)
  \/ releasesleep(p)
  \/ brelse(p)
  \/ virtio_disk_rw(p)
  \/ rw_done(p)

Step ==
  \/ \E p \in Proc : \/ \E r \in Request : bget(p, r[1], r[2])
                     \/ step(p)
  \/ virtio_disk_intr
  \/ intr_turn
  \/ intr_end
  \/ take
  \/ \E d \in Desc : complete(d)

Next ==
  /\ ~panic
  /\ \/ Step /\ UNCHANGED panic
     \/ \E p \in Proc, r \in Request : bget_panic(p, r[1])

Spec == Init /\ [][Next]_vars

-----------------------------------------------------------------------------
(* Properties *)

TypeOK ==
  /\ buf \in [Buf -> [block : Block \cup {None}, refcnt : 0 .. Cardinality(Proc),
                      valid : BOOLEAN, disk : BOOLEAN, data : Val]]
  /\ lru \in [Buf -> Buf] /\ held \in [Buf -> Proc \cup {None}]
  /\ asleep \in [Proc -> {None} \cup Channel] /\ b \in [Proc -> Buf]
  /\ free \subseteq Desc /\ doing \subseteq Desc
  /\ {avail.idx, used.idx, used_idx, seen} \subseteq 0 .. IDX - 1
  /\ intr \in {"off", "loop"} /\ line \in BOOLEAN
  /\ store \in [Block -> Val]

(* bget never makes a second buffer of a block, and the LRU list keeps     *)
(* every buffer once, whatever the order of lookups, recyclings and        *)
(* releases ("one buffer per block" is what makes a buffer's sleep-lock    *)
(* the lock of the block).                                                 *)
OneBufferPerBlock ==
  /\ TypeOK
  /\ \A x, y \in Buf : buf[x].block = buf[y].block /\ x # y
                        => buf[x].block = None
  /\ \A x \in Buf : Cardinality({i \in Buf : lru[i] = x}) = 1

(* A process that has a block sees what the disk holds, which is what was  *)
(* last written, by it or by anyone: no recycled, unread or half-read      *)
(* buffer is ever handed out by bread, and no write is lost.               *)
ReadsLatest ==
  \A p \in Proc : pc[p] = "have" =>
    /\ buf[b[p]].valid /\ buf[b[p]].block = op[p].block
    /\ held[b[p]] = p
    /\ buf[b[p]].data = store[op[p].block]

(* The cache is coherent: both together. *)
CacheCoherent == OneBufferPerBlock /\ ReadsLatest

Waiting == {p \in Proc : pc[p] \in {"wait", "written"}}

(* Every descriptor is either free or in the chain of exactly one process  *)
(* that waits for its request: alloc3_desc and free_chain neither lose a   *)
(* descriptor nor give one to two requests (panic "free_desc 2").          *)
DescriptorsAccounted ==
  /\ \A p, q \in Waiting : p # q => Chain(op[p].idx) \cap Chain(op[q].idx) = {}
  /\ Desc \ free = UNION {Chain(op[p].idx) : p \in Waiting}
  /\ \A p \in Waiting : Cardinality(Chain(op[p].idx)) = 3

(* The entries lo, lo + 1 ... hi - 1 of a ring whose counters wrap. *)
Entries(r, lo, hi) ==
  {r.ring[(lo + i) % NUM] : i \in 0 .. ((hi - lo + IDX) % IDX) - 1}

(* The requests of the processes whose buffer the disk still owns are      *)
(* exactly the ones in avail, in the device or in used, each once: no      *)
(* entry of a ring is overwritten before it is read, at the wrap of the    *)
(* 16-bit counters neither, and the handler never takes a stale id.        *)
RequestsInFlight ==
  LET a == Entries(avail, seen, avail.idx)  u == Entries(used, used_idx, used.idx)
      n == ((avail.idx - seen + IDX) % IDX) + Cardinality(doing)
             + ((used.idx - used_idx + IDX) % IDX)
      own == {p \in Waiting : buf[b[p]].disk}
  IN /\ a \cup doing \cup u = {op[p].idx : p \in own}
     /\ n = Cardinality(own)
     /\ \A p \in own : info[op[p].idx].b = b[p]
     /\ \A d \in u : info[d].status = 0

(* The driver and the device agree on who owns which descriptor. *)
RingsSound == DescriptorsAccounted /\ RequestsInFlight

(* No wakeup is lost: who sleeps for descriptors is woken when three are   *)
(* free, who sleeps on its buffer when the disk is done with it, who       *)
(* sleeps for a sleep-lock when it is released, however many sleep on it;  *)
(* and a completion in used that the handler has yet to see keeps the      *)
(* interrupt line up, one the device adds after its last look too.         *)
NothingMissed ==
  /\ \A p \in Proc : /\ asleep[p] = Free0 => Cardinality(free) < 3
                     /\ asleep[p] \in Buf => buf[asleep[p]].disk
                     /\ \A x \in Buf : asleep[p] = Lk(x) => held[x] # None
  /\ intr = "off" /\ used_idx # used.idx => line

=============================================================================
