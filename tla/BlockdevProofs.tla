--------------------------- MODULE BlockdevProofs ---------------------------
(***************************************************************************)
(* Blockdev keeps the rings (Flying), what disk.info says (Described), the *)
(* data (Coherent) and the wakeups (NothingMissed); the theorems about     *)
(* Blockdev.                                                               *)
(***************************************************************************)
EXTENDS BlockdevSteps

-----------------------------------------------------------------------------
(* The rings *)

(* A buffer has one holder, a descriptor one chain. *)
LEMMA OneHolder ==
  ASSUME Types, Locked, NEW p \in Proc, NEW q \in Proc, pc[p] \in Holding,
         pc[q] \in Holding, b[p] = b[q]
  PROVE  p = q
  <1>1. b[p] \in Buf
    BY DEF Types
  <1>2. held[b[p]] = p /\ held[b[p]] = q
    BY <1>1 DEF Locked
  <1>3. QED
    BY <1>2

(* Two processes never wait for the same request. *)
LEMMA OneRequest ==
  ASSUME Chained, NEW p \in Waiting, NEW q \in Waiting, op[p].idx = op[q].idx
  PROVE  p = q
  <1>1. op[p].idx \in Three(p) \cap Three(q)
    BY DEF Three
  <1>2. QED
    BY <1>1 DEF Chained

(* What the rings and the device hold is in flight still if nobody moves a request. *)
LEMMA FlyingKept ==
  ASSUME Flying, {op'[q].idx : q \in Own'} = {op[q].idx : q \in Own},
         UNCHANGED <<avail, used, used_idx, seen, doing>>
  PROVE  Flying'
  <1>1. InAvail' = InAvail /\ InUsed' = InUsed
    BY DEF InAvail, InUsed
  <1>2. QED
    BY <1>1 DEF Flying

(* The counters of the rings are in their range. *)
LEMMA Counters ==
  ASSUME Types
  PROVE  /\ avail \in Ring /\ used \in Ring /\ seen \in 0 .. IDX - 1
         /\ used_idx \in 0 .. IDX - 1 /\ avail.idx \in 0 .. IDX - 1
         /\ used.idx \in 0 .. IDX - 1
  BY DEF Types, Ring

(* A ring has room when two descriptors are not in it. *)
LEMMA HasRoom ==
  ASSUME Counting, NEW r \in Ring, NEW lo \in 0 .. IDX - 1, Distinct(r, lo, r.idx),
         NEW d \in Desc, NEW e \in Desc, d # e,
         Entries(r, lo, r.idx) \subseteq Desc \ {d, e}
  PROVE  Gap(lo, r.idx) < NUM /\ Gap(lo, r.idx) < IDX - 1
  <1> DEFINE S == Desc \ {d, e}  T == Desc \ {d}
  <1>1. IsFiniteSet(T) /\ Cardinality(T) = NUM - 1
    BY Finite, CountRemove
  <1>2. IsFiniteSet(S) /\ Cardinality(S) = NUM - 2
    <2>1. S = T \ {e} /\ e \in T
      OBVIOUS
    <2>2. IsFiniteSet(T \ {e}) /\ Cardinality(T \ {e}) = Cardinality(T) - 1
      <3> HIDE DEF T
      <3>1. QED BY <1>1, <2>1, CountRemove
    <2>3. NUM \in Nat
      BY BlockdevAssumption
    <2> HIDE DEF S, T
    <2>4. QED
      BY <1>1, <2>1, <2>2, <2>3
  <1>3. Gap(lo, r.idx) <= Cardinality(S)
    <2> HIDE DEF S
    <2>0. Entries(r, lo, r.idx) \subseteq S
      BY DEF S
    <2>1. QED BY <1>2, <2>0, EntriesFit
  <1>4. Gap(lo, r.idx) \in Int
    <2>1. r.idx \in 0 .. IDX - 1
      BY DEF Ring
    <2>2. QED
      BY <2>1, GapIs, SMTT(20)
  <1> HIDE DEF S, T
  <1>5. QED
    BY <1>2, <1>3, <1>4, Sizes

(* virtio_disk_rw puts one new request in avail, which has room for it. *)
LEMMA FlyingQueued ==
  ASSUME BInv, NEW p \in Proc, NEW i \in free, NEW j \in free, NEW k \in free,
         Queued(p, i, j, k)
  PROVE  Flying' /\ InAvail' = InAvail \cup {i} /\ Own' = Own \cup {p}
  <1> Counting /\ Types /\ Chained /\ Flying /\ Locked
    BY SMTT(20) DEF BInv
  <1>1. i \in Desc /\ j \in Desc /\ i # j
    BY Zenon DEF Types, Queued
  <1>2. p \notin Waiting /\ Waiting' = Waiting \cup {p} /\ b' = b /\ b[p] \in Buf
    BY Zenon DEF Queued, Waiting, Types
  <1>3. op'[p].idx = i /\ \A q \in Proc : q # p => op'[q] = op[q]
    BY SMTT(20) DEF Queued, Types
  <1>4. \A q \in Waiting : b[q] # b[p]
    <2> SUFFICES ASSUME NEW q \in Waiting, b[q] = b[p] PROVE FALSE
      OBVIOUS
    <2>1. pc[p] \in Holding
      BY DEF Queued, Holding
    <2>2. QED
      BY <1>2, <2>1, OneHolder, WaitingHolds, SMTT(20)
  <1>5. \A x \in Buf : buf'[x].disk <=> (buf[x].disk \/ x = b[p])
    <2>1. buf \in [Buf -> Buffer] /\ buf' = [buf EXCEPT ![b[p]].disk = TRUE]
      BY DEF Types, Queued
    <2>2. QED
      BY <1>2, <2>1 DEF Buffer
  <1>6. Own' = Own \cup {p}
    <2>1. \A q \in Waiting : buf'[b[q]].disk <=> buf[b[q]].disk
      BY <1>4, <1>5, WaitingHolds
    <2>2. buf'[b[p]].disk
      BY <1>2, <1>5
    <2>3. QED
      BY <1>2, <2>1, <2>2 DEF Own
  <1>7. Own \subseteq Waiting /\ Waiting \subseteq Proc
    BY DEF Own, Waiting
  <1>8. {op'[q].idx : q \in Own'} = {op[q].idx : q \in Own} \cup {i}
    <2>1. \A q \in Own : op'[q].idx = op[q].idx
      BY <1>2, <1>3, <1>7, Zenon
    <2>2. QED
      BY <1>3, <1>6, <2>1
  <1>9. \A q \in Own : op[q].idx \notin {i, j} /\ op[q].idx \in Desc
    BY <1>7, ChainIs DEF Chained, Three
  <1>10. InAvail \cup doing \cup InUsed \subseteq Desc \ {i, j}
    BY <1>9, Zenon DEF Flying
  <1>11. Gap(seen, avail.idx) < NUM /\ Gap(seen, avail.idx) < IDX - 1
    BY <1>1, <1>10, Counters, HasRoom DEF Flying, InAvail
  <1>12. avail' = [idx |-> (avail.idx + 1) % IDX,
                   ring |-> [avail.ring EXCEPT ![avail.idx % NUM] = i]]
    BY DEF Queued, Inc
  <1>13. UNCHANGED <<used, used_idx, seen, doing>>
    BY DEF Queued, device
  <1>14. /\ Entries(avail', seen, avail'.idx) = Entries(avail, seen, avail.idx) \cup {i}
         /\ Distinct(avail', seen, avail'.idx)
    <2>1. i \notin Entries(avail, seen, avail.idx) /\ Distinct(avail, seen, avail.idx)
      BY <1>10, Zenon DEF InAvail, Flying
    <2> DEFINE s == avail'
    <2>2. s = [idx |-> (avail.idx + 1) % IDX,
               ring |-> [avail.ring EXCEPT ![avail.idx % NUM] = i]]
      BY <1>12
    <2>0. avail \in Ring /\ seen \in 0 .. IDX - 1 /\ i \in Desc
      BY <1>1, Counters, Zenon
    <2> HIDE DEF s
    <2>3. /\ Entries(s, seen, s.idx) = Entries(avail, seen, avail.idx) \cup {i}
          /\ Distinct(s, seen, s.idx)
      BY <1>11, <2>0, <2>1, <2>2, Put
    <2>4. QED
      BY <2>3, Zenon DEF s
  <1>15. InAvail' = InAvail \cup {i} /\ InUsed' = InUsed
    BY <1>13, <1>14, Zenon DEF InAvail, InUsed
  <1>16. Flying'
    BY <1>8, <1>10, <1>13, <1>14, <1>15 DEF Flying
  <1>17. QED
    BY <1>6, <1>15, <1>16, SMTT(20)

(* The device takes one request from avail: take. *)
LEMMA FlyingTake ==
  ASSUME BInv, take
  PROVE  /\ Flying' /\ Own' = Own /\ InUsed' = InUsed
         /\ InAvail' \cup doing' = InAvail \cup doing
  <1> Types /\ Flying
    BY DEF BInv
  <1> DEFINE d == avail.ring[seen % NUM]
  <1>1. seen # avail.idx /\ seen' = (seen + 1) % IDX /\ doing' = doing \cup {d}
    BY DEF take
  <1>2. UNCHANGED <<avail, used, used_idx, pc, b, op, buf>>
    BY DEF take, cache, driver
  <1>3. /\ d \in Entries(avail, seen, avail.idx)
        /\ Entries(avail, seen', avail.idx) = Entries(avail, seen, avail.idx) \ {d}
        /\ Distinct(avail, seen', avail.idx)
    <2>1. Distinct(avail, seen, avail.idx)
      BY DEF Flying
    <2> DEFINE l == seen'
    <2> HIDE DEF d, l
    <2>2. d = avail.ring[seen % NUM] /\ l = (seen + 1) % IDX
      BY <1>1, Zenon DEF d, l
    <2>3. /\ d \in Entries(avail, seen, avail.idx)
          /\ Entries(avail, l, avail.idx) = Entries(avail, seen, avail.idx) \ {d}
          /\ Distinct(avail, l, avail.idx)
      BY <1>1, <2>1, <2>2, Counters, Get
    <2>4. QED
      BY <2>3 DEF l
  <1>4. d \in InAvail /\ InAvail' = InAvail \ {d} /\ InUsed' = InUsed
    BY <1>2, <1>3, Zenon DEF InAvail, InUsed
  <1>5. Own' = Own /\ {op'[q].idx : q \in Own'} = {op[q].idx : q \in Own}
    BY <1>2, Zenon DEF Own, Waiting
  <1> HIDE DEF d
  <1>6. Flying'
    BY <1>1, <1>2, <1>3, <1>4, <1>5 DEF Flying
  <1>7. QED
    BY <1>1, <1>4, <1>5, <1>6

(* The device puts one request in used, which has room for it: complete. *)
LEMMA FlyingComplete ==
  ASSUME BInv, NEW d \in Desc, complete(d)
  PROVE  /\ Flying' /\ Own' = Own /\ InUsed' = InUsed \cup {d}
         /\ InAvail' = InAvail /\ d \in doing
  <1> Counting /\ Types /\ Flying /\ Chained
    BY Zenon DEF BInv
  <1>1. d \in doing /\ doing' = doing \ {d}
    BY Zenon DEF complete
  <1>2. UNCHANGED <<avail, seen, used_idx, pc, b, op>>
    BY DEF complete
  <1>3. \A x \in Buf : buf'[x].disk <=> buf[x].disk
    <2>1. buf' = buf \/ buf' = [buf EXCEPT ![info[d].addr].data = store[info[d].block]]
      BY Zenon DEF complete
    <2>2. buf \in [Buf -> Buffer]
      BY Zenon DEF Types
    <2>3. QED
      BY <2>1, <2>2 DEF Buffer
  <1>4. Own' = Own /\ {op'[q].idx : q \in Own'} = {op[q].idx : q \in Own}
    <2>1. \A q \in Waiting : buf'[b'[q]].disk <=> buf[b[q]].disk
      BY <1>2, <1>3, WaitingHolds, Zenon
    <2>2. QED
      BY <1>2, <2>1, Zenon DEF Own, Waiting
  <1>5. PICK p \in Own : op[p].idx = d
    BY <1>1, Zenon DEF Flying
  <1>6. Own \subseteq Waiting
    BY DEF Own
  <1>7. \A q \in Own : op[q].idx # Second(p) /\ op[q].idx \in Desc
    BY <1>6, ChainIs, Zenon DEF Chained, Three
  <1>8. Second(p) \in Desc /\ d # Second(p)
    BY <1>5, <1>6, <1>7, ChainIs, Zenon
  <1>9. InUsed \subseteq Desc \ {d, Second(p)}
    BY <1>1, <1>7 DEF Flying
  <1>10. Gap(used_idx, used.idx) < NUM /\ Gap(used_idx, used.idx) < IDX - 1
    BY <1>8, <1>9, Counters, HasRoom, Zenon DEF Flying, InUsed
  <1>11. used' = [idx |-> (used.idx + 1) % IDX,
                  ring |-> [used.ring EXCEPT ![used.idx % NUM] = d]]
    BY DEF complete
  <1>12. /\ Entries(used', used_idx, used'.idx) = Entries(used, used_idx, used.idx) \cup {d}
         /\ Distinct(used', used_idx, used'.idx)
    <2>1. d \notin Entries(used, used_idx, used.idx) /\ Distinct(used, used_idx, used.idx)
      BY <1>9 DEF InUsed, Flying
    <2>2. used \in Ring /\ used_idx \in 0 .. IDX - 1
      BY Counters, Zenon
    <2>3. ASSUME NEW s, s = [idx |-> (used.idx + 1) % IDX,
                             ring |-> [used.ring EXCEPT ![used.idx % NUM] = d]]
          PROVE  /\ Entries(s, used_idx, s.idx) = Entries(used, used_idx, used.idx) \cup {d}
                 /\ Distinct(s, used_idx, s.idx)
      BY <1>10, <2>1, <2>2, <2>3, Put, SMTT(20)
    <2>4. QED
      BY <1>11, <2>3, Zenon
  <1>13. InUsed' = InUsed \cup {d} /\ InAvail' = InAvail
    BY <1>2, <1>12, Zenon DEF InAvail, InUsed
  <1>14. Flying'
    BY <1>1, <1>2, <1>4, <1>12, <1>13 DEF Flying
  <1>15. QED
    BY <1>1, <1>4, <1>13, <1>14

(* The handler takes one request from used, that of the buffer it releases. *)
LEMMA FlyingTurn ==
  ASSUME BInv, intr_turn
  PROVE  /\ Flying' /\ InAvail' = InAvail /\ InUsed' = InUsed \ {Id} /\ Id \in InUsed
         /\ \E q \in Own : op[q].idx = Id /\ b[q] = info[Id].b /\ Own' = Own \ {q}
  <1> Types /\ Flying /\ Chained /\ Locked
    BY DEF BInv
  <1> DEFINE d == Id
  <1>1. /\ used_idx # used.idx /\ d = used.ring[used_idx % NUM]
        /\ used_idx' = (used_idx + 1) % IDX
    BY Zenon DEF intr_turn, More, Id, Inc
  <1>2. UNCHANGED <<avail, used, seen, doing, pc, b, op>>
    BY DEF intr_turn, device
  <1>3. /\ d \in Entries(used, used_idx, used.idx)
        /\ Entries(used, used_idx', used.idx) = Entries(used, used_idx, used.idx) \ {d}
        /\ Distinct(used, used_idx', used.idx)
    <2>1. Distinct(used, used_idx, used.idx)
      BY DEF Flying
    <2> DEFINE l == used_idx'
    <2> HIDE DEF d, l
    <2>2. l = (used_idx + 1) % IDX
      BY <1>1, Zenon DEF l
    <2>3. /\ d \in Entries(used, used_idx, used.idx)
          /\ Entries(used, l, used.idx) = Entries(used, used_idx, used.idx) \ {d}
          /\ Distinct(used, l, used.idx)
      BY <1>1, <2>1, <2>2, Counters, Get
    <2>4. QED
      BY <2>3, Zenon DEF l
  <1>4. d \in InUsed /\ InUsed' = InUsed \ {d} /\ InAvail' = InAvail
    BY <1>2, <1>3, Zenon DEF InAvail, InUsed
  <1>5. PICK q \in Own : op[q].idx = d /\ info[d].b = b[q] /\ b[q] \in Buf
    BY <1>4, Owner
  <1>6. \A x \in Buf : buf'[x].disk <=> (buf[x].disk /\ x # b[q])
    <2>1. buf' = [buf EXCEPT ![b[q]].disk = FALSE] /\ buf \in [Buf -> Buffer]
      BY <1>5, Zenon DEF intr_turn, Types
    <2>2. QED
      BY <1>5, <2>1, Zenon DEF Buffer
  <1>7. Own \subseteq Waiting
    BY Zenon DEF Own
  <1>8. \A r \in Waiting : b[r] = b[q] => r = q
    BY <1>5, <1>7, OneHolder, WaitingHolds, Zenon
  <1>9. Own' = Own \ {q}
    <2>1. Waiting' = Waiting
      BY <1>2 DEF Waiting
    <2>2. \A r \in Waiting : buf'[b[r]].disk <=> (buf[b[r]].disk /\ r # q)
      BY <1>6, <1>8, WaitingHolds
    <2>3. QED
      BY <1>2, <2>1, <2>2 DEF Own
  <1>10. \A r \in Own : op[r].idx = d => r = q
    BY <1>5, <1>7, OneRequest, Zenon
  <1> HIDE DEF d
  <1>11. {op'[r].idx : r \in Own'} = {op[r].idx : r \in Own} \ {d}
    BY <1>2, <1>5, <1>9, <1>10, Zenon
  <1>12. Flying'
    BY <1>2, <1>3, <1>4, <1>11 DEF Flying
  <1>13. QED
    BY <1>4, <1>5, <1>9, <1>12 DEF d

(* The rings. *)
LEMMA FlyingStep == BInv /\ [Next]_vars => Flying'
  <1> SUFFICES ASSUME BInv, [Next]_vars PROVE Flying'
    OBVIOUS
  <1> Types /\ Flying
    BY DEF BInv
  <1>1. CASE Quiet
    <2>1. Kept
      BY <1>1, QuietKeeps, Zenon
    <2>2. Own' = Own /\ \A q \in Own : op'[q] = op[q]
      BY <2>1, OwnKept DEF Kept, Own
    <2>3. {op'[q].idx : q \in Own'} = {op[q].idx : q \in Own}
      BY <2>2
    <2>4. QED
      BY <2>1, <2>3, FlyingKept, Zenon DEF Kept, driver
  <1>2. ASSUME NEW p \in Proc, NEW i \in free, NEW j \in free, NEW k \in free,
               Queued(p, i, j, k)
        PROVE  Flying'
    BY <1>2, FlyingQueued, Zenon
  <1>3. ASSUME NEW p \in Proc, Done(p) PROVE Flying'
    <2> USE <1>3
    <2>1. UNCHANGED <<avail, used, used_idx, seen, doing, b, op>>
      BY Zenon DEF Done, device
    <2>2. p \in Waiting /\ Waiting' = Waiting \ {p} /\ p \notin Own
      BY Zenon DEF Done, Waiting, Own, Types
    <2>3. \A y \in Buf : buf'[y].disk <=> buf[y].disk
      BY DEF Done, Types, Buffer
    <2>4. \A q \in Waiting : buf'[b[q]].disk <=> buf[b[q]].disk
      BY <2>3, WaitingHolds, Zenon
    <2>5. Own' = Own
      BY <2>1, <2>2, <2>4, Zenon DEF Own
    <2>6. QED
      BY <2>1, <2>5, FlyingKept, Zenon
  <1>4. CASE intr_turn
    BY <1>4, FlyingTurn
  <1>5. CASE take
    BY <1>5, FlyingTake
  <1>6. ASSUME NEW d \in Desc, complete(d) PROVE Flying'
    BY <1>6, FlyingComplete
  <1>7. QED
    BY <1>1, <1>2, <1>3, <1>4, <1>5, <1>6, NextIsQuiet

-----------------------------------------------------------------------------
(* disk.info *)

(* Who has a request in flight waits for it. *)
LEMMA OwnWaits == Own \subseteq Waiting /\ Waiting \subseteq Proc
  BY DEF Own, Waiting

(* What disk.info says of a request. *)
LEMMA DescribedStep == BInv /\ [Next]_vars => Described'
  <1> SUFFICES ASSUME BInv, [Next]_vars PROVE Described'
    OBVIOUS
  <1> Types /\ Named /\ Chained /\ Flying /\ Described
    BY Zenon DEF BInv
  <1>1. CASE Quiet
    <2>1. Kept
      BY <1>1, QuietKeeps
    <2>2. Own' = Own
      BY <2>1, OwnKept, Zenon
    <2>3. InUsed' = InUsed
      BY <2>1, Zenon DEF InUsed, Kept, driver
    <2>4. QED
      BY <2>1, <2>2, <2>3, OwnWaits DEF Described, Kept, driver
  <1>2. ASSUME NEW p \in Proc, NEW i \in free, NEW j \in free, NEW k \in free,
               Queued(p, i, j, k)
        PROVE  Described'
    <2> USE <1>2
    <2>1. Own' = Own \cup {p} /\ InUsed' = InUsed
      BY FlyingQueued, Zenon DEF InUsed, Queued, device
    <2>2. i \in Desc /\ \A q \in Own : op[q].idx # i
      BY OwnWaits, Zenon DEF Chained, Three, Types
    <2>3. InUsed \subseteq {op[q].idx : q \in Own}
      BY Zenon DEF Flying
    <2>4. /\ info'[i] = [b |-> b[p], status |-> 255, write |-> pc[p] = "write",
                        block |-> buf[b[p]].block, addr |-> b[p]]
          /\ \A e \in Desc : e # i => info'[e] = info[e]
      BY <2>2, Zenon DEF Queued, Types
    <2>5. p \in Proc /\ b' = b /\ op'[p].idx = i /\ op'[p].block = op[p].block
      BY Zenon DEF Queued, Types
    <2>6. buf[b[p]].block = op[p].block
      BY Zenon DEF Named, Queued
    <2>7. pc'[p] = "written" <=> pc[p] = "write"
      BY Zenon DEF Queued, Types
    <2>8. \A q \in Own : q # p /\ op'[q] = op[q] /\ pc'[q] = pc[q] /\ op[q].idx \in Desc
      BY OwnWaits, Zenon DEF Queued, Types, Waiting
    <2>9. ASSUME NEW q \in Own'
          PROVE  LET r == info'[op'[q].idx] IN
                 /\ r.b = b'[q] /\ r.addr = b'[q] /\ r.block = op'[q].block
                 /\ r.write <=> pc'[q] = "written"
      <3>1. CASE q = p
        <4>1. /\ info'[i].b = b[p] /\ info'[i].addr = b[p]
              /\ info'[i].block = buf[b[p]].block
          BY <2>4, SMTT(20)
        <4>2. info'[i].write = (pc[p] = "write")
          BY <2>4, SMTT(20)
        <4>3. QED
          BY <2>5, <2>6, <2>7, <3>1, <4>1, <4>2, Zenon
      <3>2. CASE q \in Own
        BY <2>2, <2>4, <2>5, <2>8, <3>2, SMTT(20) DEF Described
      <3>3. QED
        BY <2>1, <3>1, <3>2
    <2>10. \A e \in InUsed' : info'[e].status = 0
      BY <2>1, <2>2, <2>3, <2>4, <2>8, SMTT(20) DEF Described
    <2>11. QED
      BY <2>9, <2>10 DEF Described
  <1>3. ASSUME NEW p \in Proc, Done(p) PROVE Described'
    <2> USE <1>3
    <2>1. UNCHANGED <<used, used_idx, b, op>>
      BY Zenon DEF Done, device
    <2>2. p \in Waiting /\ Waiting' = Waiting \ {p} /\ p \notin Own
      BY Zenon DEF Done, Waiting, Own, Types
    <2>3. \A y \in Buf : buf'[y].disk <=> buf[y].disk
      BY DEF Done, Types, Buffer
    <2>4. \A q \in Waiting : buf'[b[q]].disk <=> buf[b[q]].disk
      BY <2>3, WaitingHolds, Zenon
    <2>5. Own' = Own /\ InUsed' = InUsed
      BY <2>1, <2>2, <2>4, Zenon DEF Own, InUsed
    <2>6. \A q \in Own : pc'[q] = pc[q] /\ op[q].idx # op[p].idx /\ op[q].idx \in Desc
      <3>1. \A q \in Own : q # p /\ q \in Waiting
        BY <2>2, OwnWaits, Zenon
      <3>2. \A q \in Own : op[q].idx # op[p].idx
        BY <2>2, <3>1, OneRequest, Zenon
      <3>3. \A q \in Own : pc'[q] = pc[q] /\ op[q].idx \in Desc
        BY <3>1, Zenon DEF Done, Types, Waiting
      <3>4. QED
        BY <3>2, <3>3
    <2>7. \A e \in Desc : e # op[p].idx => info'[e] = info[e]
      BY Zenon DEF Done, Types
    <2>8. InUsed \subseteq {op[q].idx : q \in Own}
      BY Zenon DEF Flying
    <2>9. QED
      BY <2>1, <2>5, <2>6, <2>7, <2>8, SMTT(20) DEF Described
  <1>4. CASE intr_turn
    <2> USE <1>4
    <2>1. UNCHANGED <<info, b, op, pc>>
      BY Zenon DEF intr_turn
    <2>2. Own' \subseteq Own /\ InUsed' \subseteq InUsed
      BY FlyingTurn, Zenon
    <2>3. QED
      BY <2>1, <2>2 DEF Described
  <1>5. CASE take
    <2> USE <1>5
    <2>1. UNCHANGED <<info, b, op, pc>>
      BY DEF take, driver
    <2>2. Own' = Own /\ InUsed' = InUsed
      BY FlyingTake, Zenon
    <2>3. QED
      BY <2>1, <2>2, Zenon DEF Described
  <1>6. ASSUME NEW d \in Desc, complete(d) PROVE Described'
    <2> USE <1>6
    <2>1. UNCHANGED <<b, op, pc>>
      BY DEF complete
    <2>2. Own' = Own /\ InUsed' = InUsed \cup {d}
      BY FlyingComplete, Zenon
    <2>3. info' = [info EXCEPT ![d].status = 0] /\ info \in [Desc -> Info]
      BY DEF complete, Types
    <2>4. /\ \A e \in Desc : info'[e].b = info[e].b /\ info'[e].addr = info[e].addr
                            /\ info'[e].block = info[e].block
          /\ \A e \in Desc : info'[e].write <=> info[e].write
      BY <2>3 DEF Info
    <2>5. /\ info'[d].status = 0
          /\ \A e \in Desc : e # d => info'[e].status = info[e].status
      BY <2>3 DEF Info
    <2>6. \A q \in Own : op[q].idx \in Desc
      BY OwnWaits, Zenon DEF Types
    <2>7. InUsed \subseteq Desc
      BY <2>6 DEF Flying
    <2>8. QED
      BY <2>1, <2>2, <2>4, <2>5, <2>6, <2>7 DEF Described
  <1>7. QED
    BY <1>1, <1>2, <1>3, <1>4, <1>5, <1>6, NextIsQuiet

-----------------------------------------------------------------------------
(* The data *)

(* What a step that neither fills nor hands over a buffer leaves alone. *)
Plain == \A y \in Buf : /\ buf'[y].valid <=> buf[y].valid
                        /\ buf'[y].block = buf[y].block /\ buf'[y].data = buf[y].data

(* Clean is kept by a step that fills no buffer and ends no write. *)
LEMMA CleanKept ==
  ASSUME Clean, store' = store, Writers \subseteq Writers', \A p \in Writers : b'[p] = b[p],
         \A y \in Buf : buf'[y].valid => /\ buf[y].valid /\ buf'[y].block = buf[y].block
                                        /\ buf'[y].data = buf[y].data
  PROVE  Clean'
  BY DEF Clean

(* Handed is kept by a step that hands over no buffer and makes none invalid. *)
LEMMA HandedKept ==
  ASSUME Types, Handed, b' = b, \A y \in Buf : buf[y].valid => buf'[y].valid,
         \A p \in Proc : pc'[p] = "have" => pc[p] = "have"
  PROVE  Handed'
  BY Zenon DEF Handed, Types

(* What the steps do to the buffers. *)
LEMMA PlainBuffers ==
  ASSUME BInv, NEW p \in Proc,
         \/ Acquires(p) \/ releasesleep(p) \/ brelse(p) \/ Short(p) \/ Waits(p)
         \/ \E i, j, k \in free : Queued(p, i, j, k)
  PROVE  Plain
  <1> buf \in [Buf -> Buffer] /\ b[p] \in Buf
    BY DEF BInv, Types
  <1>1. CASE brelse(p)
    BY <1>1 DEF Plain, brelse, Buffer
  <1>2. CASE \E i, j, k \in free : Queued(p, i, j, k)
    <2>1. buf' = [buf EXCEPT ![b[p]].disk = TRUE]
      BY <1>2 DEF Queued
    <2>2. QED
      BY <2>1, Zenon DEF Plain, Buffer
  <1>3. CASE buf' = buf
    BY <1>3, Zenon DEF Plain
  <1>4. QED
    BY <1>1, <1>2, <1>3, Zenon DEF Acquires, releasesleep, Short, Waits, cache

(* The same of the handler and of take. *)
LEMMA DevicePlain ==
  ASSUME BInv, \/ virtio_disk_intr \/ intr_turn \/ intr_end \/ take \/ UNCHANGED state
  PROVE  Plain
  <1>1. CASE intr_turn
    <2> USE <1>1
    <2>1. info[Id].b \in Buf /\ buf \in [Buf -> Buffer]
      BY TurnBuffer DEF BInv, Types
    <2>2. QED
      BY <2>1, Zenon DEF Plain, intr_turn, Buffer
  <1>2. CASE buf' = buf
    BY <1>2, Zenon DEF Plain
  <1>3. QED
    BY <1>1, <1>2, Zenon DEF cache, virtio_disk_intr, intr_end, take, state

(* What bget does to the buffers: the one it recycles is not valid, and nobody has it. *)
LEMMA GotBuffers ==
  ASSUME BInv, NEW p \in Proc, NEW k, NEW v, NEW x \in Buf, Got(p, k, v, x)
  PROVE  /\ \A y \in Buf : buf'[y].data = buf[y].data
         /\ \A y \in Buf : buf'[y].valid => buf[y].valid /\ buf'[y].block = buf[y].block
         /\ \A q \in Proc : pc[q] # "idle" => (buf'[b[q]].valid <=> buf[b[q]].valid)
  <1> buf \in [Buf -> Buffer] /\ \A q \in Proc : b[q] \in Buf
    BY DEF BInv, Types
  <1>1. CASE Hit(p, k, v, x)
    BY <1>1, Zenon DEF Hit, Buffer
  <1>2. CASE Miss(p, k, v, x)
    <2> USE <1>2
    <2>1. buf'[x] = Taken(x, k) /\ \A y \in Buf : y # x => buf'[y] = buf[y]
      BY DEF Miss
    <2>2. buf[x] \in Buffer
      OBVIOUS
    <2>3. ~Taken(x, k).valid /\ Taken(x, k).data = buf[x].data
      BY <2>2, Zenon DEF Taken, Buffer
    <2>4. Users(x) = {}
      BY NoUsers, Zenon DEF Miss, BInv
    <2>5. \A q \in Proc : pc[q] # "idle" => b[q] # x
      BY <2>4, Zenon DEF Users
    <2>6. QED
      BY <2>1, <2>3, <2>5, Zenon
  <1>3. QED
    BY <1>1, <1>2, Zenon DEF Got

(* The completion of q's request. *)
LEMMA Completes ==
  ASSUME BInv, NEW d \in Desc, complete(d)
  PROVE  \E q \in Own :
           /\ op[q].idx = d /\ b[q] \in Buf /\ op[q].block \in Block
           /\ buf[b[q]].block = op[q].block
           /\ \A y \in Buf : (buf'[y].valid <=> buf[y].valid) /\ buf'[y].block = buf[y].block
           /\ \A y \in Buf : y # b[q] => buf'[y].data = buf[y].data
           /\ \A h \in Block : h # op[q].block => store'[h] = store[h]
           /\ buf'[b[q]].data = store'[op[q].block]
           /\ q \in Writers \/ store' = store
  <1> Types /\ d \in doing
    BY Zenon DEF BInv, complete
  <1>1. PICK q \in Own :
           /\ op[q].idx = d /\ info[d].addr = b[q]
           /\ info[d].block = op[q].block /\ info[d].block \in Block
           /\ buf[b[q]].block = op[q].block /\ b[q] \in Buf
           /\ info[d].write <=> pc[q] = "written"
    BY Owner, Zenon
  <1>2. buf \in [Buf -> Buffer] /\ store \in [Block -> Val] /\ q \in Proc
    BY OwnWaits, Zenon DEF Types
  <1>3. CASE info[d].write
    <2> USE <1>3
    <2>1. store' = [store EXCEPT ![op[q].block] = buf[b[q]].data] /\ buf' = buf
      BY <1>1, Zenon DEF complete
    <2>2. q \in Writers
      BY <1>1, <1>2, Zenon DEF Writers
    <2>3. QED
      BY <1>1, <1>2, <2>1, <2>2, Zenon
  <1>4. CASE ~info[d].write
    <2>1. buf' = [buf EXCEPT ![b[q]].data = store[op[q].block]] /\ store' = store
      BY <1>1, <1>4, Zenon DEF complete
    <2>2. QED
      BY <1>1, <1>2, <2>1 DEF Buffer
  <1>5. QED
    BY <1>3, <1>4, Zenon

(* The request of a process that leaves virtio_disk_rw is nowhere in the   *)
(* device.                                                                 *)
LEMMA DoneAnswered ==
  ASSUME BInv, NEW p \in Proc, Done(p)
  PROVE  op[p].idx \notin InAvail \cup doing
  <1>1. p \in Waiting /\ p \notin Own
    BY Zenon DEF Done, Waiting, Own
  <1>2. \A q \in Own : op[q].idx # op[p].idx
    BY <1>1, OwnWaits, OneRequest, Zenon DEF BInv
  <1>3. QED
    BY <1>2, Zenon DEF BInv, Flying

(* Every step keeps valid buffers equal to the disk, unless somebody writes them. *)
LEMMA CleanStep == BInv /\ [Next]_vars => Clean'
  <1> SUFFICES ASSUME BInv, [Next]_vars PROVE Clean'
    OBVIOUS
  <1> Types /\ Named /\ Clean /\ Answered
    BY Zenon DEF BInv, Coherent
  <1>1. ASSUME NEW p \in Proc, NEW k, NEW v, NEW x \in Buf, Got(p, k, v, x) PROVE Clean'
    <2> USE <1>1
    <2>1. \A y \in Buf : buf'[y].valid => /\ buf[y].valid /\ buf'[y].block = buf[y].block
                                         /\ buf'[y].data = buf[y].data
      BY GotBuffers, Zenon
    <2>2. Writers' = Writers /\ store' = store /\ \A q \in Writers : b'[q] = b[q]
      BY Zenon DEF Writers, Types, Got, device
    <2>3. QED
      BY <2>1, <2>2, CleanKept, Zenon
  <1>2. ASSUME NEW p \in Proc, Acquires(p) PROVE Clean'
    <2> USE <1>2
    <2>1. Plain
      BY PlainBuffers, Zenon
    <2>2. Writers' = Writers /\ store' = store /\ \A q \in Writers : b'[q] = b[q]
      BY DEF Writers, Types, Acquires, Goto, driver, device
    <2>3. QED
      BY <2>1, <2>2, CleanKept DEF Plain
  <1>3. ASSUME NEW p \in Proc, modify(p) PROVE Clean'
    <2> USE <1>3
    <2>1. store' = store /\ b' = b /\ b[p] \in Buf
      BY Zenon DEF modify, device, Types
    <2>2. CASE op[p].val = None
      <3>1. buf' = buf /\ Writers' = Writers
        BY <2>2, Zenon DEF modify, Goto, Writers, Types
      <3>2. QED
        BY <2>1, <3>1, CleanKept, Zenon
    <2>3. CASE op[p].val # None
      <3>1. buf' = [buf EXCEPT ![b[p]].data = op[p].val] /\ Writers' = Writers \cup {p}
        BY <2>3 DEF modify, Goto, Writers, Types
      <3>2. \A y \in Buf : /\ buf'[y].valid <=> buf[y].valid
                           /\ buf'[y].block = buf[y].block
                           /\ y # b[p] => buf'[y].data = buf[y].data
        BY <2>1, <3>1 DEF Types, Buffer
      <3>3. QED
        BY <2>1, <3>1, <3>2 DEF Clean
    <2>4. QED
      BY <2>2, <2>3
  <1>4. ASSUME NEW p \in Proc, releasesleep(p) PROVE Clean'
    <2> USE <1>4
    <2>1. Plain
      BY PlainBuffers, Zenon
    <2>2. Writers' = Writers /\ store' = store /\ \A q \in Writers : b'[q] = b[q]
      BY DEF Writers, Types, releasesleep, Goto, driver, device
    <2>3. QED
      BY <2>1, <2>2, CleanKept DEF Plain
  <1>5. ASSUME NEW p \in Proc, brelse(p) PROVE Clean'
    <2> USE <1>5
    <2>1. Plain
      BY PlainBuffers, Zenon
    <2>2. Writers' = Writers /\ store' = store /\ \A q \in Writers : b'[q] = b[q]
      BY Zenon DEF Writers, Types, brelse, Goto, NoOp, driver, device
    <2>3. QED
      BY <2>1, <2>2, CleanKept DEF Plain
  <1>6. ASSUME NEW p \in Proc, Short(p) PROVE Clean'
    <2> USE <1>6
    <2>1. Plain
      BY PlainBuffers
    <2>2. Writers' = Writers /\ store' = store /\ \A q \in Writers : b'[q] = b[q]
      BY Zenon DEF Writers, Types, Short, cache, driver, device
    <2>3. QED
      BY <2>1, <2>2, CleanKept, Zenon DEF Plain
  <1>7. ASSUME NEW p \in Proc, NEW i \in free, NEW j \in free, NEW k \in free,
               Queued(p, i, j, k)
        PROVE  Clean'
    <2> USE <1>7
    <2>1. Plain
      BY PlainBuffers, Zenon
    <2>2. Writers' = Writers /\ store' = store /\ \A q \in Writers : b'[q] = b[q]
      BY Zenon DEF Writers, Types, Queued, device
    <2>3. QED
      BY <2>1, <2>2, CleanKept, Zenon DEF Plain
  <1>8. ASSUME NEW p \in Proc, Waits(p) PROVE Clean'
    <2> USE <1>8
    <2>1. Plain
      BY PlainBuffers, Zenon
    <2>2. Writers' = Writers /\ store' = store /\ \A q \in Writers : b'[q] = b[q]
      BY Zenon DEF Writers, Types, Waits, cache, driver, device
    <2>3. QED
      BY <2>1, <2>2, CleanKept DEF Plain
  <1>9. ASSUME NEW p \in Proc, Done(p) PROVE Clean'
    <2> USE <1>9
    <2>1. store' = store /\ b' = b /\ b[p] \in Buf /\ p \in Waiting
      BY Zenon DEF Done, device, Types, Waiting
    <2>2. Writers \ {p} \subseteq Writers'
      BY Zenon DEF Done, Writers, Types
    <2>3. \A y \in Buf : /\ y # b[p] => (buf'[y].valid <=> buf[y].valid)
                         /\ buf'[y].block = buf[y].block
                         /\ buf'[y].data = buf[y].data
      BY <2>1 DEF Done, Types, Buffer
    <2>4. buf[b[p]].block = op[p].block /\ op[p].block \in Block
      BY Zenon DEF Done, Named
    <2>5. buf[b[p]].data = store[op[p].block]
      BY <2>1, DoneAnswered, Zenon DEF Answered
    <2>6. QED
      BY <2>1, <2>2, <2>3, <2>4, <2>5 DEF Clean
  <1>10. CASE virtio_disk_intr
    <2> USE <1>10
    <2>1. UNCHANGED <<pc, b, store>>
      BY DEF virtio_disk_intr, cache, driver
    <2>2. Plain
      BY DevicePlain, Zenon
    <2>3. QED
      BY <2>1, <2>2, CleanKept, Zenon DEF Plain, Writers
  <1>11. CASE intr_turn
    <2> USE <1>11
    <2>1. UNCHANGED <<pc, b, store>>
      BY DEF intr_turn, device
    <2>2. Plain
      BY DevicePlain, Zenon
    <2>3. QED
      BY <2>1, <2>2, CleanKept DEF Plain, Writers
  <1>12. CASE intr_end
    <2> USE <1>12
    <2>1. UNCHANGED <<pc, b, store>>
      BY DEF intr_end, cache, driver, device
    <2>2. Plain
      BY DevicePlain, Zenon
    <2>3. QED
      BY <2>1, <2>2, CleanKept DEF Plain, Writers
  <1>13. CASE take
    <2> USE <1>13
    <2>1. UNCHANGED <<pc, b, store>>
      BY DEF take, cache, driver
    <2>2. Plain
      BY DevicePlain, Zenon
    <2>3. QED
      BY <2>1, <2>2, CleanKept DEF Plain, Writers
  <1>14. ASSUME NEW d \in Desc, complete(d) PROVE Clean'
    <2> USE <1>14
    <2>1. PICK q \in Own :
           /\ op[q].idx = d /\ b[q] \in Buf /\ op[q].block \in Block
           /\ buf[b[q]].block = op[q].block
           /\ \A y \in Buf : (buf'[y].valid <=> buf[y].valid) /\ buf'[y].block = buf[y].block
           /\ \A y \in Buf : y # b[q] => buf'[y].data = buf[y].data
           /\ \A h \in Block : h # op[q].block => store'[h] = store[h]
           /\ buf'[b[q]].data = store'[op[q].block]
           /\ q \in Writers \/ store' = store
      BY Completes, Zenon
    <2>2. Writers' = Writers /\ b' = b
      BY Zenon DEF complete, Writers
    <2>3. ASSUME NEW y \in Buf, buf[y].block = op[q].block PROVE y = b[q]
      BY <2>1, <2>3, BlockdevAssumption DEF Named
    <2>4. QED
      BY <2>1, <2>2, <2>3 DEF Clean
  <1>15. CASE UNCHANGED state
    <2> USE <1>15
    <2>1. UNCHANGED <<pc, b, store>>
      BY DEF state, cache, driver, device
    <2>2. Plain
      BY DevicePlain, Zenon
    <2>3. QED
      BY <2>1, <2>2, CleanKept, Zenon DEF Plain, Writers
  <1>16. QED
    BY SMTT(20), <1>1, <1>2, <1>3, <1>4, <1>5, <1>6, <1>7, <1>8, <1>9, <1>10, <1>11, <1>12, <1>13,
       <1>14, <1>15, NextCases

(* A step that leaves alone the data of those who wait keeps Answered. *)
LEMMA AnsweredKept ==
  ASSUME Answered, store' = store, Waiting' \subseteq Waiting,
         InAvail \cup doing \subseteq InAvail' \cup doing',
         \A q \in Waiting' : /\ op'[q].idx = op[q].idx /\ op'[q].block = op[q].block
                             /\ buf'[b'[q]].data = buf[b[q]].data
  PROVE  Answered'
  BY Zenon DEF Answered

(* No quiet step changes the data of somebody who waits for the disk. *)
LEMMA QuietData ==
  ASSUME BInv, Quiet, NEW q \in Waiting
  PROVE  buf'[b[q]].data = buf[b[q]].data
  <1> Types /\ Locked /\ q \in Proc /\ pc[q] \in Holding /\ b[q] \in Buf
    BY WaitingHolds, Zenon DEF BInv
  <1>1. ASSUME NEW p \in Proc, NEW k, NEW v, NEW x \in Buf, Got(p, k, v, x)
        PROVE  buf'[b[q]].data = buf[b[q]].data
    BY <1>1, GotBuffers, Zenon
  <1>2. ASSUME NEW p \in Proc,
               Acquires(p) \/ releasesleep(p) \/ brelse(p) \/ Short(p) \/ Waits(p)
        PROVE  buf'[b[q]].data = buf[b[q]].data
    <2>1. Plain
      BY <1>2, PlainBuffers
    <2>2. QED
      BY <2>1, Zenon DEF Plain
  <1>3. ASSUME NEW p \in Proc, modify(p) PROVE buf'[b[q]].data = buf[b[q]].data
    <2> USE <1>3
    <2>1. pc[p] = "have" /\ pc[p] \in Holding /\ p # q
      BY Zenon DEF modify, Waiting, Holding
    <2>2. b[p] # b[q]
      BY <2>1, OneHolder
    <2>3. buf' = buf \/ buf' = [buf EXCEPT ![b[p]].data = op[p].val]
      BY Zenon DEF modify
    <2>4. QED
      BY <2>2, <2>3 DEF Types
  <1>4. CASE virtio_disk_intr \/ intr_end \/ UNCHANGED state
    <2>1. Plain
      BY <1>4, DevicePlain
    <2>2. QED
      BY <2>1, Zenon DEF Plain
  <1>5. QED
    BY <1>1, <1>2, <1>3, <1>4, Zenon DEF Quiet

(* Every step keeps the buffers of completed requests equal to the disk. *)
LEMMA AnsweredStep == BInv /\ [Next]_vars => Answered'
  <1> SUFFICES ASSUME BInv, [Next]_vars PROVE Answered'
    OBVIOUS
  <1> Types /\ Named /\ Locked /\ Chained /\ Answered
    BY Zenon DEF BInv, Coherent
  <1>1. CASE Quiet
    <2> USE <1>1
    <2>1. Kept
      BY QuietKeeps
    <2>2. \A q \in Waiting : buf'[b[q]].data = buf[b[q]].data
      BY QuietData, Zenon
    <2>3. InAvail' = InAvail /\ doing' = doing /\ store' = store /\ Waiting' = Waiting
      BY <2>1, Zenon DEF Kept, InAvail, driver
    <2>4. \A q \in Waiting : op'[q] = op[q] /\ b'[q] = b[q]
      BY <2>1, Zenon DEF Kept
    <2>5. QED
      BY <2>2, <2>3, <2>4, AnsweredKept, Zenon
  <1>2. ASSUME NEW p \in Proc, NEW i \in free, NEW j \in free, NEW k \in free,
               Queued(p, i, j, k)
        PROVE  Answered'
    <2> USE <1>2
    <2>1. Plain
      BY PlainBuffers
    <2>2. InAvail' = InAvail \cup {i} /\ doing' = doing /\ store' = store /\ b' = b
      BY FlyingQueued, Zenon DEF Queued, device
    <2>3. Waiting' = Waiting \cup {p} /\ p \notin Waiting
      BY Zenon DEF Queued, Waiting, Types
    <2>4. op'[p].idx = i /\ \A q \in Waiting : op'[q] = op[q] /\ b[q] \in Buf
      BY <2>3, WaitingHolds DEF Queued, Types
    <2>5. \A q \in Waiting : buf'[b[q]].data = buf[b[q]].data
      BY <2>1, <2>4, Zenon DEF Plain
    <2>6. QED
      BY <2>2, <2>3, <2>4, <2>5, Zenon DEF Answered
  <1>3. ASSUME NEW p \in Proc, Done(p) PROVE Answered'
    <2> USE <1>3
    <2>1. UNCHANGED <<avail, seen, doing, store, op, b>>
      BY Zenon DEF Done, device
    <2>2. Waiting' \subseteq Waiting
      BY Zenon DEF Done, Waiting, Types
    <2>3. \A y \in Buf : buf'[y].data = buf[y].data
      BY DEF Done, Types, Buffer
    <2>4. InAvail' = InAvail /\ \A q \in Waiting : b[q] \in Buf
      BY <2>1, WaitingHolds, Zenon DEF InAvail
    <2>5. QED
      BY <2>1, <2>2, <2>3, <2>4, AnsweredKept, Zenon
  <1>4. CASE intr_turn
    <2> USE <1>4
    <2>1. UNCHANGED <<avail, seen, doing, store, op, b, pc>>
      BY DEF intr_turn, device
    <2>2. Plain
      BY DevicePlain, Zenon
    <2>3. /\ InAvail' = InAvail /\ Waiting' = Waiting
          /\ \A q \in Waiting : b[q] \in Buf
      BY <2>1, WaitingHolds, Zenon DEF InAvail, Waiting
    <2>4. QED
      BY <2>1, <2>2, <2>3, AnsweredKept DEF Plain
  <1>5. CASE take
    <2> USE <1>5
    <2>1. UNCHANGED <<buf, store, op, b, pc>>
      BY Zenon DEF take, cache
    <2>2. InAvail' \cup doing' = InAvail \cup doing
      BY FlyingTake, Zenon
    <2>3. Waiting' = Waiting
      BY <2>1, Zenon DEF Waiting
    <2>4. QED
      BY <2>1, <2>2, <2>3, AnsweredKept, Zenon
  <1>6. ASSUME NEW d \in Desc, complete(d) PROVE Answered'
    <2> USE <1>6
    <2>1. PICK q \in Own :
           /\ op[q].idx = d /\ b[q] \in Buf /\ op[q].block \in Block
           /\ buf[b[q]].block = op[q].block
           /\ \A y \in Buf : y # b[q] => buf'[y].data = buf[y].data
           /\ \A h \in Block : h # op[q].block => store'[h] = store[h]
           /\ buf'[b[q]].data = store'[op[q].block]
      BY Completes, SMTT(20)
    <2>2. UNCHANGED <<pc, b, op>> /\ doing' = doing \ {d}
      BY Zenon DEF complete
    <2>3. InAvail' = InAvail /\ Waiting' = Waiting /\ q \in Waiting
      BY <2>2, FlyingComplete, OwnWaits, Zenon DEF Waiting
    <2>4. ASSUME NEW r \in Waiting, r # q, op[r].idx \notin InAvail \cup doing'
          PROVE  buf'[b[r]].data = store'[op[r].block]
      <3> USE <2>4
      <3>1. op[r].idx # d
        BY <2>1, <2>3, OneRequest, Zenon
      <3>2. /\ r \in Proc /\ q \in Proc /\ b[r] \in Buf
            /\ pc[r] \in Holding /\ pc[q] \in Holding
        BY <2>3, WaitingHolds, Zenon
      <3>3. b[r] # b[q]
        BY <3>2, OneHolder, Zenon
      <3>4. op[r].block \in Block /\ buf[b[r]].block = op[r].block
        BY <3>2, Zenon DEF Named, Holding
      <3>5. op[r].block # op[q].block
        BY <2>1, <3>2, <3>3, <3>4, BlockdevAssumption, SMTT(20) DEF Named
      <3>6. buf[b[r]].data = store[op[r].block]
        BY <2>2, <3>1, Zenon DEF Answered
      <3>7. QED
        BY <2>1, <3>2, <3>3, <3>4, <3>5, <3>6, Zenon
    <2>5. QED
      BY <2>1, <2>2, <2>3, <2>4, Zenon DEF Answered
  <1>7. QED
    BY <1>1, <1>2, <1>3, <1>4, <1>5, <1>6, NextIsQuiet

(* Every step keeps the buffers that are handed over valid. *)
LEMMA HandedStep == BInv /\ [Next]_vars => Handed'
  <1> SUFFICES ASSUME BInv, [Next]_vars PROVE Handed'
    OBVIOUS
  <1> Types /\ Handed
    BY DEF BInv, Coherent
  <1>1. ASSUME NEW p \in Proc, NEW k, NEW v, NEW x \in Buf, Got(p, k, v, x) PROVE Handed'
    <2> USE <1>1
    <2>1. \A q \in Proc : pc[q] # "idle" => (buf'[b[q]].valid <=> buf[b[q]].valid)
      BY GotBuffers, Zenon
    <2>2. \A q \in Proc : pc'[q] = "have" => pc[q] = "have" /\ b'[q] = b[q]
      BY Zenon DEF Types, Got
    <2>3. QED
      BY <2>1, <2>2, Zenon DEF Handed
  <1>2. ASSUME NEW p \in Proc, Acquires(p) PROVE Handed'
    <2> USE <1>2
    <2>1. buf' = buf /\ b' = b
      BY Zenon DEF Acquires
    <2>2. \A q \in Proc : pc'[q] = "have" => pc[q] = "have" \/ (q = p /\ buf[b[q]].valid)
      BY Zenon DEF Types, Acquires, Goto
    <2>3. QED
      BY <2>1, <2>2, Zenon DEF Handed
  <1>3. ASSUME NEW p \in Proc, modify(p) PROVE Handed'
    <2> USE <1>3
    <2>1. b' = b /\ \A q \in Proc : pc'[q] = "have" => pc[q] = "have"
      BY DEF Types, modify, Goto
    <2>2. buf' = buf \/ buf' = [buf EXCEPT ![b[p]].data = op[p].val]
      BY DEF modify
    <2>3. \A y \in Buf : buf'[y].valid <=> buf[y].valid
      BY <2>2, SMTT(20) DEF Types, Buffer
    <2>4. QED
      BY <2>1, <2>3, HandedKept
  <1>4. ASSUME NEW p \in Proc, releasesleep(p) PROVE Handed'
    <2> USE <1>4
    <2>1. Plain
      BY PlainBuffers, Zenon
    <2>2. b' = b /\ \A q \in Proc : pc'[q] = "have" => pc[q] = "have"
      BY Zenon DEF Types, releasesleep, Goto, driver, device
    <2>3. QED
      BY <2>1, <2>2, HandedKept, Zenon DEF Plain
  <1>5. ASSUME NEW p \in Proc, brelse(p) PROVE Handed'
    <2> USE <1>5
    <2>1. Plain
      BY PlainBuffers, Zenon
    <2>2. \A q \in Proc : pc'[q] = "have" => pc[q] = "have" /\ b'[q] = b[q] /\ b[q] \in Buf
      BY Zenon DEF Types, brelse, Goto
    <2>3. QED
      BY <2>1, <2>2, Zenon DEF Handed, Plain
  <1>6. ASSUME NEW p \in Proc, Short(p) PROVE Handed'
    <2> USE <1>6
    <2>1. Plain
      BY PlainBuffers
    <2>2. b' = b /\ \A q \in Proc : pc'[q] = "have" => pc[q] = "have"
      BY Zenon DEF Types, Short, cache, driver, device
    <2>3. QED
      BY <2>1, <2>2, HandedKept, Zenon DEF Plain
  <1>7. ASSUME NEW p \in Proc, NEW i \in free, NEW j \in free, NEW k \in free,
               Queued(p, i, j, k)
        PROVE  Handed'
    <2> USE <1>7
    <2>1. Plain
      BY PlainBuffers, Zenon
    <2>2. b' = b /\ \A q \in Proc : pc'[q] = "have" => pc[q] = "have"
      BY Zenon DEF Types, Queued, device
    <2>3. QED
      BY <2>1, <2>2, HandedKept, Zenon DEF Plain
  <1>8. ASSUME NEW p \in Proc, Waits(p) PROVE Handed'
    <2> USE <1>8
    <2>1. Plain
      BY PlainBuffers, Zenon
    <2>2. b' = b /\ \A q \in Proc : pc'[q] = "have" => pc[q] = "have"
      BY Zenon DEF Types, Waits, cache, driver, device
    <2>3. QED
      BY <2>1, <2>2, HandedKept DEF Plain
  <1>9. ASSUME NEW p \in Proc, Done(p) PROVE Handed'
    <2> USE <1>9
    <2>1. b' = b /\ b[p] \in Buf /\ \A q \in Proc : b[q] \in Buf
      BY Zenon DEF Done, Types
    <2>2. \A q \in Proc : q # p /\ pc'[q] = "have" => pc[q] = "have"
      BY Zenon DEF Done, Types
    <2>3. buf'[b[p]].valid /\ \A y \in Buf : buf[y].valid => buf'[y].valid
      BY <2>1 DEF Done, Types, Buffer
    <2>4. QED
      BY <2>1, <2>2, <2>3, Zenon DEF Handed
  <1>10. CASE virtio_disk_intr
    <2> USE <1>10
    <2>1. UNCHANGED <<pc, b>>
      BY DEF virtio_disk_intr, cache, driver
    <2>2. Plain
      BY DevicePlain, Zenon
    <2>3. QED
      BY <2>1, <2>2, HandedKept, Zenon DEF Plain
  <1>11. CASE intr_turn
    <2> USE <1>11
    <2>1. UNCHANGED <<pc, b>>
      BY DEF intr_turn, device
    <2>2. Plain
      BY DevicePlain, Zenon
    <2>3. QED
      BY <2>1, <2>2, HandedKept DEF Plain
  <1>12. CASE intr_end
    <2> USE <1>12
    <2>1. UNCHANGED <<pc, b>>
      BY Zenon DEF intr_end, cache, driver, device
    <2>2. Plain
      BY DevicePlain, Zenon
    <2>3. QED
      BY <2>1, <2>2, HandedKept DEF Plain
  <1>13. CASE take
    <2> USE <1>13
    <2>1. UNCHANGED <<pc, b>>
      BY Zenon DEF take, cache, driver
    <2>2. Plain
      BY DevicePlain, Zenon
    <2>3. QED
      BY <2>1, <2>2, HandedKept DEF Plain
  <1>14. ASSUME NEW d \in Desc, complete(d) PROVE Handed'
    <2> USE <1>14
    <2>1. UNCHANGED <<pc, b>>
      BY Zenon DEF complete
    <2>2. \A y \in Buf : buf'[y].valid <=> buf[y].valid
      BY Completes, Zenon
    <2>3. QED
      BY <2>1, <2>2, HandedKept, Zenon
  <1>15. CASE UNCHANGED state
    <2> USE <1>15
    <2>1. UNCHANGED <<pc, b>>
      BY DEF state, cache, driver, device
    <2>2. Plain
      BY DevicePlain, Zenon
    <2>3. QED
      BY <2>1, <2>2, HandedKept, Zenon DEF Plain
  <1>16. QED
    BY SMTT(20), <1>1, <1>2, <1>3, <1>4, <1>5, <1>6, <1>7, <1>8, <1>9, <1>10, <1>11, <1>12, <1>13,
       <1>14, <1>15, NextCases, Zenon

-----------------------------------------------------------------------------
(* Wakeups *)

(* The channels are different. *)
LEMMA Channels ==
  /\ Free0 \notin Buf /\ None \notin Buf /\ Free0 # None
  /\ \A x \in Buf : Lk(x) \notin Buf /\ Lk(x) # None /\ Lk(x) # Free0
  /\ \A x, y \in Buf : Lk(x) = Lk(y) => x = y
  BY BlockdevAssumption DEF Free0, Buf, Lk

(* The wakeups of the driver and of the handler; of the sleep-locks. *)
Served ==
  /\ \A p \in Proc : /\ asleep[p] = Free0 => Cardinality(free) < 3
                     /\ asleep[p] \in Buf => buf[asleep[p]].disk
  /\ intr = "off" /\ used_idx # used.idx => line

LockWaits == \A p \in Proc, x \in Buf : asleep[p] = Lk(x) => held[x] # None

(* Who goes to sleep in a quiet step has a reason to, and the handler ends *)
(* only when it has seen all of used.                                      *)
LEMMA QuietSleeps ==
  ASSUME BInv, Quiet
  PROVE  /\ \A q \in Proc : \/ asleep'[q] \in {asleep[q], None}
                            \/ asleep'[q] = Free0 /\ Cardinality(free) < 3
                            \/ asleep'[q] \in Buf /\ buf[asleep'[q]].disk
                            \/ \E x \in Buf : asleep'[q] = Lk(x)
         /\ intr' = "off" => (intr = "off" /\ line' = line) \/ used_idx = used.idx
  <1>0. Types
    BY Zenon DEF BInv
  <1>1. ASSUME NEW p \in Proc, Short(p)
        PROVE  /\ UNCHANGED <<intr, line>>
               /\ \A q \in Proc : \/ asleep'[q] \in {asleep[q], None}
                                  \/ asleep'[q] = Free0 /\ Cardinality(free) < 3
    BY <1>1, Zenon DEF Short, device
  <1>2. ASSUME NEW p \in Proc, Waits(p)
        PROVE  /\ UNCHANGED <<intr, line>>
               /\ \A q \in Proc : \/ asleep'[q] = asleep[q]
                                  \/ asleep'[q] \in Buf /\ buf[asleep'[q]].disk
                                  \/ \E x \in Buf : asleep'[q] = Lk(x)
    BY <1>0, <1>2, Zenon DEF Waits, device, Types
  <1>3. CASE UNCHANGED <<asleep, intr, line>>
    BY <1>3, Zenon
  <1>4. CASE virtio_disk_intr
    BY <1>4, Zenon DEF virtio_disk_intr
  <1>5. CASE intr_end
    BY <1>5, Zenon DEF intr_end, More
  <1>6. ASSUME NEW p \in Proc, NEW k, NEW v, NEW x \in Buf, Got(p, k, v, x)
        PROVE  UNCHANGED <<asleep, intr, line>>
    BY <1>6, Zenon DEF Got, device
  <1>7. ASSUME NEW p \in Proc, Acquires(p) \/ modify(p) \/ brelse(p)
        PROVE  UNCHANGED <<asleep, intr, line>>
    BY <1>7, Zenon DEF Acquires, modify, brelse, device
  <1>8. ASSUME NEW p \in Proc, releasesleep(p)
        PROVE  /\ UNCHANGED <<intr, line>>
               /\ \A q \in Proc : asleep'[q] \in {asleep[q], None}
    BY <1>8, Zenon DEF releasesleep, Woken, device
  <1>9. CASE UNCHANGED state
    BY <1>9, <1>3, Zenon DEF state, device
  <1>10. QED
    BY <1>1, <1>2, <1>3, <1>4, <1>5, <1>6, <1>7, <1>8, <1>9, Zenon DEF Quiet

(* No step loses a wakeup of the driver or a completion. *)
LEMMA ServedStep == BInv /\ [Next]_vars => Served'
  <1> SUFFICES ASSUME BInv, [Next]_vars PROVE Served'
    OBVIOUS
  <1> Counting /\ Types /\ Served
    BY Zenon DEF BInv, NothingMissed, Served
  <1>1. CASE Quiet
    <2> USE <1>1
    <2>1. Kept
      BY QuietKeeps
    <2>2. UNCHANGED <<free, used, used_idx>> /\ \A y \in Buf : buf'[y].disk <=> buf[y].disk
      BY <2>1, Zenon DEF Kept, driver
    <2>3. ASSUME NEW q \in Proc
          PROVE  /\ asleep'[q] = Free0 => Cardinality(free) < 3
                 /\ asleep'[q] \in Buf => buf[asleep'[q]].disk
      <3>1. CASE \E x \in Buf : asleep'[q] = Lk(x)
        BY <3>1, Channels, Zenon
      <3>2. CASE asleep'[q] \in {asleep[q], None}
        BY <3>2, Channels, Zenon DEF Served
      <3>3. CASE asleep'[q] = Free0 /\ Cardinality(free) < 3
        BY <3>3, Channels, Zenon
      <3>4. CASE asleep'[q] \in Buf /\ buf[asleep'[q]].disk
        BY <3>4, Channels, Zenon
      <3>5. QED
        BY <3>1, <3>2, <3>3, <3>4, QuietSleeps, Zenon
    <2>4. QED
      BY <2>2, <2>3, QuietSleeps, Zenon DEF Served
  <1>2. ASSUME NEW p \in Proc, NEW i \in free, NEW j \in free, NEW k \in free,
               Queued(p, i, j, k)
        PROVE  Served'
    <2> USE <1>2
    <2>1. free' \subseteq free /\ UNCHANGED <<used, used_idx, intr, line>>
      BY Zenon DEF Queued, device
    <2>2. Cardinality(free) < 3 => Cardinality(free') < 3
      <3>1. IsFiniteSet(free) /\ Cardinality(free) \in Int
        BY Finite DEF Types
      <3>2. IsFiniteSet(free') /\ Cardinality(free') <= Cardinality(free)
        BY <2>1, <3>1, CountSubset, Zenon
      <3>3. Cardinality(free') \in Int
        BY <3>2, CountType
      <3>4. QED
        BY <3>1, <3>2, <3>3
    <2>3. buf'[b[p]].disk /\ \A y \in Buf : buf[y].disk => buf'[y].disk
      BY DEF Queued, Types, Buffer
    <2>4. asleep'[p] = b[p] /\ b[p] \in Buf /\ \A q \in Proc : q # p => asleep'[q] = asleep[q]
      BY Zenon DEF Queued, Types
    <2>5. QED
      BY <2>1, <2>2, <2>3, <2>4, Channels, Zenon DEF Served
  <1>3. ASSUME NEW p \in Proc, Done(p) PROVE Served'
    <2> USE <1>3
    <2>1. UNCHANGED <<used, used_idx, intr, line>>
      BY Zenon DEF Done, device
    <2>2. \A y \in Buf : buf'[y].disk <=> buf[y].disk
      BY DEF Done, Types, Buffer
    <2>3. \A q \in Proc : asleep'[q] # Free0 /\ asleep'[q] \in {asleep[q], None}
      BY Channels, Zenon DEF Done, Woken
    <2>4. QED
      BY <2>1, <2>2, <2>3, Channels, Zenon DEF Served
  <1>4. CASE intr_turn
    <2> USE <1>4
    <2>1. UNCHANGED <<free, used, intr>> /\ intr = "loop"
      BY Zenon DEF intr_turn, device
    <2>2. info[Id].b \in Buf
      BY TurnBuffer, Zenon
    <2>3. \A y \in Buf : y # info[Id].b => (buf'[y].disk <=> buf[y].disk)
      BY <2>2, Zenon DEF intr_turn, Types, Buffer
    <2>4. \A q \in Proc : asleep'[q] # info[Id].b /\ asleep'[q] \in {asleep[q], None}
      BY <2>2, Channels, Zenon DEF intr_turn, Woken
    <2>5. QED
      BY <2>1, <2>3, <2>4, Channels, Zenon DEF Served
  <1>5. CASE take
    BY <1>5, Zenon DEF take, cache, driver, Served
  <1>6. ASSUME NEW d \in Desc, complete(d) PROVE Served'
    <2> USE <1>6
    <2>1. UNCHANGED <<asleep, free>> /\ line'
      BY Zenon DEF complete
    <2>2. buf' = buf \/ buf' = [buf EXCEPT ![info[d].addr].data = store[info[d].block]]
      BY Zenon DEF complete
    <2>3. \A y \in Buf : buf'[y].disk <=> buf[y].disk
      BY <2>2 DEF Types, Buffer
    <2>4. QED
      BY <2>1, <2>3, Zenon DEF Served
  <1>7. QED
    BY <1>1, <1>2, <1>3, <1>4, <1>5, <1>6, NextIsQuiet

(* No step loses the wakeup of a sleep-lock. *)
LEMMA LockWaitsStep == BInv /\ [Next]_vars => LockWaits'
  <1> SUFFICES ASSUME BInv, [Next]_vars PROVE LockWaits'
    OBVIOUS
  <1> Types /\ LockWaits
    BY Zenon DEF BInv, NothingMissed, LockWaits
  <1>0. None \notin Proc
    BY BlockdevAssumption, Zenon
  <1>1. ASSUME UNCHANGED held,
               \A q \in Proc : asleep'[q] \in {asleep[q], None, Free0} \cup Buf
        PROVE  LockWaits'
    BY <1>1, Channels, Zenon DEF LockWaits
  <1>2. ASSUME NEW p \in Proc, Acquires(p) PROVE LockWaits'
    <2>1. asleep' = asleep /\ \A x \in Buf : held[x] # None => held'[x] # None
      BY <1>0, <1>2, Zenon DEF Acquires, Types
    <2>2. QED
      BY <2>1, Zenon DEF LockWaits
  <1>3. ASSUME NEW p \in Proc, releasesleep(p) PROVE LockWaits'
    <2>1. b[p] \in Buf
      BY Zenon DEF Types
    <2>2. /\ \A q \in Proc : asleep'[q] \in {asleep[q], None} /\ asleep'[q] # Lk(b[p])
          /\ \A x \in Buf : x # b[p] => held'[x] = held[x]
      BY <1>3, <2>1, Channels, Zenon DEF releasesleep, Woken, Types
    <2>3. QED
      BY <2>1, <2>2, Channels, Zenon DEF LockWaits
  <1>4. ASSUME NEW p \in Proc, Waits(p) PROVE LockWaits'
    <2>1. b[p] \in Buf /\ UNCHANGED held
      BY <1>4, Zenon DEF Types, Waits, cache
    <2>2. CASE asleep' = [asleep EXCEPT ![p] = b[p]]
      <3>1. \A q \in Proc : asleep'[q] \in {asleep[q]} \cup Buf
        BY <2>1, <2>2, Zenon DEF Types
      <3>2. QED
        BY <2>1, <3>1, <1>1, Zenon
    <2>3. CASE held[b[p]] # None /\ asleep' = [asleep EXCEPT ![p] = Lk(b[p])]
      <3>1. asleep'[p] = Lk(b[p]) /\ \A q \in Proc : q # p => asleep'[q] = asleep[q]
        BY <2>3, Zenon DEF Types
      <3>2. ASSUME NEW q \in Proc, NEW x \in Buf, asleep'[q] = Lk(x) PROVE held[x] # None
        <4>1. CASE q = p
          <5>1. x = b[p]
            BY <2>1, <3>1, <3>2, <4>1, Channels, Zenon
          <5>2. QED
            BY <2>3, <5>1, Zenon
        <4>2. CASE q # p
          BY <3>1, <3>2, <4>2, Zenon DEF LockWaits
        <4>3. QED
          BY <4>1, <4>2, Zenon
      <3>3. QED
        BY <2>1, <3>2, Zenon DEF LockWaits
    <2>4. QED
      BY <1>4, <2>2, <2>3, Zenon DEF Waits
  <1>5. ASSUME NEW p \in Proc, NEW x \in Buf, NEW k, NEW v, Got(p, k, v, x)
        PROVE  UNCHANGED <<held, asleep>>
    BY <1>5, Zenon DEF Got
  <1>6. ASSUME NEW p \in Proc, modify(p) \/ brelse(p)
        PROVE  UNCHANGED <<held, asleep>>
    BY <1>6, Zenon DEF modify, brelse
  <1>7. ASSUME NEW p \in Proc, Short(p) PROVE LockWaits'
    <2>1. /\ UNCHANGED held
          /\ \A q \in Proc : asleep'[q] \in {asleep[q], None, Free0}
      BY <1>7, Zenon DEF Short, cache
    <2>2. QED
      BY <2>1, <1>1, Zenon
  <1>8. ASSUME NEW p \in Proc, NEW i, NEW j, NEW k, Queued(p, i, j, k) PROVE LockWaits'
    <2>1. /\ UNCHANGED held
          /\ \A q \in Proc : asleep'[q] \in {asleep[q]} \cup Buf
      BY <1>8, Zenon DEF Queued, Types
    <2>2. QED
      BY <2>1, <1>1, Zenon
  <1>9. ASSUME NEW p \in Proc, Done(p) PROVE LockWaits'
    <2>1. UNCHANGED held /\ \A q \in Proc : asleep'[q] \in {asleep[q], None}
      BY <1>9, Zenon DEF Done, Woken
    <2>2. QED
      BY <2>1, <1>1, Zenon
  <1>10. CASE intr_turn
    <2>1. UNCHANGED held /\ \A q \in Proc : asleep'[q] \in {asleep[q], None}
      BY <1>10, Zenon DEF intr_turn, Woken
    <2>2. QED
      BY <2>1, <1>1, Zenon
  <1>11. CASE virtio_disk_intr \/ intr_end \/ take
    BY <1>11, <1>1, Zenon DEF virtio_disk_intr, intr_end, take, cache
  <1>12. ASSUME NEW d \in Desc, complete(d) PROVE UNCHANGED <<held, asleep>>
    BY <1>12, Zenon DEF complete
  <1>13. CASE UNCHANGED state
    BY <1>13, <1>1, Zenon DEF state, cache
  <1>14. CASE UNCHANGED <<held, asleep>>
    BY <1>14, <1>1, Zenon
  <1>15. QED
    BY <1>2, <1>3, <1>4, <1>5, <1>6, <1>7, <1>8, <1>9, <1>10, <1>11, <1>12, <1>13, <1>14,
       NextCases, ZenonT(30)

(* No step loses a wakeup or a completion. *)
LEMMA MissedStep == BInv /\ [Next]_vars => NothingMissed'
  BY ServedStep, LockWaitsStep, Zenon DEF NothingMissed, Served, LockWaits

(* The invariant holds at boot. *)
LEMMA InitInv == Counting /\ Init => BInv
  <1> SUFFICES ASSUME Counting, Init PROVE BInv
    BY Zenon
  <1> 0 \in Desc /\ 1 \in Buf /\ InitVal \in Val /\ 0 \in 0 .. IDX - 1
    BY BlockdevAssumption, Sizes, SMTT(20) DEF Desc, Buf
  <1>1. Types
    <2>1. buf \in [Buf -> Buffer]
      BY SMTT(20) DEF Init, Buffer
    <2>2. info \in [Desc -> Info]
      BY Zenon DEF Init, Info
    <2>3. lru \in [Buf -> Buf]
      <3>1. lru = [x \in Buf |-> NBUF + 1 - x] /\ NBUF \in Nat
        BY BlockdevAssumption, Zenon DEF Init
      <3>2. QED
        BY <3>1, SMTT(20) DEF Buf
    <2>4. avail \in Ring /\ used \in Ring
      BY Zenon DEF Init, Ring
    <2>5. QED
      BY <2>1, <2>2, <2>3, <2>4, Zenon DEF Init, Types, NoOp
  <1>2. \A p \in Proc : pc[p] = "idle" /\ asleep[p] = None
    BY Zenon DEF Init
  <1>3. Waiting = {} /\ Own = {}
    BY <1>2 DEF Waiting, Own
  <1>4. Counted
    <2>1. \A x \in Buf : Users(x) = {} /\ buf[x].refcnt = 0
      BY <1>2, Zenon DEF Init, Users
    <2>2. QED
      BY <2>1, CountEmpty, Zenon DEF Counted
  <1>5. Named
    BY <1>2, Zenon DEF Named, Init
  <1>6. Listed
    <2>1. NBUF \in Nat /\ Buf = 1 .. NBUF /\ lru = [x \in Buf |-> NBUF + 1 - x]
      BY BlockdevAssumption, Zenon DEF Buf, Init
    <2>2. ASSUME NEW x \in Buf PROVE \E i \in Buf : lru[i] = x
      <3>1. NBUF + 1 - x \in Buf /\ lru[NBUF + 1 - x] = x
        BY <2>1
      <3>2. QED
        BY <3>1, Zenon
    <2>3. QED
      BY <2>1, <2>2 DEF Listed
  <1>7. Locked
    BY <1>2, BlockdevAssumption, Zenon DEF Locked, Init, Holding
  <1>8. Chained
    BY <1>3, SMTT(20) DEF Chained, Init
  <1>9. Flying
    <2>1. Gap(0, 0) = 0
      BY GapIs, Zenon
    <2>2. /\ avail.idx = 0 /\ used.idx = 0 /\ used_idx = 0 /\ seen = 0 /\ doing = {}
      BY Zenon DEF Init
    <2>3. InAvail = {} /\ InUsed = {}
      BY <2>1, <2>2 DEF InAvail, InUsed, Entries, Gap
    <2>4. Distinct(avail, seen, avail.idx) /\ Distinct(used, used_idx, used.idx)
      BY <2>1, <2>2 DEF Distinct
    <2>5. QED
      BY <1>3, <2>2, <2>3, <2>4, Zenon DEF Flying
  <1>10. Described
    <2>1. \A d \in InUsed : FALSE
      BY <1>3, <1>9 DEF Flying
    <2>2. QED
      BY <1>3, <2>1, Zenon DEF Described
  <1>11. Coherent
    BY <1>2, <1>3, Zenon DEF Coherent, Clean, Answered, Handed, Init
  <1>12. NothingMissed
    BY <1>2, Channels, Zenon DEF NothingMissed, Init
  <1>13. QED
    BY <1>1, <1>4, <1>5, <1>6, <1>7, <1>8, <1>9, <1>10, <1>11, <1>12, SMTT(20) DEF BInv

(* The invariant implies that the cache is coherent. *)
LEMMA CacheInv == BInv => CacheCoherent
  <1> SUFFICES ASSUME BInv PROVE CacheCoherent
    OBVIOUS
  <1> Counting /\ Types /\ Counted /\ Named /\ Listed /\ Locked /\ Coherent
    BY Zenon DEF BInv
  <1>1. TypeOK
    <2>1. ASSUME NEW x \in Buf
          PROVE  buf[x] \in [block : Block \cup {None}, refcnt : 0 .. Cardinality(Proc),
                             valid : BOOLEAN, disk : BOOLEAN, data : Val]
      <3>1. buf[x] \in Buffer
        BY DEF Types
      <3>2. Users(x) \subseteq Proc /\ buf[x].refcnt = Cardinality(Users(x))
        BY Zenon DEF Users, Counted
      <3>3. buf[x].refcnt \in 0 .. Cardinality(Proc)
        BY <3>2, Finite, Zenon
      <3>4. QED
        BY <3>1, <3>3, Zenon DEF Buffer
    <2>2. buf \in [Buf -> [block : Block \cup {None}, refcnt : 0 .. Cardinality(Proc),
                           valid : BOOLEAN, disk : BOOLEAN, data : Val]]
      <3>1. buf = [x \in Buf |-> buf[x]]
        BY Zenon DEF Types
      <3> DEFINE R == [block : Block \cup {None}, refcnt : 0 .. Cardinality(Proc),
                       valid : BOOLEAN, disk : BOOLEAN, data : Val]
      <3>2. \A x \in Buf : buf[x] \in R
        BY <2>1, Zenon
      <3> HIDE DEF R
      <3>3. buf \in [Buf -> R]
        BY <3>1, <3>2, Zenon
      <3>4. QED
        BY <3>3, Zenon DEF R
    <2>3. QED
      BY <2>2, Zenon DEF TypeOK, Types, Ring
  <1>2. ASSUME NEW x \in Buf PROVE Cardinality({i \in Buf : lru[i] = x}) = 1
    <2>1. PICK j \in Buf : lru[j] = x
      BY Zenon DEF Listed
    <2>2. {i \in Buf : lru[i] = x} = {j}
      BY <2>1, Zenon DEF Listed
    <2>3. QED
      BY <2>2, SingletonCount, Zenon
  <1>3. OneBufferPerBlock
    BY <1>1, <1>2, Zenon DEF OneBufferPerBlock, Named
  <1>4. ReadsLatest
    <2> SUFFICES ASSUME NEW p \in Proc, pc[p] = "have"
                 PROVE  /\ buf[b[p]].valid /\ buf[b[p]].block = op[p].block
                        /\ held[b[p]] = p /\ buf[b[p]].data = store[op[p].block]
      BY Zenon DEF ReadsLatest
    <2>1. b[p] \in Buf /\ pc[p] \in Holding
      BY Zenon DEF Types, Holding
    <2>2. held[b[p]] = p
      BY <2>1, Zenon DEF Locked
    <2>3. buf[b[p]].valid /\ buf[b[p]].block = op[p].block
      BY Zenon DEF Coherent, Handed, Named
    <2>4. \A q \in Writers : b[q] # b[p]
      <3> SUFFICES ASSUME NEW q \in Writers, b[q] = b[p] PROVE FALSE
        BY Zenon
      <3>1. q \in Proc /\ pc[q] \in Holding /\ q # p
        BY Zenon DEF Writers, Holding
      <3>2. QED
        BY <2>1, <3>1, OneHolder, Zenon
    <2>5. QED
      BY <2>1, <2>2, <2>3, <2>4, Zenon DEF Coherent, Clean
  <1>5. QED
    BY <1>3, <1>4, Zenon DEF CacheCoherent

(* Three different descriptors are three. *)
LEMMA ThreeCount ==
  ASSUME Counting, NEW i, NEW j, NEW k, i # j, i # k, j # k
  PROVE  Cardinality({i, j, k}) = 3
  <1> DEFINE I == {i}  J == {j}  K == {k}
  <1>1. /\ IsFiniteSet(I) /\ Cardinality(I) = 1 /\ IsFiniteSet(J) /\ Cardinality(J) = 1
        /\ IsFiniteSet(K) /\ Cardinality(K) = 1
    BY SingletonCount, Zenon
  <1>2. I \cap J = {} /\ (I \cup J) \cap K = {} /\ {i, j, k} = (I \cup J) \cup K
    BY Zenon
  <1> HIDE DEF I, J, K
  <1>3. IsFiniteSet(I \cup J) /\ Cardinality(I \cup J) = 1 + 1
    BY <1>1, <1>2, DisjointCount
  <1>4. Cardinality((I \cup J) \cup K) = (1 + 1) + 1
    BY <1>1, <1>2, <1>3, DisjointCount
  <1>5. QED
    BY <1>2, <1>4
(* The invariant implies that the rings are sound. *)
LEMMA RingsInv == BInv => RingsSound
  <1> SUFFICES ASSUME BInv PROVE RingsSound
    OBVIOUS
  <1> Counting /\ Types /\ Chained /\ Flying /\ Described
    BY Zenon DEF BInv
  <1>1. DescriptorsAccounted
    <2>1. \A p \in Waiting : Chain(op[p].idx) = Three(p) /\ Three(p) \subseteq Desc
      BY ChainIs, Zenon
    <2>2. \A p, q \in Waiting : p # q => Chain(op[p].idx) \cap Chain(op[q].idx) = {}
      BY <2>1, Zenon DEF Chained
    <2>3. Desc \ free = UNION {Chain(op[p].idx) : p \in Waiting}
      BY <2>1 DEF Chained
    <2>4. ASSUME NEW p \in Waiting PROVE Cardinality(Chain(op[p].idx)) = 3
      <3> DEFINE i == op[p].idx  j == Second(p)  k == Third(p)
      <3>1. i # j /\ i # k /\ j # k /\ Chain(i) = {i, j, k}
        BY <2>1, Zenon DEF Chained, Three
      <3> HIDE DEF i, j, k
      <3>2. Cardinality({i, j, k}) = 3
        BY <3>1, ThreeCount, Zenon
      <3>3. QED
        BY <3>1, <3>2 DEF i
    <2>5. QED
      BY <2>2, <2>3, <2>4, Zenon DEF DescriptorsAccounted
  <1>2. RequestsInFlight
    <2> DEFINE ids == {op[p].idx : p \in Own}
               n == Gap(seen, avail.idx) + Cardinality(doing) + Gap(used_idx, used.idx)
    <2>1. InAvail \cup doing \cup InUsed = ids
      BY Zenon DEF Flying
    <2>2. n = Cardinality(ids)
      <3>1. /\ IsFiniteSet(InAvail) /\ Cardinality(InAvail) = Gap(seen, avail.idx)
            /\ IsFiniteSet(InUsed) /\ Cardinality(InUsed) = Gap(used_idx, used.idx)
        BY Counters, EntriesCount, Zenon DEF Flying, InAvail, InUsed
      <3>2. IsFiniteSet(doing)
        BY Finite, Zenon DEF Types
      <3> DEFINE ad == InAvail \cup doing
      <3>3. InAvail \cap doing = {} /\ ad \cap InUsed = {}
        BY DEF Flying
      <3>4. IsFiniteSet(ad) /\ Cardinality(ad) = Cardinality(InAvail) + Cardinality(doing)
        BY <3>1, <3>2, <3>3, DisjointCount, Zenon
      <3> HIDE DEF ad
      <3>5. Cardinality(ad \cup InUsed) = Cardinality(ad) + Cardinality(InUsed)
        BY <3>1, <3>3, <3>4, DisjointCount
      <3>6. QED
        BY <2>1, <3>1, <3>4, <3>5, Zenon DEF ad
    <2>3. Cardinality(ids) = Cardinality(Own)
      <3> DEFINE f == [p \in Own |-> op[p].idx]
      <3>1. \A p, q \in Own : op[p].idx = op[q].idx => p = q
        BY OwnWaits, OneRequest, Zenon
      <3>2. /\ f \in [Own -> ids] /\ \A d \in ids : \E p \in Own : f[p] = d
            /\ \A p, q \in Own : f[p] = f[q] => p = q
        BY <3>1, Zenon
      <3>3. IsFiniteSet(Own)
        BY OwnWaits, Finite, Zenon
      <3>4. QED
        <4> HIDE DEF f, ids
        <4>1. QED BY <3>2, <3>3, CountOnto, Zenon
    <2>4. /\ \A p \in Own : info[op[p].idx].b = b[p]
          /\ \A d \in InUsed : info[d].status = 0
      BY Zenon DEF Described
    <2>5. QED
      BY <2>1, <2>2, <2>3, <2>4, Zenon DEF RequestsInFlight, InAvail, InUsed, Gap, Own
  <1>3. QED
    BY <1>1, <1>2, Zenon DEF RingsSound

-----------------------------------------------------------------------------
(* The theorems *)

FS == INSTANCE FiniteSetTheorems
WF == INSTANCE WellFoundedInduction

(* A nonempty set of naturals has a least element. *)
LEMMA Least ==
  ASSUME NEW S \in SUBSET Nat, S # {}
  PROVE  \E x \in S : \A y \in S : x <= y
  <1> DEFINE R == {ss \in Nat \X Nat : ss[1] < ss[2]}
  <1>1. WF!IsWellFoundedOn(R, Nat)
    BY WF!NatLessThanWellFounded, Zenon DEF WF!OpToRel
  <1>2. PICK x \in S : \A y \in S : ~ (<<y, x>> \in R)
    <2> HIDE DEF R
    <2>1. QED BY <1>1, WF!WFMin, Zenon
  <1>3. ASSUME NEW y \in S PROVE x <= y
    <2>1. <<y, x>> \notin R
      BY <1>2, Zenon
    <2>2. ~(y < x)
      BY <2>1, Zenon
    <2>3. QED
      BY <2>2
  <1>4. QED
    BY <1>3, Zenon

(* The laws of counting hold. *)
LEMMA CountingHolds == Counting
  <1>1. /\ \A S : FS!Cardinality(S) = Cardinality(S)
        /\ \A S : FS!IsFiniteSet(S) = IsFiniteSet(S)
    BY Zenon DEF FS!Cardinality, Cardinality, FS!IsFiniteSet, IsFiniteSet
  <1>2. /\ IsFiniteSet({}) /\ Cardinality({}) = 0
        /\ \A S : IsFiniteSet(S) => Cardinality(S) \in Nat /\ (Cardinality(S) = 0 => S = {})
    BY <1>1, FS!FS_EmptySet, FS!FS_CardinalityType, Zenon
  <1>3. ASSUME NEW S, NEW T \in SUBSET S, IsFiniteSet(S)
        PROVE  IsFiniteSet(T) /\ Cardinality(T) <= Cardinality(S)
    BY <1>1, <1>3, FS!FS_Subset, Zenon
  <1>4. ASSUME NEW S, NEW x, IsFiniteSet(S)
        PROVE  /\ IsFiniteSet(S \cup {x}) /\ IsFiniteSet(S \ {x})
               /\ Cardinality(S \cup {x}) = IF x \in S THEN Cardinality(S) ELSE Cardinality(S) + 1
               /\ Cardinality(S \ {x}) = IF x \in S THEN Cardinality(S) - 1 ELSE Cardinality(S)
    BY <1>1, <1>4, FS!FS_AddElement, FS!FS_RemoveElement, SMTT(20)
  <1>5. ASSUME NEW n \in Nat
        PROVE  /\ IsFiniteSet(0 .. n - 1) /\ Cardinality(0 .. n - 1) = n
               /\ IsFiniteSet(1 .. n) /\ Cardinality(1 .. n) = n
    BY <1>1, FS!FS_Interval, SMTT(20)
  <1>6. ASSUME NEW S, NEW T, IsFiniteSet(S), IsFiniteSet(T), S \cap T = {}
        PROVE  IsFiniteSet(S \cup T) /\ Cardinality(S \cup T) = Cardinality(S) + Cardinality(T)
    <2>1. /\ IsFiniteSet(S \cup T)
          /\ Cardinality(S \cup T) = Cardinality(S) + Cardinality(T) - Cardinality(S \cap T)
      BY <1>1, <1>6, FS!FS_Union, SMTT(20)
    <2>2. Cardinality(S \cap T) = 0 /\ Cardinality(S) \in Nat /\ Cardinality(T) \in Nat
      BY <1>2, <1>6, Zenon
    <2>3. QED
      BY <2>1, <2>2, SMTT(20)
  <1>7. ASSUME NEW S, NEW T, NEW f \in [S -> T], IsFiniteSet(S),
               \A t \in T : \E x \in S : f[x] = t
        PROVE  /\ IsFiniteSet(T) /\ Cardinality(T) <= Cardinality(S)
               /\ (\A x, y \in S : f[x] = f[y] => x = y) => Cardinality(T) = Cardinality(S)
    <2>1. f \in FS!Surjection(S, T) /\ FS!IsFiniteSet(S)
      BY <1>1, <1>7, Zenon DEF FS!Surjection
    <2>2. FS!IsFiniteSet(T) /\ FS!Cardinality(T) <= FS!Cardinality(S)
      BY <2>1, FS!FS_Surjection, Zenon
    <2>3. ASSUME \A x, y \in S : f[x] = f[y] => x = y
          PROVE  FS!Cardinality(T) = FS!Cardinality(S)
      <3>1. f \in FS!Bijection(S, T)
        BY <2>1, <2>3, Zenon DEF FS!Bijection, FS!Injection, FS!IsInjective, FS!Surjection
      <3>2. FS!ExistsBijection(S, T)
        BY <3>1, Zenon DEF FS!ExistsBijection
      <3>3. QED
        BY <2>1, <3>2, FS!FS_Bijection, SMTT(20)
    <2>4. QED
      BY <1>1, <2>2, <2>3, Zenon
  <1>8. OntoCounts
    BY <1>7, Zenon DEF OntoCounts
  <1>9. /\ \A S : \A T \in SUBSET S :
             IsFiniteSet(S) => IsFiniteSet(T) /\ Cardinality(T) <= Cardinality(S)
        /\ \A n \in Nat : IsFiniteSet(0 .. n - 1) /\ Cardinality(0 .. n - 1) = n
        /\ \A n \in Nat : IsFiniteSet(1 .. n) /\ Cardinality(1 .. n) = n
        /\ \A S \in SUBSET Nat : S # {} => \E x \in S : \A y \in S : x <= y
    BY <1>3, <1>5, Least, Zenon
  <1>10. \A S, x : IsFiniteSet(S) =>
           /\ IsFiniteSet(S \cup {x}) /\ IsFiniteSet(S \ {x})
           /\ Cardinality(S \cup {x}) = IF x \in S THEN Cardinality(S) ELSE Cardinality(S) + 1
           /\ Cardinality(S \ {x}) = IF x \in S THEN Cardinality(S) - 1 ELSE Cardinality(S)
    BY <1>4, Zenon
  <1>11. \A S, T : IsFiniteSet(S) /\ IsFiniteSet(T) /\ S \cap T = {} =>
           IsFiniteSet(S \cup T) /\ Cardinality(S \cup T) = Cardinality(S) + Cardinality(T)
    BY <1>6, Zenon
  <1>12. QED
    BY <1>2, <1>8, <1>9, <1>10, <1>11, Zenon DEF Counting

(* The invariant holds in every state of bio.c over virtio_disk.c. *)
THEOREM BlockdevInvariant == Spec => []BInv
  <1>1. BInv /\ [Next]_vars => BInv'
    BY SMTT(20), TypesStep, CountedStep, NamedStep, ListedStep, LockedStep, ChainedStep, FlyingStep,
       DescribedStep, CleanStep, AnsweredStep, HandedStep, MissedStep DEF BInv, Coherent
  <1>2. QED
    BY CountingHolds, InitInv, <1>1, PTL DEF Spec

(* virtio_disk_rw and virtio_disk_intr lose no wakeup and no completion:   *)
(* who sleeps for descriptors sleeps only while fewer than three are free, *)
(* who sleeps on a buffer only while the disk owns it, and a completion    *)
(* the handler has not seen keeps the line up.                             *)
THEOREM NothingIsMissed == Spec => []NothingMissed
  <1>1. BInv => NothingMissed
    BY Zenon DEF BInv
  <1>2. QED
    BY BlockdevInvariant, <1>1, PTL

(* bget, brelse and virtio_disk_rw keep the cache coherent: one buffer per *)
(* block, every buffer in the list once, and a process that has a block    *)
(* from bread reads what the disk holds of it, whatever the order of       *)
(* completions.                                                            *)
THEOREM CacheIsCoherent == Spec => []CacheCoherent
  BY BlockdevInvariant, CacheInv, PTL

(* alloc3_desc, free_chain, the handler and the device agree on the        *)
(* descriptors: every descriptor is free or in the chain of one process    *)
(* that waits, and the requests in avail, in the device and in used are    *)
(* those whose buffer the disk owns, each once, at the wrap of the 16-bit  *)
(* counters too.                                                           *)
THEOREM RingsAreSound == Spec => []RingsSound
  BY BlockdevInvariant, RingsInv, PTL
=============================================================================
