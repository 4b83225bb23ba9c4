---------------------------- MODULE SchedQueues -----------------------------
(***************************************************************************)
(* Proofs about the rings, the hands and the process states of Sched, and  *)
(* about the priority boost: every step takes the rings from one calm      *)
(* state to the next; the two inductive invariants and the theorems.  The  *)
(* laws of cardinality are proved from the library at the end, and are a   *)
(* hypothesis (Counting) before it.                                        *)
(***************************************************************************)
EXTENDS SchedProofs

-----------------------------------------------------------------------------
(* Orderly rings. *)

(* The rings hold just the processes with inq, each once and at its level. *)
Orderly(r, qu) ==
  /\ \A q \in Level : Ended(r, q)
  /\ \A q \in Level : \A k \in Entries(r, q) :
       /\ Entry(r, q, k) \in Procs
       /\ r.inq[Entry(r, q, k)]
       /\ qu[Entry(r, q, k)] = q
  /\ \A q \in Level : \A j, k \in Entries(r, q) :
       Entry(r, q, j) = Entry(r, q, k) => j = k
  /\ \A p \in Procs : r.inq[p] =>
       \E k \in Entries(r, qu[p]) : Entry(r, qu[p], k) = p

(* A push of a process that is not queued keeps the rings so, unless it    *)
(* overwrites an entry or moves a head a whole turn below 0.               *)
LEMMA PushOrderly ==
  ASSUME NEW r \in RingType, r.head[0] >= 0, NEW p \in Procs, NEW q \in Level,
         NEW t \in BOOLEAN, ~r.inq[p], ~Overwrites(r, p, q, t),
         ~t => q # 0 /\ r.head[q] > -(NPROC - 1),
         NEW qu \in [Procs -> Level], Orderly(r, qu)
  PROVE  Orderly(push(r, p, q, t), [qu EXCEPT ![p] = q])
  <1> DEFINE s == push(r, p, q, t)  qv == [qu EXCEPT ![p] = q]
             c == Cell(q, Slot(r, q, t))
             d == IF t THEN 0 ELSE 1  n == IF t THEN r.len[q] ELSE 0
  <1>1. Pushed(r, s, p, q, t)
    BY PushIs, Zenon
  <1>2. s \in RingType /\ s.head[0] >= 0
    BY PushRing
  <1>3. \A l \in Level : \A k \in Entries(r, l) : At(r, l, k) # c
    BY LiveIs DEF Overwrites
  <1>4. Ended(r, q)
    BY DEF Orderly
  <1> HIDE DEF s, c, d, n
  <1>5. Added(r, s, q, d, n, c)
    BY <1>4, PushEntries, Zenon DEF s, c, d, n
  <1> USE DEF Added
  <1>6. d \in Nat /\ n \in Nat /\ n \in Entries(s, q)
    <2>1. r.len[q] \in Nat /\ s.len[q] = r.len[q] + 1
      BY <1>1 DEF Pushed, RingType
    <2>2. QED
      BY <2>1 DEF d, n, Entries
  <1>7. c \in Level \X Index
    BY <1>2, <1>5, <1>6, AtRange
  <1>8. /\ \A x \in Level \X Index : s.mlfqi[x] = IF x = c THEN p ELSE r.mlfqi[x]
        /\ s.inq = [r.inq EXCEPT ![p] = TRUE]
    BY <1>1, <1>7 DEF Pushed, c, RingType
  <1>9. \A l \in Level : \A k \in Entries(r, l) :
          k \in Nat /\ At(r, l, k) \in Level \X Index
    BY AtRange DEF Entries
  <1>10. Entry(s, q, n) = p
    BY <1>5, <1>7, <1>8 DEF Entry
  <1>11. \A k \in Entries(r, q) : Entry(s, q, k + d) = Entry(r, q, k)
    BY <1>3, <1>5, <1>8, <1>9 DEF Entry
  <1>12. \A l \in Level \ {q} : \A k \in Entries(r, l) : Entry(s, l, k) = Entry(r, l, k)
    BY <1>3, <1>5, <1>8, <1>9 DEF Entry
  <1>13. \A k \in Entries(s, q) : k # n =>
           /\ k - d \in Entries(r, q) /\ Entry(s, q, k) = Entry(r, q, k - d)
    <2> SUFFICES ASSUME NEW k \in Entries(s, q), k # n
                 PROVE  k - d \in Entries(r, q) /\ Entry(s, q, k) = Entry(r, q, k - d)
      OBVIOUS
    <2>1. k - d \in Entries(r, q) /\ k = (k - d) + d
      BY <1>5, <1>6 DEF Entries
    <2>2. QED
      BY <1>11, <2>1
  <1>14. \A l \in Level : \A k \in Entries(r, l) :
           /\ Entry(r, l, k) \in Procs /\ r.inq[Entry(r, l, k)] /\ qu[Entry(r, l, k)] = l
           /\ Entry(r, l, k) # p
    BY DEF Orderly
  <1>15. /\ \A x \in Procs : qv[x] = IF x = p THEN q ELSE qu[x]
         /\ \A x \in Procs : s.inq[x] <=> x = p \/ r.inq[x]
    BY <1>8 DEF RingType
  <1> HIDE DEF qv
  <1>16. \A l \in Level : Ended(s, l)
    BY <1>5 DEF Orderly
  <1>17. ASSUME NEW l \in Level, NEW k \in Entries(s, l)
         PROVE  /\ Entry(s, l, k) \in Procs /\ s.inq[Entry(s, l, k)]
                /\ qv[Entry(s, l, k)] = l
    <2>1. CASE l = q /\ k = n
      BY <1>10, <1>15, <2>1
    <2>2. CASE l = q /\ k # n
      BY <1>13, <1>14, <1>15, <2>2
    <2>3. CASE l # q
      BY <1>5, <1>12, <1>14, <1>15, <2>3
    <2>4. QED
      BY <2>1, <2>2, <2>3
  <1>18. ASSUME NEW l \in Level, NEW j \in Entries(s, l), NEW k \in Entries(s, l),
                Entry(s, l, j) = Entry(s, l, k)
         PROVE  j = k
    <2>1. CASE l # q
      BY <1>5, <1>12, <1>18, <2>1 DEF Orderly
    <2>2. CASE l = q /\ (j = n \/ k = n)
      BY <1>10, <1>13, <1>14, <1>18, <2>2
    <2>3. CASE l = q /\ j # n /\ k # n
      <3>1. /\ j - d \in Entries(r, q) /\ k - d \in Entries(r, q)
            /\ Entry(r, q, j - d) = Entry(r, q, k - d)
        BY <1>13, <1>18, <2>3
      <3>2. j - d = k - d
        BY <3>1 DEF Orderly
      <3>3. QED
        BY <1>6, <3>2 DEF Entries
    <2>4. QED
      BY <2>1, <2>2, <2>3
  <1>19. ASSUME NEW x \in Procs, s.inq[x]
         PROVE  \E k \in Entries(s, qv[x]) : Entry(s, qv[x], k) = x
    <2>1. CASE x = p
      BY <1>6, <1>10, <1>15, <2>1
    <2>2. CASE x # p
      <3>1. qv[x] = qu[x] /\ r.inq[x] /\ qu[x] \in Level
        BY <1>15, <1>19, <2>2
      <3>2. PICK k \in Entries(r, qu[x]) : Entry(r, qu[x], k) = x
        BY <3>1 DEF Orderly
      <3>3. CASE qu[x] = q
        <4>1. k + d \in Entries(s, q) /\ Entry(s, q, k + d) = x
          BY <1>5, <1>11, <3>2, <3>3, Zenon
        <4>2. QED
          BY <3>1, <3>3, <4>1
      <3>4. CASE qu[x] # q
        BY <1>5, <1>12, <3>1, <3>2, <3>4, Zenon
      <3>5. QED
        BY <3>3, <3>4
    <2>3. QED
      BY <2>1, <2>2
  <1>20. Orderly(s, qv)
    BY <1>16, <1>17, <1>18, <1>19 DEF Orderly
  <1>21. QED
    BY <1>20 DEF s, qv

(* A pop keeps the rings so, takes a process of the level, and clears its  *)
(* inq.                                                                    *)
LEMMA PopOrderly ==
  ASSUME NEW r \in RingType, r.head[0] >= 0, NEW q \in Level, r.len[q] # 0,
         NEW qu \in [Procs -> Level], Orderly(r, qu)
  PROVE  /\ Front(r, q) \in Procs /\ r.inq[Front(r, q)] /\ qu[Front(r, q)] = q
         /\ pop(r, q).inq = [r.inq EXCEPT ![Front(r, q)] = FALSE]
         /\ Orderly(pop(r, q), qu)
  <1> DEFINE s == pop(r, q)  f == Front(r, q)
  <1>0. Ended(r, q) /\ r.len[q] \in Nat
    BY DEF Orderly, RingType
  <1>1. Popped(r, s, q)
    BY <1>0, PopIs, Zenon
  <1>2. 0 \in Entries(r, q) /\ Entry(r, q, 0) = f
    BY <1>0, <1>1 DEF Popped, Entries, Entry, Front
  <1> HIDE DEF s, f
  <1> USE DEF Popped
  <1>3. f \in Procs /\ r.inq[f] /\ qu[f] = q
    BY <1>2, Zenon DEF Orderly
  <1>4. s.inq = [r.inq EXCEPT ![f] = FALSE]
        /\ \A x \in Procs : s.inq[x] <=> x # f /\ r.inq[x]
    BY <1>1, <1>3, Zenon DEF RingType, f
  <1>5. \A l \in Level : Ended(s, l)
    BY <1>1, Zenon DEF Orderly
  <1>6. \A k \in Entries(s, q) : Entry(s, q, k) # f
    <2> SUFFICES ASSUME NEW k \in Entries(s, q), Entry(s, q, k) = f PROVE FALSE
      BY Zenon
    <2>1. k + 1 \in Entries(r, q) /\ Entry(r, q, k + 1) = Entry(r, q, 0)
      BY <1>1, <1>2, Zenon
    <2>2. k + 1 = 0
      BY <1>2, <2>1, Zenon DEF Orderly
    <2>3. QED
      BY <2>2 DEF Entries
  <1>7. ASSUME NEW l \in Level, NEW k \in Entries(s, l)
        PROVE  /\ Entry(s, l, k) \in Procs /\ s.inq[Entry(s, l, k)]
               /\ qu[Entry(s, l, k)] = l
    <2>1. CASE l = q
      <3>1. k + 1 \in Entries(r, q) /\ Entry(s, q, k) = Entry(r, q, k + 1)
        BY <1>1, <2>1, Zenon
      <3>2. /\ Entry(s, q, k) \in Procs /\ r.inq[Entry(s, q, k)]
            /\ qu[Entry(s, q, k)] = q
        BY <3>1 DEF Orderly
      <3>3. QED
        BY <1>4, <1>6, <2>1, <3>2, Zenon
    <2>2. CASE l # q
      <3>1. /\ Entry(s, l, k) \in Procs /\ r.inq[Entry(s, l, k)]
            /\ qu[Entry(s, l, k)] = l
        BY <1>1, <2>2 DEF Orderly
      <3>2. QED
        BY <1>3, <1>4, <2>2, <3>1, Zenon
    <2>3. QED
      BY <2>1, <2>2, Zenon
  <1>8. ASSUME NEW l \in Level, NEW j \in Entries(s, l), NEW k \in Entries(s, l),
               Entry(s, l, j) = Entry(s, l, k)
        PROVE  j = k
    <2>1. CASE l = q
      <3>1. /\ j + 1 \in Entries(r, q) /\ k + 1 \in Entries(r, q)
            /\ Entry(r, q, j + 1) = Entry(r, q, k + 1)
        BY <1>1, <1>8, <2>1, Zenon
      <3>2. j + 1 = k + 1
        BY <3>1, Zenon DEF Orderly
      <3>3. QED
        BY <3>2 DEF Entries
    <2>2. CASE l # q
      BY <1>1, <1>8, <2>2 DEF Orderly
    <2>3. QED
      BY <2>1, <2>2
  <1>9. ASSUME NEW x \in Procs, s.inq[x]
        PROVE  \E k \in Entries(s, qu[x]) : Entry(s, qu[x], k) = x
    <2>1. x # f /\ r.inq[x] /\ qu[x] \in Level
      BY <1>4, <1>9, Zenon
    <2>2. PICK k \in Entries(r, qu[x]) : Entry(r, qu[x], k) = x
      BY <2>1, Zenon DEF Orderly
    <2>3. CASE qu[x] = q
      <3>1. k # 0
        BY <1>2, <2>1, <2>2, <2>3, Zenon
      <3>2. k - 1 \in Entries(s, q) /\ (k - 1) + 1 = k
        BY <1>0, <1>1, <2>2, <2>3, <3>1 DEF Entries
      <3>3. QED
        BY <1>1, <2>2, <2>3, <3>2
    <2>4. CASE qu[x] # q
      BY <1>1, <2>1, <2>2, <2>4
    <2>5. QED
      BY <2>3, <2>4
  <1>10. Orderly(s, qu)
    BY <1>5, <1>7, <1>8, <1>9 DEF Orderly
  <1>11. QED
    BY <1>3, <1>4, <1>10 DEF s, f

-----------------------------------------------------------------------------
(* Locks, hands and states. *)

(* p->lock and mlfq_lock are with the CPU that is between their acquire    *)
(* and their release, and hand[c] is set just between pop and acquire.     *)
Locked ==
  \A c \in CPU :
    /\ pc[c] \in {"boost", "enq", "swtch"} => plock[cproc[c]] = c
    /\ pc[c] \in {"boost", "enq"} => mlfq_lock = c
    /\ (pc[c] = "popped") <=> (hand[c] # Nil)

(* The null pointer is neither a CPU nor a process. *)
LEMMA Pointers == Nil \notin CPU /\ Nil \notin Procs
  BY DEF Nil, CPU, Procs

(* No CPU is between two steps under a lock at first. *)
LEMMA LockedInit == Init => Locked
  BY Zenon DEF Init, Locked

(* The steps keep the locks of who is between two of them, and the         *)
(* process in the hand of who popped one.                                  *)
LEMMA LockedNext == TInv /\ OneCpu /\ Locked /\ [Next]_vars => Locked'
  <1> SUFFICES ASSUME TInv, OneCpu, Locked, [Next]_vars PROVE Locked'
    BY Zenon
  <1>0. /\ pc \in [CPU -> PCs] /\ cproc \in [CPU -> Procs \cup {Nil}]
        /\ hand \in [CPU -> Procs \cup {Nil}] /\ plock \in [Procs -> CPU \cup {Nil}]
        /\ \A c \in CPU : wk[c].ret \in {"run", "sched", "yield"}
        /\ \A c \in CPU : HasProc(c) => cproc[c] \in Procs
    BY Zenon DEF TInv, TypeOK, Placed
  <1>1. ASSUME NEW c \in CPU, scheduler_pop(c) PROVE Locked'
    BY <1>0, <1>1 DEF scheduler_pop, Goto, Locked, locks
  <1>2. ASSUME NEW c \in CPU, scheduler_run(c) PROVE Locked'
    BY <1>0, <1>2 DEF scheduler_run, Goto, Locked, locks
  <1>3. ASSUME NEW c \in CPU,
               clockintr(c) \/ (\E ch \in Chan : wakeup_call(c, ch)) \/ wakeup_turn(c)
        PROVE  Locked'
    <2>1. UNCHANGED <<cproc, hand, plock, mlfq_lock>>
      BY <1>3, Zenon DEF clockintr, wakeup_call, wakeup_turn, locks
    <2>2. PICK l \in {"wakeup", "run", "sched", "yield"} :
            /\ pc[c] \in {"run", "sched", "wakeup"}
            /\ pc' = [pc EXCEPT ![c] = l] \/ pc' = pc
      BY <1>0, <1>3, Zenon DEF clockintr, wakeup_call, wakeup_turn, CallWakeup, Goto
    <2>3. QED
      BY <1>0, <2>1, <2>2 DEF Locked
  <1>4. CASE UNCHANGED <<pc, cproc, hand, plock, mlfq_lock>>
    BY <1>4, Zenon DEF Locked
  <1>5. ASSUME NEW c \in CPU, sleep(c) \/ kexit(c) PROVE Locked'
    <2>1. /\ pc[c] = "run" /\ pc' = [pc EXCEPT ![c] = "sched"]
          /\ cproc' = [cproc EXCEPT ![c] = Nil]
          /\ UNCHANGED <<hand, plock, mlfq_lock>>
      BY <1>5, Zenon DEF sleep, kexit, GiveUp, Goto, locks
    <2>2. QED
      BY <1>0, <2>1, Zenon DEF Locked
  <1>6. ASSUME NEW c \in CPU, yield_begin(c) PROVE Locked'
    <2>1. cproc[c] \in Procs
      BY <1>0, <1>6, Zenon DEF yield_begin, HasProc
    <2>2. QED
      BY <1>0, <1>6, <2>1, Pointers DEF yield_begin, BothFree, Goto, Locked
  <1>7. ASSUME NEW c \in CPU, boost_end(c) PROVE Locked'
    BY <1>0, <1>7, Zenon DEF boost_end, Goto, Locked, locks
  <1>8. ASSUME NEW c \in CPU, yield_enqueue(c) PROVE Locked'
    BY <1>0, <1>8, Zenon DEF yield_enqueue, Goto, Locked
  <1>9. ASSUME NEW c \in CPU, yield_end(c) PROVE Locked'
    <2>1. cproc[c] \in Procs
      BY <1>0, <1>9 DEF yield_end, HasProc
    <2>2. /\ pc[c] = "swtch" /\ pc' = [pc EXCEPT ![c] = "sched"]
          /\ cproc' = [cproc EXCEPT ![c] = Nil]
          /\ plock' = [plock EXCEPT ![cproc[c]] = Nil]
          /\ UNCHANGED <<hand, mlfq_lock>>
      BY <1>9 DEF yield_end, GiveUp, Goto
    <2>3. \A d \in CPU : d # c => cproc[d] # cproc[c]
      BY <2>1, Pointers DEF OneCpu
    <2>4. QED
      BY <1>0, <2>1, <2>2, <2>3, Zenon DEF Locked, HasProc
  <1>10. ASSUME NEW c \in CPU,
                \/ kfork(c) \/ boost_move(c) \/ boost_next(c)
                \/ \E ch \in Chan : sleep_prepare(c, ch)
                \/ \E p \in Procs : kkill(c, p) \/ kwait_reap(c, p)
         PROVE  UNCHANGED <<pc, cproc, hand, plock, mlfq_lock>>
    BY <1>10, Zenon DEF kfork, boost_move, boost_next, sleep_prepare, kkill, kwait_reap, locks
  <1>11. UNCHANGED vars => UNCHANGED <<pc, cproc, hand, plock, mlfq_lock>>
    BY DEF vars, locks
  <1>12. QED
    BY <1>1, <1>2, <1>3, <1>4, <1>5, <1>6, <1>7, <1>8, <1>9, <1>10, <1>11
    DEF Next, Kernel, Program

-----------------------------------------------------------------------------
(* Where a process waits. *)

(* p is about to be switched out by yield_mlfq; p is popped. *)
Switching(p) == \E c \in CPU : pc[c] = "swtch" /\ cproc[c] = p
Held(p) == \E c \in CPU : hand[c] = p

(* What waits in a ring or in a hand is RUNNABLE or about to be, and the   *)
(* other way round; it is in one hand only, and then in no ring.           *)
Settled ==
  /\ \A p \in Procs : ring.inq[p] \/ Held(p) <=> state[p] = "RUNNABLE" \/ Switching(p)
  /\ \A c \in CPU : hand[c] # Nil => ~ring.inq[hand[c]]
  /\ \A c, d \in CPU : hand[c] # Nil /\ hand[c] = hand[d] => c = d

(* The CPUs that have popped a process of level q and may push it back to  *)
(* the head.                                                               *)
Out(q) ==
  {c \in CPU : \/ hand[c] \in Procs /\ queue[hand[c]] = q
               \/ cproc[c] \in Procs /\ pc[c] # "swtch" /\ queue[cproc[c]] = q}

(* A head goes below 0 only by pushes of processes that were popped before *)
(* it wrapped, and there are at most NCPU of them.                         *)
HeadsBounded ==
  \A q \in Level \ {0} : ring.head[q] >= Cardinality(Out(q)) - NCPU

(* The laws of counting CPUs. They hold always, CountingHolds: they are    *)
(* part of the invariant so that the theorems on finite sets are brought   *)
(* in once, at the end.                                                    *)
Counting ==
  \A S \in SUBSET CPU :
    /\ Cardinality(S) \in 0 .. NCPU
    /\ \A T \in SUBSET S : Cardinality(T) <= Cardinality(S)
    /\ \A c \in S : Cardinality(S \ {c}) = Cardinality(S) - 1
    /\ \A c \in CPU \ S : Cardinality(S \cup {c}) = Cardinality(S) + 1

Calm == Counting /\ Orderly(ring, queue) /\ Settled /\ HeadsBounded

(* There are fewer CPUs than processes. *)
LEMMA CpuNumber == NCPU \in Nat \ {0} /\ NCPU < NPROC
  BY SchedAssumption, Zenon

(* How many CPUs a set has: what a head needs of it. *)
LEMMA CountCpus ==
  ASSUME Counting, NEW S \in SUBSET CPU
  PROVE  /\ Cardinality(S) \in 0 .. NCPU
         /\ \A T \in SUBSET S : Cardinality(T) <= Cardinality(S)
         /\ \A c \in S : Cardinality(S \ {c}) = Cardinality(S) - 1
         /\ \A c \in CPU \ S : Cardinality(S \cup {c}) = Cardinality(S) + 1
  BY Zenon DEF Counting

(* A head that stays where it is, with no more CPUs out. *)
LEMMA HeadStays ==
  ASSUME TInv, TInv', Counting, HeadsBounded, NEW q \in Level \ {0},
         ring'.head[q] = ring.head[q], Out(q)' \subseteq Out(q)
  PROVE  ring'.head[q] >= Cardinality(Out(q)') - NCPU
  <1>1. Out(q) \in SUBSET CPU /\ Out(q)' \in SUBSET CPU
    BY Zenon DEF Out
  <1>2. /\ Cardinality(Out(q)') <= Cardinality(Out(q))
        /\ Cardinality(Out(q)') \in 0 .. NCPU /\ Cardinality(Out(q)) \in 0 .. NCPU
    BY <1>1, CountCpus
  <1>3. ring.head[q] \in Int /\ NCPU \in Nat
    <2>1. ring.head \in [Level -> -(NPROC - 1) .. NPROC - 1] /\ NPROC \in Nat
      BY MlfqAssumption DEF TInv, TypeOK, RingType
    <2>2. q \in Level /\ ring.head[q] \in -(NPROC - 1) .. NPROC - 1
      BY <2>1
    <2>3. QED
      BY <2>1, <2>2, CpuNumber
  <1>4. QED
    BY <1>2, <1>3 DEF HeadsBounded

(* Who sleeps, is free or is running, is not queued. *)
LEMMA NotQueued ==
  ASSUME TInv, OneCpu, Settled, NEW p \in Procs, state[p] # "RUNNABLE", ~Switching(p)
  PROVE  ~ring.inq[p] /\ ~Held(p)
  BY Zenon DEF Settled

(* A process that is not running has no CPU. *)
LEMMA NotSwitching ==
  ASSUME TInv, OneCpu, NEW p \in Procs, state[p] # "RUNNING"
  PROVE  ~Switching(p) /\ \A c \in CPU : cproc[c] # p
  BY DEF OneCpu, Switching

(* The process of a CPU that is not about to switch is running and is not  *)
(* being switched.                                                         *)
LEMMA RunningCpu ==
  ASSUME TInv, OneCpu, NEW c \in CPU, HasProc(c), pc[c] # "swtch"
  PROVE  cproc[c] \in Procs /\ state[cproc[c]] = "RUNNING" /\ ~Switching(cproc[c])
  <1>1. cproc[c] \in Procs
    BY DEF TInv, Placed
  <1>2. QED
    BY <1>1, Pointers, Zenon DEF OneCpu, Switching

(* The level of a process that is in no ring may change. *)
LEMMA LiftOrderly ==
  ASSUME NEW r \in RingType, NEW p \in Procs, ~r.inq[p], NEW q \in Level,
         NEW qu \in [Procs -> Level], Orderly(r, qu)
  PROVE  Orderly(r, [qu EXCEPT ![p] = q])
  <1> DEFINE qv == [qu EXCEPT ![p] = q]
  <1>1. \A x \in Procs : x # p => qv[x] = qu[x]
    BY Zenon
  <1> HIDE DEF qv
  <1>2. \A l \in Level : \A k \in Entries(r, l) :
          /\ Entry(r, l, k) \in Procs /\ r.inq[Entry(r, l, k)]
          /\ Entry(r, l, k) # p /\ qv[Entry(r, l, k)] = l
    BY <1>1 DEF Orderly
  <1>3. \A x \in Procs : r.inq[x] =>
          \E k \in Entries(r, qv[x]) : Entry(r, qv[x], k) = x
    BY <1>1 DEF Orderly
  <1>4. Orderly(r, qv)
    BY <1>2, <1>3, Zenon DEF Orderly
  <1>5. QED
    BY <1>4 DEF qv

(* Steps that move no process. *)
LEMMA CalmQuiet ==
  ASSUME TInv, TInv', Calm, UNCHANGED <<ring, queue, state, hand, cproc>>,
         \A c \in CPU : pc'[c] = "swtch" <=> pc[c] = "swtch"
  PROVE  Calm'
  <1>1. Orderly(ring', queue')
    BY Zenon DEF Calm
  <1>2. Settled'
    BY Zenon DEF Calm, Settled, Held, Switching
  <1>3. \A q \in Level : Out(q)' = Out(q)
    BY Zenon DEF Out
  <1>4. HeadsBounded'
    BY <1>3, HeadStays, Zenon DEF Calm, HeadsBounded
  <1>5. QED
    BY <1>1, <1>2, <1>4, Zenon DEF Calm

(* wakeup and kkill: a sleeper is queued. *)
LEMMA CalmMakeRunnable ==
  ASSUME TInv, TInv', OneCpu, Calm, NEW p \in Procs, state[p] = "SLEEPING",
         MakeRunnable(p), ~aliased', UNCHANGED <<queue, hand, cproc>>,
         \A c \in CPU : pc'[c] = "swtch" <=> pc[c] = "swtch"
  PROVE  Calm'
  <1>1. /\ ring \in RingType /\ ring.head[0] >= 0 /\ queue \in [Procs -> Level]
        /\ state \in [Procs -> States]
    BY Zenon DEF TInv, TypeOK
  <1>2. ~ring.inq[p] /\ ~Held(p) /\ ~Switching(p)
    BY NotQueued, NotSwitching DEF Calm
  <1>3. ring' = push(ring, p, queue[p], TRUE) /\ ~Overwrites(ring, p, queue[p], TRUE)
    BY Zenon DEF MakeRunnable, Push
  <1>4. Orderly(ring', queue')
    <2>1. Orderly(ring', [queue EXCEPT ![p] = queue[p]])
      BY <1>1, <1>2, <1>3, PushOrderly, Zenon DEF Calm
    <2>2. [queue EXCEPT ![p] = queue[p]] = queue
      BY <1>1, Zenon
    <2>3. QED
      BY <2>1, <2>2
  <1>5. /\ \A x \in Procs : ring'.inq[x] <=> x = p \/ ring.inq[x]
        /\ \A q \in Level : ring'.head[q] = ring.head[q]
    <2>1. Pushed(ring, ring', p, queue[p], TRUE)
      BY <1>1, <1>2, <1>3, PushIs, Zenon
    <2>2. QED
      BY <1>1, <2>1 DEF Pushed, RingType
  <1>6. \A x \in Procs : state'[x] = IF x = p THEN "RUNNABLE" ELSE state[x]
    BY <1>1 DEF MakeRunnable
  <1>7. Settled'
    <2>1. \A x \in Procs : /\ Held(x)' <=> Held(x)
                           /\ Switching(x)' <=> Switching(x)
      BY DEF Held, Switching
    <2>2. \A x \in Procs :
            ring'.inq[x] \/ Held(x)' <=> state'[x] = "RUNNABLE" \/ Switching(x)'
      BY <1>2, <1>5, <1>6, <2>1, Zenon DEF Calm, Settled
    <2>3. \A c \in CPU : hand[c] # Nil => hand[c] # p /\ hand[c] \in Procs
      BY <1>2 DEF Held, TInv, TypeOK
    <2>4. \A c \in CPU : hand'[c] # Nil => ~ring'.inq[hand'[c]]
      BY <1>5, <2>3, Zenon DEF Calm, Settled
    <2>5. QED
      BY <2>2, <2>4, Zenon DEF Calm, Settled
  <1>8. \A q \in Level : Out(q)' = Out(q)
    BY Zenon DEF Out
  <1>9. HeadsBounded'
    BY <1>5, <1>8, HeadStays DEF Calm, HeadsBounded
  <1>10. QED
    BY <1>4, <1>7, <1>9, Zenon DEF Calm

(* kwait, kexit and sleep: the state changes, and it was and is not        *)
(* RUNNABLE.                                                               *)
LEMMA CalmState ==
  ASSUME TInv, TInv', OneCpu, Calm, UNCHANGED <<ring, queue, hand>>,
         NEW p \in Procs, NEW st \in States \ {"RUNNABLE"}, state[p] # "RUNNABLE",
         state' = [state EXCEPT ![p] = st],
         \A x \in Procs : Switching(x)' <=> Switching(x),
         \A q \in Level : Out(q)' \subseteq Out(q)
  PROVE  Calm'
  <1>1. \A x \in Procs : state'[x] = IF x = p THEN st ELSE state[x]
    BY Zenon DEF TInv, TypeOK
  <1>2. Settled'
    <2>1. \A x \in Procs : Held(x)' <=> Held(x)
      BY Zenon DEF Held
    <2>2. \A x \in Procs :
            ring'.inq[x] \/ Held(x)' <=> state'[x] = "RUNNABLE" \/ Switching(x)'
      BY <1>1, <2>1, Zenon DEF Calm, Settled
    <2>3. QED
      BY <2>2, Zenon DEF Calm, Settled
  <1>3. HeadsBounded'
    BY HeadStays, Zenon DEF Calm, HeadsBounded
  <1>4. QED
    BY <1>2, <1>3 DEF Calm

(* scheduler_mlfq, first half. *)
LEMMA CalmPop ==
  ASSUME TInv, TInv', OneCpu, Locked, Calm, NEW c \in CPU, scheduler_pop(c)
  PROVE  Calm'
  <1>1. /\ ring \in RingType /\ ring.head[0] >= 0 /\ queue \in [Procs -> Level]
        /\ pc \in [CPU -> PCs] /\ hand \in [CPU -> Procs \cup {Nil}]
    BY DEF TInv, TypeOK
  <1>2. PICK q \in Level : /\ ring.len[q] # 0
                           /\ hand' = [hand EXCEPT ![c] = Front(ring, q)]
                           /\ ring' = pop(ring, q)
    BY Zenon DEF scheduler_pop
  <1>3. /\ pc[c] = "sched" /\ pc' = [pc EXCEPT ![c] = "popped"]
        /\ UNCHANGED <<state, queue, cproc>>
    BY DEF scheduler_pop, Goto, table
  <1> DEFINE f == Front(ring, q)
  <1>4. /\ f \in Procs /\ ring.inq[f] /\ queue[f] = q
        /\ ring'.inq = [ring.inq EXCEPT ![f] = FALSE]
        /\ Orderly(ring', queue')
    <2>1. /\ f \in Procs /\ ring.inq[f] /\ queue[f] = q
          /\ pop(ring, q).inq = [ring.inq EXCEPT ![f] = FALSE]
          /\ Orderly(pop(ring, q), queue)
      BY <1>1, <1>2, PopOrderly, Zenon DEF Calm
    <2>2. QED
      BY <1>2, <1>3, <2>1, Zenon
  <1> HIDE DEF f
  <1>5. /\ hand[c] = Nil /\ cproc[c] = Nil
        /\ \A d \in CPU : hand'[d] = IF d = c THEN f ELSE hand[d]
        /\ \A x \in Procs : ring'.inq[x] <=> x # f /\ ring.inq[x]
        /\ \A d \in CPU : pc'[d] = "swtch" <=> pc[d] = "swtch"
    BY <1>1, <1>2, <1>3, <1>4 DEF Locked, TInv, Placed, HasProc, RingType, f
  <1>6. \A d \in CPU : hand[d] # f
    BY <1>4, Pointers, Zenon DEF Calm, Settled
  <1>7. Settled'
    <2>1. \A x \in Procs : Held(x)' <=> Held(x) \/ x = f
      BY <1>4, <1>5, Pointers DEF Held
    <2>2. \A x \in Procs : Switching(x)' <=> Switching(x)
      BY <1>3, <1>5, Zenon DEF Switching
    <2>3. \A x \in Procs :
            ring'.inq[x] \/ Held(x)' <=> state'[x] = "RUNNABLE" \/ Switching(x)'
      BY <1>3, <1>4, <1>5, <2>1, <2>2, Zenon DEF Calm, Settled
    <2>4. \A d \in CPU : hand'[d] # Nil => ~ring'.inq[hand'[d]]
      BY <1>1, <1>4, <1>5 DEF Calm, Settled
    <2>5. \A d, e \in CPU : hand'[d] # Nil /\ hand'[d] = hand'[e] => d = e
      <3>1. \A d, e \in CPU : hand[d] # Nil /\ hand[d] = hand[e] => d = e
        BY Zenon DEF Calm, Settled
      <3>2. QED
        BY <1>5, <1>6, <3>1, ZenonT(30)
    <2>6. QED
      BY <2>3, <2>4, <2>5, Zenon DEF Settled
  <1>8. ASSUME NEW l \in Level \ {0}
        PROVE  ring'.head[l] >= Cardinality(Out(l)') - NCPU
    <2>1. Ended(ring, q)
      BY SMTT(20) DEF Calm, Orderly
    <2>2. CASE l # q
      <3>1. Out(l)' \subseteq Out(l)
        BY <1>3, <1>4, <1>5, <2>2, Pointers, Zenon DEF Out
      <3>2. ring'.head[l] = ring.head[l]
        BY <1>1, <1>2, <2>1, <2>2, PopIs, Zenon DEF Popped
      <3>3. QED
        BY <3>1, <3>2, HeadStays, Zenon DEF Calm
    <2>3. CASE l = q
      <3>1. Out(l)' = Out(l) \cup {c} /\ c \notin Out(l) /\ Out(l) \in SUBSET CPU
            /\ Out(l)' \in SUBSET CPU
        BY <1>3, <1>4, <1>5, <2>3, Pointers, SMTT(20) DEF Out
      <3>2. /\ Cardinality(Out(l)') = Cardinality(Out(l)) + 1
            /\ Cardinality(Out(l)) \in 0 .. NCPU /\ Cardinality(Out(l)') \in 0 .. NCPU
        BY <3>1, CountCpus, Zenon DEF Calm
      <3>3. /\ ring.head[l] \in -(NPROC - 1) .. NPROC - 1 /\ NPROC \in Nat \ {0}
            /\ NCPU \in Nat
        BY <1>1, MlfqAssumption, CpuNumber, Zenon DEF RingType
      <3>4. ring'.head[l] = IF ring.head[l] = NPROC - 1 THEN 0 ELSE ring.head[l] + 1
        BY <1>1, <1>2, <2>1, <2>3, PopIs, Zenon DEF Popped
      <3>5. ring.head[l] >= Cardinality(Out(l)) - NCPU
        BY Zenon DEF Calm, HeadsBounded
      <3>6. QED
        BY <3>2, <3>3, <3>4, <3>5, SMTT(20)
    <2>4. QED
      BY <2>2, <2>3, Zenon
  <1>9. QED
    BY <1>4, <1>7, <1>8, Zenon DEF Calm, HeadsBounded

(* scheduler_mlfq, second half: what is popped is RUNNABLE. *)
LEMMA CalmRun ==
  ASSUME TInv, TInv', OneCpu, Locked, Calm, NEW c \in CPU, scheduler_run(c)
  PROVE  Calm'
  <1>1. /\ ring \in RingType /\ state \in [Procs -> States]
        /\ pc \in [CPU -> PCs] /\ hand \in [CPU -> Procs \cup {Nil}]
        /\ cproc \in [CPU -> Procs \cup {Nil}] /\ hand[c] \in Procs /\ cproc[c] = Nil
    BY Zenon DEF TInv, TypeOK, Placed, HasProc, scheduler_run
  <1>2. /\ pc[c] = "popped" /\ plock[hand[c]] = Nil
        /\ hand' = [hand EXCEPT ![c] = Nil] /\ UNCHANGED <<ring, queue>>
    BY Zenon DEF scheduler_run
  <1>3. state[hand[c]] = "RUNNABLE"
    <2>1. Held(hand[c])
      BY Zenon DEF Held
    <2>2. ~Switching(hand[c])
      BY <1>2, Pointers DEF Switching, Locked
    <2>3. QED
      BY <1>1, <2>1, <2>2 DEF Calm, Settled
  <1>4. /\ state' = [state EXCEPT ![hand[c]] = "RUNNING"]
        /\ cproc' = [cproc EXCEPT ![c] = hand[c]]
        /\ pc' = [pc EXCEPT ![c] = "run"]
    BY <1>3, Zenon DEF scheduler_run, CanRun, Goto
  <1>5. /\ \A x \in Procs : state'[x] = IF x = hand[c] THEN "RUNNING" ELSE state[x]
        /\ \A d \in CPU : /\ cproc'[d] = IF d = c THEN hand[c] ELSE cproc[d]
                          /\ pc'[d] = IF d = c THEN "run" ELSE pc[d]
                          /\ hand'[d] = IF d = c THEN Nil ELSE hand[d]
    BY <1>1, <1>2, <1>4, Zenon
  <1>6. ~ring.inq[hand[c]] /\ (\A d \in CPU : hand[d] = hand[c] => d = c)
    BY <1>1, Pointers, Zenon DEF Calm, Settled
  <1>7. Settled'
    <2>1. \A x \in Procs : Held(x)' <=> Held(x) /\ x # hand[c]
      BY <1>5, <1>6, Pointers DEF Held
    <2>2. \A x \in Procs : Switching(x)' <=> Switching(x)
      BY <1>2, <1>5, Zenon DEF Switching
    <2>3. ~Switching(hand[c])
      BY <1>1, <1>3, NotSwitching, Zenon
    <2>4. \A x \in Procs :
            ring'.inq[x] \/ Held(x)' <=> state'[x] = "RUNNABLE" \/ Switching(x)'
      BY <1>2, <1>5, <1>6, <2>1, <2>2, <2>3, Zenon DEF Calm, Settled
    <2>5. QED
      BY <1>2, <1>5, <2>4 DEF Calm, Settled
  <1>8. \A q \in Level : Out(q)' \subseteq Out(q)
    BY <1>1, <1>2, <1>5, Pointers DEF Out
  <1>9. HeadsBounded'
    BY <1>2, <1>8, HeadStays, Zenon DEF Calm, HeadsBounded
  <1>10. QED
    BY <1>2, <1>7, <1>9 DEF Calm

-----------------------------------------------------------------------------
(* Forks, boosts, and yields. *)

(* kfork: the new process is queued at level 0. *)
LEMMA CalmFork ==
  ASSUME TInv, TInv', OneCpu, Locked, Calm, NEW c \in CPU, kfork(c), ~aliased'
  PROVE  Calm'
  <1>1. /\ ring \in RingType /\ ring.head[0] >= 0 /\ queue \in [Procs -> Level]
        /\ state \in [Procs -> States] /\ hand \in [CPU -> Procs \cup {Nil}]
    BY Zenon DEF TInv, TypeOK
  <1> DEFINE r(x) == [ring EXCEPT !.inq[x] = FALSE]
  <1>2. PICK p \in Procs : /\ state[p] = "UNUSED"
                           /\ state' = [state EXCEPT ![p] = "RUNNABLE"]
                           /\ queue' = [queue EXCEPT ![p] = 0]
                           /\ ring' = push(r(p), p, 0, TRUE)
                           /\ ~Overwrites(r(p), p, 0, TRUE)
    BY Zenon DEF kfork
  <1>3. UNCHANGED <<pc, cproc, hand>>
    BY DEF kfork
  <1>4. ~Switching(p) /\ \A d \in CPU : cproc[d] # p
    BY <1>2, NotSwitching
  <1>5. ~ring.inq[p] /\ ~Held(p)
    BY <1>2, <1>4, NotQueued DEF Calm
  <1>6. r(p) = ring
    <2>1. ring.inq \in [Procs -> BOOLEAN]
      BY <1>1 DEF RingType
    <2>2. [ring.inq EXCEPT ![p] = FALSE] = ring.inq
      BY <1>5, <2>1, Zenon
    <2>3. QED
      BY <1>1, <2>2, Zenon DEF RingType
  <1> HIDE DEF r
  <1>7. ring' = push(ring, p, 0, TRUE) /\ ~Overwrites(ring, p, 0, TRUE)
    BY <1>2, <1>6, Zenon
  <1>8. Orderly(ring', queue')
    <2>1. Orderly(push(ring, p, 0, TRUE), [queue EXCEPT ![p] = 0])
      BY <1>1, <1>5, <1>7, PushOrderly, ZeroLevel, Zenon DEF Calm
    <2>2. QED
      BY <1>2, <1>7, <2>1, Zenon
  <1>9. /\ \A x \in Procs : ring'.inq[x] <=> x = p \/ ring.inq[x]
        /\ \A q \in Level : ring'.head[q] = ring.head[q]
    <2>1. Pushed(ring, ring', p, 0, TRUE)
      BY <1>1, <1>5, <1>7, PushIs, ZeroLevel, Zenon
    <2>2. QED
      BY <1>1, <2>1 DEF Pushed, RingType
  <1>10. /\ \A x \in Procs : state'[x] = IF x = p THEN "RUNNABLE" ELSE state[x]
         /\ \A x \in Procs : queue'[x] = IF x = p THEN 0 ELSE queue[x]
    BY <1>1, <1>2, Zenon
  <1>11. Settled'
    <2>1. \A x \in Procs : /\ Held(x)' <=> Held(x)
                           /\ Switching(x)' <=> Switching(x)
      BY <1>3 DEF Held, Switching
    <2>2. \A x \in Procs :
            ring'.inq[x] \/ Held(x)' <=> state'[x] = "RUNNABLE" \/ Switching(x)'
      BY <1>5, <1>9, <1>10, <2>1, Zenon DEF Calm, Settled
    <2>3. \A d \in CPU : hand[d] # Nil => hand[d] # p /\ hand[d] \in Procs
      BY <1>1, <1>5 DEF Held
    <2>4. \A d \in CPU : hand'[d] # Nil => ~ring'.inq[hand'[d]]
      BY <1>3, <1>9, <2>3, Zenon DEF Calm, Settled
    <2>5. QED
      BY <1>3, <2>2, <2>4, Zenon DEF Calm, Settled
  <1>12. \A q \in Level \ {0} : Out(q)' \subseteq Out(q)
    BY <1>3, <1>10, Zenon DEF Out
  <1>13. HeadsBounded'
    BY <1>9, <1>12, HeadStays, Zenon DEF Calm, HeadsBounded
  <1>14. QED
    BY <1>8, <1>11, <1>13 DEF Calm

(* One turn of the boost loop. *)
LEMMA CalmMove ==
  ASSUME TInv, TInv', OneCpu, Locked, Calm, NEW c \in CPU, boost_move(c), ~aliased'
  PROVE  Calm'
  <1>1. /\ ring \in RingType /\ ring.head[0] >= 0 /\ queue \in [Procs -> Level]
        /\ hand \in [CPU -> Procs \cup {Nil}] /\ cproc \in [CPU -> Procs \cup {Nil}]
    BY Zenon DEF TInv, TypeOK
  <1> DEFINE q == lvl  f == Front(ring, lvl)  r == pop(ring, lvl)
  <1>2. /\ q \in Level /\ ring.len[q] # 0
        /\ queue' = [queue EXCEPT ![f] = 0]
        /\ ring' = push(r, f, 0, TRUE) /\ ~Overwrites(r, f, 0, TRUE)
        /\ UNCHANGED <<state, hand, cproc, pc>>
    <2>1. lvl \in 0 .. NLevel /\ NLevel \in Nat
      <3>1. lvl \in 0 .. NLevel
        BY Zenon DEF TInv, TypeOK
      <3>2. QED
        BY <3>1, MlfqAssumption, SMTT(20)
    <2>2. lvl \in Level
      BY <2>1, SMTT(20) DEF boost_move, BoostLevels, Level
    <2>3. QED
      BY <2>2, Zenon DEF boost_move, Lift
  <1>3. /\ f \in Procs /\ ring.inq[f] /\ queue[f] = q
        /\ r.inq = [ring.inq EXCEPT ![f] = FALSE]
        /\ Orderly(r, queue)
    BY <1>1, <1>2, PopOrderly, Zenon DEF Calm
  <1>4. r \in RingType /\ r.head[0] >= 0
    BY <1>1, <1>2, PopType, ZeroLevel, Zenon
  <1>5. Popped(ring, r, q)
    <2>1. Ended(ring, q)
      BY <1>2, Zenon DEF Calm, Orderly
    <2>2. QED
      BY <1>1, <1>2, <2>1, PopIs, Zenon
  <1> HIDE DEF q, f, r
  <1>6. /\ \A l \in Level \ {q} : r.head[l] = ring.head[l]
        /\ r.head[q] >= ring.head[q] \/ r.head[q] >= 0
    <2>1. \A l \in Level \ {q} : r.head[l] = ring.head[l]
      BY <1>5, Zenon DEF Popped
    <2>2. r.head[q] = IF ring.head[q] = NPROC - 1 THEN 0 ELSE ring.head[q] + 1
      BY <1>5, Zenon DEF Popped
    <2>3. ring.head[q] \in -(NPROC - 1) .. NPROC - 1 /\ NPROC \in Nat
      BY <1>1, <1>2, MlfqAssumption, Zenon DEF RingType
    <2>4. QED
      BY <2>1, <2>2, <2>3
  <1>7. ~r.inq[f] /\ (\A x \in Procs : x # f => r.inq[x] = ring.inq[x])
    BY <1>1, <1>3, SMTT(20) DEF RingType
  <1>8. Orderly(ring', queue')
    BY <1>1, <1>2, <1>3, <1>4, <1>7, PushOrderly, ZeroLevel, Zenon
  <1>9. /\ \A x \in Procs : ring'.inq[x] <=> ring.inq[x]
        /\ \A l \in Level : ring'.head[l] = r.head[l]
    <2>1. Pushed(r, ring', f, 0, TRUE)
      BY <1>2, <1>3, <1>4, <1>7, PushIs, ZeroLevel, Zenon
    <2>2. QED
      BY <1>3, <1>4, <1>7, <2>1, SMTT(20) DEF Pushed, RingType
  <1>10. Settled'
    <2>1. \A x \in Procs : /\ Held(x)' <=> Held(x)
                           /\ Switching(x)' <=> Switching(x)
      BY <1>2, Zenon DEF Held, Switching
    <2>2. QED
      BY <1>1, <1>2, <1>9, <2>1, Zenon DEF Calm, Settled
  <1>11. ASSUME NEW l \in Level \ {0}
         PROVE  ring'.head[l] >= Cardinality(Out(l)') - NCPU
    <2>1. \A x \in Procs : queue'[x] = IF x = f THEN 0 ELSE queue[x]
      BY <1>1, <1>2, <1>3, Zenon
    <2>2. Out(l)' \subseteq Out(l)
      BY <1>1, <1>2, <2>1, Zenon DEF Out
    <2>3. Out(l) \in SUBSET CPU /\ Out(l)' \in SUBSET CPU
      BY Zenon DEF Out
    <2>4. /\ Cardinality(Out(l)') <= Cardinality(Out(l))
          /\ Cardinality(Out(l)') \in 0 .. NCPU /\ Cardinality(Out(l)) \in 0 .. NCPU
      BY <2>2, <2>3, CountCpus, Zenon DEF Calm
    <2>5. ring.head[l] \in -(NPROC - 1) .. NPROC - 1 /\ r.head[l] \in -(NPROC - 1) .. NPROC - 1
          /\ NPROC \in Nat
      BY <1>1, <1>4, MlfqAssumption, Zenon DEF RingType
    <2>6. ring'.head[l] >= ring.head[l] \/ ring'.head[l] >= 0
      BY <1>6, <1>9, <2>5
    <2>7. ring.head[l] >= Cardinality(Out(l)) - NCPU
      BY Zenon DEF Calm, HeadsBounded
    <2>8. ring'.head[l] \in -(NPROC - 1) .. NPROC - 1
      BY <1>9, <2>5
    <2>9. QED
      BY <2>4, <2>5, <2>6, <2>7, <2>8, CpuNumber
  <1>12. QED
    BY <1>8, <1>10, <1>11 DEF Calm, HeadsBounded

(* The end of the boost: the caller is in no ring. *)
LEMMA CalmBoostEnd ==
  ASSUME TInv, TInv', OneCpu, Locked, Calm, NEW c \in CPU, boost_end(c)
  PROVE  Calm'
  <1>1. /\ ring \in RingType /\ queue \in [Procs -> Level] /\ pc \in [CPU -> PCs]
    BY Zenon DEF TInv, TypeOK
  <1>2. cproc[c] \in Procs /\ state[cproc[c]] = "RUNNING" /\ ~Switching(cproc[c])
    BY RunningCpu, Zenon DEF boost_end, HasProc
  <1>3. ~ring.inq[cproc[c]]
    BY <1>2, NotQueued, Zenon DEF Calm
  <1>4. /\ queue' = [queue EXCEPT ![cproc[c]] = 0] /\ UNCHANGED <<ring, state, hand, cproc>>
        /\ pc[c] = "boost" /\ pc' = [pc EXCEPT ![c] = "enq"]
    BY DEF boost_end, Lift, Goto
  <1>5. Orderly(ring', queue')
    BY <1>1, <1>2, <1>3, <1>4, LiftOrderly, ZeroLevel, Zenon DEF Calm
  <1>6. \A d \in CPU : pc'[d] = "swtch" <=> pc[d] = "swtch"
    BY <1>1, <1>4, Zenon
  <1>7. Settled'
    BY <1>4, <1>6 DEF Calm, Settled, Held, Switching
  <1>8. \A x \in Procs : queue'[x] = IF x = cproc[c] THEN 0 ELSE queue[x]
    BY <1>1, <1>4, Zenon
  <1>9. \A q \in Level \ {0} : Out(q)' \subseteq Out(q)
    BY <1>4, <1>6, <1>8 DEF Out
  <1>10. HeadsBounded'
    BY <1>4, <1>9, HeadStays DEF Calm, HeadsBounded
  <1>11. QED
    BY <1>5, <1>7, <1>10 DEF Calm

(* yield_mlfq puts its process back, to the tail or to the head. *)
LEMMA CalmEnqueue ==
  ASSUME TInv, TInv', OneCpu, Locked, Calm, NEW c \in CPU, yield_enqueue(c), ~aliased'
  PROVE  Calm'
  <1>1. /\ ring \in RingType /\ ring.head[0] >= 0 /\ queue \in [Procs -> Level]
        /\ pc \in [CPU -> PCs] /\ hand \in [CPU -> Procs \cup {Nil}]
        /\ tick \in [Procs -> Nat]
    BY Zenon DEF TInv, TypeOK
  <1> DEFINE p == cproc[c]  used == SliceUsed(p)
             q == IF used THEN Demoted(queue[p]) ELSE queue[p]
  <1>2. pc[c] = "enq" /\ p \in Procs /\ state[p] = "RUNNING" /\ ~Switching(p)
    BY RunningCpu, Zenon DEF yield_enqueue, HasProc
  <1>3. ~ring.inq[p] /\ ~Held(p)
    BY <1>2, NotQueued DEF Calm
  <1>4. /\ queue' = [queue EXCEPT ![p] = q] /\ UNCHANGED <<state, hand, cproc>>
        /\ ring' = push(ring, p, q, used) /\ ~Overwrites(ring, p, q, used)
        /\ pc' = [pc EXCEPT ![c] = "swtch"]
    BY Zenon DEF yield_enqueue, Push, Goto
  <1>5. q \in Level /\ used \in BOOLEAN
    <2>1. queue[p] \in Level /\ Demoted(queue[p]) \in Level
      BY <1>1, <1>2, MlfqAssumption DEF Demoted, Level
    <2>2. QED
      BY <2>1 DEF SliceUsed
  <1>6. ~used => queue[p] # 0
    BY <1>1, <1>2, MlfqAssumption DEF SliceUsed
  <1>7. hand[c] = Nil
    BY <1>2, Zenon DEF Locked
  <1>8. c \in Out(queue[p])
    BY <1>2, Zenon DEF Out
  <1> HIDE DEF p, used
  <1>9. ~used => q = queue[p]
    BY Zenon
  <1> HIDE DEF q
  <1>10. /\ \A l \in Level : Cardinality(Out(l)) \in 0 .. NCPU
         /\ Cardinality(Out(queue[p]) \ {c}) = Cardinality(Out(queue[p])) - 1
         /\ Cardinality(Out(queue[p]) \ {c}) \in 0 .. NCPU
    <2>1. (\A l \in Level : Out(l) \in SUBSET CPU) /\ queue[p] \in Level
      BY <1>1, <1>2 DEF Out
    <2>2. Out(queue[p]) \ {c} \in SUBSET CPU
      BY <2>1, Zenon
    <2>3. QED
      BY <1>8, <2>1, <2>2, CountCpus, Zenon DEF Calm
  <1>11. /\ \A l \in Level : ring.head[l] \in -(NPROC - 1) .. NPROC - 1
         /\ NPROC \in Nat \ {0} /\ NCPU \in Nat /\ NCPU < NPROC
    BY <1>1, MlfqAssumption, CpuNumber, Zenon DEF RingType
  <1>12. ~used => q # 0 /\ ring.head[q] > -(NPROC - 1)
    <2> SUFFICES ASSUME ~used PROVE q # 0 /\ ring.head[q] > -(NPROC - 1)
      BY Zenon
    <2>1. q = queue[p] /\ q \in Level \ {0}
      BY <1>5, <1>6, <1>9, Zenon
    <2>2. ring.head[q] >= Cardinality(Out(q)) - NCPU
      BY <2>1, Zenon DEF Calm, HeadsBounded
    <2>3. Cardinality(Out(q)) - 1 \in 0 .. NCPU
      BY <1>10, <2>1
    <2>4. QED
      BY <1>10, <1>11, <2>1, <2>2, <2>3
  <1>13. Orderly(ring', queue')
    BY <1>1, <1>2, <1>3, <1>4, <1>5, <1>12, PushOrderly, Zenon DEF Calm
  <1>14. /\ \A x \in Procs : ring'.inq[x] <=> x = p \/ ring.inq[x]
         /\ \A l \in Level : ring'.head[l] =
              IF l = q /\ ~used THEN CMod(ring.head[q] - 1, NPROC) ELSE ring.head[l]
    <2>1. Pushed(ring, ring', p, q, used)
      BY <1>1, <1>2, <1>3, <1>4, <1>5, PushIs, Zenon
    <2>2. QED
      BY <1>1, <1>2, <2>1, Zenon DEF Pushed, RingType
  <1>15. \A d \in CPU : pc'[d] = IF d = c THEN "swtch" ELSE pc[d]
    BY <1>1, <1>4, Zenon
  <1>16. Settled'
    <2>1. \A x \in Procs : Held(x)' <=> Held(x)
      BY <1>4 DEF Held
    <2>2. \A x \in Procs : Switching(x)' <=> Switching(x) \/ x = p
      BY <1>2, <1>4, <1>15, Zenon DEF Switching, p
    <2>3. \A x \in Procs :
            ring'.inq[x] \/ Held(x)' <=> state'[x] = "RUNNABLE" \/ Switching(x)'
      BY <1>2, <1>3, <1>4, <1>14, <2>1, <2>2, Zenon DEF Calm, Settled
    <2>4. \A d \in CPU : hand[d] # Nil => hand[d] # p /\ hand[d] \in Procs
      BY <1>1, <1>3, SMTT(20) DEF Held
    <2>5. \A d \in CPU : hand'[d] # Nil => ~ring'.inq[hand'[d]]
      BY <1>4, <1>14, <2>4, Zenon DEF Calm, Settled
    <2>6. QED
      BY <1>4, <2>3, <2>5, Zenon DEF Calm, Settled
  <1>17. \A x \in Procs : queue'[x] = IF x = p THEN q ELSE queue[x]
    BY <1>1, <1>4, Zenon
  <1>18. \A d \in CPU : d # c => cproc[d] # p
    BY <1>2, Pointers, Zenon DEF OneCpu, p
  <1>19. \A l \in Level : Out(l)' \subseteq Out(l) \ {c}
    BY <1>2, <1>3, <1>4, <1>7, <1>15, <1>17, <1>18, Pointers, SMTT(20) DEF Out, Held
  <1>20. ASSUME NEW l \in Level \ {0}
         PROVE  ring'.head[l] >= Cardinality(Out(l)') - NCPU
    <2>1. CASE l = q /\ ~used
      <3>1. l = queue[p]
        BY <1>9, <2>1
      <3>2. Out(l)' \in SUBSET (Out(l) \ {c}) /\ Out(l) \ {c} \in SUBSET CPU
            /\ Out(l)' \in SUBSET CPU
        BY <1>19, Zenon DEF Out
      <3>3. /\ Cardinality(Out(l)') <= Cardinality(Out(l) \ {c})
            /\ Cardinality(Out(l)') \in 0 .. NCPU
        BY <3>2, CountCpus, Zenon DEF Calm
      <3>4. CMod(ring.head[l] - 1, NPROC) = ring.head[l] - 1
        <4>1. ring.head[l] - 1 \in -(NPROC - 1) .. NPROC - 1
          BY <1>11, <1>12, <2>1
        <4>2. QED
          BY <1>11, <4>1, CModNear
      <3>5. ring'.head[l] = ring.head[l] - 1
        BY <1>14, <2>1, <3>4, Zenon
      <3>6. ring.head[l] >= Cardinality(Out(l)) - NCPU
        BY DEF Calm, HeadsBounded
      <3>7. /\ Cardinality(Out(l) \ {c}) = Cardinality(Out(l)) - 1
            /\ Cardinality(Out(l)) \in 0 .. NCPU
        BY <1>10, <3>1, Zenon
      <3>8. ring.head[l] \in -(NPROC - 1) .. NPROC - 1
        BY <1>11, Zenon
      <3>9. QED
        BY <1>11, <3>3, <3>5, <3>6, <3>7, <3>8, SMTT(20)
    <2>2. CASE ~(l = q /\ ~used)
      <3>1. ring'.head[l] = ring.head[l] /\ Out(l)' \subseteq Out(l)
        BY <1>14, <1>19, <2>2, Zenon
      <3>2. QED
        BY <3>1, HeadStays, Zenon DEF Calm
    <2>3. QED
      BY <2>1, <2>2, Zenon
  <1>21. QED
    BY <1>13, <1>16, <1>20 DEF Calm, HeadsBounded

(* The process of yield_mlfq is switched out, RUNNABLE. *)
LEMMA CalmYieldEnd ==
  ASSUME TInv, TInv', OneCpu, Locked, Calm, NEW c \in CPU, yield_end(c)
  PROVE  Calm'
  <1>1. /\ state \in [Procs -> States] /\ pc \in [CPU -> PCs]
        /\ cproc \in [CPU -> Procs \cup {Nil}]
    BY Zenon DEF TInv, TypeOK
  <1>2. cproc[c] \in Procs
    BY Zenon DEF yield_end, TInv, Placed, HasProc
  <1>3. /\ state' = [state EXCEPT ![cproc[c]] = "RUNNABLE"]
        /\ cproc' = [cproc EXCEPT ![c] = Nil]
        /\ pc[c] = "swtch" /\ pc' = [pc EXCEPT ![c] = "sched"]
        /\ UNCHANGED <<ring, queue, hand>>
    BY Zenon DEF yield_end, GiveUp, Goto
  <1>4. /\ \A x \in Procs : state'[x] = IF x = cproc[c] THEN "RUNNABLE" ELSE state[x]
        /\ \A d \in CPU : cproc'[d] = IF d = c THEN Nil ELSE cproc[d]
        /\ \A d \in CPU : pc'[d] = IF d = c THEN "sched" ELSE pc[d]
    BY <1>1, <1>2, <1>3
  <1>5. Settled'
    <2>1. \A x \in Procs : Held(x)' <=> Held(x)
      BY <1>3 DEF Held
    <2>2. \A x \in Procs : x # cproc[c] => (Switching(x)' <=> Switching(x))
      BY <1>4, Pointers, Zenon DEF Switching
    <2>3. Switching(cproc[c])
      BY <1>3, Zenon DEF Switching
    <2>4. \A x \in Procs :
            ring'.inq[x] \/ Held(x)' <=> state'[x] = "RUNNABLE" \/ Switching(x)'
      BY <1>2, <1>3, <1>4, <2>1, <2>2, <2>3, Zenon DEF Calm, Settled
    <2>5. QED
      BY <1>3, <2>4, Zenon DEF Calm, Settled
  <1>6. \A q \in Level : Out(q)' \subseteq Out(q)
    BY <1>3, <1>4, Pointers DEF Out
  <1>7. HeadsBounded'
    BY <1>3, <1>6, HeadStays DEF Calm, HeadsBounded
  <1>8. QED
    BY <1>3, <1>5, <1>7 DEF Calm

(* sleep and kexit: a running process gives up its CPU. *)
LEMMA CalmGiveUp ==
  ASSUME TInv, TInv', OneCpu, Locked, Calm, NEW c \in CPU, sleep(c) \/ kexit(c)
  PROVE  Calm'
  <1>1. /\ pc \in [CPU -> PCs] /\ cproc \in [CPU -> Procs \cup {Nil}]
    BY Zenon DEF TInv, TypeOK
  <1>2. PICK st \in States \ {"RUNNABLE"} :
          /\ state' = [state EXCEPT ![cproc[c]] = st]
          /\ cproc' = [cproc EXCEPT ![c] = Nil]
          /\ pc[c] = "run" /\ pc' = [pc EXCEPT ![c] = "sched"]
          /\ UNCHANGED <<ring, queue, hand>>
    BY Zenon DEF sleep, kexit, GiveUp, Goto, States
  <1>3. cproc[c] \in Procs /\ state[cproc[c]] = "RUNNING"
    BY <1>2, RunningCpu, Zenon DEF HasProc
  <1>4. /\ \A d \in CPU : cproc'[d] = IF d = c THEN Nil ELSE cproc[d]
        /\ \A d \in CPU : pc'[d] = IF d = c THEN "sched" ELSE pc[d]
    BY <1>1, <1>2, Zenon
  <1>5. \A x \in Procs : Switching(x)' <=> Switching(x)
    BY <1>2, <1>4 DEF Switching
  <1>6. \A q \in Level : Out(q)' \subseteq Out(q)
    BY <1>2, <1>4, Pointers DEF Out
  <1>7. QED
    BY <1>2, <1>3, <1>5, <1>6, CalmState, Zenon

-----------------------------------------------------------------------------
(* The queues match the states. *)

(* Calm holds as long as no push has overwritten a waiting entry. *)
QInv == TInv /\ OneCpu /\ Locked /\ (aliased \/ Calm)

(* The queues are calm at first: initproc alone is in the top one. *)
LEMMA CalmInit ==
  ASSUME Init, Counting
  PROVE  Calm
  <1>1. NPROC \in Nat \ {0} /\ initproc \in Procs /\ 0 \in Level
    BY MlfqAssumption, ZeroLevel DEF initproc, Procs
  <1>2. EmptyRing \in RingType /\ EmptyRing.head[0] >= 0
    <2>1. 0 \in -(NPROC - 1) .. NPROC - 1 /\ 0 \in Index
      BY <1>1 DEF Index
    <2>2. QED
      BY <1>1, <2>1 DEF EmptyRing, RingType
  <1>3. /\ ring = push(EmptyRing, initproc, 0, TRUE)
        /\ state = [p \in Procs |-> IF p = initproc THEN "RUNNABLE" ELSE "UNUSED"]
        /\ queue = [p \in Procs |-> 0] /\ pc = [c \in CPU |-> "sched"]
        /\ cproc = [c \in CPU |-> Nil] /\ hand = [c \in CPU |-> Nil]
    BY Zenon DEF Init
  <1>4. \A q \in Level : EmptyRing.head[q] = 0 /\ EmptyRing.tail[q] = 0 /\ EmptyRing.len[q] = 0
    BY Zenon DEF EmptyRing
  <1>5. \A p \in Procs : ~EmptyRing.inq[p]
    BY Zenon DEF EmptyRing
  <1>6. \A q \in Level : Entries(EmptyRing, q) = {}
    BY <1>4 DEF Entries
  <1>7. \A q \in Level : Ended(EmptyRing, q)
    <2>1. (0 + 0) % NPROC = 0
      BY <1>1
    <2>2. QED
      BY <1>4, <2>1 DEF Ended
  <1>8. queue \in [Procs -> Level]
    BY <1>1, <1>3, Zenon
  <1>9. Orderly(EmptyRing, queue)
    BY <1>5, <1>6, <1>7 DEF Orderly
  <1>10. ~Overwrites(EmptyRing, initproc, 0, TRUE)
    BY <1>6, LiveIs, Zenon DEF Overwrites
  <1>11. Orderly(ring, [queue EXCEPT ![initproc] = 0])
    BY <1>1, <1>2, <1>3, <1>5, <1>8, <1>9, <1>10, PushOrderly, Zenon
  <1>12. [queue EXCEPT ![initproc] = 0] = queue
    BY <1>1, <1>3, Zenon
  <1>13. /\ \A p \in Procs : ring.inq[p] <=> p = initproc
         /\ \A q \in Level : ring.head[q] = 0
    <2>1. Pushed(EmptyRing, ring, initproc, 0, TRUE)
      BY <1>1, <1>2, <1>3, <1>5, PushIs, Zenon
    <2>2. QED
      BY <1>1, <1>2, <1>4, <1>5, <2>1 DEF Pushed, RingType
  <1>14. Settled
    BY <1>3, <1>13, Pointers, Zenon DEF Settled, Held, Switching
  <1>15. HeadsBounded
    <2> SUFFICES ASSUME NEW q \in Level PROVE ring.head[q] >= Cardinality(Out(q)) - NCPU
      BY Zenon DEF HeadsBounded
    <2>1. Out(q) \in SUBSET CPU
      BY Zenon DEF Out
    <2>2. Cardinality(Out(q)) \in 0 .. NCPU
      BY <2>1, CountCpus, Zenon
    <2>3. QED
      BY <1>13, <2>2, CpuNumber
  <1>16. QED
    BY <1>11, <1>12, <1>14, <1>15, Zenon DEF Calm

(* Every step keeps the invariant of the queues. *)
LEMMA QInvNext == QInv /\ [Next]_vars => QInv'
  <1> SUFFICES ASSUME QInv, [Next]_vars PROVE QInv'
    OBVIOUS
  <1>1. TInv /\ OneCpu /\ Locked /\ (aliased \/ Calm)
    BY Zenon DEF QInv
  <1>2. TInv' /\ OneCpu' /\ Locked'
    BY <1>1, TInvNext, OneCpuNext, LockedNext, Zenon
  <1>3. aliased => aliased'
    BY ZenonT(30) DEF Next, Kernel, Program, vars, scheduler_pop, scheduler_run, clockintr,
       wakeup_call, wakeup_turn, MakeRunnable, Push, kkill, kfork, sleep_prepare, sleep,
       kexit, kwait_reap, yield_begin, boost_move, boost_next, boost_end, yield_enqueue,
       yield_end
  <1>4. SUFFICES ASSUME Calm, ~aliased' PROVE Calm'
    BY <1>1, <1>2, <1>3, Zenon DEF QInv
  <1>5. /\ pc \in [CPU -> PCs] /\ \A c \in CPU : wk[c].ret \in {"run", "sched", "yield"}
        /\ \A c \in CPU : pc[c] = "wakeup" => wk[c].p \in Procs
    BY <1>1, Zenon DEF TInv, TypeOK, Placed
  <1>6. CASE /\ UNCHANGED <<ring, queue, state, hand, cproc>>
             /\ \A c \in CPU : pc'[c] = "swtch" <=> pc[c] = "swtch"
    BY <1>1, <1>2, <1>4, <1>6, CalmQuiet, Zenon
  <1>7. ASSUME NEW c \in CPU, scheduler_pop(c) PROVE Calm'
    BY <1>1, <1>2, <1>4, <1>7, CalmPop, Zenon
  <1>8. ASSUME NEW c \in CPU, scheduler_run(c) PROVE Calm'
    BY <1>1, <1>2, <1>4, <1>8, CalmRun, SMTT(20)
  <1>9. ASSUME NEW c \in CPU, wakeup_turn(c) PROVE Calm'
    <2>1. /\ UNCHANGED <<queue, hand, cproc>> /\ wk[c].p \in Procs
          /\ \A d \in CPU : pc'[d] = "swtch" <=> pc[d] = "swtch"
      BY <1>5, <1>9, Zenon DEF wakeup_turn, Goto
    <2>2. CASE UNCHANGED <<ring, state>>
      BY <1>6, <2>1, <2>2, Zenon
    <2>3. CASE state[wk[c].p] = "SLEEPING" /\ MakeRunnable(wk[c].p)
      BY <1>1, <1>2, <1>4, <2>1, <2>3, CalmMakeRunnable, Zenon
    <2>4. QED
      BY <1>9, <2>2, <2>3, Zenon DEF wakeup_turn
  <1>10. ASSUME NEW c \in CPU, NEW p \in Procs, kkill(c, p) PROVE Calm'
    <2>1. /\ UNCHANGED <<queue, hand, cproc, pc>> /\ state[p] = "SLEEPING"
          /\ MakeRunnable(p)
      BY <1>10, Zenon DEF kkill
    <2>2. QED
      BY <1>1, <1>2, <1>4, <2>1, CalmMakeRunnable, Zenon
  <1>11. ASSUME NEW c \in CPU, kfork(c) PROVE Calm'
    BY <1>1, <1>2, <1>4, <1>11, CalmFork, Zenon
  <1>12. ASSUME NEW c \in CPU, sleep(c) \/ kexit(c) PROVE Calm'
    BY <1>1, <1>2, <1>4, <1>12, CalmGiveUp
  <1>13. ASSUME NEW c \in CPU, NEW p \in Procs, kwait_reap(c, p) PROVE Calm'
    <2>1. /\ UNCHANGED <<ring, queue, hand, cproc, pc>> /\ state[p] = "ZOMBIE"
          /\ state' = [state EXCEPT ![p] = "UNUSED"]
      BY <1>13, Zenon DEF kwait_reap
    <2>2. /\ \A x \in Procs : Switching(x)' <=> Switching(x)
          /\ \A q \in Level : Out(q)' \subseteq Out(q)
      BY <2>1 DEF Switching, Out
    <2>3. "UNUSED" \in States \ {"RUNNABLE"}
      BY Zenon DEF States
    <2>4. QED
      BY <1>1, <1>2, <1>4, <2>1, <2>2, <2>3, CalmState, Zenon
  <1>14. ASSUME NEW c \in CPU, boost_move(c) PROVE Calm'
    BY <1>1, <1>2, <1>4, <1>14, CalmMove
  <1>15. ASSUME NEW c \in CPU, boost_end(c) PROVE Calm'
    BY <1>1, <1>2, <1>4, <1>15, CalmBoostEnd
  <1>16. ASSUME NEW c \in CPU, yield_enqueue(c) PROVE Calm'
    BY <1>1, <1>2, <1>4, <1>16, CalmEnqueue
  <1>17. ASSUME NEW c \in CPU, yield_end(c) PROVE Calm'
    BY <1>1, <1>2, <1>4, <1>17, CalmYieldEnd
  <1>18. ASSUME NEW c \in CPU,
                \/ clockintr(c) \/ yield_begin(c) \/ boost_next(c)
                \/ \E ch \in Chan : sleep_prepare(c, ch) \/ wakeup_call(c, ch)
         PROVE  Calm'
    <2>1. UNCHANGED <<ring, queue, state, hand, cproc>>
      BY <1>18, Zenon DEF clockintr, yield_begin, boost_next, sleep_prepare, wakeup_call, table
    <2>2. \A d \in CPU : pc'[d] = "swtch" <=> pc[d] = "swtch"
      BY <1>5, <1>18, Zenon DEF clockintr, yield_begin, boost_next, sleep_prepare, wakeup_call,
         CallWakeup, Goto
    <2>3. QED
      BY <1>6, <2>1, <2>2
  <1>19. UNCHANGED vars => Calm'
    BY <1>6, Zenon DEF vars, table
  <1>20. QED
    BY <1>7, <1>8, <1>9, <1>10, <1>11, <1>12, <1>13, <1>14, <1>15, <1>16, <1>17, <1>18,
       <1>19 DEF Next, Kernel, Program

(* The places of a process with inq are one, at its level; without, none. *)
LEMMA OnePlace ==
  ASSUME TInv, Calm, NEW p \in Procs
  PROVE  /\ ~ring.inq[p] => Waiting(p) = {}
         /\ ring.inq[p] => \E x \in Waiting(p) : Waiting(p) = {x} /\ x[1] = queue[p]
  <1>1. /\ ring \in RingType /\ ring.head[0] >= 0 /\ queue \in [Procs -> Level]
    BY Zenon DEF TInv, TypeOK
  <1>2. ASSUME NEW x \in Waiting(p)
        PROVE  /\ ring.inq[p] /\ x[1] = queue[p]
               /\ \E k \in Entries(ring, queue[p]) :
                    Entry(ring, queue[p], k) = p /\ x = <<queue[p], At(ring, queue[p], k)>>
    <2>1. /\ x \in Level \X (Level \X Index) /\ x[2] \in LiveCells(ring, x[1])
          /\ ring.mlfqi[x[2]] = p
      BY Zenon DEF Waiting, PlacesOf
    <2>2. PICK k \in Entries(ring, x[1]) : x[2] = At(ring, x[1], k)
      BY <2>1, LiveIs, Zenon
    <2>3. x[1] \in Level /\ Entry(ring, x[1], k) = p /\ x = <<x[1], At(ring, x[1], k)>>
      BY <2>1, <2>2 DEF Entry
    <2>4. ring.inq[p] /\ x[1] = queue[p]
      BY <2>2, <2>3 DEF Calm, Orderly
    <2>5. QED
      BY <2>2, <2>3, <2>4, Zenon
  <1>3. ASSUME ring.inq[p]
        PROVE  \E x \in Waiting(p) : Waiting(p) = {x} /\ x[1] = queue[p]
    <2> DEFINE q == queue[p]
    <2>1. q \in Level
      BY <1>1, Zenon
    <2>2. PICK k \in Entries(ring, q) : Entry(ring, q, k) = p
      BY <1>3, Zenon DEF Calm, Orderly
    <2> DEFINE x == <<q, At(ring, q, k)>>
    <2>3. k \in Nat
      BY DEF Entries
    <2>4. At(ring, q, k) \in Level \X Index
      BY <1>1, <2>1, <2>3, AtRange, Zenon
    <2>5. At(ring, q, k) \in LiveCells(ring, q)
      BY LiveIs, Zenon
    <2>6. x \in Waiting(p)
      BY <2>1, <2>2, <2>4, <2>5, Zenon DEF Waiting, PlacesOf, Entry
    <2>7. \A y \in Waiting(p) : y = x
      <3> SUFFICES ASSUME NEW y \in Waiting(p) PROVE y = x
        BY Zenon
      <3>1. PICK j \in Entries(ring, q) : Entry(ring, q, j) = p /\ y = <<q, At(ring, q, j)>>
        BY <1>2, Zenon
      <3>2. j = k
        BY <2>1, <2>2, <3>1 DEF Calm, Orderly
      <3>3. QED
        BY <3>1, <3>2, Zenon
    <2>8. Waiting(p) = {x} /\ x[1] = q
      BY <2>6, <2>7
    <2>9. QED
      BY <2>6, <2>8, Zenon
  <1>4. QED
    BY <1>2, <1>3, Zenon

(* A process is where inq, the hands and p->state say. *)
LEMMA QInvMatches == QInv => QueuesMatchStates
  <1> SUFFICES ASSUME TInv, OneCpu, Locked, Calm PROVE QueuesMatchStates
    BY Zenon DEF QInv, QueuesMatchStates, RunnableQueuedOnce, QueuedIsRunnable
  <1>1. \A p \in Procs : Hands(p) # {} <=> Held(p)
    BY Zenon DEF Hands, Held
  <1>2. \A p \in Procs : Held(p) => ~ring.inq[p] /\ \E c \in Hands(p) : Hands(p) = {c}
    BY Pointers DEF Hands, Held, Calm, Settled
  <1>3. RunnableQueuedOnce
    <2> SUFFICES ASSUME NEW p \in Procs, state[p] = "RUNNABLE"
                 PROVE  \/ /\ Hands(p) = {}
                           /\ \E x \in Waiting(p) : Waiting(p) = {x} /\ x[1] = queue[p]
                        \/ /\ Waiting(p) = {}
                           /\ \E c \in Hands(p) : Hands(p) = {c}
      BY Zenon DEF RunnableQueuedOnce
    <2>1. ring.inq[p] \/ Held(p)
      BY Zenon DEF Calm, Settled
    <2>2. CASE Held(p)
      BY <1>2, <2>2, OnePlace, Zenon
    <2>3. CASE ~Held(p)
      BY <1>1, <2>1, <2>3, OnePlace, Zenon
    <2>4. QED
      BY <2>2, <2>3, Zenon
  <1>4. QueuedIsRunnable
    <2> SUFFICES ASSUME NEW p \in Procs
                 PROVE  /\ (Waiting(p) # {} \/ Hands(p) # {}) /\ plock[p] = Nil
                             => state[p] = "RUNNABLE"
                        /\ ring.inq[p] <=> Waiting(p) # {}
      BY Zenon DEF QueuedIsRunnable
    <2>1. ring.inq[p] <=> Waiting(p) # {}
      BY OnePlace, Zenon
    <2>2. plock[p] = Nil => ~Switching(p)
      BY Pointers, Zenon DEF Locked, Switching
    <2>3. QED
      BY <1>1, <2>1, <2>2, Zenon DEF Calm, Settled
  <1>5. QED
    BY <1>3, <1>4, Zenon DEF QueuesMatchStates

-----------------------------------------------------------------------------
(* The boost. *)

(* While the boost is past level 0, the levels behind it are empty, and    *)
(* level 0 holds only what the boost has put there.                        *)
Boosted ==
  lvl > 0 =>
    /\ \E c \in CPU : pc[c] = "boost"
    /\ \A l \in 1 .. lvl - 1 : ring.len[l] = 0
    /\ \A k \in Entries(ring, 0) : Entry(ring, 0, k) \in Procs =>
         queue[Entry(ring, 0, k)] = 0 /\ tick[Entry(ring, 0, k)] = 0

BoostInv == TInv /\ OneCpu /\ Locked /\ Ended(ring, 0) /\ Boosted

(* The tail of level 0 stays where its entries end, also when another      *)
(* level has lost entries.                                                 *)
LEMMA PushEnded ==
  ASSUME NEW r \in RingType, r.head[0] >= 0, Ended(r, 0), NEW p \in Procs,
         NEW q \in Level, NEW t \in BOOLEAN, q = 0 => t
  PROVE  Ended(push(r, p, q, t), 0)
  <1>1. CASE r.inq[p]
    BY <1>1, Zenon DEF push
  <1>2. CASE ~r.inq[p]
    <2>1. CASE q = 0
      <3>1. Ended(push(r, p, 0, TRUE), 0)
        BY <1>2, PushEntries, ZeroLevel, ZenonT(30) DEF Added
      <3>2. QED
        BY <2>1, <3>1, Zenon
    <2>2. CASE q # 0
      <3>1. Pushed(r, push(r, p, q, t), p, q, t)
        BY <1>2, PushIs, Zenon
      <3> DEFINE s == push(r, p, q, t)
      <3>2. Pushed(r, s, p, q, t)
        BY <3>1
      <3> HIDE DEF s
      <3>3. s.head[0] = r.head[0] /\ s.tail[0] = r.tail[0] /\ s.len[0] = r.len[0]
        BY <2>2, <3>2, ZeroLevel, SMTT(20) DEF Pushed, RingType
      <3>4. Ended(s, 0)
        BY <3>3, SMTT(20) DEF Ended
      <3>5. QED
        BY <3>4, Zenon DEF s
    <2>3. QED
      BY <2>1, <2>2
  <1>3. QED
    BY <1>1, <1>2

(* Popping keeps the end of the top queue where it is due. *)
LEMMA PopEnded ==
  ASSUME NEW r \in RingType, r.head[0] >= 0, Ended(r, 0), NEW q \in Level, r.len[q] # 0
  PROVE  Ended(pop(r, q), 0)
  <1>1. Popped(r, pop(r, q), q)
    BY PopIs, SMTT(20)
  <1>2. QED
    BY <1>1, ZeroLevel, Zenon DEF Popped

(* A push to the tail of level 0 adds one entry there. *)
LEMMA TailEntries ==
  ASSUME NEW r \in RingType, r.head[0] >= 0, Ended(r, 0), NEW p \in Procs, ~r.inq[p],
         NEW s, s = push(r, p, 0, TRUE)
  PROVE  /\ At(s, 0, r.len[0]) = Cell(0, Slot(r, 0, TRUE))
         /\ \A j \in Entries(s, 0) :
              j = r.len[0] \/ (j \in Entries(r, 0) /\ At(s, 0, j) = At(r, 0, j))
  <1> DEFINE d == 0  n == r.len[0]  t == TRUE
  <1>1. /\ d = (IF t THEN 0 ELSE 1) /\ n = (IF t THEN r.len[0] ELSE 0)
        /\ t \in BOOLEAN /\ (~t => 0 # 0 /\ r.head[0] > -(NPROC - 1))
        /\ s = push(r, p, 0, t)
    BY SMTT(20)
  <1> HIDE DEF d, n, t
  <1>2. Added(r, s, 0, d, n, Cell(0, Slot(r, 0, t)))
    BY <1>1, PushEntries, ZeroLevel, Zenon
  <1>3. \A j \in Entries(s, 0) : j - d = j /\ j + d = j
    BY DEF Entries, d
  <1>4. QED
    BY <1>2, <1>3, Zenon DEF n, t, Added

(* One turn of the boost loop below level 0. *)
LEMMA BoostedMove ==
  ASSUME BoostInv, NEW c \in CPU, boost_move(c)
  PROVE  Ended(ring, 0)' /\ Boosted'
  <1>1. /\ ring \in RingType /\ ring.head[0] >= 0 /\ queue \in [Procs -> Level]
        /\ tick \in [Procs -> Nat] /\ lvl \in 0 .. NLevel
    BY Zenon DEF BoostInv, TInv, TypeOK
  <1> DEFINE q == lvl  f == Front(ring, lvl)  r == pop(ring, lvl)
  <1>2. /\ q \in Level /\ ring.len[q] # 0 /\ f # Nil
        /\ queue' = [queue EXCEPT ![f] = 0] /\ tick' = [tick EXCEPT ![f] = 0]
        /\ ring' = push(r, f, 0, TRUE)
        /\ UNCHANGED <<pc, lvl>>
    <2>1. lvl < BoostLevels
      BY Zenon DEF boost_move
    <2>2. lvl \in Level
      BY <1>1, <2>1, MlfqAssumption DEF BoostLevels, Level
    <2>3. QED
      BY <2>2, Zenon DEF boost_move, Lift
  <1>3. f \in Procs
    BY <1>1, <1>2, FrontType, Zenon
  <1>4. r \in RingType /\ r.head[0] >= 0 /\ Ended(r, 0)
    BY <1>1, <1>2, PopType, PopEnded, ZeroLevel, Zenon DEF BoostInv
  <1>5. Popped(ring, r, q)
    BY <1>1, <1>2, PopIs, Zenon
  <1>6. Ended(ring', 0)
    BY <1>2, <1>3, <1>4, PushEnded, ZeroLevel, Zenon
  <1>7. r.inq = [ring.inq EXCEPT ![f] = FALSE]
    BY <1>5, Zenon DEF Popped
  <1> HIDE DEF q, f, r
  <1>8. ~r.inq[f]
    BY <1>1, <1>3, <1>7 DEF RingType
  <1>9. Pushed(r, ring', f, 0, TRUE)
    BY <1>2, <1>3, <1>4, <1>8, PushIs, ZeroLevel, Zenon
  <1>10. ASSUME lvl > 0 PROVE Boosted'
    <2>1. q > 0 /\ 0 \in Level \ {q}
      BY <1>1, <1>10, ZeroLevel DEF q
    <2>2. /\ \E d \in CPU : pc[d] = "boost"
          /\ \A l \in 1 .. q - 1 : ring.len[l] = 0
          /\ \A k \in Entries(ring, 0) : Entry(ring, 0, k) \in Procs =>
               queue[Entry(ring, 0, k)] = 0 /\ tick[Entry(ring, 0, k)] = 0
      BY <1>10, Zenon DEF BoostInv, Boosted, q
    <2>3. \A l \in 1 .. q - 1 : ring'.len[l] = 0
      <3> SUFFICES ASSUME NEW l \in 1 .. q - 1 PROVE ring'.len[l] = 0
        BY Zenon
      <3>1. l \in Level \ {q} /\ l # 0
        BY <1>2, MlfqAssumption DEF Level
      <3>2. r.len[l] = 0
        BY <1>5, <2>2, <3>1, Zenon DEF Popped
      <3>3. QED
        BY <1>9, <3>1, <3>2 DEF Pushed
    <2>4. \A k \in Entries(r, 0) : k \in Entries(ring, 0) /\ Entry(r, 0, k) = Entry(ring, 0, k)
      BY <1>5, <2>1, Zenon DEF Popped
    <2>5. \A x \in Procs : /\ queue'[x] = IF x = f THEN 0 ELSE queue[x]
                           /\ tick'[x] = IF x = f THEN 0 ELSE tick[x]
      BY <1>1, <1>2, <1>3
    <2>6. ASSUME NEW k \in Entries(ring', 0), Entry(ring', 0, k) \in Procs
          PROVE  queue'[Entry(ring', 0, k)] = 0 /\ tick'[Entry(ring', 0, k)] = 0
      <3> DEFINE n == r.len[0]  x == Cell(0, Slot(r, 0, TRUE))
      <3>1. k \in Nat /\ n \in Nat
        BY <1>4, ZeroLevel DEF Entries, RingType
      <3>2. /\ At(ring', 0, n) = x
            /\ k = n \/ (k \in Entries(r, 0) /\ At(ring', 0, k) = At(r, 0, k))
        BY <1>2, <1>3, <1>4, <1>8, TailEntries, Zenon
      <3>3. ring'.mlfqi = [r.mlfqi EXCEPT ![x] = f]
        BY <1>9 DEF Pushed
      <3>4. /\ At(r, 0, k) \in Level \X Index /\ r.mlfqi \in [Level \X Index -> Procs \cup {Nil}]
        BY <1>4, <3>1, AtRange, ZeroLevel, Zenon DEF RingType
      <3>5. x \in Level \X Index
        <4>1. ring' \in RingType /\ ring'.head[0] >= 0
          BY <1>2, <1>3, <1>4, PushRing, ZeroLevel, Zenon
        <4>2. QED
          BY <3>1, <3>2, <4>1, AtRange, ZeroLevel, Zenon
      <3> HIDE DEF n, x
      <3>6. CASE Entry(ring', 0, k) = f
        BY <1>3, <2>5, <3>6
      <3>7. CASE Entry(ring', 0, k) # f
        <4>1. k \in Entries(r, 0) /\ Entry(ring', 0, k) = Entry(r, 0, k)
          BY <3>2, <3>3, <3>4, <3>5, <3>7, Zenon DEF Entry
        <4>2. Entry(r, 0, k) = Entry(ring, 0, k) /\ k \in Entries(ring, 0)
          BY <2>4, <4>1, Zenon
        <4>3. QED
          BY <2>2, <2>5, <2>6, <4>1, <4>2, Zenon
      <3>8. QED
        BY <3>6, <3>7, Zenon
    <2>7. lvl' = q /\ pc' = pc
      BY <1>2, Zenon DEF q
    <2>8. QED
      BY <2>2, <2>3, <2>6, <2>7 DEF Boosted
  <1>11. QED
    BY <1>1, <1>2, <1>6, <1>10, Zenon DEF Boosted

(* The boost holds mlfq_lock. *)
LEMMA BoostLocks ==
  ASSUME Locked, Boosted, lvl > 0
  PROVE  mlfq_lock # Nil /\ \A c \in CPU : pc[c] # "enq"
  <1>1. PICK c \in CPU : pc[c] = "boost"
    BY SMTT(20) DEF Boosted
  <1>2. QED
    BY <1>1, Pointers, Zenon DEF Locked

(* Steps beside a boost. *)
LEMMA BoostedQuiet ==
  ASSUME Boosted, Ended(ring, 0), UNCHANGED <<ring, queue, tick, lvl>>,
         \A c \in CPU : pc[c] = "boost" => pc'[c] = "boost"
  PROVE  Ended(ring, 0)' /\ Boosted'
  BY Zenon DEF Boosted, Ended, Entries, Entry, At

(* A push or a pop with mlfq_lock just taken: no boost is under way. *)
LEMMA BoostedIdle ==
  ASSUME TInv, Locked, Boosted, mlfq_lock = Nil \/ (\E c \in CPU : pc[c] = "enq"), lvl' = lvl
  PROVE  Boosted'
  <1>1. lvl \in Int
    <2>1. lvl \in 0 .. NLevel
      BY Zenon DEF TInv, TypeOK
    <2>2. QED
      BY <2>1, MlfqAssumption
  <1>2. ~(lvl > 0)
    BY BoostLocks, Zenon
  <1>3. QED
    BY <1>2, Zenon DEF Boosted

(* Every step keeps the invariant of the boost. *)
LEMMA BoostInvNext == BoostInv /\ [Next]_vars => BoostInv'
  <1> SUFFICES ASSUME BoostInv, [Next]_vars PROVE BoostInv'
    OBVIOUS
  <1>1. TInv /\ OneCpu /\ Locked /\ Ended(ring, 0) /\ Boosted
    BY Zenon DEF BoostInv
  <1>2. TInv' /\ OneCpu' /\ Locked'
    BY <1>1, TInvNext, OneCpuNext, LockedNext, Zenon
  <1> SUFFICES Ended(ring, 0)' /\ Boosted'
    BY <1>2, Zenon DEF BoostInv
  <1>3. /\ ring \in RingType /\ ring.head[0] >= 0 /\ queue \in [Procs -> Level]
        /\ pc \in [CPU -> PCs] /\ lvl \in 0 .. NLevel /\ NLevel \in Nat \ {0}
        /\ \A c \in CPU : pc[c] = "wakeup" => wk[c].p \in Procs
    BY <1>1, MlfqAssumption, Zenon DEF TInv, TypeOK, Placed
  <1>4. CASE /\ UNCHANGED <<ring, queue, tick, lvl>>
             /\ \A c \in CPU : pc[c] = "boost" => pc'[c] = "boost"
    BY <1>1, <1>4, BoostedQuiet
  <1>5. ASSUME NEW p \in Procs, MakeRunnable(p), lvl' = lvl
        PROVE  Ended(ring, 0)' /\ Boosted'
    <2>1. ring' = push(ring, p, queue[p], TRUE) /\ mlfq_lock = Nil
      BY <1>5, Zenon DEF MakeRunnable, Push, BothFree
    <2>2. QED
      BY <1>1, <1>3, <1>5, <2>1, PushEnded, BoostedIdle, Zenon
  <1>6. ASSUME NEW c \in CPU, scheduler_pop(c) PROVE Ended(ring, 0)' /\ Boosted'
    <2>1. PICK q \in Level : ring.len[q] # 0 /\ ring' = pop(ring, q)
      BY <1>6, Zenon DEF scheduler_pop
    <2>2. mlfq_lock = Nil /\ lvl' = lvl
      BY <1>6, Zenon DEF scheduler_pop
    <2>3. QED
      BY <1>1, <1>3, <2>1, <2>2, PopEnded, BoostedIdle, Zenon
  <1>7. ASSUME NEW c \in CPU, wakeup_turn(c) PROVE Ended(ring, 0)' /\ Boosted'
    <2>1. CASE UNCHANGED ring
      <3>1. UNCHANGED <<ring, queue, tick, lvl>>
        BY <1>7, <2>1, Zenon DEF wakeup_turn
      <3>2. \A d \in CPU : pc[d] = "boost" => pc'[d] = "boost"
        BY <1>3, <1>7, Zenon DEF wakeup_turn, Goto
      <3>3. QED
        BY <1>4, <3>1, <3>2, Zenon
    <2>2. CASE MakeRunnable(wk[c].p)
      BY <1>3, <1>5, <1>7, <2>2, Zenon DEF wakeup_turn
    <2>3. QED
      BY <1>7, <2>1, <2>2, Zenon DEF wakeup_turn
  <1>8. ASSUME NEW c \in CPU, NEW p \in Procs, kkill(c, p) PROVE Ended(ring, 0)' /\ Boosted'
    BY <1>5, <1>8 DEF kkill
  <1>9. ASSUME NEW c \in CPU, kfork(c) PROVE Ended(ring, 0)' /\ Boosted'
    <2> DEFINE r(x) == [ring EXCEPT !.inq[x] = FALSE]
    <2>1. PICK p \in Procs : mlfq_lock = Nil /\ ring' = push(r(p), p, 0, TRUE)
      BY <1>9, Zenon DEF kfork, BothFree
    <2>2. lvl' = lvl
      BY <1>9 DEF kfork
    <2>3. r(p) \in RingType /\ r(p).head = ring.head /\ r(p).tail = ring.tail /\ r(p).len = ring.len
      BY <1>3, Zenon DEF RingType
    <2> HIDE DEF r
    <2>4. Ended(r(p), 0)
      BY <1>1, <2>3, Zenon DEF Ended
    <2>5. QED
      BY <1>1, <1>3, <2>1, <2>2, <2>3, <2>4, PushEnded, BoostedIdle, ZeroLevel, Zenon
  <1>10. ASSUME NEW c \in CPU, boost_move(c) PROVE Ended(ring, 0)' /\ Boosted'
    BY <1>10, BoostedMove, Zenon
  <1>11. ASSUME NEW c \in CPU, boost_next(c) PROVE Ended(ring, 0)' /\ Boosted'
    <2>1. /\ UNCHANGED <<ring, queue, tick, pc>> /\ ring.len[lvl] = 0 /\ lvl' = lvl + 1
          /\ pc[c] = "boost"
      BY <1>11 DEF boost_next, table
    <2>2. CASE lvl = 0
      <3>1. Entries(ring', 0) = {}
        BY <2>1, <2>2 DEF Entries
      <3>2. lvl' = 1 /\ 1 .. lvl' - 1 = {}
        BY <2>1, <2>2, SMTT(20)
      <3>3. QED
        BY <1>1, <2>1, <3>1, <3>2, Zenon DEF Boosted, Ended
    <2>3. CASE lvl > 0
      <3>1. \A l \in 1 .. lvl' - 1 : l = lvl \/ l \in 1 .. lvl - 1
        BY <1>3, <2>1, SMTT(20)
      <3>2. Boosted'
        BY <1>1, <2>1, <2>3, <3>1, Zenon DEF Boosted, Entries, Entry, At
      <3>3. QED
        BY <1>1, <2>1, <3>2, Zenon DEF Ended
    <2>4. QED
      BY <1>3, <2>2, <2>3
  <1>12. ASSUME NEW c \in CPU, boost_end(c) PROVE Ended(ring, 0)' /\ Boosted'
    BY <1>1, <1>12, SMTT(20) DEF boost_end, Boosted, Ended
  <1>13. ASSUME NEW c \in CPU, yield_enqueue(c) PROVE Ended(ring, 0)' /\ Boosted'
    <2> DEFINE p == cproc[c]  used == SliceUsed(p)
               q == IF used THEN Demoted(queue[p]) ELSE queue[p]
    <2>1. ring' = push(ring, p, q, used) /\ lvl' = lvl /\ pc[c] = "enq"
      BY <1>13, Zenon DEF yield_enqueue, Push
    <2>2. p \in Procs
      BY <1>1, <2>1, Zenon DEF TInv, Placed, HasProc
    <2>3. q \in Level /\ used \in BOOLEAN
      <3>1. queue[p] \in Level /\ Demoted(queue[p]) \in Level
        BY <1>3, <2>2, MlfqAssumption DEF Demoted, Level
      <3>2. QED
        BY <3>1 DEF SliceUsed
    <2>4. q = 0 => used
      <3>1. ~used => queue[p] # 0
        BY <1>1, <2>2, MlfqAssumption DEF SliceUsed, TInv, TypeOK
      <3>2. QED
        BY <3>1, Zenon
    <2> HIDE DEF p, q, used
    <2>5. Ended(push(ring, p, q, used), 0)
      BY <1>1, <1>3, <2>2, <2>3, <2>4, PushEnded, Zenon
    <2>6. Boosted'
      BY <1>1, <2>1, BoostedIdle
    <2>7. QED
      BY <2>1, <2>5, <2>6, SMTT(20)
  <1>14. ASSUME NEW c \in CPU,
                \/ scheduler_run(c) \/ clockintr(c) \/ sleep(c) \/ kexit(c)
                \/ yield_begin(c) \/ yield_end(c)
                \/ \E ch \in Chan : sleep_prepare(c, ch) \/ wakeup_call(c, ch)
                \/ \E p \in Procs : kwait_reap(c, p)
         PROVE  Ended(ring, 0)' /\ Boosted'
    <2>1. UNCHANGED <<ring, queue, tick, lvl>>
      BY <1>14, Zenon DEF scheduler_run, clockintr, sleep, kexit, yield_begin, yield_end,
         sleep_prepare, wakeup_call, kwait_reap, table
    <2>2. \E l \in PCs : pc[c] # "boost" /\ (pc' = pc \/ pc' = [pc EXCEPT ![c] = l])
      BY <1>14, Zenon DEF scheduler_run, clockintr, sleep, kexit, yield_begin, yield_end,
         sleep_prepare, wakeup_call, kwait_reap, GiveUp, CallWakeup, Goto, PCs
    <2>3. QED
      BY <1>3, <1>4, <2>1, <2>2, Zenon
  <1>15. UNCHANGED vars => UNCHANGED <<ring, queue, tick, lvl, pc>>
    BY Zenon DEF vars, table
  <1>16. QED
    BY <1>4, <1>6, <1>7, <1>8, <1>9, <1>10, <1>11, <1>12, <1>13, <1>14, <1>15, Zenon
    DEF Next, Kernel, Program

(* Only boost_end leaves the boost. *)
LEMMA BoostEnds ==
  ASSUME TInv, [Next]_vars, NEW c \in CPU, BoostDone(c)
  PROVE  boost_end(c)
  <1>1. pc \in [CPU -> PCs] /\ pc[c] = "boost" /\ pc'[c] # "boost"
    BY Zenon DEF TInv, TypeOK, BoostDone
  <1>2. PICK d \in CPU : Kernel(d) \/ clockintr(d) \/ Program(d)
    BY <1>1 DEF Next, vars
  <1>3. CASE boost_end(d)
    BY <1>1, <1>3, Zenon DEF boost_end, Goto
  <1>4. CASE ~boost_end(d)
    <2>1. \/ pc' = pc
          \/ pc[d] # "boost" /\ \E l \in PCs \cup {wk[d].ret} : pc' = [pc EXCEPT ![d] = l]
      BY <1>2, <1>4, Zenon DEF Kernel, Program, scheduler_pop, scheduler_run, clockintr, wakeup_turn,
         wakeup_call, kkill, kfork, sleep_prepare, sleep, kexit, kwait_reap, yield_begin,
         boost_move, boost_next, yield_enqueue, yield_end, GiveUp, CallWakeup, Goto, PCs
    <2>2. QED
      BY <1>1, <2>1, Zenon
  <1>5. QED
    BY <1>3, <1>4

(* What the step that ends the boost finds and leaves. *)
LEMMA BoostDoneLifts ==
  BoostInv /\ [Next]_vars =>
        [\A c \in CPU : BoostDone(c) =>
           \A p \in Procs : Waiting(p) # {} => queue'[p] = 0 /\ tick'[p] = 0]_vars
  <1> SUFFICES ASSUME BoostInv, [Next]_vars, NEW c \in CPU, BoostDone(c),
                      NEW p \in Procs, NEW x \in Waiting(p)
               PROVE  queue'[p] = 0 /\ tick'[p] = 0
    BY Zenon
  <1>1. TInv /\ Boosted /\ NLevel \in Nat \ {0}
    BY MlfqAssumption, Zenon DEF BoostInv
  <1>2. boost_end(c)
    BY <1>1, BoostEnds, Zenon
  <1>3. /\ lvl = NLevel /\ queue' = [queue EXCEPT ![cproc[c]] = 0]
        /\ tick' = [tick EXCEPT ![cproc[c]] = 0]
    BY <1>2, Zenon DEF boost_end, Lift, BoostLevels
  <1>4. /\ x \in Level \X (Level \X Index) /\ x[2] \in LiveCells(ring, x[1])
        /\ ring.mlfqi[x[2]] = p
    BY Zenon DEF Waiting, PlacesOf
  <1>5. PICK k \in Entries(ring, x[1]) : x[2] = At(ring, x[1], k)
    BY <1>4, LiveIs, Zenon
  <1>6. x[1] \in Level /\ Entry(ring, x[1], k) = p
    BY <1>4, <1>5, Zenon DEF Entry
  <1>7. x[1] = 0
    <2>1. ring.len[x[1]] # 0
      BY <1>5 DEF Entries
    <2>2. x[1] = 0 \/ x[1] \in 1 .. NLevel - 1
      BY <1>1, <1>6, SMTT(20) DEF Level
    <2>3. QED
      BY <1>1, <1>3, <2>1, <2>2 DEF Boosted
  <1>8. queue[p] = 0 /\ tick[p] = 0
    BY <1>1, <1>3, <1>5, <1>6, <1>7 DEF Boosted
  <1>9. queue \in [Procs -> Level] /\ tick \in [Procs -> Nat]
    BY <1>1, Zenon DEF TInv, TypeOK
  <1>10. QED
    BY <1>3, <1>8, <1>9

-----------------------------------------------------------------------------
(* The theorems. *)

FS == INSTANCE FiniteSetTheorems

(* The CPUs are a finite set. *)
LEMMA CountingHolds == Counting
  <1>1. /\ \A S : FS!Cardinality(S) = Cardinality(S)
        /\ \A S : FS!IsFiniteSet(S) = IsFiniteSet(S)
    BY Zenon DEF FS!Cardinality, Cardinality, FS!IsFiniteSet, IsFiniteSet
  <1>2. IsFiniteSet(CPU) /\ Cardinality(CPU) = NCPU
    BY <1>1, CpuNumber, FS!FS_Interval DEF CPU
  <1> SUFFICES ASSUME NEW S \in SUBSET CPU
               PROVE  /\ Cardinality(S) \in 0 .. NCPU
                      /\ \A T \in SUBSET S : Cardinality(T) <= Cardinality(S)
                      /\ \A c \in S : Cardinality(S \ {c}) = Cardinality(S) - 1
                      /\ \A c \in CPU \ S : Cardinality(S \cup {c}) = Cardinality(S) + 1
    BY Zenon DEF Counting
  <1>3. IsFiniteSet(S) /\ Cardinality(S) <= Cardinality(CPU)
    BY <1>1, <1>2, FS!FS_Subset, Zenon
  <1>4. Cardinality(S) \in Nat
    BY <1>1, <1>3, FS!FS_CardinalityType, Zenon
  <1>5. \A T \in SUBSET S : Cardinality(T) <= Cardinality(S)
    BY <1>1, <1>3, FS!FS_Subset, Zenon
  <1>6. \A c \in S : Cardinality(S \ {c}) = Cardinality(S) - 1
    BY <1>1, <1>3, FS!FS_RemoveElement, Zenon
  <1>7. \A c \in CPU \ S : Cardinality(S \cup {c}) = Cardinality(S) + 1
    BY <1>1, <1>3, FS!FS_AddElement
  <1>8. QED
    BY <1>2, <1>3, <1>4, <1>5, <1>6, <1>7, CpuNumber, SMTT(20)

(* As long as no push has overwritten an entry, the rings, the hands, inq  *)
(* and p->state agree, although each is changed under another lock.        *)
THEOREM QueuesAreRight == Spec => []QueuesMatchStates
  <1>1. Init => QInv
    <2>1. Init => OneCpu
      BY DEF Init, OneCpu, Nil, Procs
    <2>2. QED
      BY <2>1, TInvInit, LockedInit, CalmInit, CountingHolds, Zenon DEF QInv
  <1>2. QED
    BY <1>1, QInvNext, QInvMatches, PTL DEF Spec

(* Whatever the rings hold, a boost that ends leaves every queued process  *)
(* at level 0 with a full slice: behind the loop variable the levels are   *)
(* empty, and nobody else can push while the boost holds mlfq_lock.        *)
THEOREM BoostsLift == Spec => BoostLiftsQueued
  <1>1. Init => BoostInv
    <2> SUFFICES ASSUME Init PROVE BoostInv
      BY Zenon
    <2>1. TInv /\ Locked /\ Orderly(ring, queue)
      BY TInvInit, LockedInit, CalmInit, CountingHolds, Zenon DEF Calm
    <2>2. OneCpu /\ Boosted
      BY DEF Init, OneCpu, Boosted, Nil, Procs
    <2>3. QED
      BY <2>1, <2>2, ZeroLevel, Zenon DEF BoostInv, Orderly
  <1>2. QED
    BY <1>1, BoostInvNext, BoostDoneLifts, PTL DEF Spec, BoostLiftsQueued
=============================================================================
