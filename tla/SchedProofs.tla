----------------------------- MODULE SchedProofs -----------------------------
(***************************************************************************)
(* Proofs about Sched, for every number of processes, CPUs and levels and  *)
(* every time slice that satisfy MlfqAssumption and SchedAssumption.       *)
(***************************************************************************)
EXTENDS Sched, TLAPS

-----------------------------------------------------------------------------
(* The rings. *)

(* CMod keeps a subscript within a ring, and is the ordinary remainder on  *)
(* the numbers that are not negative.                                      *)
LEMMA CModRange ==
  ASSUME NEW a \in Int, NEW n \in Nat \ {0}
  PROVE  /\ CMod(a, n) \in -(n - 1) .. n - 1
         /\ a >= 0 => CMod(a, n) \in 0 .. n - 1
  BY DEF CMod

(* push keeps the types, and moves a head only when asked to. *)
LEMMA PushType ==
  ASSUME NEW r \in RingType, NEW p \in Procs, NEW q \in Level, NEW t \in BOOLEAN
  PROVE  /\ push(r, p, q, t) \in RingType
         /\ t => push(r, p, q, t).head = r.head
         /\ \A l \in Level : l # q => push(r, p, q, t).head[l] = r.head[l]
  <1>1. /\ r.mlfqi \in [Level \X Index -> Procs \cup {Nil}]
        /\ r.head \in [Level -> -(NPROC - 1) .. NPROC - 1]
        /\ r.tail \in [Level -> Index]
        /\ r.len \in [Level -> Nat]
        /\ r.inq \in [Procs -> BOOLEAN]
    BY DEF RingType
  <1>2. CMod(r.head[q] - 1, NPROC) \in -(NPROC - 1) .. NPROC - 1
    <2>1. r.head[q] - 1 \in Int /\ NPROC \in Nat \ {0}
      BY <1>1, MlfqAssumption
    <2>2. QED
      BY <2>1, CModRange
  <1>3. CMod(r.tail[q] + 1, NPROC) \in Index
    <2>1. r.tail[q] + 1 \in Int /\ r.tail[q] + 1 >= 0 /\ NPROC \in Nat \ {0}
      BY <1>1, MlfqAssumption DEF Index
    <2>2. QED
      BY <2>1, CModRange DEF Index
  <1>4. CASE r.inq[p]
    BY <1>4 DEF push
  <1>5. CASE ~r.inq[p]
    <2> DEFINE
      m == [r.mlfqi EXCEPT ![Cell(q, Slot(r, q, t))] = p]
      tl == [r.tail EXCEPT ![q] = IF t THEN CMod(@ + 1, NPROC) ELSE @]
      hd == [r.head EXCEPT ![q] = IF t THEN @ ELSE Slot(r, q, t)]
      ln == [r.len EXCEPT ![q] = @ + 1]
      iq == [r.inq EXCEPT ![p] = TRUE]
    <2>1. push(r, p, q, t) =
            [mlfqi |-> m, head |-> hd, tail |-> tl, len |-> ln, inq |-> iq]
      BY <1>5, Zenon DEF push, RingType
    <2>2. m \in [Level \X Index -> Procs \cup {Nil}]
      BY <1>1, Zenon
    <2>3. /\ hd \in [Level -> -(NPROC - 1) .. NPROC - 1]
          /\ t => hd = r.head
          /\ \A l \in Level : l # q => hd[l] = r.head[l]
      BY <1>1, <1>2 DEF Slot
    <2>4. tl \in [Level -> Index]
      BY <1>1, <1>3
    <2>5. ln \in [Level -> Nat]
      BY <1>1
    <2>6. iq \in [Procs -> BOOLEAN]
      BY <1>1
    <2> HIDE DEF m, hd, tl, ln, iq
    <2>7. QED
      BY <2>1, <2>2, <2>3, <2>4, <2>5, <2>6 DEF RingType
  <1>6. QED
    BY <1>4, <1>5

(* Forgetting dead slots changes no other field and keeps the types. *)
LEMMA ForgetType ==
  ASSUME NEW r \in RingType
  PROVE  Forget(r) \in RingType /\ Forget(r).head = r.head
  <1> DEFINE live == UNION {LiveCells(r, q) : q \in Level}
             m == [c \in Level \X Index |->
                     IF c \in live THEN r.mlfqi[c] ELSE Nil]
  <1>1. Forget(r) = [r EXCEPT !.mlfqi = m]
    BY DEF Forget
  <1>2. m \in [Level \X Index -> Procs \cup {Nil}]
    <2> HIDE DEF live
    <2>1. QED
      BY DEF RingType
  <1> HIDE DEF m
  <1>3. QED
    BY <1>1, <1>2 DEF RingType

(* pop keeps the types, and no head that is not negative becomes so. *)
LEMMA PopType ==
  ASSUME NEW r \in RingType, NEW q \in Level, r.len[q] # 0
  PROVE  /\ pop(r, q) \in RingType
         /\ \A l \in Level : r.head[l] >= 0 => pop(r, q).head[l] >= 0
  <1>1. /\ r.mlfqi \in [Level \X Index -> Procs \cup {Nil}]
        /\ r.head \in [Level -> -(NPROC - 1) .. NPROC - 1]
        /\ r.tail \in [Level -> Index]
        /\ r.len \in [Level -> Nat]
        /\ r.inq \in [Procs -> BOOLEAN]
    BY DEF RingType
  <1>2. /\ CMod(r.head[q] + 1, NPROC) \in -(NPROC - 1) .. NPROC - 1
        /\ r.head[q] >= 0 => CMod(r.head[q] + 1, NPROC) >= 0
    <2>1. r.head[q] + 1 \in Int /\ NPROC \in Nat \ {0}
      BY <1>1, MlfqAssumption
    <2>2. r.head[q] >= 0 => r.head[q] + 1 >= 0
      BY <1>1, MlfqAssumption
    <2>3. QED
      BY <2>1, <2>2, CModRange, SMTT(20)
  <1> DEFINE
    hd == [r.head EXCEPT ![q] = CMod(@ + 1, NPROC)]
    ln == [r.len EXCEPT ![q] = @ - 1]
    iq == [r.inq EXCEPT ![Front(r, q)] = FALSE]
    s == [r EXCEPT !.head = hd, !.len = ln, !.inq = iq]
  <1>3. pop(r, q) = Forget(s)
    BY DEF pop, RingType
  <1>4. /\ hd \in [Level -> -(NPROC - 1) .. NPROC - 1]
        /\ \A l \in Level : r.head[l] >= 0 => hd[l] >= 0
    BY <1>1, <1>2
  <1>5. ln \in [Level -> Nat]
    <2>1. r.len[q] - 1 \in Nat
      BY <1>1
    <2>2. QED
      BY <1>1, <2>1
  <1>6. iq \in [Procs -> BOOLEAN]
    BY <1>1, Zenon
  <1> HIDE DEF hd, ln, iq
  <1>7. s \in RingType /\ s.head = hd
    BY <1>4, <1>5, <1>6, Zenon DEF RingType
  <1> HIDE DEF s
  <1>8. Forget(s) \in RingType /\ Forget(s).head = s.head
    BY <1>7, ForgetType, SMTT(20)
  <1>9. QED
    BY <1>3, <1>4, <1>7, <1>8

(* A head in range denotes a slot of mlfqi, unless it is negative at level *)
(* 0; so a pop finds a process there, or null.                             *)
LEMMA CellRange ==
  ASSUME NEW q \in Level, NEW i \in -(NPROC - 1) .. NPROC - 1,
         q = 0 => i >= 0
  PROVE  Cell(q, i) \in Level \X Index
  BY MlfqAssumption, SMTT(20) DEF Cell, Level, Index

(* Who is first in a queue is a process, or nobody. *)
LEMMA FrontType ==
  ASSUME NEW r \in RingType, NEW q \in Level, r.head[0] >= 0
  PROVE  Front(r, q) \in Procs \cup {Nil}
  <1>1. r.head[q] \in -(NPROC - 1) .. NPROC - 1
    BY SMTT(20) DEF RingType
  <1>2. Cell(q, r.head[q]) \in Level \X Index
    BY <1>1, CellRange, SMTT(20)
  <1>3. QED
    BY <1>2, SMTT(20) DEF Front, RingType

-----------------------------------------------------------------------------
(* The invariant. *)

(* The points of the code where CPU c executes a process. *)
HasProc(c) ==
  \/ pc[c] \in {"run", "yield", "boost", "enq", "swtch"}
  \/ pc[c] = "wakeup" /\ wk[c].ret # "sched"

(* c->proc is set exactly there, and the locals of scheduler_mlfq and of   *)
(* wakeup's loop point to processes while they are used.                   *)
Placed ==
  \A c \in CPU :
    /\ IF HasProc(c) THEN cproc[c] \in Procs ELSE cproc[c] = Nil
    /\ pc[c] = "popped" => hand[c] \in Procs
    /\ pc[c] = "wakeup" => wk[c].p \in Procs

(* TypeOK is not inductive without Placed (what is popped, run or woken is *)
(* a process) and without a non-negative head at level 0 (what is popped   *)
(* is read from mlfqi); that head needs SliceBound, since only a process   *)
(* that has slice left is pushed at a head.                                *)
TInv == TypeOK /\ ring.head[0] >= 0 /\ SliceBound /\ Placed

(* The top queue exists. *)
LEMMA ZeroLevel == 0 \in Level
  BY MlfqAssumption DEF Level

(* The variables start with their types. *)
LEMMA TInvInit == Init => TInv
  <1> SUFFICES ASSUME Init PROVE TInv
    OBVIOUS
  <1>1. EmptyRing \in RingType /\ EmptyRing.head[0] = 0
    <2>1. 0 \in -(NPROC - 1) .. NPROC - 1 /\ 0 \in Index
      BY MlfqAssumption DEF Index
    <2>2. QED
      BY <2>1, ZeroLevel DEF EmptyRing, RingType
  <1>2. initproc \in Procs /\ 0 \notin Procs
    BY MlfqAssumption DEF initproc, Procs
  <1>3. ring \in RingType /\ ring.head[0] >= 0
    <2>1. ring = push(EmptyRing, initproc, 0, TRUE)
      BY DEF Init
    <2>2. ring \in RingType /\ ring.head = EmptyRing.head
      BY <2>1, <1>1, <1>2, PushType, ZeroLevel, Zenon
    <2>3. QED
      BY <2>2, <1>1
  <1>4. TypeOK
    <2>1. NoFrame \in [chan : Chans \cup {NoChan}, p : Procs \cup {Nil},
                       ret : {"run", "sched", "yield"}]
      BY DEF NoFrame
    <2>2. lvl \in 0 .. NLevel
      BY MlfqAssumption DEF Init
    <2>3. QED
      BY <1>3, <2>1, <2>2, ZeroLevel, Zenon DEF Init, TypeOK, States, PCs
  <1>5. SliceBound
    BY MlfqAssumption DEF Init, SliceBound, Procs
  <1>6. Placed
    BY DEF Init, Placed, HasProc
  <1>7. QED
    BY <1>3, <1>4, <1>5, <1>6 DEF TInv

(* A push that is not to the head of level 0 keeps what TInv says of the   *)
(* rings.                                                                  *)
LEMMA PushRing ==
  ASSUME NEW r \in RingType, r.head[0] >= 0,
         NEW p \in Procs, NEW q \in Level, NEW t \in BOOLEAN, q = 0 => t
  PROVE  push(r, p, q, t) \in RingType /\ push(r, p, q, t).head[0] >= 0
  BY PushType, ZeroLevel

(* make_runnable keeps the types of what it writes. *)
LEMMA MakeRunnableType ==
  ASSUME TInv, NEW p \in Procs, MakeRunnable(p)
  PROVE  /\ ring' \in RingType /\ ring'.head[0] >= 0
         /\ aliased' \in BOOLEAN
         /\ state' \in [Procs -> States]
  <1>1. ring \in RingType /\ ring.head[0] >= 0 /\ queue[p] \in Level
    BY DEF TInv, TypeOK
  <1>2. ring' = push(ring, p, queue[p], TRUE)
    BY DEF MakeRunnable, Push
  <1>3. aliased' \in BOOLEAN
    BY DEF MakeRunnable, Push
  <1>4. state' \in [Procs -> States]
    BY DEF MakeRunnable, TInv, TypeOK, States
  <1>5. QED
    BY <1>1, <1>2, <1>3, <1>4, PushRing, Zenon

(* GiveUp leaves CPU c in the scheduler, without a process. *)
LEMMA GiveUpType ==
  ASSUME TInv, NEW c \in CPU, NEW st \in States, GiveUp(c, st),
         UNCHANGED <<hand, wk>>
  PROVE  /\ state' \in [Procs -> States]
         /\ cproc' \in [CPU -> Procs \cup {Nil}]
         /\ pc' \in [CPU -> PCs]
         /\ Placed'
  <1>1. /\ state' \in [Procs -> States]
        /\ cproc' \in [CPU -> Procs \cup {Nil}]
        /\ pc' \in [CPU -> PCs]
    BY Zenon DEF GiveUp, Goto, TInv, TypeOK, PCs
  <1>2. Placed'
    BY Zenon DEF GiveUp, Goto, TInv, TypeOK, Placed, HasProc
  <1>3. QED
    BY <1>1, <1>2

(* The steps keep the types. *)
LEMMA TInvNext == TInv /\ [Next]_vars => TInv'
  <1> SUFFICES ASSUME TInv, [Next]_vars PROVE TInv'
    BY Zenon
  <1> USE DEF TInv
  <1>1. ASSUME NEW c \in CPU, scheduler_pop(c) PROVE TInv'
    <2>1. PICK q \in Level :
            /\ ring.len[q] # 0
            /\ Front(ring, q) # Nil
            /\ hand' = [hand EXCEPT ![c] = Front(ring, q)]
            /\ ring' = pop(ring, q)
      BY <1>1, Zenon DEF scheduler_pop
    <2>2. Front(ring, q) \in Procs
      BY <2>1, FrontType DEF TypeOK
    <2>3. ring' \in RingType /\ ring'.head[0] >= 0
      BY <2>1, PopType, ZeroLevel DEF TypeOK
    <2>4. TypeOK'
      BY <1>1, <2>1, <2>2, <2>3, Zenon
      DEF scheduler_pop, Goto, TypeOK, PCs, table, clock, locks
    <2>5. SliceBound'
      BY <1>1, Zenon DEF scheduler_pop, SliceBound, table
    <2>6. Placed'
      BY <1>1, <2>1, <2>2, Zenon DEF scheduler_pop, Goto, Placed, HasProc, TypeOK
    <2>7. QED
      BY <2>3, <2>4, <2>5, <2>6
  <1>2. ASSUME NEW c \in CPU, scheduler_run(c) PROVE TInv'
    <2>1. hand[c] \in Procs
      BY <1>2 DEF scheduler_run, Placed
    <2>2. TypeOK'
      BY <1>2, <2>1, Zenon
      DEF scheduler_run, Goto, TypeOK, PCs, States, clock, locks
    <2>3. SliceBound'
      BY <1>2 DEF scheduler_run, SliceBound
    <2>4. Placed'
      BY <1>2, <2>1 DEF scheduler_run, Goto, Placed, HasProc, TypeOK
    <2>5. QED
      BY <1>2, <2>2, <2>3, <2>4 DEF scheduler_run
  <1>3. ASSUME NEW c \in CPU, NEW ch \in Chans, NEW ret \in {"run", "sched", "yield"},
               pc[c] \in {"run", "sched"}, ret = "sched" <=> pc[c] = "sched",
               CallWakeup(c, ch, ret),
               UNCHANGED <<ring, table, boost, cproc, hand, lvl, locks, aliased>>,
               ticks' \in Nat
        PROVE  TInv'
    <2>1. 1 \in Procs
      BY MlfqAssumption DEF Procs
    <2>2. TypeOK'
      BY <1>3, <2>1, Zenon DEF CallWakeup, Goto, TypeOK, PCs, table, locks
    <2>3. SliceBound'
      BY <1>3, Zenon DEF SliceBound, table
    <2>4. Placed'
      BY <1>3, <2>1 DEF CallWakeup, Goto, Placed, HasProc, TypeOK
    <2>5. QED
      BY <1>3, <2>2, <2>3, <2>4
  <1>4. ASSUME NEW c \in CPU, clockintr(c) PROVE TInv'
    <2>1. CASE c = Hart0
      <3>1. ticks' \in Nat
        <4>1. ticks' = (ticks + 1) % TickMod
          BY <1>4, <2>1 DEF clockintr
        <4>2. ticks \in Nat
          BY DEF TypeOK
        <4>3. TickMod \in Nat \ {0}
          BY SchedAssumption, Zenon
        <4>4. QED
          BY <4>1, <4>2, <4>3
      <3>2. "ticks" \in Chans
        BY DEF Chans
      <3>3. PICK ret \in {"run", "sched", "yield"} :
              /\ pc[c] \in {"run", "sched"}
              /\ ret = "sched" <=> pc[c] = "sched"
              /\ CallWakeup(c, "ticks", ret)
        BY <1>4, <2>1 DEF clockintr
      <3>4. UNCHANGED <<ring, table, boost, cproc, hand, lvl, locks, aliased>>
        BY <1>4 DEF clockintr
      <3>5. QED
        BY <1>3, <3>1, <3>2, <3>3, <3>4
    <2>2. CASE c # Hart0
      <3>1. TypeOK'
        BY <1>4, <2>2, Zenon DEF clockintr, Goto, TypeOK, PCs, table, locks
      <3>2. SliceBound'
        BY <1>4, Zenon DEF clockintr, SliceBound, table
      <3>3. Placed'
        BY <1>4, <2>2, Zenon DEF clockintr, Goto, Placed, HasProc, TypeOK
      <3>4. QED
        BY <1>4, <3>1, <3>2, <3>3 DEF clockintr
    <2>3. QED
      BY <2>1, <2>2
  <1>5. ASSUME NEW c \in CPU, NEW ch \in Chan, wakeup_call(c, ch) PROVE TInv'
    <2>1. ch \in Chans /\ ticks' \in Nat
      BY <1>5 DEF Chans, wakeup_call, clock, TypeOK
    <2>2. QED
      BY <1>3, <1>5, <2>1 DEF wakeup_call, clock
  <1>6. ASSUME NEW c \in CPU, wakeup_turn(c) PROVE TInv'
    <2>1. wk[c].p \in Procs
      BY <1>6 DEF wakeup_turn, Placed
    <2>2. /\ ring' \in RingType /\ ring'.head[0] >= 0
          /\ aliased' \in BOOLEAN /\ state' \in [Procs -> States]
      BY <1>6, <2>1, MakeRunnableType DEF wakeup_turn, TypeOK
    <2>3. chan' \in [Procs -> Chans \cup {NoChan}]
      BY <1>6, Zenon DEF wakeup_turn, TypeOK
    <2>4. /\ wk' \in [CPU -> [chan : Chans \cup {NoChan}, p : Procs \cup {Nil},
                              ret : {"run", "sched", "yield"}]]
          /\ pc' \in [CPU -> PCs]
          /\ Placed'
      <3>1. CASE wk[c].p < NPROC
        <4>1. wk[c].p + 1 \in Procs
          BY <2>1, <3>1, MlfqAssumption DEF Procs
        <4>2. /\ wk' = [wk EXCEPT ![c].p = wk[c].p + 1]
              /\ pc' = pc /\ cproc' = cproc /\ hand' = hand
          BY <1>6, <3>1 DEF wakeup_turn
        <4>3. /\ wk' \in [CPU -> [chan : Chans \cup {NoChan}, p : Procs \cup {Nil},
                              ret : {"run", "sched", "yield"}]]
              /\ wk'[c].p = wk[c].p + 1 /\ wk'[c].ret = wk[c].ret
              /\ \A d \in CPU : d # c => wk'[d] = wk[d]
          BY <4>1, <4>2, Zenon DEF TypeOK
        <4>4. QED
          BY <4>1, <4>2, <4>3 DEF TypeOK, Placed, HasProc
      <3>2. CASE ~(wk[c].p < NPROC)
        <4>1. /\ wk' = [wk EXCEPT ![c] = NoFrame]
              /\ pc' = [pc EXCEPT ![c] = wk[c].ret]
              /\ cproc' = cproc /\ hand' = hand
          BY <1>6, <3>2, SMTT(20) DEF wakeup_turn, Goto
        <4>2. /\ wk[c].ret \in {"run", "sched", "yield"}
              /\ pc[c] = "wakeup"
          BY <1>6, SMTT(20) DEF wakeup_turn, TypeOK
        <4>3. /\ wk' \in [CPU -> [chan : Chans \cup {NoChan}, p : Procs \cup {Nil},
                              ret : {"run", "sched", "yield"}]]
              /\ pc' \in [CPU -> PCs]
          BY <4>1, <4>2, Zenon DEF TypeOK, NoFrame, PCs
        <4>4. Placed'
          BY <4>1, <4>2, SMTT(20) DEF TypeOK, Placed, HasProc
        <4>5. QED
          BY <4>3, <4>4
      <3>3. QED
        BY <3>1, <3>2
    <2>5. TypeOK'
      BY <1>6, <2>2, <2>3, <2>4, SMTT(20) DEF wakeup_turn, TypeOK, clock, locks
    <2>6. SliceBound'
      BY <1>6, SMTT(20) DEF wakeup_turn, SliceBound
    <2>7. QED
      BY <2>2, <2>4, <2>5, <2>6
  <1>7. ASSUME NEW c \in CPU, NEW p \in Procs, kkill(c, p) PROVE TInv'
    <2>1. /\ ring' \in RingType /\ ring'.head[0] >= 0
          /\ aliased' \in BOOLEAN /\ state' \in [Procs -> States]
      BY <1>7, MakeRunnableType, Zenon DEF kkill
    <2>2. TypeOK'
      BY <1>7, <2>1 DEF kkill, TypeOK, clock, locks
    <2>3. SliceBound' /\ Placed'
      BY <1>7 DEF kkill, SliceBound, Placed, HasProc
    <2>4. QED
      BY <2>1, <2>2, <2>3, Zenon
  <1>8. ASSUME NEW c \in CPU, kfork(c) PROVE TInv'
    <2>1. PICK np \in Procs :
            /\ state' = [state EXCEPT ![np] = "RUNNABLE"]
            /\ queue' = [queue EXCEPT ![np] = 0]
            /\ tick' = [tick EXCEPT ![np] = 0]
            /\ ring' = push([ring EXCEPT !.inq[np] = FALSE], np, 0, TRUE)
            /\ aliased' \in BOOLEAN
      BY <1>8, Zenon DEF kfork
    <2> DEFINE iq == [ring.inq EXCEPT ![np] = FALSE]
               r == [ring EXCEPT !.inq = iq]
    <2>2. [ring EXCEPT !.inq[np] = FALSE] = r
      BY DEF TypeOK, RingType
    <2>3. iq \in [Procs -> BOOLEAN]
      BY DEF TypeOK, RingType
    <2> HIDE DEF iq
    <2>4. r \in RingType /\ r.head = ring.head
      BY <2>3, Zenon DEF TypeOK, RingType
    <2>5. ring' \in RingType /\ ring'.head[0] >= 0
      BY <2>1, <2>2, <2>4, PushRing, ZeroLevel, Zenon
    <2>6. TypeOK'
      BY <1>8, <2>1, <2>5, ZeroLevel, Zenon DEF kfork, TypeOK, States, clock, locks
    <2>7. SliceBound'
      BY <2>1, MlfqAssumption, SMTT(20) DEF SliceBound, TypeOK
    <2>8. Placed'
      BY <1>8, SMTT(20) DEF kfork, Placed, HasProc
    <2>9. QED
      BY <2>5, <2>6, <2>7, <2>8
  <1>9. ASSUME NEW c \in CPU, NEW ch \in Chan, sleep_prepare(c, ch) PROVE TInv'
    <2>1. TypeOK'
      BY <1>9, Zenon DEF sleep_prepare, TypeOK, Chans, clock, locks
    <2>2. QED
      BY <1>9, <2>1, SMTT(20) DEF sleep_prepare, SliceBound, Placed, HasProc
  <1>10. ASSUME NEW c \in CPU, sleep(c) \/ kexit(c) PROVE TInv'
    <2>1. PICK st \in States : GiveUp(c, st)
      BY <1>10 DEF sleep, kexit, States
    <2>2. UNCHANGED <<ring, chan, queue, tick, clock, hand, lvl, wk, locks, aliased>>
      BY <1>10, Zenon DEF sleep, kexit
    <2>3. /\ state' \in [Procs -> States]
          /\ cproc' \in [CPU -> Procs \cup {Nil}]
          /\ pc' \in [CPU -> PCs]
          /\ Placed'
      BY <2>1, <2>2, GiveUpType, Zenon
    <2>4. TypeOK'
      BY <2>2, <2>3, Zenon DEF TypeOK, clock, locks
    <2>5. QED
      BY <2>2, <2>3, <2>4, SMTT(20) DEF SliceBound
  <1>11. ASSUME NEW c \in CPU, NEW p \in Procs, kwait_reap(c, p) PROVE TInv'
    <2>1. TypeOK'
      BY <1>11, Zenon DEF kwait_reap, TypeOK, States, clock, locks
    <2>2. QED
      BY <1>11, <2>1, Zenon DEF kwait_reap, SliceBound, Placed, HasProc
  <1>12. ASSUME NEW c \in CPU, yield_begin(c) PROVE TInv'
    <2>1. TypeOK'
      BY <1>12, Zenon DEF yield_begin, Goto, TypeOK, PCs, table, clock
    <2>2. Placed'
      BY <1>12 DEF yield_begin, Goto, Placed, HasProc, TypeOK
    <2>3. QED
      BY <1>12, <2>1, <2>2 DEF yield_begin, SliceBound, table
  <1>13. ASSUME NEW c \in CPU, boost_move(c) PROVE TInv'
    <2> DEFINE pp == Front(ring, lvl)
               r == pop(ring, lvl)
    <2>1. lvl \in Level /\ ring.len[lvl] # 0 /\ pp # Nil
      BY <1>13, MlfqAssumption DEF boost_move, BoostLevels, TypeOK, Level
    <2>2. pp \in Procs
      BY <2>1, FrontType, Zenon DEF TypeOK
    <2>3. r \in RingType /\ r.head[0] >= 0
      BY <2>1, PopType, ZeroLevel, Zenon DEF TypeOK
    <2>4. ring' = push(r, pp, 0, TRUE) /\ Lift(pp) /\ aliased' \in BOOLEAN
      BY <1>13 DEF boost_move
    <2> HIDE DEF pp, r
    <2>5. ring' \in RingType /\ ring'.head[0] >= 0
      BY <2>2, <2>3, <2>4, PushRing, ZeroLevel, Zenon
    <2>6. TypeOK'
      <3>1. UNCHANGED <<state, chan, clock, pc, cproc, hand, lvl, wk, locks>>
        BY <1>13 DEF boost_move
      <3>2. queue' \in [Procs -> Level] /\ tick' \in [Procs -> Nat]
        BY <2>4, ZeroLevel, Zenon DEF Lift, TypeOK
      <3>3. QED
        BY <2>4, <2>5, <3>1, <3>2, Zenon DEF TypeOK, clock, locks
    <2>7. SliceBound'
      BY <2>4, MlfqAssumption DEF Lift, SliceBound, TypeOK
    <2>8. Placed'
      BY <1>13, Zenon DEF boost_move, Placed, HasProc
    <2>9. QED
      BY <2>5, <2>6, <2>7, <2>8, Zenon
  <1>14. ASSUME NEW c \in CPU, boost_next(c) PROVE TInv'
    <2>1. lvl' \in 0 .. NLevel
      BY <1>14, MlfqAssumption DEF boost_next, BoostLevels, TypeOK
    <2>2. TypeOK'
      BY <1>14, <2>1, Zenon DEF boost_next, TypeOK, table, clock, locks
    <2>3. QED
      BY <1>14, <2>2, Zenon DEF boost_next, SliceBound, Placed, HasProc, table
  <1>15. ASSUME NEW c \in CPU, boost_end(c) PROVE TInv'
    <2>1. lvl' \in 0 .. NLevel
      BY <1>15, MlfqAssumption DEF boost_end
    <2>2. TypeOK'
      BY <1>15, <2>1, ZeroLevel, Zenon
      DEF boost_end, Goto, Lift, TypeOK, PCs, locks
    <2>3. SliceBound'
      BY <1>15, MlfqAssumption DEF boost_end, Lift, SliceBound, TypeOK
    <2>4. Placed'
      BY <1>15, Zenon DEF boost_end, Goto, Placed, HasProc, TypeOK
    <2>5. QED
      BY <1>15, <2>2, <2>3, <2>4 DEF boost_end
  <1>16. ASSUME NEW c \in CPU, yield_enqueue(c) PROVE TInv'
    <2> DEFINE p == cproc[c]
               used == SliceUsed(p)
               q == IF used THEN Demoted(queue[p]) ELSE queue[p]
               n == IF used THEN 0 ELSE tick[p] + 1
    <2>1. p \in Procs
      BY <1>16, Zenon DEF yield_enqueue, Placed, HasProc
    <2>2. queue[p] \in Level /\ tick[p] \in Nat
      BY <2>1, Zenon DEF TypeOK
    <2>3. q \in Level
      BY <2>2, MlfqAssumption DEF Demoted, Level
    <2>4. used \in BOOLEAN
      BY DEF SliceUsed
    <2>5. q = 0 => used
      BY <2>2, MlfqAssumption DEF SliceUsed
    <2>6. n \in Nat /\ n < Quantum[q]
      <3>1. Quantum[q] \in Nat \ {0}
        BY <2>3, MlfqAssumption, Zenon DEF Level
      <3>2. QED
        BY <2>2, <3>1 DEF SliceUsed
    <2>7. /\ ring' = push(ring, p, q, used) /\ aliased' \in BOOLEAN
          /\ tick' = [tick EXCEPT ![p] = n]
          /\ queue' = [queue EXCEPT ![p] = q]
      BY <1>16, Zenon DEF yield_enqueue, Push
    <2> HIDE DEF p, used, q, n
    <2>8. ring' \in RingType /\ ring'.head[0] >= 0
      BY <2>1, <2>3, <2>4, <2>5, <2>7, PushRing, Zenon DEF TypeOK
    <2>9. TypeOK'
      <3>1. /\ UNCHANGED <<state, chan, clock, cproc, hand, lvl, wk, plock>>
            /\ pc' = [pc EXCEPT ![c] = "swtch"] /\ mlfq_lock' = Nil
        BY <1>16 DEF yield_enqueue, Goto
      <3>2. queue' \in [Procs -> Level] /\ tick' \in [Procs -> Nat]
        BY <2>3, <2>6, <2>7, Zenon DEF TypeOK
      <3>3. QED
        BY <2>7, <2>8, <3>1, <3>2, Zenon DEF TypeOK, PCs, clock
    <2>10. SliceBound'
      BY <2>1, <2>6, <2>7, Zenon DEF SliceBound, TypeOK
    <2>11. Placed'
      BY <1>16, Zenon DEF yield_enqueue, Goto, Placed, HasProc, TypeOK
    <2>12. QED
      BY <2>8, <2>9, <2>10, <2>11
  <1>17. ASSUME NEW c \in CPU, yield_end(c) PROVE TInv'
    <2>1. /\ state' \in [Procs -> States]
          /\ cproc' \in [CPU -> Procs \cup {Nil}]
          /\ pc' \in [CPU -> PCs]
          /\ Placed'
      BY <1>17, GiveUpType DEF yield_end, States
    <2>2. TypeOK'
      BY <1>17, <2>1, Zenon DEF yield_end, TypeOK, clock
    <2>3. QED
      BY <1>17, <2>1, <2>2, Zenon DEF yield_end, SliceBound
  <1>18. CASE UNCHANGED vars
    <2>1. TypeOK'
      BY <1>18 DEF TypeOK, vars, table, clock, locks
    <2>2. QED
      BY <1>18, <2>1, Zenon DEF vars, table, SliceBound, Placed, HasProc
  <1>19. QED
    BY <1>1, <1>2, <1>4, <1>5, <1>6, <1>7, <1>8, <1>9, <1>10, <1>11, <1>12,
       <1>13, <1>14, <1>15, <1>16, <1>17, <1>18 DEF Next, Kernel, Program

(* The types, and with them that no ring index ever leaves mlfqi and that  *)
(* no process overdraws its slice, in every reachable state.               *)
THEOREM TypeCorrect == Spec => []TypeOK
  <1>1. Spec => []TInv
    BY TInvInit, TInvNext, PTL DEF Spec
  <1>2. TInv => TypeOK
    BY DEF TInv
  <1>3. QED
    BY <1>1, <1>2, PTL

(* A negative head, which push(p, q, 0) with head[q] = 0 leaves behind,    *)
(* still denotes a slot of mlfqi: it never occurs at level 0.              *)
THEOREM RingsInBounds == Spec => []RingInBounds
  <1>1. Spec => []TInv
    BY TInvInit, TInvNext, PTL DEF Spec
  <1>2. TInv => RingInBounds
    <2> SUFFICES ASSUME TInv, NEW q \in Level
                 PROVE  Cell(q, ring.head[q]) \in Level \X Index
      BY DEF RingInBounds
    <2>1. ring.head[q] \in -(NPROC - 1) .. NPROC - 1 /\ ring.head[0] >= 0
      BY Zenon DEF TInv, TypeOK, RingType
    <2>2. QED
      BY <2>1, CellRange
  <1>3. QED
    BY <1>1, <1>2, PTL

(* Whatever the interleaving of ticks, boosts, demotions and forks, a      *)
(* process is below the slice of its level.                                *)
THEOREM SlicesBounded == Spec => []SliceBound
  <1>1. Spec => []TInv
    BY TInvInit, TInvNext, PTL DEF Spec
  <1>2. TInv => SliceBound
    BY Zenon DEF TInv
  <1>3. QED
    BY <1>1, <1>2, PTL

-----------------------------------------------------------------------------
(* One CPU per process. *)

(* A change of state between two states other than RUNNING, c->proc left   *)
(* alone.                                                                  *)
LEMMA IdleChange ==
  ASSUME TInv, OneCpu, NEW p \in Procs, NEW st \in States,
         state[p] # "RUNNING", st # "RUNNING",
         state' = [state EXCEPT ![p] = st], cproc' = cproc
  PROVE  OneCpu'
  BY Zenon DEF TInv, TypeOK, OneCpu

(* The process of CPU c stops running: it runs on no other. *)
LEMMA GiveUpOneCpu ==
  ASSUME TInv, OneCpu, NEW c \in CPU, HasProc(c), NEW st \in States,
         st # "RUNNING", GiveUp(c, st)
  PROVE  OneCpu'
  <1>1. cproc[c] \in Procs /\ Nil \notin Procs
    BY DEF TInv, Placed, Nil, Procs
  <1>2. /\ \A d \in CPU : cproc'[d] = IF d = c THEN Nil ELSE cproc[d]
        /\ \A p \in Procs : state'[p] = IF p = cproc[c] THEN st ELSE state[p]
    BY DEF GiveUp, TInv, TypeOK
  <1>3. QED
    BY <1>1, <1>2 DEF OneCpu

(* The steps leave a process with at most one CPU. *)
LEMMA OneCpuNext == TInv /\ OneCpu /\ [Next]_vars => OneCpu'
  <1> SUFFICES ASSUME TInv, OneCpu, [Next]_vars PROVE OneCpu'
    OBVIOUS
  <1>1. ASSUME NEW c \in CPU, scheduler_run(c) PROVE OneCpu'
    <2>1. hand[c] \in Procs /\ Nil \notin Procs /\ cproc[c] = Nil
      BY <1>1 DEF scheduler_run, TInv, Placed, HasProc, Nil, Procs
    <2>2. CASE state[hand[c]] = "RUNNABLE"
      <3>1. /\ \A d \in CPU : cproc'[d] = IF d = c THEN hand[c] ELSE cproc[d]
            /\ \A p \in Procs :
                 state'[p] = IF p = hand[c] THEN "RUNNING" ELSE state[p]
        BY <1>1, <2>2 DEF scheduler_run, CanRun, TInv, TypeOK
      <3>2. \A d \in CPU : cproc[d] # hand[c]
        BY <2>1, <2>2, Zenon DEF OneCpu
      <3>3. QED
        BY <2>1, <3>1, <3>2 DEF OneCpu
    <2>3. CASE state[hand[c]] # "RUNNABLE"
      BY <1>1, <2>3 DEF scheduler_run, CanRun, OneCpu
    <2>4. QED
      BY <2>2, <2>3, Zenon
  <1>2. ASSUME NEW p \in Procs, state[p] = "SLEEPING", MakeRunnable(p),
               cproc' = cproc
        PROVE  OneCpu'
    BY <1>2, IdleChange, Zenon DEF MakeRunnable, States
  <1>3. ASSUME NEW c \in CPU, wakeup_turn(c) PROVE OneCpu'
    <2>1. wk[c].p \in Procs /\ cproc' = cproc
      BY <1>3 DEF wakeup_turn, TInv, Placed
    <2>2. CASE UNCHANGED state
      BY <2>1, <2>2 DEF OneCpu
    <2>3. CASE state[wk[c].p] = "SLEEPING" /\ MakeRunnable(wk[c].p)
      BY <1>2, <2>1, <2>3
    <2>4. QED
      BY <1>3, <2>2, <2>3 DEF wakeup_turn
  <1>4. ASSUME NEW c \in CPU, NEW p \in Procs, kkill(c, p) PROVE OneCpu'
    BY <1>2, <1>4 DEF kkill
  <1>5. ASSUME NEW c \in CPU, kfork(c) PROVE OneCpu'
    <2>1. PICK np \in Procs : /\ state[np] = "UNUSED"
                              /\ state' = [state EXCEPT ![np] = "RUNNABLE"]
      BY <1>5, Zenon DEF kfork
    <2>2. QED
      BY <1>5, <2>1, IdleChange, Zenon DEF kfork, States
  <1>6. ASSUME NEW c \in CPU, NEW p \in Procs, kwait_reap(c, p) PROVE OneCpu'
    BY <1>6, IdleChange, Zenon DEF kwait_reap, States
  <1>7. ASSUME NEW c \in CPU, sleep(c) \/ kexit(c) \/ yield_end(c)
        PROVE  OneCpu'
    <2>1. PICK st \in States : st # "RUNNING" /\ GiveUp(c, st)
      BY <1>7, Zenon DEF sleep, kexit, yield_end, States
    <2>2. HasProc(c)
      BY <1>7 DEF sleep, kexit, yield_end, HasProc
    <2>3. QED
      BY <2>1, <2>2, GiveUpOneCpu, Zenon
  <1>8. CASE UNCHANGED <<state, cproc>>
    BY <1>8 DEF OneCpu
  <1>9. ASSUME NEW c \in CPU,
               \/ scheduler_pop(c) \/ clockintr(c) \/ yield_begin(c)
               \/ boost_move(c) \/ boost_next(c) \/ boost_end(c)
               \/ yield_enqueue(c)
               \/ \E ch \in Chan : sleep_prepare(c, ch) \/ wakeup_call(c, ch)
        PROVE  UNCHANGED <<state, cproc>>
    BY <1>9, Zenon DEF scheduler_pop, clockintr, yield_begin, boost_move, boost_next,
       boost_end, yield_enqueue, sleep_prepare, wakeup_call, table
  <1>10. UNCHANGED vars => UNCHANGED <<state, cproc>>
    BY DEF vars, table
  <1>11. QED
    BY <1>1, <1>3, <1>4, <1>5, <1>6, <1>7, <1>8, <1>9, <1>10
    DEF Next, Kernel, Program

(* Although scheduler_mlfq pops a process without its lock, and although a *)
(* ring may hold a stale or a duplicate entry, no process ever runs on two *)
(* CPUs: the test of p->state under p->lock is enough.                     *)
THEOREM RunsOnOneCpu == Spec => []OneCpu
  <1>1. Init => OneCpu
    BY DEF Init, OneCpu, Nil, Procs
  <1>2. Init /\ [][Next]_vars => [](TInv /\ OneCpu)
    BY <1>1, TInvInit, TInvNext, OneCpuNext, PTL
  <1>3. QED
    BY <1>2, PTL DEF Spec

-----------------------------------------------------------------------------
(* What the rings hold. *)

(* Entry k of the ring of level q, from its head. *)
At(r, q, k) == Cell(q, CMod(r.head[q] + k, NPROC))
Entry(r, q, k) == r.mlfqi[At(r, q, k)]
Entries(r, q) == 0 .. r.len[q] - 1

(* The tail is where the entries end. *)
Ended(r, q) ==
  r.head[q] + r.len[q] >= 0 /\ r.tail[q] = (r.head[q] + r.len[q]) % NPROC

(* The remainder is the only number of 0 .. n - 1 a multiple of n away. *)
LEMMA ModUnique ==
  ASSUME NEW n \in Nat \ {0}, NEW z \in Int, NEW w \in 0 .. n - 1
  PROVE  (n * z + w) % n = w
  OBVIOUS

(* The remainder of a number at most one turn away. *)
LEMMA CModNear ==
  ASSUME NEW n \in Nat \ {0}, NEW a \in Int
  PROVE  /\ a \in -(n - 1) .. n - 1 => CMod(a, n) = a
         /\ CMod(n, n) = 0
  BY DEF CMod

(* A whole turn makes no difference. *)
LEMMA CModTurn ==
  ASSUME NEW n \in Nat \ {0}, NEW a \in Nat
  PROVE  (a + n) % n = a % n /\ CMod(a + n, n) = CMod(a, n)
  <1> DEFINE x == a % n  y == a \div n  z == y + 1
  <1>1. y \in Int /\ x \in 0 .. n - 1 /\ a = n * y + x
    OBVIOUS
  <1> HIDE DEF x, y
  <1>2. z \in Int /\ a + n = n * z + x
    BY <1>1
  <1> HIDE DEF z
  <1>3. (n * z + x) % n = x
    BY <1>1, <1>2, ModUnique, Zenon
  <1>4. a + n \in Nat
    OBVIOUS
  <1>5. QED
    BY <1>2, <1>3, <1>4 DEF x, CMod

(* One step after a remainder. *)
LEMMA CModNext ==
  ASSUME NEW n \in Nat \ {0}, NEW a \in Nat
  PROVE  CMod((a % n) + 1, n) = (a + 1) % n
  <1> DEFINE x == a % n  y == a \div n  z == y + 1
  <1>1. y \in Int /\ x \in 0 .. n - 1 /\ a = n * y + x
    OBVIOUS
  <1> HIDE DEF x, y
  <1>2. CASE x = n - 1
    <2> DEFINE w == 0
    <2>1. z \in Int /\ w \in 0 .. n - 1 /\ a + 1 = n * z + w
      BY <1>1, <1>2
    <2> HIDE DEF z, w
    <2>2. (n * z + w) % n = w
      BY <2>1, ModUnique, Zenon
    <2>3. CMod(x + 1, n) = w
      BY <1>2, CModNear DEF w
    <2>4. QED
      BY <2>1, <2>2, <2>3 DEF x
  <1>3. CASE x # n - 1
    <2> DEFINE w == x + 1
    <2>1. w \in 0 .. n - 1 /\ a + 1 = n * y + w
      BY <1>1, <1>3
    <2>2. CMod(w, n) = w
      BY <2>1, CModNear
    <2> HIDE DEF w
    <2>3. (n * y + w) % n = w
      BY <1>1, <2>1, ModUnique, Zenon
    <2>4. QED
      BY <2>1, <2>2, <2>3 DEF x, w
  <1>4. QED
    BY <1>2, <1>3

(* The cell of an entry is a slot of mlfqi. *)
LEMMA AtRange ==
  ASSUME NEW r \in RingType, r.head[0] >= 0, NEW q \in Level, NEW k \in Nat
  PROVE  At(r, q, k) \in Level \X Index
  <1> DEFINE i == CMod(r.head[q] + k, NPROC)
  <1>1. r.head[q] + k \in Int /\ NPROC \in Nat \ {0}
    BY MlfqAssumption DEF RingType
  <1>2. i \in -(NPROC - 1) .. NPROC - 1 /\ (r.head[q] + k >= 0 => i >= 0)
    BY <1>1, CModRange
  <1>3. q = 0 => r.head[q] + k >= 0
    BY <1>1 DEF RingType
  <1> HIDE DEF i
  <1>4. Cell(q, i) \in Level \X Index
    BY <1>2, <1>3, CellRange
  <1>5. QED
    BY <1>4 DEF At, i

(* The live cells are those of the entries. *)
LEMMA LiveIs ==
  ASSUME NEW r, NEW q
  PROVE  LiveCells(r, q) = {At(r, q, k) : k \in Entries(r, q)}
  BY Zenon DEF LiveCells, At, Entries

(* The fields s has after push(r, p, q, t). *)
Pushed(r, s, p, q, t) ==
  /\ s.mlfqi = [r.mlfqi EXCEPT ![Cell(q, Slot(r, q, t))] = p]
  /\ s.inq = [r.inq EXCEPT ![p] = TRUE]
  /\ \A l \in Level :
       /\ s.len[l] = r.len[l] + (IF l = q THEN 1 ELSE 0)
       /\ s.tail[l] = IF l = q /\ t THEN CMod(r.tail[q] + 1, NPROC) ELSE r.tail[l]
       /\ s.head[l] = IF l = q /\ ~t THEN CMod(r.head[q] - 1, NPROC) ELSE r.head[l]

(* What pushing a process that is in no queue does to the rings. *)
LEMMA PushIs ==
  ASSUME NEW r \in RingType, NEW p \in Procs, NEW q \in Level, NEW t \in BOOLEAN,
         ~r.inq[p]
  PROVE  Pushed(r, push(r, p, q, t), p, q, t)
  <1>1. /\ r.head \in [Level -> -(NPROC - 1) .. NPROC - 1]
        /\ r.tail \in [Level -> Index]
        /\ r.len \in [Level -> Nat]
    BY DEF RingType
  <1> DEFINE
    m == [r.mlfqi EXCEPT ![Cell(q, Slot(r, q, t))] = p]
    tl == [r.tail EXCEPT ![q] = IF t THEN CMod(@ + 1, NPROC) ELSE @]
    hd == [r.head EXCEPT ![q] = IF t THEN @ ELSE Slot(r, q, t)]
    ln == [r.len EXCEPT ![q] = @ + 1]
    iq == [r.inq EXCEPT ![p] = TRUE]
  <1>2. push(r, p, q, t) =
          [mlfqi |-> m, head |-> hd, tail |-> tl, len |-> ln, inq |-> iq]
    BY Zenon DEF push, RingType
  <1>3. \A l \in Level : ln[l] = r.len[l] + (IF l = q THEN 1 ELSE 0)
    BY <1>1
  <1>4. \A l \in Level :
          tl[l] = IF l = q /\ t THEN CMod(r.tail[q] + 1, NPROC) ELSE r.tail[l]
    BY <1>1, Zenon
  <1>5. \A l \in Level :
          hd[l] = IF l = q /\ ~t THEN CMod(r.head[q] - 1, NPROC) ELSE r.head[l]
    BY <1>1, Zenon DEF Slot
  <1> HIDE DEF m, tl, hd, ln, iq
  <1>6. /\ push(r, p, q, t).mlfqi = m /\ push(r, p, q, t).inq = iq
        /\ push(r, p, q, t).len = ln /\ push(r, p, q, t).tail = tl
        /\ push(r, p, q, t).head = hd
    BY <1>2, SMTT(20)
  <1>7. QED
    BY <1>3, <1>4, <1>5, <1>6 DEF m, iq, Pushed

(* The entries of s are those of r, with those of level q moved by d, and  *)
(* entry n of level q, in cell x.                                          *)
Added(r, s, q, d, n, x) ==
  /\ Ended(s, q)
  /\ At(s, q, n) = x
  /\ \A k \in Entries(r, q) : /\ k + d \in Entries(s, q) \ {n}
                              /\ At(s, q, k + d) = At(r, q, k)
  /\ \A k \in Entries(s, q) : k = n \/ k - d \in Entries(r, q)
  /\ \A l \in Level \ {q} : /\ Entries(s, l) = Entries(r, l)
                            /\ Ended(s, l) <=> Ended(r, l)
                            /\ \A k \in Nat : At(s, l, k) = At(r, l, k)

(* A push adds p at the tail, or at the head of the others. *)
LEMMA PushEntries ==
  ASSUME NEW r \in RingType, r.head[0] >= 0, NEW p \in Procs, NEW q \in Level,
         NEW t \in BOOLEAN, ~r.inq[p], Ended(r, q),
         ~t => q # 0 /\ r.head[q] > -(NPROC - 1),
         NEW d, d = (IF t THEN 0 ELSE 1),
         NEW n, n = (IF t THEN r.len[q] ELSE 0),
         NEW s, s = push(r, p, q, t)
  PROVE  Added(r, s, q, d, n, Cell(q, Slot(r, q, t)))
  <1>1. /\ \A l \in Level : /\ r.head[l] \in -(NPROC - 1) .. NPROC - 1
                            /\ r.tail[l] \in Index /\ r.len[l] \in Nat
        /\ NPROC \in Nat \ {0}
    BY MlfqAssumption, Zenon DEF RingType
  <1>2. \A l \in Level :
          /\ s.len[l] = r.len[l] + (IF l = q THEN 1 ELSE 0)
          /\ s.tail[l] = IF l = q /\ t THEN CMod(r.tail[q] + 1, NPROC) ELSE r.tail[l]
          /\ s.head[l] = IF l = q /\ ~t THEN CMod(r.head[q] - 1, NPROC) ELSE r.head[l]
    <2>1. Pushed(r, s, p, q, t)
      BY PushIs, Zenon
    <2>2. QED
      BY <2>1 DEF Pushed
  <1> DEFINE h == r.head[q]  len == r.len[q]
  <1>3. h \in -(NPROC - 1) .. NPROC - 1 /\ len \in Nat /\ h + len \in Nat
    BY <1>1 DEF Ended
  <1>4. ~t => CMod(h - 1, NPROC) = h - 1
    <2>1. ~t => h - 1 \in -(NPROC - 1) .. NPROC - 1
      BY <1>1
    <2>2. QED
      BY <1>1, <2>1, CModNear
  <1>5. s.head[q] = h - d /\ s.len[q] = len + 1
    BY <1>1, <1>2, <1>4
  <1>6. \A k \in Nat : At(s, q, k + d) = At(r, q, k)
    <2> SUFFICES ASSUME NEW k \in Nat PROVE At(s, q, k + d) = At(r, q, k)
      BY Zenon
    <2>1. s.head[q] + (k + d) = h + k
      BY <1>1, <1>5
    <2>2. QED
      BY <2>1, Zenon DEF At
  <1>7. At(s, q, n) = Cell(q, Slot(r, q, t))
    <2>1. CASE t
      <3>1. s.head[q] + n = h + len
        BY <1>1, <1>5, <2>1
      <3>2. CMod(h + len, NPROC) = r.tail[q]
        BY <1>3, Zenon DEF Ended, CMod
      <3>3. QED
        BY <2>1, <3>1, <3>2, Zenon DEF At, Slot
    <2>2. CASE ~t
      <3>1. s.head[q] + n = h - 1
        BY <1>1, <1>5, <2>2
      <3>2. QED
        BY <2>2, <3>1, Zenon DEF At, Slot
    <2>3. QED
      BY <2>1, <2>2
  <1>8. Ended(s, q)
    <2>1. CASE t
      <3>1. s.head[q] + s.len[q] = (h + len) + 1
        BY <1>3, <1>5, <2>1
      <3>2. CMod(((h + len) % NPROC) + 1, NPROC) = ((h + len) + 1) % NPROC
        BY <1>1, <1>3, CModNext
      <3>3. s.tail[q] = CMod(r.tail[q] + 1, NPROC) /\ r.tail[q] = (h + len) % NPROC
        BY <1>2, <2>1, Zenon DEF Ended
      <3>4. QED
        BY <1>3, <3>1, <3>2, <3>3 DEF Ended
    <2>2. CASE ~t
      <3>1. s.head[q] + s.len[q] = h + len
        BY <1>3, <1>5, <2>2
      <3>2. QED
        BY <1>2, <2>2, <3>1, Zenon DEF Ended
    <2>3. QED
      BY <2>1, <2>2, Zenon
  <1>9. /\ \A k \in Entries(r, q) : k + d \in Entries(s, q) \ {n}
        /\ \A k \in Entries(s, q) : k = n \/ k - d \in Entries(r, q)
    BY <1>3, <1>5 DEF Entries
  <1>10. \A l \in Level \ {q} : /\ Entries(s, l) = Entries(r, l)
                                /\ Ended(s, l) <=> Ended(r, l)
                                /\ \A k \in Nat : At(s, l, k) = At(r, l, k)
    <2> SUFFICES ASSUME NEW l \in Level \ {q}
                 PROVE  /\ Entries(s, l) = Entries(r, l)
                        /\ Ended(s, l) <=> Ended(r, l)
                        /\ \A k \in Nat : At(s, l, k) = At(r, l, k)
      BY Zenon
    <2>1. s.len[l] = r.len[l] /\ s.tail[l] = r.tail[l] /\ s.head[l] = r.head[l]
      BY <1>1, <1>2, SMTT(20)
    <2>2. QED
      BY <2>1, Zenon DEF Entries, Ended, At
  <1>11. QED
    BY <1>3, <1>6, <1>7, <1>8, <1>9, <1>10 DEF Entries, Added

(* What s = pop(r, q) holds: all of r but the front of level q. *)
Popped(r, s, q) ==
  /\ s.inq = [r.inq EXCEPT ![Front(r, q)] = FALSE]
  /\ Ended(r, q) => Ended(s, q)
  /\ At(r, q, 0) = Cell(q, r.head[q])
  /\ s.len[q] = r.len[q] - 1
  /\ s.head[q] = IF r.head[q] = NPROC - 1 THEN 0 ELSE r.head[q] + 1
  /\ \A k \in Entries(s, q) : /\ k + 1 \in Entries(r, q)
                              /\ Entry(s, q, k) = Entry(r, q, k + 1)
  /\ \A l \in Level \ {q} :
       /\ s.len[l] = r.len[l] /\ s.head[l] = r.head[l]
       /\ Entries(s, l) = Entries(r, l)
       /\ Ended(s, l) <=> Ended(r, l)
       /\ \A k \in Entries(s, l) : Entry(s, l, k) = Entry(r, l, k)

(* What popping from a queue that is not empty does to the rings. *)
LEMMA PopIs ==
  ASSUME NEW r \in RingType, r.head[0] >= 0, NEW q \in Level, r.len[q] # 0,
         NEW s, s = pop(r, q)
  PROVE  Popped(r, s, q)
  <1>1. /\ \A l \in Level : /\ r.head[l] \in -(NPROC - 1) .. NPROC - 1
                            /\ r.tail[l] \in Index /\ r.len[l] \in Nat
        /\ NPROC \in Nat \ {0}
    BY MlfqAssumption, Zenon DEF RingType
  <1> DEFINE
    hd == [r.head EXCEPT ![q] = CMod(@ + 1, NPROC)]
    ln == [r.len EXCEPT ![q] = @ - 1]
    iq == [r.inq EXCEPT ![Front(r, q)] = FALSE]
    u == [r EXCEPT !.head = hd, !.len = ln, !.inq = iq]
    live == UNION {LiveCells(u, l) : l \in Level}
    m == [c \in Level \X Index |-> IF c \in live THEN r.mlfqi[c] ELSE Nil]
  <1>2. s = Forget(u)
    BY DEF pop, RingType
  <1>3. \A l \in Level :
          /\ hd[l] = IF l = q THEN CMod(r.head[q] + 1, NPROC) ELSE r.head[l]
          /\ ln[l] = IF l = q THEN r.len[q] - 1 ELSE r.len[l]
    BY DEF RingType
  <1> HIDE DEF hd, ln, iq
  <1>4. /\ u.mlfqi = r.mlfqi /\ u.head = hd /\ u.tail = r.tail /\ u.len = ln /\ u.inq = iq
        /\ "mlfqi" \in DOMAIN u /\ "head" \in DOMAIN u /\ "tail" \in DOMAIN u
        /\ "len" \in DOMAIN u /\ "inq" \in DOMAIN u
    BY DEF RingType
  <1> HIDE DEF u
  <1>5. s = [u EXCEPT !.mlfqi = m]
    BY <1>2, <1>4 DEF Forget
  <1> HIDE DEF m
  <1>6. s.head = hd /\ s.len = ln /\ s.tail = r.tail /\ s.inq = iq /\ s.mlfqi = m
        /\ u.head = hd /\ u.len = ln
    BY <1>4, <1>5, Zenon
  <1> DEFINE h == r.head[q]  len == r.len[q]
  <1>7. h \in -(NPROC - 1) .. NPROC - 1 /\ len \in Nat \ {0}
    BY <1>1, Zenon
  <1>8. s.head[q] = IF h = NPROC - 1 THEN 0 ELSE h + 1
    <2>1. CASE h = NPROC - 1
      <3>1. h + 1 = NPROC
        BY <1>1, <2>1
      <3>2. QED
        BY <1>1, <1>3, <1>6, <2>1, <3>1, CModNear
    <2>2. CASE h # NPROC - 1
      <3>1. h + 1 \in -(NPROC - 1) .. NPROC - 1
        BY <1>1, <2>2
      <3>2. QED
        BY <1>1, <1>3, <1>6, <2>2, <3>1, CModNear
    <2>3. QED
      BY <2>1, <2>2, Zenon
  <1>9. s.len[q] = len - 1
    BY <1>3, <1>6, Zenon
  <1>10. \A k \in Nat : At(s, q, k) = At(r, q, k + 1)
    <2> SUFFICES ASSUME NEW k \in Nat PROVE At(s, q, k) = At(r, q, k + 1)
      BY Zenon
    <2>1. CASE h = NPROC - 1
      <3>1. h + (k + 1) = k + NPROC /\ s.head[q] + k = k
        BY <1>1, <1>8, <2>1
      <3>2. CMod(k + NPROC, NPROC) = CMod(k, NPROC)
        BY <1>1, CModTurn, Zenon
      <3>3. QED
        BY <3>1, <3>2, Zenon DEF At
    <2>2. CASE h # NPROC - 1
      <3>1. h + (k + 1) = s.head[q] + k
        BY <1>7, <1>8, <2>2
      <3>2. QED
        BY <3>1, Zenon DEF At
    <2>3. QED
      BY <2>1, <2>2
  <1>11. Ended(r, q) => Ended(s, q)
    <2> SUFFICES ASSUME Ended(r, q) PROVE Ended(s, q)
      BY Zenon
    <2>1. CASE h = NPROC - 1
      <3>1. s.head[q] + s.len[q] = len - 1 /\ h + len = (len - 1) + NPROC
            /\ len - 1 \in Nat
        BY <1>1, <1>7, <1>8, <1>9, <2>1
      <3>2. ((len - 1) + NPROC) % NPROC = (len - 1) % NPROC
        BY <1>1, <3>1, CModTurn, Zenon
      <3>3. QED
        BY <1>6, <3>1, <3>2 DEF Ended
    <2>2. CASE h # NPROC - 1
      <3>1. s.head[q] + s.len[q] = h + len
        BY <1>7, <1>8, <1>9, <2>2
      <3>2. QED
        BY <1>6, <3>1, Zenon DEF Ended
    <2>3. QED
      BY <2>1, <2>2
  <1>12. \A l \in Level, k \in Nat : At(u, l, k) = At(s, l, k) /\ Entries(u, l) = Entries(s, l)
    BY <1>6, Zenon DEF At, Entries
  <1>13. \A l \in Level \ {q} : s.len[l] = r.len[l] /\ s.head[l] = r.head[l]
    BY <1>3, <1>6, Zenon
  <1>14. \A l \in Level \ {q} : /\ Entries(s, l) = Entries(r, l)
                                /\ Ended(s, l) <=> Ended(r, l)
                                /\ \A k \in Nat : At(s, l, k) = At(r, l, k)
    BY <1>6, <1>13, Zenon DEF Entries, Ended, At
  <1>15. \A k \in Entries(s, q) : k + 1 \in Entries(r, q)
    BY <1>7, <1>9 DEF Entries
  <1>16. \A l \in Level : \A k \in Entries(s, l) : k \in Nat
    BY DEF Entries
  <1>17. \A l \in Level : \A k \in Entries(s, l) : At(s, l, k) \in live
    BY <1>12, <1>16, LiveIs
  <1>18. \A l \in Level : \A k \in Entries(s, l) : At(s, l, k) \in Level \X Index
    <2>1. \A l \in Level, k \in Nat : At(r, l, k) \in Level \X Index
      BY AtRange, Zenon
    <2>2. ASSUME NEW k \in Nat PROVE At(s, q, k) \in Level \X Index
      <3>1. k + 1 \in Nat /\ At(s, q, k) = At(r, q, k + 1)
        BY <1>10
      <3>2. QED
        BY <2>1, <3>1, Zenon
    <2>3. \A l \in Level \ {q} : \A k \in Nat : At(s, l, k) \in Level \X Index
      BY <1>14, <2>1, Zenon
    <2>4. QED
      BY <1>16, <2>2, <2>3, Zenon
  <1> HIDE DEF live
  <1>19. \A l \in Level : \A k \in Entries(s, l) : Entry(s, l, k) = r.mlfqi[At(s, l, k)]
    BY <1>6, <1>17, <1>18, Zenon DEF Entry, m
  <1>20. \A k \in Entries(s, q) : Entry(s, q, k) = Entry(r, q, k + 1)
    BY <1>10, <1>16, <1>19, Zenon DEF Entry
  <1>21. \A l \in Level \ {q} : \A k \in Entries(s, l) : Entry(s, l, k) = Entry(r, l, k)
    BY <1>14, <1>16, <1>19, Zenon DEF Entry
  <1>22. At(r, q, 0) = Cell(q, r.head[q])
    <2>1. CMod(h + 0, NPROC) = h
      BY <1>1, <1>7, CModNear
    <2>2. QED
      BY <2>1, Zenon DEF At
  <1>23. s.inq = [r.inq EXCEPT ![Front(r, q)] = FALSE]
    BY <1>6 DEF iq
  <1>24. QED
    BY <1>8, <1>9, <1>10, <1>11, <1>13, <1>14, <1>15, <1>16, <1>20, <1>21, <1>22, <1>23, Zenon
    DEF Popped
=============================================================================
