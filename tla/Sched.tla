-------------------------------- MODULE Sched --------------------------------
(***************************************************************************)
(* The MLFQ scheduler of xv6/kernel/proc.c on several CPUs: the per-CPU    *)
(* loop scheduler_mlfq, the timer interrupt and yield_mlfq with its        *)
(* priority boost, and every place that makes a process runnable (kfork,   *)
(* wakeup, kkill) or gives up its CPU (sleep, kexit).                      *)
(*                                                                         *)
(* A step is what a CPU does between two points where another CPU may      *)
(* see an intermediate state.  A stretch of code that runs with p->lock    *)
(* and mlfq_lock held from its first to its last access is one action;     *)
(* yield_mlfq is split where it releases mlfq_lock, and at every turn of   *)
(* the boost loop.  pc[c] says where CPU c is:                             *)
(*   "sched"   top of scheduler_mlfq's loop, no process                    *)
(*   "popped"  has popped hand[c], does not hold its lock yet              *)
(*   "run"     executes process cproc[c]                                   *)
(*   "yield"   took a timer interrupt, is about to take the locks          *)
(*   "boost"   in the boost loop, at level lvl                             *)
(*   "enq"     boost decided, about to requeue the process                 *)
(*   "swtch"   has released mlfq_lock, still holds p->lock                 *)
(*   "wakeup"  in wakeup's loop, at process wk[c].p; every caller holds a  *)
(*             spinlock, so no interrupt is taken inside the loop          *)
(***************************************************************************)
EXTENDS Mlfq, FiniteSets

CONSTANTS
  NCPU,         \* number of harts (at most 8, against 64 entries of proc[])
  Chan,         \* the channels programs sleep on
  MaxLive,      \* bound: kfork fails beyond this many processes
  BoostPeriod,  \* ticks between boosts (48)
  TickMod       \* ticks is an unsigned int: it wraps at TickMod (2^32)

ASSUME SchedAssumption ==
  /\ NCPU \in Nat \ {0} /\ NCPU < NPROC
  /\ "" \notin Chan
  /\ MaxLive \in Nat
  /\ BoostPeriod \in Nat \ {0}
  /\ TickMod \in Nat \ {0}

VARIABLES
  ring,       \* mlfqi, head, tail, len and every p->inq
  state,      \* p->state
  chan,       \* p->chan
  queue,      \* p->queue
  tick,       \* p->tick
  ticks,      \* the clock
  boost,      \* time of the last boost
  pc,         \* where each CPU is
  cproc,      \* c->proc
  hand,       \* scheduler_mlfq's local p between pop and acquire
  lvl,        \* the boost loop's i (0 when no CPU is in it)
  wk,         \* wakeup's arguments, its loop variable and where it returns
  plock,      \* owner of p->lock
  mlfq_lock,  \* owner of mlfq_lock
  aliased     \* history: a push has overwritten a waiting entry

table == <<state, chan, queue, tick>>
clock == <<ticks, boost>>
locks == <<plock, mlfq_lock>>
vars == <<ring, table, clock, pc, cproc, hand, lvl, wk, locks, aliased>>

CPU == 1 .. NCPU
Hart0 == 1               \* cpuid() = 0: its timer interrupt advances ticks
initproc == 1            \* the entry userinit's allocproc returns
NoChan == ""             \* p->chan = 0
Chans == Chan \cup {"ticks"}   \* hart 0 wakes the channel "ticks"

States == {"UNUSED", "SLEEPING", "RUNNABLE", "RUNNING", "ZOMBIE"}

PCs == {"sched", "popped", "run", "yield", "boost", "enq", "swtch", "wakeup"}

NoFrame == [chan |-> NoChan, p |-> Nil, ret |-> "run"]

(* p->lock and mlfq_lock can both be acquired. *)
BothFree(p) == plock[p] = Nil /\ mlfq_lock = Nil

(* push(p, q, t), with the history of overwritten entries. *)
Push(p, q, t) ==
  /\ ring' = push(ring, p, q, t)
  /\ aliased' = (aliased \/ Overwrites(ring, p, q, t))

Goto(c, l) == pc' = [pc EXCEPT ![c] = l]

-----------------------------------------------------------------------------
(* userinit: initproc is RUNNABLE and queued at level 0. *)
Init ==
  /\ ring = push(EmptyRing, initproc, 0, TRUE)
  /\ state = [p \in Procs |-> IF p = initproc THEN "RUNNABLE" ELSE "UNUSED"]
  /\ chan = [p \in Procs |-> NoChan]
  /\ queue = [p \in Procs |-> 0]
  /\ tick = [p \in Procs |-> 0]
  /\ ticks = 0 /\ boost = 0
  /\ pc = [c \in CPU |-> "sched"]
  /\ cproc = [c \in CPU |-> Nil]
  /\ hand = [c \in CPU |-> Nil]
  /\ lvl = 0
  /\ wk = [c \in CPU |-> NoFrame]
  /\ plock = [p \in Procs |-> Nil]
  /\ mlfq_lock = Nil
  /\ aliased = FALSE

-----------------------------------------------------------------------------
(* The first level whose ring is not empty is popped, under mlfq_lock. *)
scheduler_pop(c) ==
  /\ pc[c] = "sched" /\ mlfq_lock = Nil
  /\ \E q \in Level :
       /\ ring.len[q] # 0 /\ \A l \in 0 .. q - 1 : ring.len[l] = 0
       /\ Front(ring, q) # Nil        \* a null pointer faults: panic
       /\ hand' = [hand EXCEPT ![c] = Front(ring, q)]
       /\ ring' = pop(ring, q)
  /\ Goto(c, "popped")
  /\ UNCHANGED <<table, clock, cproc, lvl, wk, locks, aliased>>

(* The test of p->state, under p->lock. *)
MutCanRun(p) == TRUE
CanRun(p) == state[p] = "RUNNABLE"

(* With p->lock: run p if it is RUNNABLE, drop it otherwise.  The process  *)
(* releases the lock on the other side of swtch.                           *)
scheduler_run(c) ==
  /\ pc[c] = "popped" /\ plock[hand[c]] = Nil
  /\ IF CanRun(hand[c])
       THEN /\ state' = [state EXCEPT ![hand[c]] = "RUNNING"]
            /\ cproc' = [cproc EXCEPT ![c] = hand[c]]
            /\ Goto(c, "run")
       ELSE Goto(c, "sched") /\ UNCHANGED <<state, cproc>>
  /\ hand' = [hand EXCEPT ![c] = Nil]
  /\ UNCHANGED <<ring, chan, queue, tick, clock, lvl, wk, locks, aliased>>

(* Enter wakeup(ch) on CPU c and come back to ret. *)
CallWakeup(c, ch, ret) ==
  /\ Goto(c, "wakeup")
  /\ wk' = [wk EXCEPT ![c] = [chan |-> ch, p |-> 1, ret |-> ret]]

(* Timer interrupt.  Hart 0 advances ticks and wakes those who pause on    *)
(* it; then a CPU that runs a process yields.                              *)
clockintr(c) ==
  /\ pc[c] \in {"run", "sched"}
  /\ LET ret == IF pc[c] = "run" THEN "yield" ELSE "sched"
     IN  IF c = Hart0
           THEN ticks' = (ticks + 1) % TickMod /\ CallWakeup(c, "ticks", ret)
           ELSE pc[c] = "run" /\ Goto(c, ret) /\ UNCHANGED <<ticks, wk>>
  /\ UNCHANGED <<ring, table, boost, cproc, hand, lvl, locks, aliased>>

(* A process, or a device interrupt, calls wakeup(ch). *)
wakeup_call(c, ch) ==
  /\ pc[c] \in {"run", "sched"}
  /\ CallWakeup(c, ch, pc[c])
  /\ UNCHANGED <<ring, table, clock, cproc, hand, lvl, locks, aliased>>

(* Mutant of MakeRunnable: the wrong level. *)
MutMakeRunnable(p) ==
  /\ BothFree(p)
  /\ state' = [state EXCEPT ![p] = "RUNNABLE"]
  /\ Push(p, 0, TRUE)

(* A sleeper becomes RUNNABLE at the tail of its own level. *)
MakeRunnable(p) ==
  /\ BothFree(p)
  /\ state' = [state EXCEPT ![p] = "RUNNABLE"]
  /\ Push(p, queue[p], TRUE)

(* One turn of wakeup's loop, with p->lock (and mlfq_lock to push). *)
wakeup_turn(c) ==
  LET p == wk[c].p
      hit == chan[p] = wk[c].chan
  IN  /\ pc[c] = "wakeup" /\ plock[p] = Nil
      /\ chan' = [chan EXCEPT ![p] = IF hit THEN NoChan ELSE @]
      /\ IF hit /\ state[p] = "SLEEPING" THEN MakeRunnable(p)
                                       ELSE UNCHANGED <<state, ring, aliased>>
      /\ IF p < NPROC
           THEN wk' = [wk EXCEPT ![c].p = p + 1] /\ UNCHANGED pc
           ELSE wk' = [wk EXCEPT ![c] = NoFrame] /\ Goto(c, wk[c].ret)
      /\ UNCHANGED <<queue, tick, clock, cproc, hand, lvl, locks>>

(* kkill: a sleeping victim is made RUNNABLE; its chan is left alone. *)
kkill(c, p) ==
  /\ pc[c] = "run"
  /\ state[p] = "SLEEPING" /\ MakeRunnable(p)
  /\ UNCHANGED <<chan, queue, tick, clock, pc, cproc, hand, lvl, wk, locks>>

(* kfork with allocproc: the first UNUSED entry enters level 0.  Between   *)
(* the critical sections of the code it is USED, with its locks free; no   *)
(* other step looks at a USED entry, so that they make one step here.      *)
kfork(c) ==
  LET unused == {p \in Procs : state[p] = "UNUSED"}
  IN  /\ pc[c] = "run" /\ Cardinality(Procs \ unused) < MaxLive
      /\ \E np \in unused :
           /\ \A p \in unused : np <= p
           /\ BothFree(np)
           /\ state' = [state EXCEPT ![np] = "RUNNABLE"]
           /\ queue' = [queue EXCEPT ![np] = 0]
           /\ tick' = [tick EXCEPT ![np] = 0]
           /\ LET r == [ring EXCEPT !.inq[np] = FALSE]
              IN  /\ ring' = push(r, np, 0, TRUE)
                  /\ aliased' = (aliased \/ Overwrites(r, np, 0, TRUE))
      /\ UNCHANGED <<chan, clock, pc, cproc, hand, lvl, wk, locks>>

(* The process of CPU c gives up the CPU in state st: sched() switches to  *)
(* the scheduler, which clears c->proc and releases p->lock.               *)
GiveUp(c, st) ==
  /\ state' = [state EXCEPT ![cproc[c]] = st]
  /\ cproc' = [cproc EXCEPT ![c] = Nil]
  /\ Goto(c, "sched")

(* sleep_prepare(ch) *)
sleep_prepare(c, ch) ==
  /\ pc[c] = "run" /\ plock[cproc[c]] = Nil
  /\ chan' = [chan EXCEPT ![cproc[c]] = ch]
  /\ UNCHANGED <<ring, state, queue, tick, clock, pc, cproc, hand, lvl, wk,
                 locks, aliased>>

(* sleep(), when no wakeup has cleared p->chan since sleep_prepare. *)
sleep(c) ==
  /\ pc[c] = "run" /\ plock[cproc[c]] = Nil
  /\ chan[cproc[c]] # NoChan
  /\ GiveUp(c, "SLEEPING")
  /\ UNCHANGED <<ring, chan, queue, tick, clock, hand, lvl, wk, locks, aliased>>

(* The end of kexit, from the acquisition of p->lock. *)
kexit(c) ==
  /\ pc[c] = "run" /\ plock[cproc[c]] = Nil
  /\ cproc[c] # initproc
  /\ GiveUp(c, "ZOMBIE")
  /\ UNCHANGED <<ring, chan, queue, tick, clock, hand, lvl, wk, locks, aliased>>

(* kwait finds a ZOMBIE child: freeproc. *)
kwait_reap(c, p) ==
  /\ pc[c] = "run" /\ plock[p] = Nil
  /\ state[p] = "ZOMBIE"
  /\ state' = [state EXCEPT ![p] = "UNUSED"]
  /\ chan' = [chan EXCEPT ![p] = NoChan]
  /\ UNCHANGED <<ring, queue, tick, clock, pc, cproc, hand, lvl, wk, locks,
                 aliased>>

-----------------------------------------------------------------------------
(* ticks - boost, in unsigned arithmetic. *)
BoostDue == (ticks - boost) % TickMod >= BoostPeriod

(* yield_mlfq takes both locks and decides whether to boost. *)
yield_begin(c) ==
  /\ pc[c] = "yield" /\ BothFree(cproc[c])
  /\ plock' = [plock EXCEPT ![cproc[c]] = c]
  /\ mlfq_lock' = c
  /\ Goto(c, IF BoostDue THEN "boost" ELSE "enq")
  /\ UNCHANGED <<ring, table, clock, cproc, hand, lvl, wk, aliased>>

(* The boost loop visits levels 0 .. BoostLevels - 1. *)
MutBoostLevels == NLevel - 1
BoostLevels == NLevel

(* p->queue = 0; p->tick = 0 *)
MutLift(p) == queue' = [queue EXCEPT ![p] = 0] /\ UNCHANGED tick
Lift(p) == queue' = [queue EXCEPT ![p] = 0] /\ tick' = [tick EXCEPT ![p] = 0]

(* One turn of the inner loop: pop(i) gives a process, which goes to the   *)
(* tail of level 0.                                                        *)
boost_move(c) ==
  LET pp == Front(ring, lvl)
      r == pop(ring, lvl)
  IN  /\ pc[c] = "boost" /\ lvl < BoostLevels
      /\ ring.len[lvl] # 0 /\ pp # Nil
      /\ Lift(pp)
      /\ ring' = push(r, pp, 0, TRUE)
      /\ aliased' = (aliased \/ Overwrites(r, pp, 0, TRUE))
      /\ UNCHANGED <<state, chan, clock, pc, cproc, hand, lvl, wk, locks>>

(* pop(i) gives nothing: the next level. *)
boost_next(c) ==
  /\ pc[c] = "boost" /\ lvl < BoostLevels
  /\ ring.len[lvl] = 0
  /\ lvl' = lvl + 1
  /\ UNCHANGED <<ring, table, clock, pc, cproc, hand, wk, locks, aliased>>

(* After the last level: the caller too, and the time is noted. *)
boost_end(c) ==
  /\ pc[c] = "boost" /\ lvl = BoostLevels
  /\ Lift(cproc[c])
  /\ boost' = ticks
  /\ lvl' = 0
  /\ Goto(c, "enq")
  /\ UNCHANGED <<ring, state, chan, ticks, cproc, hand, wk, locks, aliased>>

(* With the tick being charged, p has used up its slice. *)
SliceUsed(p) == tick[p] + 1 >= Quantum[queue[p]]

(* The level below, unless there is none. *)
Demoted(q) == IF q < NLevel - 1 THEN q + 1 ELSE q

(* The tick is charged: demotion to the tail of the next level when the    *)
(* slice is used up, the head of its own level otherwise.                  *)
yield_enqueue(c) ==
  LET p == cproc[c]
      used == SliceUsed(p)
      q == IF used THEN Demoted(queue[p]) ELSE queue[p]
  IN  /\ pc[c] = "enq"
      /\ tick' = [tick EXCEPT ![p] = IF used THEN 0 ELSE @ + 1]
      /\ queue' = [queue EXCEPT ![p] = q]
      /\ Push(p, q, used)
      /\ mlfq_lock' = Nil
      /\ Goto(c, "swtch")
      /\ UNCHANGED <<state, chan, clock, cproc, hand, lvl, wk, plock>>

(* p->state = RUNNABLE; sched(); the scheduler releases p->lock. *)
yield_end(c) ==
  /\ pc[c] = "swtch"
  /\ GiveUp(c, "RUNNABLE")
  /\ plock' = [plock EXCEPT ![cproc[c]] = Nil]
  /\ UNCHANGED <<ring, chan, queue, tick, clock, hand, lvl, wk, mlfq_lock,
                 aliased>>

-----------------------------------------------------------------------------
(* The steps a CPU takes by itself, once started ... *)
Kernel(c) ==
  \/ scheduler_pop(c) \/ scheduler_run(c)
  \/ wakeup_turn(c)
  \/ yield_begin(c) \/ boost_move(c) \/ boost_next(c) \/ boost_end(c)
  \/ yield_enqueue(c) \/ yield_end(c)

(* ... and what programs, users and devices make happen. *)
Program(c) ==
  \/ kfork(c) \/ sleep(c) \/ kexit(c)
  \/ \E ch \in Chan : sleep_prepare(c, ch)
  \/ \E ch \in Chan : wakeup_call(c, ch)
  \/ \E p \in Procs : kkill(c, p) \/ kwait_reap(c, p)

Next == \E c \in CPU : Kernel(c) \/ clockintr(c) \/ Program(c)

Spec == Init /\ [][Next]_vars

(* A timer interrupt that finds a process running; the same, boost due. *)
Timer(c) == pc[c] = "run" /\ clockintr(c)
BoostTimer(c) == Timer(c) /\ BoostDue'

(* CPUs do not stop in the kernel; a timer interrupt (one in a tenth of a  *)
(* second) does not forever get in before a scheduler that has work; timer *)
(* interrupts do not forever miss the moments when a process runs and a    *)
(* boost is due, which is the case for all but BoostPeriod of the TickMod  *)
(* values of the clock.                                                    *)
FairSpec ==
  /\ Spec
  /\ \A c \in CPU : /\ WF_vars(Kernel(c))
                    /\ SF_vars(scheduler_pop(c))
                    /\ SF_vars(Timer(c)) /\ SF_vars(BoostTimer(c))

-----------------------------------------------------------------------------
(* Every variable has its type. *)
RingType ==
  [ mlfqi : [Level \X Index -> Procs \cup {Nil}],
    head : [Level -> -(NPROC - 1) .. NPROC - 1],
    tail : [Level -> Index],
    len : [Level -> Nat],
    inq : [Procs -> BOOLEAN] ]

TypeOK ==
  /\ ring \in RingType
  /\ state \in [Procs -> States]
  /\ chan \in [Procs -> Chans \cup {NoChan}]
  /\ queue \in [Procs -> Level]
  /\ tick \in [Procs -> Nat]
  /\ ticks \in Nat /\ boost \in Nat
  /\ pc \in [CPU -> PCs]
  /\ cproc \in [CPU -> Procs \cup {Nil}]
  /\ hand \in [CPU -> Procs \cup {Nil}]
  /\ lvl \in 0 .. NLevel
  /\ wk \in [CPU -> [chan : Chans \cup {NoChan}, p : Procs \cup {Nil},
                     ret : {"run", "sched", "yield"}]]
  /\ plock \in [Procs -> CPU \cup {Nil}]
  /\ mlfq_lock \in CPU \cup {Nil}
  /\ aliased \in BOOLEAN

(* A process never runs on two CPUs at once, and is RUNNING exactly while  *)
(* some CPU's c->proc points to it.  scheduler_mlfq pops it without its    *)
(* lock, so this rests on the test of p->state under p->lock.  It holds    *)
(* even after a ring entry has been overwritten.                           *)
OneCpu ==
  /\ \A c, d \in CPU : cproc[c] # Nil /\ cproc[c] = cproc[d] => c = d
  /\ \A p \in Procs : state[p] = "RUNNING" <=> \E c \in CPU : cproc[c] = p

(* Every index the rings use denotes a slot of mlfqi, although a head may  *)
(* be negative: only level 0 has no row before it, and its slice of one    *)
(* tick keeps push(p, 0, 0) from ever happening.                           *)
RingInBounds ==
  \A q \in Level : Cell(q, ring.head[q]) \in Level \X Index

Hands(p) == {c \in CPU : hand[c] = p}
Waiting(p) == PlacesOf(ring, p)

(* As long as no push has overwritten a waiting entry, a RUNNABLE process  *)
(* is in exactly one place: one slot of the ring of its own level, or the  *)
(* hand of one scheduler that is about to run it.                          *)
RunnableQueuedOnce ==
  aliased \/ \A p \in Procs : state[p] = "RUNNABLE" =>
    \/ /\ Hands(p) = {}
       /\ \E x \in Waiting(p) : Waiting(p) = {x} /\ x[1] = queue[p]
    \/ /\ Waiting(p) = {}
       /\ \E c \in Hands(p) : Hands(p) = {c}

(* As long as no push has overwritten a waiting entry, what is queued or   *)
(* has been popped is RUNNABLE by the time its lock is free, so that the   *)
(* test of p->state in scheduler_mlfq never drops a process; and inq tells *)
(* exactly who is queued.                                                  *)
QueuedIsRunnable ==
  aliased \/ \A p \in Procs :
    /\ (Waiting(p) # {} \/ Hands(p) # {}) /\ plock[p] = Nil
         => state[p] = "RUNNABLE"
    /\ ring.inq[p] <=> Waiting(p) # {}

(* The rings hold just the RUNNABLE processes, each once: see above.  The  *)
(* state and the entry are under two locks, and push, wakeup, kkill, kfork *)
(* and yield_mlfq change both.                                             *)
QueuesMatchStates == RunnableQueuedOnce /\ QueuedIsRunnable

(* No process has used up the slice of the level it is at, whoever moved   *)
(* it there: a demotion, a boost on another CPU, or a new life.            *)
SliceBound == \A p \in Procs : tick[p] < Quantum[queue[p]]

(* A CPU leaves the boost. *)
BoostDone(c) == pc[c] = "boost" /\ pc'[c] # "boost"

(* When a boost ends, every queued process is at level 0 with a full       *)
(* slice.                                                                  *)
BoostLiftsQueued ==
  [][\A c \in CPU : BoostDone(c) =>
       \A p \in Procs : Waiting(p) # {} => queue'[p] = 0 /\ tick'[p] = 0]_vars

(* No RUNNABLE process starves behind higher levels, provided every boost  *)
(* that starts also ends and no push has overwritten a waiting entry.      *)
NoStarvation ==
  (\A c \in CPU : []<>(pc[c] # "boost"))
    => \A p \in Procs : (state[p] = "RUNNABLE")
                           ~> (state[p] = "RUNNING" \/ aliased)

-----------------------------------------------------------------------------
(* What the documentation says of the scheduler and the code does not do.  *)

(* README.md:137: a boost prevents starvation, so it must end.  The loop   *)
(* of yield_mlfq that empties level 0 pushes what it pops back to level 0, *)
(* so it never ends when level 0 is not empty at the start.                *)
BoostTerminates == \A c \in CPU : pc[c] = "boost" ~> pc[c] # "boost"

(* README.md:30 and the comment at proc.c:33: the queues are rings with    *)
(* wraparound, so that every RUNNABLE process waits in one of them or is   *)
(* about to run.  push(p, q, 0) with head[q] = 0 stores outside its row.   *)
NoLostProcess ==
  \A p \in Procs : state[p] = "RUNNABLE" => Waiting(p) # {} \/ Hands(p) # {}
=============================================================================
