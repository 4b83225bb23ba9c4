-------------------------------- MODULE Proc --------------------------------
(***************************************************************************)
(* The life of processes in xv6/kernel/proc.c: fork, exit, wait, kill and  *)
(* pause of concurrent processes over the two-step sleep (sleep_prepare    *)
(* under the condition's lock, sleep after its release).                   *)
(*                                                                         *)
(* Sched models who gets a CPU; here every process that is not asleep may  *)
(* take its next step, so RUNNABLE and RUNNING are both "ready".  A step   *)
(* is a critical section, or the part of one up to a point where a process *)
(* that does not take wait_lock can see a difference.  pc[p] is where      *)
(* process p is:                                                           *)
(*   "none"   the table entry is free, or its process has not started      *)
(*   "user"   in its program        "kernel" past usertrap's first test    *)
(*   "alloc", "born"   in kfork     "wait", "waitsleep"    in kwait        *)
(*   "pause", "pausesleep"          "exit", "zombie"       in kexit        *)
(***************************************************************************)
EXTENDS Integers, FiniteSets

CONSTANTS
  Procs,      \* the entries of proc[]
  initproc,
  Nil,
  MaxPid,     \* bound: allocpid gives 1 .. MaxPid
  MaxPause    \* bound: the longest pause

ASSUME ProcAssumption ==
  /\ initproc \in Procs /\ Nil \notin Procs
  /\ {"none", "ticks"} \cap (Procs \cup {Nil}) = {}   \* the other channels
  /\ MaxPid \in Nat \ {0} /\ MaxPause \in Nat

VARIABLES
  state, pid, parent, chan, killed,   \* the fields of struct proc
  pc,
  np,         \* kfork's np
  left,       \* sys_pause: n - (ticks - ticks0), 0 when that is negative
  wait_lock,  \* its owner
  nextpid

vars == <<state, pid, parent, chan, killed, pc, np, left, wait_lock, nextpid>>

NoChan == "none"
Ticks == "ticks"

Init ==
  /\ state = [p \in Procs |-> IF p = initproc THEN "ready" ELSE "UNUSED"]
  /\ pid = [p \in Procs |-> IF p = initproc THEN 1 ELSE 0]
  /\ parent = [p \in Procs |-> Nil]
  /\ chan = [p \in Procs |-> NoChan]
  /\ killed = [p \in Procs |-> FALSE]
  /\ pc = [p \in Procs |-> IF p = initproc THEN "user" ELSE "none"]
  /\ np = [p \in Procs |-> Nil]
  /\ left = [p \in Procs |-> 0]
  /\ wait_lock = Nil
  /\ nextpid = 2

Goto(p, l) == pc' = [pc EXCEPT ![p] = l]

(* usertrap tests killed before a system call and before it returns. *)
MutChecked(k, l) == l
Checked(k, l) == IF k THEN "exit" ELSE l

Return(p) == Goto(p, Checked(killed[p], "user"))

At(p, l) == pc[p] = l /\ state[p] = "ready"

Children(p) == {q \in Procs : parent[q] = p}

-----------------------------------------------------------------------------
(* usertrap, system call: a killed process exits instead. *)
usertrap(p) ==
  /\ At(p, "user")
  /\ Goto(p, Checked(killed[p], "kernel"))
  /\ UNCHANGED <<state, pid, parent, chan, killed, np, left, wait_lock,
                 nextpid>>

(* usertrap, anything else that is not an interrupt: setkilled. *)
usertrap_fault(p) ==
  /\ At(p, "user") /\ p # initproc
  /\ killed' = [killed EXCEPT ![p] = TRUE]
  /\ Goto(p, "exit")
  /\ UNCHANGED <<state, pid, parent, chan, np, left, wait_lock, nextpid>>

(* allocproc.  The scan for an UNUSED entry is not atomic, so any one may  *)
(* be found.                                                               *)
allocproc(q) ==
  /\ nextpid <= MaxPid
  /\ state[q] = "UNUSED"
  /\ state' = [state EXCEPT ![q] = "USED"]
  /\ pid' = [pid EXCEPT ![q] = nextpid]
  /\ nextpid' = nextpid + 1

(* kfork up to the release of np->lock.  It fails without a free entry, or *)
(* without memory: in allocproc, or in uvmcopy, which frees the entry again *)
(* before anyone can see it and costs a pid.                               *)
kfork(p) ==
  /\ At(p, "kernel")
  /\ \/ /\ \E q \in Procs : allocproc(q) /\ np' = [np EXCEPT ![p] = q]
        /\ Goto(p, "alloc")
     \/ /\ p # initproc
        /\ Return(p)
        /\ \/ nextpid <= MaxPid /\ nextpid' = nextpid + 1
           \/ UNCHANGED nextpid
        /\ UNCHANGED <<state, pid, np>>
  /\ UNCHANGED <<parent, chan, killed, left, wait_lock>>

fork_parent(p) ==
  /\ At(p, "alloc") /\ wait_lock = Nil
  /\ parent' = [parent EXCEPT ![np[p]] = p]
  /\ Goto(p, "born")
  /\ UNCHANGED <<state, pid, chan, killed, np, left, wait_lock, nextpid>>

fork_start(p) ==
  /\ At(p, "born")
  /\ state' = [state EXCEPT ![np[p]] = "ready"]
  /\ pc' = [pc EXCEPT ![np[p]] = "user",
                      ![p] = Checked(killed[p], "user")]
  /\ np' = [np EXCEPT ![p] = Nil]
  /\ UNCHANGED <<pid, parent, chan, killed, left, wait_lock, nextpid>>

-----------------------------------------------------------------------------
(* The effect of wakeup(c): every process registered on c is deregistered, *)
(* and made ready if it has gone to sleep.                                 *)
Registered(c) == {q \in Procs : chan[q] = c}

Wake(C) ==
  LET S == UNION {Registered(c) : c \in C}
  IN  /\ chan' = [q \in Procs |-> IF q \in S THEN NoChan ELSE chan[q]]
      /\ state' = [q \in Procs |-> IF q \in S /\ state[q] = "SLEEPING"
                                     THEN "ready" ELSE state[q]]

(* sleep: not if a wakeup has come since sleep_prepare. *)
MutSleep(p, next) ==
  /\ state' = [state EXCEPT ![p] = "SLEEPING"]
  /\ Goto(p, next)
sleep(p, next) ==
  /\ state' = [state EXCEPT ![p] = IF chan[p] # NoChan THEN "SLEEPING" ELSE @]
  /\ Goto(p, next)

(* kexit, under wait_lock: the children go to init, and init and the       *)
(* parent are woken.  (Only q itself ever sleeps on the channel q.)        *)
Heirs(p) == {parent[p]} \cup (IF Children(p) # {} THEN {initproc} ELSE {})

MutHeir(q, p) == parent[q]
Heir(q, p) == IF parent[q] = p THEN initproc ELSE parent[q]

kexit(p) ==
  /\ At(p, "exit") /\ wait_lock = Nil
  /\ p # initproc                        \* panic: init exiting
  /\ wait_lock' = p
  /\ parent' = [q \in Procs |-> Heir(q, p)]
  /\ Wake(Heirs(p))
  /\ Goto(p, "zombie")
  /\ UNCHANGED <<pid, killed, np, left, nextpid>>

exit_zombie(p) ==
  /\ At(p, "zombie")
  /\ state' = [state EXCEPT ![p] = "ZOMBIE"]
  /\ wait_lock' = Nil
  /\ Goto(p, "none")
  /\ UNCHANGED <<pid, parent, chan, killed, np, left, nextpid>>

(* The exit system call. *)
sys_exit(p) ==
  /\ At(p, "kernel") /\ p # initproc
  /\ Goto(p, "exit")
  /\ UNCHANGED <<state, pid, parent, chan, killed, np, left, wait_lock,
                 nextpid>>

-----------------------------------------------------------------------------
(* The wait system call.  init calls it only while it has a child. *)
sys_wait(p) ==
  /\ At(p, "kernel")
  /\ p = initproc => Children(p) # {}
  /\ Goto(p, "wait")
  /\ UNCHANGED <<state, pid, parent, chan, killed, np, left, wait_lock,
                 nextpid>>

(* Mutant of freeproc: p->state = UNUSED is missing. *)
MutFreeproc(q) ==
  /\ UNCHANGED state
  /\ pid' = [pid EXCEPT ![q] = 0]
  /\ parent' = [parent EXCEPT ![q] = Nil]
  /\ chan' = [chan EXCEPT ![q] = NoChan]
  /\ killed' = [killed EXCEPT ![q] = FALSE]

(* freeproc, and the parent forgets it. *)
freeproc(q) ==
  /\ state' = [state EXCEPT ![q] = "UNUSED"]
  /\ pid' = [pid EXCEPT ![q] = 0]
  /\ parent' = [parent EXCEPT ![q] = Nil]
  /\ chan' = [chan EXCEPT ![q] = NoChan]
  /\ killed' = [killed EXCEPT ![q] = FALSE]

Zombies(p) == {q \in Children(p) : state[q] = "ZOMBIE"}

(* kwait finds a zombie and frees it, unless its status cannot be copied   *)
(* to the address the caller gave.                                         *)
kwait_reap(p) ==
  /\ At(p, "wait") /\ wait_lock = Nil
  /\ \E q \in Zombies(p) :
       \/ freeproc(q)
       \/ p # initproc /\ UNCHANGED <<state, pid, parent, chan, killed>>
  /\ Return(p)
  /\ UNCHANGED <<np, left, wait_lock, nextpid>>

(* kwait finds none: it fails, or registers on its own address before it   *)
(* releases wait_lock.                                                     *)
kwait_none(p) ==
  /\ At(p, "wait") /\ wait_lock = Nil
  /\ Zombies(p) = {}
  /\ IF Children(p) = {} \/ killed[p]
       THEN Return(p) /\ UNCHANGED chan
       ELSE Goto(p, "waitsleep") /\ chan' = [chan EXCEPT ![p] = p]
  /\ UNCHANGED <<state, pid, parent, killed, np, left, wait_lock, nextpid>>

wait_sleep(p) ==
  /\ At(p, "waitsleep")
  /\ sleep(p, "wait")
  /\ UNCHANGED <<pid, parent, chan, killed, np, left, wait_lock, nextpid>>

-----------------------------------------------------------------------------
(* sys_pause(n): tickslock is held from each test to sleep_prepare. *)
sys_pause(p, n) ==
  /\ At(p, "kernel") /\ p # initproc
  /\ left' = [left EXCEPT ![p] = n]
  /\ Goto(p, "pause")
  /\ UNCHANGED <<state, pid, parent, chan, killed, np, wait_lock, nextpid>>

pause_turn(p) ==
  /\ At(p, "pause")
  /\ IF left[p] = 0 \/ killed[p]
       THEN /\ Return(p)
            /\ left' = [left EXCEPT ![p] = 0]
            /\ UNCHANGED chan
       ELSE /\ Goto(p, "pausesleep")
            /\ chan' = [chan EXCEPT ![p] = Ticks]
            /\ UNCHANGED left
  /\ UNCHANGED <<state, pid, parent, killed, np, wait_lock, nextpid>>

pause_sleep(p) ==
  /\ At(p, "pausesleep")
  /\ sleep(p, "pause")
  /\ UNCHANGED <<pid, parent, chan, killed, np, left, wait_lock, nextpid>>

Elapse(n) == IF n > 0 THEN n - 1 ELSE 0

(* clockintr on hart 0: ticks++; wakeup(&ticks). *)
clockintr ==
  /\ left' = [p \in Procs |-> Elapse(left[p])]
  /\ Wake({Ticks})
  /\ UNCHANGED <<pid, parent, killed, pc, np, wait_lock, nextpid>>

-----------------------------------------------------------------------------
(* kkill(n): the first entry whose pid is n, whatever its state.  A killed *)
(* init would exit and panic, so nobody kills it here.                     *)
kkill(p, n) ==
  /\ At(p, "kernel") /\ p # initproc /\ n # pid[initproc]
  /\ \/ \E q \in Procs :
          /\ pid[q] = n
          /\ killed' = [killed EXCEPT ![q] = TRUE]
          /\ state' = [state EXCEPT ![q] = IF @ = "SLEEPING" THEN "ready" ELSE @]
          /\ Goto(p, Checked(killed'[p], "user"))
     \/ /\ \A q \in Procs : pid[q] # n
        /\ Return(p)
        /\ UNCHANGED <<state, killed>>
  /\ UNCHANGED <<parent, pid, chan, np, left, wait_lock, nextpid>>

-----------------------------------------------------------------------------
(* What the kernel does by itself, and what programs ask for: syscall.     *)
Kernel(p) ==
  \/ fork_parent(p) \/ fork_start(p)
  \/ kexit(p) \/ exit_zombie(p)
  \/ kwait_reap(p) \/ kwait_none(p) \/ wait_sleep(p)
  \/ pause_turn(p) \/ pause_sleep(p)

syscall(p) ==
  \/ kfork(p) \/ sys_exit(p) \/ sys_wait(p)
  \/ \E n \in 0 .. MaxPause : sys_pause(p, n)
  \/ \E n \in 0 .. MaxPid : kkill(p, n)

Next == clockintr \/ \E p \in Procs : Kernel(p) \/ syscall(p)
                         \/ usertrap(p) \/ usertrap_fault(p)

Spec == Init /\ [][Next]_vars

(* The kernel's work goes on, the clock ticks, a running program traps (a  *)
(* timer interrupt runs usertrap too), and init, which has no other work,  *)
(* calls wait.                                                             *)
FairSpec ==
  /\ Spec
  /\ WF_vars(clockintr)
  /\ \A p \in Procs : /\ WF_vars(Kernel(p))
                      /\ WF_vars(usertrap(p)) /\ WF_vars(syscall(p))
  /\ WF_vars(sys_wait(initproc))

-----------------------------------------------------------------------------
TypeOK ==
  /\ state \in [Procs -> {"UNUSED", "USED", "ready", "SLEEPING", "ZOMBIE"}]
  /\ pid \in [Procs -> 0 .. MaxPid]
  /\ parent \in [Procs -> Procs \cup {Nil}]
  /\ chan \in [Procs -> Procs \cup {NoChan, Ticks}]
  /\ killed \in [Procs -> BOOLEAN]
  /\ pc \in [Procs -> {"none", "user", "kernel", "alloc", "born", "wait",
              "waitsleep", "pause", "pausesleep", "exit", "zombie"}]
  /\ np \in [Procs -> Procs \cup {Nil}]
  /\ left \in [Procs -> 0 .. MaxPause]
  /\ wait_lock \in Procs \cup {Nil}
  /\ nextpid \in 2 .. MaxPid + 1

(* Every process but init, from the moment its parent is recorded until it *)
(* is reaped, has a parent that can still reap it: one that has not exited *)
(* and, once it is in kexit past reparent, has no children any more.       *)
HasReaper ==
  TypeOK /\ \A q \in Procs : parent[q] # Nil =>
    /\ state[parent[q]] \notin {"UNUSED", "USED", "ZOMBIE"}
    /\ pc[parent[q]] # "zombie"
    /\ state[q] # "UNUSED"

(* A process that sleeps in kwait has a child, and none of its children is *)
(* a zombie: no exit slips between the scan and the sleep.                 *)
WaiterHasLiveChild ==
  \A p \in Procs : state[p] = "SLEEPING" /\ pc[p] = "wait"
    => Children(p) # {} /\ Zombies(p) = {}

(* A process that sleeps in sys_pause still has time left, and is          *)
(* registered for the next tick.                                           *)
PauserInTime ==
  \A p \in Procs : state[p] = "SLEEPING" /\ pc[p] = "pause"
    => left[p] > 0 /\ chan[p] = Ticks

(* Nobody sleeps through what it waits for: an exit or a tick.  Both       *)
(* register under a lock and sleep after its release.                      *)
NoMissedWakeup == WaiterHasLiveChild /\ PauserInTime

(* An orphan that exits is reaped by init. *)
OrphansReaped ==
  \A q \in Procs : (state[q] = "ZOMBIE" /\ parent[q] = initproc)
                     ~> (state[q] = "UNUSED")

(* A killed process exits, unless it is waiting for a child (a kill that   *)
(* comes between the test of killed in kwait and the sleep does not cut    *)
(* the wait short).                                                        *)
KilledExits ==
  \A p \in Procs : (killed[p] /\ state[p] # "UNUSED")
    ~> (state[p] \in {"ZOMBIE", "UNUSED"} \/ (state[p] = "SLEEPING" /\ pc[p] = "wait"))
=============================================================================
