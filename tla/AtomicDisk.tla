----------------------------- MODULE AtomicDisk -----------------------------
(***************************************************************************)
(* What the file-system log promises: system calls change a common view of *)
(* the blocks; from time to time, when no call is open, the whole view     *)
(* becomes durable at once; a crash takes the view back to what is         *)
(* durable.  So a crash never leaves a part of a system call behind.       *)
(***************************************************************************)
CONSTANTS Block, Val, Thread, InitVal

VARIABLES
  durable,   \* what a crash leaves of every block
  view,      \* what system calls see
  open       \* the threads between begin_op and end_op

avars == <<durable, view, open>>

AInit ==
  /\ durable = [b \in Block |-> InitVal]
  /\ view = durable
  /\ open = {}

ABegin(p) == open' = open \cup {p} /\ UNCHANGED <<durable, view>>

AWrite(p, b, v) ==
  /\ p \in open
  /\ view' = [view EXCEPT ![b] = v]
  /\ UNCHANGED <<durable, open>>

AEnd(p) == open' = open \ {p} /\ UNCHANGED <<durable, view>>

ACommit == open = {} /\ durable' = view /\ UNCHANGED <<view, open>>

ACrash == view' = durable /\ open' = {} /\ UNCHANGED durable

ANext ==
  \/ \E p \in Thread : ABegin(p) \/ AEnd(p)
  \/ \E p \in Thread, b \in Block, v \in Val : AWrite(p, b, v)
  \/ ACommit \/ ACrash

ASpec == AInit /\ [][ANext]_avars
=============================================================================
