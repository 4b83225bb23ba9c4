-------------------------------- MODULE Mlfq --------------------------------
(***************************************************************************)
(* The ready queues of the MLFQ scheduler (xv6/kernel/proc.c, #ifdef       *)
(* mlfq): one ring of NPROC slots per priority level, with head, tail and  *)
(* len, all of it protected by mlfq_lock.                                  *)
(*                                                                         *)
(* A ring state is a record with one field per C variable; push and pop    *)
(* are functions from ring state to ring state, so that a caller may       *)
(* compose them in one step as the code does under mlfq_lock.              *)
(*                                                                         *)
(* C's % truncates towards zero, so (head-1)%NPROC is -1 when head is 0    *)
(* and mlfqi[q][-1] is, in the memory of the two-dimensional array, the    *)
(* last slot of the row before: Cell models that layout.                   *)
(***************************************************************************)
EXTENDS Integers

CONSTANTS
  NPROC,     \* entries of proc[]; also the capacity of each ring (64)
  NLevel,    \* number of priority levels (4)
  Quantum    \* Quantum[q]: the time slice of level q (1, 4, 8, 16)

ASSUME MlfqAssumption ==
  /\ NPROC \in Nat \ {0}
  /\ NLevel \in Nat \ {0}
  /\ Quantum \in [0 .. NLevel - 1 -> Nat \ {0}]
  /\ Quantum[0] = 1

Procs == 1 .. NPROC      \* proc[0] .. proc[NPROC-1]
Nil == 0                 \* the null pointer

Level == 0 .. NLevel - 1
Index == 0 .. NPROC - 1

(* C's remainder of two ints, b > 0. *)
CMod(a, b) == IF a >= 0 THEN a % b ELSE -((-a) % b)

(* The cell of memory that mlfqi[q][i] denotes, -NPROC < i < NPROC. *)
Cell(q, i) == IF i >= 0 THEN <<q, i>> ELSE <<q - 1, NPROC + i>>

(* The zero-initialised globals at boot. *)
EmptyRing ==
  [ mlfqi |-> [c \in Level \X Index |-> Nil],
    head  |-> [q \in Level |-> 0],
    tail  |-> [q \in Level |-> 0],
    len   |-> [q \in Level |-> 0],
    inq   |-> [p \in Procs |-> FALSE] ]

(* The subscript push(p, q, t) stores at: the tail, or one before the head. *)
Slot(r, q, t) == IF t THEN r.tail[q] ELSE CMod(r.head[q] - 1, NPROC)

push(r, p, q, t) ==
  IF r.inq[p] THEN r
  ELSE [r EXCEPT !.mlfqi[Cell(q, Slot(r, q, t))] = p,
                 !.tail[q] = IF t THEN CMod(@ + 1, NPROC) ELSE @,
                 !.head[q] = IF t THEN @ ELSE Slot(r, q, t),
                 !.len[q] = @ + 1,
                 !.inq[p] = TRUE]

(* Cells that hold the waiting entries of level q. *)
LiveCells(r, q) ==
  { Cell(q, CMod(r.head[q] + k, NPROC)) : k \in 0 .. r.len[q] - 1 }

(* The pointer pop(q) returns when len[q] # 0 ... *)
Front(r, q) == r.mlfqi[Cell(q, r.head[q])]

(* pop leaves the stale pointer in its slot.  The model erases a slot that *)
(* no level counts among its entries; were one ever read again before it   *)
(* is written, the reader would find Nil.                                  *)
Forget(r) ==
  LET live == UNION {LiveCells(r, q) : q \in Level}
  IN  [r EXCEPT !.mlfqi = [c \in Level \X Index |->
                             IF c \in live THEN @[c] ELSE Nil]]

(* ... and what it leaves behind. *)
pop(r, q) ==
  Forget([r EXCEPT !.head[q] = CMod(@ + 1, NPROC),
                   !.len[q] = @ - 1,
                   !.inq[Front(r, q)] = FALSE])

-----------------------------------------------------------------------------
(* The places, as <<level, cell>>, where p waits. *)
PlacesOf(r, p) ==
  { x \in Level \X (Level \X Index) :
      x[2] \in LiveCells(r, x[1]) /\ r.mlfqi[x[2]] = p }

(* push(p, q, t) would overwrite an entry that is still waiting. *)
Overwrites(r, p, q, t) ==
  ~r.inq[p] /\ \E l \in Level : Cell(q, Slot(r, q, t)) \in LiveCells(r, l)
=============================================================================
