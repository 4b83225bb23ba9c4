------------------------------- MODULE MCSched -------------------------------
(* Instances of Sched for TLC. *)
EXTENDS Sched

(* Slices of 1 tick at level 0 and 2 ticks below. *)
MCQuantum == [q \in 0 .. NLevel - 1 |-> IF q = 0 THEN 1 ELSE 2]
=============================================================================
