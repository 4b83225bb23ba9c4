------------------------------- MODULE MCProc -------------------------------
(* Instance of Proc for TLC: liveness is checked, so no symmetry is used. *)
EXTENDS Proc
=============================================================================
