------------------------------- MODULE MCFile -------------------------------
(* Instances of File for TLC. *)
EXTENDS File

MCFiles == <<[inum |-> "x", size |-> 3]>>
=============================================================================
