----------------------------- MODULE MCConsole ------------------------------
(***************************************************************************)
(* A reader and a writer, an input buffer of two characters whose counters *)
(* wrap at four, a transmitter of two bytes.                               *)
(***************************************************************************)
EXTENDS Console

=============================================================================
