------------------------------ MODULE MCMemory ------------------------------
(***************************************************************************)
(* A process that runs the program has eleven pages (its trapframe, six of *)
(* page table, text, data, guard and stack): two fit in 23, and a fork or  *)
(* an exec beside them runs out of memory; in 16 the first exec just       *)
(* succeeds, and nearly every call after it fails somewhere.               *)
(***************************************************************************)
EXTENDS Memory
MCProgram ==
  {<<[va |-> 0, memsz |-> 1, filesz |-> 1, w |-> FALSE],
     [va |-> 2, memsz |-> 1, filesz |-> 0, w |-> TRUE]>>}
MCIncrements == {-3, 3}
=============================================================================
