----------------------------- MODULE MCBlockdev -----------------------------
(***************************************************************************)
(* Four processes over three buffers and four blocks, so that bget may     *)
(* find no buffer; two requests at a time and a descriptor to spare; the   *)
(* rings' counters wrap after seven requests.  One block is read, the      *)
(* others read and written.                                                *)
(***************************************************************************)
EXTENDS Blockdev, TLC
CONSTANTS k1, v1
MCRequest == {<<k1, None>>} \cup ((Block \ {k1}) \X {v1})
Symmetric == Permutations(Proc) \cup Permutations(Block \ {k1})

(* The entries of the rings that were consumed, and the requests that are  *)
(* over, are read by no action.                                            *)
Ring(r, lo) == <<r.idx, [i \in 0 .. ((r.idx - lo + IDX) % IDX) - 1 |->
                          r.ring[(lo + i) % NUM]]>>
View == <<cache, pc, b, op, asleep, free, desc,
          [d \in Desc |-> IF info[d].b = 0 THEN <<>> ELSE <<info[d]>>],
          Ring(avail, seen), Ring(used, used_idx), used_idx, intr, line, seen,
          doing, store, ops, panic>>
=============================================================================
