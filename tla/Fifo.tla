-------------------------------- MODULE Fifo --------------------------------
(***************************************************************************)
(* What a pipe promises: a bounded first-in first-out queue of bytes whose *)
(* two ends are open or closed for good.  Bytes enter only while the read  *)
(* end is open; a read takes a prefix, as much as it asks for or all there *)
(* is, and end of file is seen only when nothing is left and nothing can   *)
(* come.                                                                   *)
(***************************************************************************)
EXTENDS Integers, Sequences

CONSTANTS Byte, Size

VARIABLES
  queue,         \* written and not yet read
  out,           \* what the last read took
  ropen, wopen   \* the ends

fvars == <<queue, out, ropen, wopen>>

FInit == queue = <<>> /\ out = <<>> /\ ropen = TRUE /\ wopen = TRUE

FWrite(b) ==
  /\ ropen /\ wopen /\ Len(queue) < Size
  /\ queue' = Append(queue, b)
  /\ UNCHANGED <<out, ropen, wopen>>

FRead(k) ==
  /\ ropen
  /\ k = 0 => ~wopen /\ queue = <<>>
  /\ out' = SubSeq(queue, 1, k)
  /\ queue' = SubSeq(queue, k + 1, Len(queue))
  /\ UNCHANGED <<ropen, wopen>>

FClose ==
  /\ \/ ropen' = FALSE /\ UNCHANGED wopen
     \/ wopen' = FALSE /\ UNCHANGED ropen
  /\ UNCHANGED <<queue, out>>

FNext ==
  \/ \E b \in Byte : FWrite(b)
  \/ \E k \in 0 .. Len(queue) : FRead(k)
  \/ FClose

FSpec == FInit /\ [][FNext]_fvars
=============================================================================
