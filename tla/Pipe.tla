-------------------------------- MODULE Pipe --------------------------------
(***************************************************************************)
(* A pipe of xv6/kernel/pipe.c between several writers and readers.        *)
(*                                                                         *)
(* pipewrite's loop takes one byte per turn with pi->lock held; a turn is  *)
(* a step, since killed() looks at p->lock and may change between turns.   *)
(* piperead copies in one step.  sleep_prepare happens under pi->lock,     *)
(* sleep after its release, as a step of its own.  pc[p] is where p is:    *)
(*   "idle"            not in the pipe's code                              *)
(*   "write", "read"   at the top of the loop                              *)
(*   "wsleep", "rsleep"  registered, on the way to sleep                   *)
(***************************************************************************)
EXTENDS Integers, Sequences, FiniteSets

CONSTANTS
  Byte,
  Writer, Reader,   \* processes that inherit an end
  Caller,           \* those that use it; the others only close it
  Killable,         \* those somebody may kill
  Nil,
  PIPESIZE,
  Wrap,             \* nread and nwrite are unsigned ints: they wrap (2^32)
  MaxN,             \* bound: the longest read or write
  MaxKills          \* bound

ASSUME PipeAssumption ==
  /\ PIPESIZE \in Nat \ {0}
  /\ Wrap \in Nat /\ Wrap > PIPESIZE /\ Wrap % PIPESIZE = 0
  /\ MaxN \in Nat \ {0}
  /\ Writer # {} /\ Reader # {}
  /\ Writer \cap Reader = {} /\ Nil \notin Writer \cup Reader
  /\ Killable \subseteq Writer \cup Reader
  /\ Caller \subseteq Writer \cup Reader

Users == Writer \cup Reader

VARIABLES
  data, nread, nwrite, readopen, writeopen, lock,   \* struct pipe
  holds,          \* the processes that have their end open
  pc,
  chan,           \* the processes registered on &pi->nread or &pi->nwrite
  asleep,
  killed,
  n,              \* the argument n of the call
  i,              \* pipewrite's i
  out,            \* history: what the last successful piperead copied
  untold          \* history: since the readers were last woken, a writer
                  \* that was killed left bytes and woke nobody

pipe == <<data, nread, nwrite, readopen, writeopen>>
procs == <<holds, killed>>
vars == <<pipe, lock, procs, pc, chan, asleep, n, i, out, untold>>

Init ==
  /\ data \in [0 .. PIPESIZE - 1 -> Byte]       \* kalloc's page, uninitialised
  /\ nread = 0 /\ nwrite = 0
  /\ readopen = TRUE /\ writeopen = TRUE
  /\ lock = Nil
  /\ holds = Users
  /\ pc = [p \in Users |-> "idle"]
  /\ chan = {} /\ asleep = {}
  /\ killed = [p \in Users |-> FALSE]
  /\ n = [p \in Users |-> 0]
  /\ i = [p \in Users |-> 0]
  /\ out = <<>> /\ untold = FALSE

Used == (nwrite - nread) % Wrap
MutFull == nwrite = nread + PIPESIZE
Full == nwrite = (nread + PIPESIZE) % Wrap
Empty == nread = nwrite

Goto(p, l) == pc' = [pc EXCEPT ![p] = l]

(* wakeup on the channel of a side: &pi->nread is the readers', &pi->nwrite *)
(* the writers'.  It comes with pi->lock held.                             *)
MutWakeup(side) == chan' = chan \ Reader /\ asleep' = asleep \ Reader
wakeup(side) == chan' = chan \ side /\ asleep' = asleep \ side

(* Mutant of Leave: the lock is not released. *)
MutLeave(p) ==
  /\ Goto(p, "idle")
  /\ UNCHANGED lock
  /\ n' = [n EXCEPT ![p] = 0]
  /\ i' = [i EXCEPT ![p] = 0]

(* The call returns, without the lock. *)
Leave(p) ==
  /\ Goto(p, "idle")
  /\ lock' = Nil
  /\ n' = [n EXCEPT ![p] = 0]
  /\ i' = [i EXCEPT ![p] = 0]

-----------------------------------------------------------------------------
(* A write or read system call of k bytes. *)
call(p, k) ==
  /\ p \in Caller
  /\ pc[p] = "idle" /\ p \in holds /\ ~killed[p]
  /\ Goto(p, IF p \in Writer THEN "write" ELSE "read")
  /\ n' = [n EXCEPT ![p] = k]
  /\ i' = [i EXCEPT ![p] = 0]
  /\ UNCHANGED <<pipe, lock, holds, killed, chan, asleep, out, untold>>

(* p is at the top of its loop and has, or gets, the lock. *)
Turn(p, l) == pc[p] = l /\ p \notin asleep /\ lock \in {Nil, p}

Broken(w) == ~readopen \/ killed[w]

(* The return of -1 inside the loop, past the wakeup at its end; lock = w  *)
(* when bytes were stored since the lock was taken.                        *)
write_broken(w) ==
  /\ Turn(w, "write") /\ i[w] < n[w] /\ Broken(w)
  /\ Leave(w)
  /\ untold' = (untold \/ lock = w)
  /\ UNCHANGED <<pipe, procs, chan, asleep, out>>

(* The pipe is full: wake the readers, register, release. *)
write_full(w) ==
  /\ Turn(w, "write") /\ i[w] < n[w] /\ ~Broken(w) /\ Full
  /\ chan' = (chan \ Reader) \cup {w}
  /\ asleep' = asleep \ Reader
  /\ lock' = Nil
  /\ untold' = FALSE
  /\ Goto(w, "wsleep")
  /\ UNCHANGED <<pipe, procs, n, i, out>>

Counted(w) == [i EXCEPT ![w] = @ + 1]

write_byte(w, b) ==
  /\ Turn(w, "write") /\ i[w] < n[w] /\ ~Broken(w) /\ ~Full
  /\ data' = [data EXCEPT ![nwrite % PIPESIZE] = b]
  /\ nwrite' = (nwrite + 1) % Wrap
  /\ i' = Counted(w)
  /\ lock' = w
  /\ UNCHANGED <<nread, readopen, writeopen, procs, pc, chan, asleep, n, out, untold>>

(* All is written, or copyin fails. *)
write_end(w) ==
  /\ Turn(w, "write")
  /\ i[w] < n[w] => ~Broken(w) /\ ~Full
  /\ wakeup(Reader) /\ untold' = FALSE
  /\ Leave(w)
  /\ UNCHANGED <<pipe, procs, out>>

MustWait == Empty /\ writeopen

(* Nothing to read: register and release, or leave when killed. *)
read_empty(r) ==
  /\ Turn(r, "read") /\ MustWait
  /\ IF killed[r] THEN Leave(r) /\ UNCHANGED chan
                  ELSE /\ Goto(r, "rsleep")
                       /\ chan' = chan \cup {r}
                       /\ UNCHANGED <<lock, n, i>>
  /\ UNCHANGED <<pipe, procs, asleep, out, untold>>

Lesser(x, y) == IF x < y THEN x ELSE y

(* Copy k bytes: as many as are wanted and there, or fewer when copyout    *)
(* fails.                                                                  *)
After(k) == (nread + k) % Wrap

read_copy(r) ==
  /\ Turn(r, "read") /\ ~MustWait
  /\ LET all == Lesser(n[r], Used)
     IN  \E k \in 0 .. all :
           /\ nread' = After(k)
           /\ out' = IF k = 0 /\ all > 0         \* returns -1
                       THEN out
                       ELSE [j \in 1 .. k |-> data[(nread + j - 1) % PIPESIZE]]
  /\ wakeup(Writer)
  /\ Leave(r)
  /\ UNCHANGED <<data, nwrite, readopen, writeopen, procs, untold>>

(* sleep, unless a wakeup has come since sleep_prepare. *)
sleep(p) ==
  /\ pc[p] \in {"wsleep", "rsleep"}
  /\ asleep' = IF p \in chan THEN asleep \cup {p} ELSE asleep
  /\ Goto(p, IF p \in Writer THEN "write" ELSE "read")
  /\ UNCHANGED <<pipe, lock, procs, chan, n, i, out, untold>>

CloseWakes(side) == wakeup(side)

(* fileclose: the last one to hold an end runs pipeclose. *)
close(p) ==
  /\ pc[p] = "idle" /\ p \in holds /\ lock = Nil
  /\ holds' = holds \ {p}
  /\ writeopen' = (writeopen /\ holds' \cap Writer # {})
  /\ readopen' = (readopen /\ holds' \cap Reader # {})
  /\ \/ writeopen # writeopen' /\ CloseWakes(Reader) /\ untold' = FALSE
     \/ readopen # readopen' /\ CloseWakes(Writer) /\ UNCHANGED untold
     \/ UNCHANGED <<writeopen, readopen, chan, asleep, untold>>
  /\ UNCHANGED <<data, nread, nwrite, lock, killed, n, pc, i, out>>

(* kkill of a process; it is roused if it sleeps. *)
kkill(p) ==
  /\ p \in Killable /\ ~killed[p] /\ Cardinality({q \in Users : killed[q]}) < MaxKills
  /\ killed' = [killed EXCEPT ![p] = TRUE]
  /\ asleep' = asleep \ {p}
  /\ UNCHANGED <<pipe, lock, holds, n, pc, chan, i, out, untold>>

write_step(w) ==
  write_broken(w) \/ write_full(w) \/ write_end(w) \/ \E b \in Byte : write_byte(w, b)

read_step(r) == read_empty(r) \/ read_copy(r)

Next ==
  \/ \E w \in Writer : write_step(w)
  \/ \E r \in Reader : read_step(r)
  \/ \E p \in Users : sleep(p) \/ close(p) \/ kkill(p) \/ \E k \in 1 .. MaxN : call(p, k)

Spec == Init /\ [][Next]_vars

(* Calls go on, copyin and copyout do not fail for ever, and every process *)
(* in the end calls again or closes.                                       *)
FairSpec ==
  /\ Spec
  /\ \A w \in Writer \cap Caller : /\ SF_vars(write_step(w))
                                   /\ SF_vars(\E b \in Byte : write_byte(w, b))
  /\ \A r \in Reader \cap Caller : /\ SF_vars(read_step(r))
                                   /\ SF_vars(read_copy(r) /\ nread' # nread)
  /\ \A p \in Caller : WF_vars(sleep(p)) /\ SF_vars(close(p) \/ \E k \in 1 .. MaxN : call(p, k))
  /\ \A p \in Users \ Caller : SF_vars(close(p))

-----------------------------------------------------------------------------
TypeOK ==
  /\ data \in [0 .. PIPESIZE - 1 -> Byte]
  /\ nread \in 0 .. Wrap - 1 /\ nwrite \in 0 .. Wrap - 1
  /\ readopen \in BOOLEAN /\ writeopen \in BOOLEAN
  /\ lock \in Writer \cup {Nil}
  /\ holds \subseteq Users
  /\ pc \in [Users -> {"idle", "write", "read", "wsleep", "rsleep"}]
  /\ chan \subseteq Users /\ asleep \subseteq Users
  /\ killed \in [Users -> BOOLEAN]
  /\ n \in [Users -> 0 .. MaxN] /\ i \in [Users -> 0 .. MaxN]
  /\ out \in Seq(Byte) /\ untold \in BOOLEAN

(* The ring between nread and nwrite, in order. *)
Contents == [j \in 1 .. Used |-> data[(nread + j - 1) % PIPESIZE]]

F == INSTANCE Fifo WITH Size <- PIPESIZE, queue <- Contents, ropen <- readopen,
                        wopen <- writeopen

(* The ring implements a bounded queue: no byte is lost, invented,         *)
(* duplicated or reordered, over wraparounds of the ring and of the        *)
(* counters, and a read comes back empty only at end of file.              *)
IsFifo == F!FSpec

(* pipe.c:119, "DOC: pipe-empty": a reader sleeps only while the pipe can  *)
(* still be written, and is empty or was left by a killed writer that woke *)
(* nobody.  That writer (pipe.c:86) is the one exception: every other path *)
(* on which pipewrite gives up the lock wakes the readers, and after the   *)
(* next wakeup of the readers the pipe is empty again when one sleeps.     *)
ReaderSleepsOnEmpty ==
  \A r \in Reader : r \in asleep /\ lock = Nil => writeopen /\ (Empty \/ untold)

(* pipe.c:88, "DOC: pipewrite-full": a writer sleeps only while the pipe   *)
(* is full and can still be read.                                          *)
WriterSleepsOnFull ==
  \A w \in Writer : w \in asleep /\ lock = Nil => Full /\ readopen

(* Nobody sleeps on a pipe without a reason, up to that exception. *)
SleepersHaveReason == ReaderSleepsOnEmpty /\ WriterSleepsOnFull

(* Between one writer and one reader that go on using their ends or close  *)
(* them, and others that close theirs, no call lasts for ever: each of the *)
(* loops of pipewrite and piperead ends and each sleep in them is woken.   *)
CallsEnd == \A p \in Caller : pc[p] # "idle" ~> pc[p] = "idle"
=============================================================================
