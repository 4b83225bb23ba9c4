------------------------------ MODULE Console -------------------------------
(***************************************************************************)
(* The console (xv6/kernel/console.c) over the UART driver (uart.c): the   *)
(* line discipline in the interrupt handler, processes that read lines and *)
(* write bytes, the echo, and the device.                                  *)
(*                                                                         *)
(* cons.lock and tx_lock are variables; a process steps once per character *)
(* of consoleread's loop and twice per turn of uartwrite's, since the test *)
(* of LSR and the store to THR are not atomic.  sleep_prepare sets         *)
(* p->chan, wakeup clears it, and kkill rouses a sleeper without clearing  *)
(* it (see Proc).  The PLIC lets one CPU at a time handle the UART.        *)
(***************************************************************************)
EXTENDS Integers, Sequences, FiniteSets

CONSTANTS
  Proc, None,
  Reader, Writer,  \* who calls read, who calls write
  INPUT_BUF_SIZE,
  UINT,            \* cons.r, w and e wrap at UINT (2^32 in the code)
  FIFO,            \* bytes the transmitter takes at once (16)
  BATCH,           \* bytes consolewrite moves at a time (32)
  MaxRx, MaxTyped, MaxCalls, MaxLen   \* bounds

(* What is typed: a letter, Enter, ^D, ^U, Delete. *)
Char == {"a", "nl", "D"}
Key == Char \cup {"U", "H"}

ASSUME ConsoleAssumption ==
  /\ Reader \cup Writer = Proc
  /\ None \notin Proc \cup {"intr", "r", "tx"} /\ "intr" \notin Proc
  /\ INPUT_BUF_SIZE \in Nat \ {0}
  /\ UINT \in Nat /\ UINT % INPUT_BUF_SIZE = 0 /\ UINT > INPUT_BUF_SIZE
  /\ FIFO \in Nat /\ FIFO >= 2
  /\ BATCH \in Nat \ {0} /\ MaxLen \in Nat

VARIABLES
  buf, r, w, e,     \* cons
  lock,             \* who holds cons.lock: a process, "intr" or None
  pc, n, target,    \* what each process does, and consoleread's counters
  left, batch,      \* bytes consolewrite, uartwrite have yet to write
  chan, killed,
  tx_lock,
  intr, echo,       \* the handler, and the bytes it has yet to echo
  rx, tx,           \* bytes received and not read; bytes in the transmitter
  thri,             \* the transmitter became empty, and no ISR read since
  ready, editing,   \* what was typed, edited: whole lines, and the last one
  eof, lost,        \* history: ^Ds; bytes stored in a full transmitter
  typed, calls
cons == <<buf, r, w, e>>
reads == <<n, target>>
device == <<rx, tx, thri, lost>>
history == <<ready, editing, eof>>
output == <<left, batch, tx_lock>>
vars == <<cons, lock, pc, reads, chan, killed, output, intr, echo, device, history,
          typed, calls>>

Init ==
  /\ buf = [k \in 0 .. INPUT_BUF_SIZE - 1 |-> "a"] /\ r = 0 /\ w = 0 /\ e = 0
  /\ lock = None /\ tx_lock = None
  /\ pc = [p \in Proc |-> "idle"] /\ n = [p \in Proc |-> 0]
  /\ target = [p \in Proc |-> 0] /\ left = [p \in Proc |-> 0]
  /\ batch = [p \in Proc |-> 0]
  /\ chan = [p \in Proc |-> None] /\ killed = [p \in Proc |-> FALSE]
  /\ intr = "off" /\ echo = 0
  /\ rx = <<>> /\ tx = 0 /\ thri = FALSE
  /\ ready = <<>> /\ editing = <<>>
  /\ eof = [taken |-> 0, returned |-> 0]
  /\ lost = 0
  /\ typed = 0 /\ calls = 0

At(p, l) == pc[p] = l
Goto(p, l) == pc' = [pc EXCEPT ![p] = l]

(* Unsigned arithmetic on the ring's counters. *)
Inc(x) == (x + 1) % UINT
Dec(x) == (x + UINT - 1) % UINT
Minus(x, y) == (x + UINT - y) % UINT
Slot(x) == x % INPUT_BUF_SIZE

(* wakeup: chan is cleared, and a process that sleeps goes on. *)
Woken(c) == [p \in Proc |-> IF chan[p] = c THEN None ELSE chan[p]]
Resumed(S) ==
  [p \in Proc |-> IF p \notin S THEN pc[p]
                  ELSE IF pc[p] = "asleep" THEN "woken"
                  ELSE IF pc[p] = "tx_asleep" THEN "tx_loop" ELSE pc[p]]
Waiters(c) == {p \in Proc : chan[p] = c}

-----------------------------------------------------------------------------
(* consoleread *)

consoleread(p, k) ==
  /\ At(p, "idle") /\ calls < MaxCalls /\ lock = None /\ calls' = calls + 1
  /\ lock' = p
  /\ n' = [n EXCEPT ![p] = k] /\ target' = [target EXCEPT ![p] = k]
  /\ Goto(p, "read")
  /\ UNCHANGED <<cons, chan, killed, output, intr, echo, device, history, typed>>

Return(p) == n' = [n EXCEPT ![p] = 0] /\ target' = [target EXCEPT ![p] = 0]

(* Nothing to read: it returns -1 if killed, and sleeps otherwise. *)
read_wait(p) ==
  /\ At(p, "read") /\ n[p] > 0 /\ r = w
  /\ lock' = None
  /\ IF killed[p]
     THEN Goto(p, "idle") /\ UNCHANGED chan /\ Return(p)
     ELSE /\ Goto(p, "falling") /\ chan' = [chan EXCEPT ![p] = "r"]
          /\ UNCHANGED reads
  /\ UNCHANGED <<cons, killed, output, intr, echo, device, history, typed, calls>>

(* sleep, in consoleread (falling, asleep) and uartwrite (the same, tx_). *)
sleep(p) ==
  /\ \/ /\ At(p, "falling")
        /\ Goto(p, IF chan[p] = None THEN "woken" ELSE "asleep")
     \/ /\ At(p, "tx_falling")
        /\ Goto(p, IF chan[p] = None THEN "tx_loop" ELSE "tx_asleep")
  /\ UNCHANGED <<cons, lock, reads, chan, killed, output, intr, echo, device, history,
                 typed, calls>>

read_woken(p) ==
  /\ At(p, "woken") /\ lock = None
  /\ lock' = p /\ Goto(p, "read")
  /\ UNCHANGED <<cons, reads, chan, killed, output, intr, echo, device, history, typed, calls>>

(* Mutant of Kept: ^D is always consumed. *)
MutKept(p) == FALSE
(* Is the ^D just read put back? *)
Kept(p) == n[p] < target[p]

(* A character; copied says whether either_copyout succeeds. *)
read_char(p, copied) ==
  LET c == buf[Slot(r)] IN
  /\ At(p, "read") /\ n[p] > 0 /\ r # w
  /\ IF c = "D"
     THEN /\ r' = IF Kept(p) THEN r ELSE Inc(r)
          /\ ready' = IF Kept(p) THEN ready ELSE Tail(ready)
          /\ eof' = IF n[p] < target[p] THEN eof
                    ELSE [eof EXCEPT !.returned = @ + 1]
     ELSE /\ r' = Inc(r)
          /\ ready' = Tail(ready)
          /\ UNCHANGED eof
  /\ IF c \in {"D", "nl"} \/ ~copied
     THEN lock' = None /\ Goto(p, "idle") /\ Return(p)
     ELSE n' = [n EXCEPT ![p] = @ - 1] /\ UNCHANGED <<lock, pc, target>>
  /\ UNCHANGED <<buf, w, e, chan, killed, output, intr, echo, device, editing,
                 typed, calls>>

read_full(p) ==
  /\ At(p, "read") /\ n[p] = 0
  /\ lock' = None /\ Goto(p, "idle") /\ Return(p)
  /\ UNCHANGED <<cons, chan, killed, output, intr, echo, device, history, typed, calls>>

(* chan is left as it is; a process that sleeps goes on. *)
kkill(p) ==
  /\ ~killed[p] /\ ~At(p, "idle")
  /\ killed' = [killed EXCEPT ![p] = TRUE]
  /\ pc' = Resumed({p})
  /\ UNCHANGED <<cons, lock, reads, chan, output, intr, echo, device, history, typed, calls>>

-----------------------------------------------------------------------------
(* consolewrite and uartwrite *)

consolewrite(p, k) ==
  /\ At(p, "idle") /\ calls < MaxCalls /\ calls' = calls + 1
  /\ left' = [left EXCEPT ![p] = k]
  /\ Goto(p, "write")
  /\ UNCHANGED <<cons, lock, reads, chan, killed, batch, tx_lock, intr, echo, device,
                 history, typed>>

nn(k) == IF k < BATCH THEN k ELSE BATCH

(* The next batch; without one, or if it cannot be copied in, the end. *)
uartwrite(p) ==
  /\ At(p, "write") /\ left[p] > 0 /\ tx_lock = None
  /\ batch' = [batch EXCEPT ![p] = nn(left[p])]
  /\ left' = [left EXCEPT ![p] = @ - nn(left[p])]
  /\ tx_lock' = p /\ Goto(p, "tx_loop")
  /\ UNCHANGED <<cons, lock, reads, chan, killed, intr, echo, device, history, typed, calls>>

write_end(p) ==
  /\ At(p, "write")
  /\ left' = [left EXCEPT ![p] = 0] /\ Goto(p, "idle")
  /\ UNCHANGED <<cons, lock, reads, chan, killed, batch, tx_lock, intr, echo, device, history,
                 typed, calls>>

(* Mutant of TxIdle: there is room for a byte. *)
MutTxIdle == tx < FIFO
(* LSR_TX_IDLE *)
TxIdle == tx = 0

(* sleep_prepare, and then the test of LSR. *)
tx_prepare(p) ==
  /\ At(p, "tx_loop") /\ batch[p] > 0
  /\ chan' = [chan EXCEPT ![p] = "tx"] /\ Goto(p, "tx_test")
  /\ UNCHANGED <<cons, lock, reads, killed, output, intr, echo, device, history, typed, calls>>

tx_test(p) ==
  /\ At(p, "tx_test")
  /\ Goto(p, IF TxIdle THEN "tx_store" ELSE "tx_falling")
  /\ UNCHANGED <<cons, lock, reads, chan, killed, output, intr, echo, device, history,
                 typed, calls>>

(* A byte is stored in THR. *)
Store ==
  IF tx < FIFO THEN tx' = tx + 1 /\ UNCHANGED lost ELSE lost' = lost + 1 /\ UNCHANGED tx

tx_store(p) ==
  /\ At(p, "tx_store") /\ Store
  /\ batch' = [batch EXCEPT ![p] = @ - 1] /\ Goto(p, "tx_loop")
  /\ UNCHANGED <<cons, lock, reads, chan, killed, left, tx_lock, intr, echo, rx, thri,
                 history, typed, calls>>

tx_end(p) ==
  /\ At(p, "tx_loop") /\ batch[p] = 0
  /\ tx_lock' = None /\ Goto(p, "write")
  /\ UNCHANGED <<cons, lock, reads, chan, killed, left, batch, intr, echo, device, history,
                 typed, calls>>

-----------------------------------------------------------------------------
(* uartintr and consoleintr *)

(* The interrupt is taken and ISR read. *)
uartintr ==
  /\ intr = "off" /\ (thri \/ rx # <<>>)
  /\ intr' = "tx" /\ thri' = FALSE
  /\ UNCHANGED <<cons, lock, pc, reads, chan, killed, output, echo, rx, tx, lost, history,
                 typed, calls>>

(* Mutant of Wakes: input is handled instead. *)
MutWakes == TxIdle /\ rx = <<>>
Wakes == TxIdle

intr_tx ==
  /\ intr = "tx" /\ intr' = "rx"
  /\ IF Wakes THEN chan' = Woken("tx") /\ pc' = Resumed(Waiters("tx"))
     ELSE UNCHANGED <<chan, pc>>
  /\ UNCHANGED <<cons, lock, reads, killed, output, echo, device, history, typed, calls>>

(* What typing k does to the ring: its contents, w and e. *)
Stop ==      \* where ^U stops
  LET k == {j \in 1 .. Minus(e, w) : buf[Slot((w + j - 1) % UINT)] = "nl"} IN
  (w + (IF k = {} THEN 0 ELSE CHOOSE j \in k : \A l \in k : l <= j)) % UINT

Room == Minus(e, r) < INPUT_BUF_SIZE

(* Mutant of Commits: a line that fills the buffer is not handed over. *)
MutCommits(k) == k \in {"nl", "D"}
Commits(k) == k \in {"nl", "D"} \/ Minus(Inc(e), r) = INPUT_BUF_SIZE

Notifies(k) == Commits(k)

consoleintr(k) ==
  \/ /\ k = "U" /\ e' = Stop /\ echo' = 3 * Minus(e, Stop)
     /\ UNCHANGED <<buf, r, w, chan, pc>>
  \/ /\ k = "H" /\ e' = (IF e # w THEN Dec(e) ELSE e) /\ echo' = (IF e # w THEN 3 ELSE 0)
     /\ UNCHANGED <<buf, r, w, chan, pc>>
  \/ /\ k \in Char /\ ~Room /\ echo' = 0
     /\ UNCHANGED <<cons, chan, pc>>
  \/ /\ k \in Char /\ Room /\ echo' = 1
     /\ buf' = [buf EXCEPT ![Slot(e)] = k] /\ e' = Inc(e)
     /\ w' = IF Commits(k) THEN Inc(e) ELSE w
     /\ IF Notifies(k) THEN chan' = Woken("r") /\ pc' = Resumed(Waiters("r"))
        ELSE UNCHANGED <<chan, pc>>
     /\ UNCHANGED r

(* What it should do to the lines typed so far. *)
Typed(k) ==
  LET line == Append(editing, k)  long == Len(ready) + Len(line) IN
  IF k = "U" THEN <<ready, <<>>>>
  ELSE IF k = "H"
    THEN <<ready, IF editing = <<>> THEN <<>> ELSE SubSeq(editing, 1, Len(editing) - 1)>>
  ELSE IF long > INPUT_BUF_SIZE THEN <<ready, editing>>
  ELSE IF k \in {"nl", "D"} \/ long = INPUT_BUF_SIZE THEN <<ready \o line, <<>>>>
  ELSE <<ready, line>>

(* The handler's loop: the next byte received, under cons.lock. *)
intr_rx ==
  /\ intr = "rx" /\ rx # <<>> /\ lock = None
  /\ consoleintr(Head(rx))
  /\ ready' = Typed(Head(rx))[1] /\ editing' = Typed(Head(rx))[2]
  /\ eof' = IF Head(rx) = "D" /\ Room THEN [eof EXCEPT !.taken = @ + 1] ELSE eof
  /\ rx' = Tail(rx) /\ lock' = "intr" /\ intr' = "echo"
  /\ UNCHANGED <<reads, killed, output, tx, thri, lost, typed, calls>>

(* uartputc_sync: it spins until the transmitter is empty, then stores. *)
echo_test ==
  /\ intr = "echo" /\ echo > 0 /\ TxIdle
  /\ intr' = "put"
  /\ UNCHANGED <<cons, lock, pc, reads, chan, killed, output, echo, device, history, typed,
                 calls>>

echo_store ==
  /\ intr = "put" /\ Store
  /\ echo' = echo - 1 /\ intr' = "echo"
  /\ UNCHANGED <<cons, lock, pc, reads, chan, killed, output, rx, thri, history, typed,
                 calls>>

echo_end ==
  /\ intr = "echo" /\ echo = 0
  /\ lock' = None /\ intr' = "rx"
  /\ UNCHANGED <<cons, pc, reads, chan, killed, output, echo, device, history, typed, calls>>

intr_end ==
  /\ intr = "rx" /\ rx = <<>> /\ intr' = "off"
  /\ UNCHANGED <<cons, lock, pc, reads, chan, killed, output, echo, device, history, typed,
                 calls>>

-----------------------------------------------------------------------------
(* The device *)

type(k) ==
  /\ typed < MaxTyped /\ Len(rx) < MaxRx /\ typed' = typed + 1
  /\ rx' = Append(rx, k)
  /\ UNCHANGED <<cons, lock, pc, reads, chan, killed, output, intr, echo, tx, thri, lost,
                 history, calls>>

transmit ==
  /\ tx > 0 /\ tx' = tx - 1 /\ thri' = (thri \/ tx = 1)
  /\ UNCHANGED <<cons, lock, pc, reads, chan, killed, output, intr, echo, rx, lost, history,
                 typed, calls>>

-----------------------------------------------------------------------------

step(p) ==
  \/ read_wait(p)
  \/ sleep(p)
  \/ read_woken(p)
  \/ \E copied \in BOOLEAN : read_char(p, copied)
  \/ read_full(p)
  \/ uartwrite(p)
  \/ write_end(p)
  \/ tx_prepare(p)
  \/ tx_test(p)
  \/ tx_store(p)
  \/ tx_end(p)

handler ==
  \/ uartintr
  \/ intr_tx
  \/ intr_rx
  \/ echo_test
  \/ echo_store
  \/ echo_end
  \/ intr_end

Next ==
  \/ \E p \in Reader, k \in 1 .. MaxLen : consoleread(p, k)
  \/ \E p \in Writer, k \in 1 .. MaxLen : consolewrite(p, k)
  \/ \E p \in Proc : step(p)
  \/ \E p \in Reader : kkill(p)
  \/ handler
  \/ \E k \in Key : type(k)
  \/ transmit

Spec == Init /\ [][Next]_vars

-----------------------------------------------------------------------------
(* Properties *)

TypeOK ==
  /\ buf \in [0 .. INPUT_BUF_SIZE - 1 -> Char] /\ {r, w, e} \subseteq 0 .. UINT - 1
  /\ lock \in Proc \cup {None, "intr"} /\ tx_lock \in Proc \cup {None}
  /\ n \in [Proc -> 0 .. MaxLen] /\ target \in [Proc -> 0 .. MaxLen]
  /\ left \in [Proc -> 0 .. MaxLen] /\ batch \in [Proc -> 0 .. BATCH]
  /\ chan \in [Proc -> {None, "r", "tx"}] /\ killed \in [Proc -> BOOLEAN]
  /\ intr \in {"off", "tx", "rx", "echo", "put"} /\ echo \in 0 .. 3 * INPUT_BUF_SIZE
  /\ tx \in 0 .. FIFO /\ rx \in Seq(Key) /\ thri \in BOOLEAN

Between(x, y) == [j \in 1 .. Minus(y, x) |-> buf[Slot((x + j - 1) % UINT)]]

(* The ring holds exactly what was typed and not read yet, the edits of    *)
(* the last line applied, and only whole lines (or a full buffer) are      *)
(* readable: also when the unsigned counters wrap, when the buffer is      *)
(* full, and when consoleread puts a ^D back.                              *)
LineDiscipline ==
  TypeOK /\ (lock # "intr" => Between(r, w) = ready /\ Between(w, e) = editing)

(* Every ^D that was typed (and fitted) makes exactly one read return 0    *)
(* bytes, however many bytes of its line the reader before it took         *)
(* ("Save ^D for next time, to make sure caller gets a 0-byte result").    *)
EofReturnedOnce ==
  eof.taken = eof.returned + Cardinality({j \in DOMAIN ready : ready[j] = "D"})

(* A process that consoleread put to sleep, or is about to, has nothing to *)
(* read: no line arrives between its test and its sleep unnoticed.         *)
ReaderAwake ==
  \A p \in Proc : pc[p] \in {"falling", "asleep"} /\ chan[p] = "r" => r = w

(* uartwrite and the echo test the transmitter and then store, and neither *)
(* holds a lock of the other; no byte is stored in a full transmitter.     *)
NoByteLost == lost = 0

(* A process that uartwrite put to sleep, or is about to, will be woken:   *)
(* the transmitter is busy, its interrupt is due, or the handler is about  *)
(* to look at LSR.  No interrupt is lost between the test of LSR and the   *)
(* sleep, nor to the handling of input or the echo.                        *)
WriterAwake ==
  \A p \in Proc : pc[p] \in {"tx_falling", "tx_asleep"} /\ chan[p] = "tx" =>
    tx > 0 \/ thri \/ intr = "tx"

(* Whoever sleeps on the console or the transmitter has a reason to, and   *)
(* will be woken.                                                          *)
NobodyStuck == ReaderAwake /\ WriterAwake
=============================================================================
