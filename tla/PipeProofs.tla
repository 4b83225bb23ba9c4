----------------------------- MODULE PipeProofs -----------------------------
(***************************************************************************)
(* Proofs about Pipe, for every size of the ring, every width of the       *)
(* counters, and every number of readers and writers.                      *)
(***************************************************************************)
EXTENDS Pipe, SequenceTheorems, TLAPS

-----------------------------------------------------------------------------
(* Remainders. *)

(* The remainder is the only number of 0 .. P - 1 that differs by a        *)
(* multiple of P.                                                          *)
LEMMA ModUnique ==
  ASSUME NEW P \in Nat \ {0}, NEW q \in Int, NEW r \in 0 .. P - 1
  PROVE  (P * q + r) % P = r
  OBVIOUS

(* Quotient and remainder, as TLA+ defines them. *)
LEMMA DivMod ==
  ASSUME NEW x \in Int, NEW P \in Nat \ {0}
  PROVE  /\ x \div P \in Int /\ x % P \in 0 .. P - 1
         /\ x = P * (x \div P) + (x % P)
  OBVIOUS

(* A multiple of P may be added. *)
LEMMA ModShift ==
  ASSUME NEW P \in Nat \ {0}, NEW x \in Int, NEW m \in Int
  PROVE  (x + P * m) % P = x % P
  <1> DEFINE r == x % P  q == x \div P  s == q + m
  <1>1. q \in Int /\ r \in 0 .. P - 1 /\ x = P * q + r
    BY DivMod
  <1> HIDE DEF r, q
  <1>2. s \in Int /\ x + P * m = P * s + r
    BY <1>1
  <1> HIDE DEF s
  <1>3. (P * s + r) % P = r
    BY <1>1, <1>2, ModUnique, Zenon
  <1>4. QED
    BY <1>2, <1>3 DEF r

(* Numbers less than P apart have different remainders. *)
LEMMA ModDistinct ==
  ASSUME NEW P \in Nat \ {0}, NEW x \in Int, NEW d \in 1 .. P - 1
  PROVE  (x + d) % P # x % P
  <1> DEFINE r == x % P  q == x \div P
  <1>1. q \in Int /\ r \in 0 .. P - 1 /\ x = P * q + r
    BY DivMod
  <1> HIDE DEF r, q
  <1>2. CASE r + d < P
    <2> DEFINE u == r + d
    <2>1. u \in 0 .. P - 1 /\ x + d = P * q + u /\ u # r
      BY <1>1, <1>2
    <2> HIDE DEF u
    <2>2. (P * q + u) % P = u
      BY <1>1, <2>1, ModUnique, Zenon
    <2>3. QED
      BY <2>1, <2>2 DEF r
  <1>3. CASE r + d >= P
    <2> DEFINE u == r + d - P  s == q + 1
    <2>1. u \in 0 .. P - 1 /\ s \in Int /\ x + d = P * s + u /\ u # r
      BY <1>1, <1>3
    <2> HIDE DEF u, s
    <2>2. (P * s + u) % P = u
      BY <2>1, ModUnique, Zenon
    <2>3. QED
      BY <2>1, <2>2 DEF r
  <1>4. QED
    BY <1>1, <1>2, <1>3

(* The remainder of a number at most one turn away from its range. *)
LEMMA WrapOnce ==
  ASSUME NEW W \in Nat \ {0}, NEW x \in Int, -W <= x, x < 2 * W
  PROVE  x % W = IF x < 0 THEN x + W ELSE IF x < W THEN x ELSE x - W
  <1>1. CASE x < 0
    BY <1>1
  <1>2. CASE x \in 0 .. W - 1
    BY <1>2
  <1>3. CASE x >= W
    BY <1>3
  <1>4. QED
    BY <1>1, <1>2, <1>3

-----------------------------------------------------------------------------
(* The ring. *)

Counter == 0 .. Wrap - 1

(* A turn of the counters is a whole number of turns of the ring. *)
LEMMA SlotWraps ==
  ASSUME NEW x \in Int
  PROVE  /\ (x + Wrap) % PIPESIZE = x % PIPESIZE
         /\ (x - Wrap) % PIPESIZE = x % PIPESIZE
  <1>1. PIPESIZE \in Nat \ {0} /\ Wrap \in Nat /\ Wrap % PIPESIZE = 0
    BY PipeAssumption
  <1> DEFINE m == Wrap \div PIPESIZE  k == -m
  <1>2. m \in Int /\ Wrap = PIPESIZE * m
    BY <1>1
  <1> HIDE DEF m
  <1>3. k \in Int /\ x - Wrap = x + PIPESIZE * k /\ x + Wrap = x + PIPESIZE * m
    BY <1>1, <1>2
  <1> HIDE DEF k
  <1>4. (x + PIPESIZE * k) % PIPESIZE = x % PIPESIZE
    BY <1>1, <1>3, ModShift, Zenon
  <1>5. (x + PIPESIZE * m) % PIPESIZE = x % PIPESIZE
    BY <1>1, <1>2, ModShift, Zenon
  <1>6. QED
    BY <1>3, <1>4, <1>5

Gap(r, w) == (w - r) % Wrap

(* What the difference of two counters says. *)
LEMMA GapIs ==
  ASSUME NEW r \in Counter, NEW w \in Counter
  PROVE  /\ Gap(r, w) \in 0 .. Wrap - 1
         /\ Gap(r, w) = IF w >= r THEN w - r ELSE w - r + Wrap
         /\ Gap(r, w) = 0 <=> r = w
         /\ Gap(r, w) <= PIPESIZE =>
              (w = (r + PIPESIZE) % Wrap <=> Gap(r, w) = PIPESIZE)
         /\ w % PIPESIZE = (r + Gap(r, w)) % PIPESIZE
  <1>1. PIPESIZE \in Nat \ {0} /\ Wrap \in Nat \ {0} /\ Wrap > PIPESIZE
    BY PipeAssumption
  <1> DEFINE d == w - r  f == r + PIPESIZE
  <1>2. d \in Int /\ -Wrap <= d /\ d < 2 * Wrap /\ f \in Int /\ -Wrap <= f /\ f < 2 * Wrap
    BY <1>1 DEF Counter
  <1>3. d % Wrap = IF d < 0 THEN d + Wrap ELSE IF d < Wrap THEN d ELSE d - Wrap
    <2> HIDE DEF d
    <2>1. QED BY <1>1, <1>2, WrapOnce, Zenon
  <1>4. f % Wrap = IF f < 0 THEN f + Wrap ELSE IF f < Wrap THEN f ELSE f - Wrap
    <2> HIDE DEF f
    <2>1. QED BY <1>1, <1>2, WrapOnce, Zenon
  <1>5. Gap(r, w) = IF w >= r THEN w - r ELSE w - r + Wrap
    BY <1>1, <1>3 DEF Counter, Gap
  <1>6. w % PIPESIZE = (r + Gap(r, w)) % PIPESIZE
    <2>1. (w + Wrap) % PIPESIZE = w % PIPESIZE
      BY <1>1, SlotWraps, w \in Int, Zenon DEF Counter
    <2>2. r + Gap(r, w) = w \/ r + Gap(r, w) = w + Wrap
      BY <1>1, <1>5 DEF Counter
    <2>3. QED
      BY <2>1, <2>2
  <1>7. f % Wrap = IF f < Wrap THEN f ELSE f - Wrap
    BY <1>1, <1>4 DEF Counter
  <1>8. QED
    BY <1>1, <1>5, <1>6, <1>7 DEF Counter

(* A counter moves forward by at most a turn. *)
LEMMA Advance ==
  ASSUME NEW r \in Counter, NEW k \in 0 .. Wrap
  PROVE  /\ (r + k) % Wrap \in Counter
         /\ (r + k) % Wrap = IF r + k < Wrap THEN r + k ELSE r + k - Wrap
         /\ \A j \in Int : (((r + k) % Wrap) + j) % PIPESIZE = (r + k + j) % PIPESIZE
  <1>1. Wrap \in Nat \ {0}
    BY PipeAssumption
  <1> DEFINE x == r + k
  <1>2. x \in Int /\ -Wrap <= x /\ x < 2 * Wrap /\ 0 <= x
    BY <1>1 DEF Counter
  <1>3. x % Wrap = IF x < 0 THEN x + Wrap ELSE IF x < Wrap THEN x ELSE x - Wrap
    <2> HIDE DEF x
    <2>1. QED BY <1>1, <1>2, WrapOnce, Zenon
  <1>4. x % Wrap = IF x < Wrap THEN x ELSE x - Wrap
    BY <1>2, <1>3
  <1>5. ASSUME NEW j \in Int
        PROVE  ((x % Wrap) + j) % PIPESIZE = (x + j) % PIPESIZE
    <2> DEFINE y == x + j
    <2>1. y \in Int /\ ((x % Wrap) + j = y \/ (x % Wrap) + j = y - Wrap)
      BY <1>1, <1>2, <1>4
    <2>2. (y - Wrap) % PIPESIZE = y % PIPESIZE
      <3> HIDE DEF y
      <3>1. QED BY <2>1, SlotWraps, Zenon
    <2>3. QED
      BY <2>1, <2>2
  <1>6. QED
    BY <1>1, <1>2, <1>4, <1>5 DEF Counter

(* A byte more, and k bytes fewer. *)
LEMMA GapMoves ==
  ASSUME NEW r \in Counter, NEW w \in Counter
  PROVE  /\ Gap(r, w) < PIPESIZE => Gap(r, (w + 1) % Wrap) = Gap(r, w) + 1
         /\ \A k \in 0 .. Gap(r, w) : Gap((r + k) % Wrap, w) = Gap(r, w) - k
  <1>1. PIPESIZE \in Nat \ {0} /\ Wrap \in Nat \ {0} /\ Wrap > PIPESIZE
    BY PipeAssumption
  <1>2. /\ Gap(r, w) \in 0 .. Wrap - 1
        /\ Gap(r, w) = IF w >= r THEN w - r ELSE w - r + Wrap
    BY GapIs
  <1>3. ASSUME Gap(r, w) < PIPESIZE PROVE Gap(r, (w + 1) % Wrap) = Gap(r, w) + 1
    <2> DEFINE v == (w + 1) % Wrap
    <2>1. v \in Counter /\ v = IF w + 1 < Wrap THEN w + 1 ELSE w + 1 - Wrap
      BY <1>1, Advance
    <2> HIDE DEF v
    <2>2. Gap(r, v) = IF v >= r THEN v - r ELSE v - r + Wrap
      BY <2>1, GapIs
    <2>3. Gap(r, v) = Gap(r, w) + 1
      BY <1>1, <1>2, <1>3, <2>1, <2>2 DEF Counter
    <2>4. QED
      BY <2>3 DEF v
  <1>4. ASSUME NEW k \in 0 .. Gap(r, w) PROVE Gap((r + k) % Wrap, w) = Gap(r, w) - k
    <2> DEFINE v == (r + k) % Wrap
    <2>0. k \in 0 .. Wrap
      BY <1>1, <1>2
    <2>1. v \in Counter /\ v = IF r + k < Wrap THEN r + k ELSE r + k - Wrap
      BY <2>0, Advance
    <2> HIDE DEF v
    <2>2. Gap(v, w) = IF w >= v THEN w - v ELSE w - v + Wrap
      BY <2>1, GapIs
    <2>3. Gap(v, w) = Gap(r, w) - k
      BY <1>1, <1>2, <2>1, <2>2 DEF Counter
    <2>4. QED
      BY <2>3 DEF v
  <1>5. QED
    BY <1>3, <1>4

-----------------------------------------------------------------------------
(* The invariant. *)

(* The ring never holds more than it can. *)
InRing == Used <= PIPESIZE

(* The ends are open just as long as somebody has them, and who is in a    *)
(* call has its end and asks for at least a byte.                          *)
EndsHeld ==
  /\ readopen <=> holds \cap Reader # {}
  /\ writeopen <=> holds \cap Writer # {}
  /\ \A p \in Users : pc[p] # "idle" => p \in holds /\ n[p] >= 1

(* Who sleeps is registered, and a writer is registered only while the     *)
(* pipe is full, can be read, and is not being written.                    *)
WritersRegistered ==
  /\ asleep \subseteq chan
  /\ \A w \in Writer \cap chan : lock = Nil /\ Full /\ readopen

PInv == TypeOK /\ InRing /\ EndsHeld /\ WritersRegistered

(* pipealloc makes a pipe that satisfies the invariant. *)
LEMMA PInvInit == Init => PInv
  <1> SUFFICES ASSUME Init PROVE PInv
    OBVIOUS
  <1>0. PIPESIZE \in Nat \ {0} /\ Wrap \in Nat \ {0} /\ MaxN \in Nat \ {0}
    BY PipeAssumption
  <1>1. TypeOK
    <2>1. out \in Seq(Byte)
      BY DEF Init
    <2>2. untold \in BOOLEAN
      BY Zenon DEF Init
    <2>3. QED
      BY <1>0, <2>1, <2>2 DEF Init, TypeOK
  <1>2. InRing
    <2>1. Used = 0
      BY <1>0, GapIs, 0 \in Counter DEF Init, Used, Gap, Counter
    <2>2. QED
      BY <1>0, <2>1 DEF InRing
  <1>3. EndsHeld
    BY PipeAssumption DEF Init, EndsHeld, Users
  <1>4. WritersRegistered
    BY DEF Init, WritersRegistered
  <1>5. QED
    BY <1>1, <1>2, <1>3, <1>4 DEF PInv

(* Every step of pipewrite, piperead and pipeclose keeps the types. *)
LEMMA TypeStep == TypeOK /\ [Next]_vars => TypeOK'
  <1> SUFFICES ASSUME TypeOK, [Next]_vars PROVE TypeOK'
    OBVIOUS
  <1>0. PIPESIZE \in Nat \ {0} /\ Wrap \in Nat \ {0} /\ MaxN \in Nat \ {0}
    BY PipeAssumption
  <1> USE DEF Goto, pipe, procs
  <1>1. ASSUME NEW w \in Writer, write_broken(w) PROVE TypeOK'
    <2>1. untold' \in BOOLEAN
      BY <1>1, Zenon DEF TypeOK, write_broken
    <2>2. QED
      BY <1>0, <1>1, <2>1 DEF TypeOK, write_broken, Leave, Users
  <1>2. ASSUME NEW w \in Writer, write_full(w) PROVE TypeOK'
    <2>1. untold' \in BOOLEAN
      BY <1>2, Zenon DEF write_full
    <2>2. QED
      BY <1>2, <2>1 DEF TypeOK, write_full, Users
  <1>3. ASSUME NEW w \in Writer, write_end(w) PROVE TypeOK'
    <2>1. untold' \in BOOLEAN
      BY <1>3, Zenon DEF write_end
    <2>2. QED
      BY <1>0, <1>3, <2>1 DEF TypeOK, write_end, wakeup, Leave, Users
  <1>4. ASSUME NEW w \in Writer, NEW b \in Byte, write_byte(w, b) PROVE TypeOK'
    <2>1. nwrite' \in 0 .. Wrap - 1
      BY <1>0, <1>4 DEF TypeOK, write_byte
    <2>2. data' \in [0 .. PIPESIZE - 1 -> Byte]
      BY <1>0, <1>4 DEF TypeOK, write_byte
    <2>3. i' \in [Users -> 0 .. MaxN]
      BY <1>0, <1>4 DEF TypeOK, write_byte, Counted, Users
    <2>4. QED
      BY <1>4, <2>1, <2>2, <2>3 DEF TypeOK, write_byte
  <1>5. ASSUME NEW r \in Reader, read_empty(r) PROVE TypeOK'
    <2>1. CASE killed[r]
      <3>1. Leave(r) /\ UNCHANGED <<pipe, procs, chan, asleep, out, untold>>
        BY <1>5, <2>1 DEF read_empty
      <3>2. QED
        BY <1>0, <3>1 DEF TypeOK, Leave, Users
    <2>2. CASE ~killed[r]
      BY <1>5, <2>2 DEF TypeOK, read_empty, Users
    <2>3. QED
      BY <2>1, <2>2
  <1>6. ASSUME NEW r \in Reader, read_copy(r) PROVE TypeOK'
    <2>1. PICK k \in 0 .. Lesser(n[r], Used) :
            /\ nread' = After(k)
            /\ out' = out \/ out' = [j \in 1 .. k |-> data[(nread + j - 1) % PIPESIZE]]
      BY <1>6, Zenon DEF read_copy
    <2>2. Lesser(n[r], Used) \in Nat
      BY <1>0, <1>6 DEF TypeOK, Lesser, Used, Users
    <2>3. k \in Nat
      BY <2>2
    <2>4. nread' \in 0 .. Wrap - 1
      BY <1>0, <2>1, <2>3 DEF TypeOK, After
    <2>5. out' \in Seq(Byte)
      <3>1. ASSUME NEW j \in 1 .. k PROVE data[(nread + j - 1) % PIPESIZE] \in Byte
        <4>1. (nread + j - 1) % PIPESIZE \in 0 .. PIPESIZE - 1
          BY <1>0, <2>3 DEF TypeOK
        <4>2. QED
          BY <4>1 DEF TypeOK
      <3>2. [j \in 1 .. k |-> data[(nread + j - 1) % PIPESIZE]] \in Seq(Byte)
        BY <2>3, <3>1
      <3>3. QED
        BY <2>1, <3>2, Zenon DEF TypeOK
    <2>6. QED
      BY <1>0, <1>6, <2>4, <2>5 DEF TypeOK, read_copy, wakeup, Leave, Users
  <1>7. ASSUME NEW p \in Users, sleep(p) PROVE TypeOK'
    BY <1>7 DEF TypeOK, sleep
  <1>8. ASSUME NEW p \in Users, close(p) PROVE TypeOK'
    BY <1>8, Zenon DEF TypeOK, close, CloseWakes, wakeup
  <1>9. ASSUME NEW p \in Users, kkill(p) PROVE TypeOK'
    BY <1>9 DEF TypeOK, kkill
  <1>10. ASSUME NEW p \in Users, NEW k \in 1 .. MaxN, call(p, k) PROVE TypeOK'
    BY <1>0, <1>10 DEF TypeOK, call
  <1>11. CASE UNCHANGED vars
    BY <1>11 DEF TypeOK, vars
  <1>12. QED
    BY <1>1, <1>2, <1>3, <1>4, <1>5, <1>6, <1>7, <1>8, <1>9, <1>10, <1>11
       DEF Next, write_step, read_step

(* fileclose and pipeclose keep readopen and writeopen true just while     *)
(* somebody has the end.                                                   *)
LEMMA EndsStep == TypeOK /\ EndsHeld /\ [Next]_vars => EndsHeld'
  <1> SUFFICES ASSUME TypeOK, EndsHeld, [Next]_vars PROVE EndsHeld'
    OBVIOUS
  <1>0. Writer \cap Reader = {}
    BY PipeAssumption
  <1> USE DEF Goto, pipe, procs
  <1>1. ASSUME NEW w \in Writer, write_step(w) PROVE EndsHeld'
    <2>1. CASE write_broken(w)
      BY <2>1 DEF TypeOK, EndsHeld, write_broken, Leave, Users
    <2>2. CASE write_full(w)
      BY <2>2 DEF TypeOK, EndsHeld, write_full, Turn, Users
    <2>3. CASE write_end(w)
      BY <2>3 DEF TypeOK, EndsHeld, write_end, Leave, Users
    <2>4. CASE \E b \in Byte : write_byte(w, b)
      BY <2>4 DEF TypeOK, EndsHeld, write_byte, Users
    <2>5. QED
      BY <1>1, <2>1, <2>2, <2>3, <2>4 DEF write_step
  <1>2. ASSUME NEW r \in Reader, read_step(r) PROVE EndsHeld'
    <2>1. CASE read_empty(r) /\ killed[r]
      BY <2>1 DEF TypeOK, EndsHeld, read_empty, Leave, Users
    <2>2. CASE read_empty(r) /\ ~killed[r]
      BY <2>2 DEF TypeOK, EndsHeld, read_empty, Turn, Users
    <2>3. CASE read_copy(r)
      BY <2>3 DEF TypeOK, EndsHeld, read_copy, Leave, Users
    <2>4. QED
      BY <1>2, <2>1, <2>2, <2>3 DEF read_step
  <1>3. ASSUME NEW p \in Users, sleep(p) PROVE EndsHeld'
    BY <1>3 DEF TypeOK, EndsHeld, sleep
  <1>4. ASSUME NEW p \in Users, close(p) PROVE EndsHeld'
    <2>1. /\ holds' = holds \ {p} /\ pc[p] = "idle" /\ pc' = pc /\ n' = n
          /\ writeopen' = (writeopen /\ holds' \cap Writer # {})
          /\ readopen' = (readopen /\ holds' \cap Reader # {})
      BY <1>4 DEF close
    <2>2. readopen' <=> holds' \cap Reader # {}
      BY <2>1, Zenon DEF TypeOK, EndsHeld
    <2>3. writeopen' <=> holds' \cap Writer # {}
      BY <2>1, Zenon DEF TypeOK, EndsHeld
    <2>4. QED
      BY <2>1, <2>2, <2>3 DEF EndsHeld
  <1>5. ASSUME NEW p \in Users, kkill(p) PROVE EndsHeld'
    BY <1>5 DEF EndsHeld, kkill
  <1>6. ASSUME NEW p \in Users, NEW k \in 1 .. MaxN, call(p, k) PROVE EndsHeld'
    BY <1>6, PipeAssumption DEF TypeOK, EndsHeld, call
  <1>7. CASE UNCHANGED vars
    BY <1>7 DEF EndsHeld, vars
  <1>8. QED
    BY <1>1, <1>2, <1>3, <1>4, <1>5, <1>6, <1>7 DEF Next

(* pipewrite's nwrite++ happens only with room, and adds one. *)
LEMMA WriteMoves ==
  ASSUME TypeOK, InRing, NEW w \in Writer, NEW b \in Byte, write_byte(w, b)
  PROVE  Used < PIPESIZE /\ Used' = Used + 1
  <1>1. nread \in Counter /\ nwrite \in Counter /\ Used = Gap(nread, nwrite)
    BY DEF TypeOK, Counter, Used, Gap
  <1>2. Used \in 0 .. Wrap - 1 /\ Used # PIPESIZE
    BY <1>1, GapIs DEF write_byte, Full, InRing
  <1>3. Used < PIPESIZE
    BY <1>2, PipeAssumption DEF InRing
  <1>4. Used' = Gap(nread, (nwrite + 1) % Wrap)
    BY DEF write_byte, Used, Gap
  <1>5. QED
    BY <1>1, <1>3, <1>4, GapMoves

(* piperead's nread++, k times, takes k bytes off. *)
LEMMA ReadMoves ==
  ASSUME TypeOK, NEW k \in 0 .. Used, nread' = After(k), nwrite' = nwrite
  PROVE  Used \in 0 .. Wrap - 1 /\ Used' = Used - k
  <1>1. nread \in Counter /\ nwrite \in Counter /\ Used = Gap(nread, nwrite)
    BY DEF TypeOK, Counter, Used, Gap
  <1>2. Used' = Gap((nread + k) % Wrap, nwrite)
    BY DEF Used, Gap, After
  <1>3. Used \in 0 .. Wrap - 1
    BY <1>1, GapIs
  <1>4. QED
    BY <1>1, <1>2, <1>3, GapMoves

(* A reader takes no more than there is. *)
LEMMA ReadTakes ==
  ASSUME TypeOK, NEW r \in Reader, read_copy(r)
  PROVE  \E k \in 0 .. Used :
           /\ k <= n[r] /\ nread' = After(k) /\ nwrite' = nwrite
           /\ \/ k = 0 /\ n[r] > 0 /\ Used > 0 /\ out' = out
              \/ /\ k > 0 \/ n[r] = 0 \/ Used = 0
                 /\ out' = [j \in 1 .. k |-> data[(nread + j - 1) % PIPESIZE]]
  <1>1. Used \in Nat /\ n[r] \in Nat
    BY PipeAssumption DEF TypeOK, Used, Users
  <1> DEFINE all == Lesser(n[r], Used)
             taken(k) == [j \in 1 .. k |-> data[(nread + j - 1) % PIPESIZE]]
  <1>2. all \in Nat /\ all <= n[r] /\ all <= Used /\ (all = 0 <=> n[r] = 0 \/ Used = 0)
    BY <1>1 DEF Lesser
  <1>3. PICK k \in 0 .. all :
          nread' = After(k) /\ out' = IF k = 0 /\ all > 0 THEN out ELSE taken(k)
    BY Zenon DEF read_copy
  <1>4. nwrite' = nwrite
    BY DEF read_copy
  <1> HIDE DEF all, taken
  <1>5. k \in 0 .. Used /\ k <= n[r]
    BY <1>1, <1>2, <1>3
  <1>6. \/ k = 0 /\ n[r] > 0 /\ Used > 0 /\ out' = out
        \/ (k > 0 \/ n[r] = 0 \/ Used = 0) /\ out' = taken(k)
    BY <1>1, <1>2, <1>3
  <1>7. QED
    BY <1>3, <1>4, <1>5, <1>6, Zenon DEF taken

(* Neither end makes the ring hold more than PIPESIZE bytes. *)
LEMMA RingStep == TypeOK /\ InRing /\ [Next]_vars => InRing'
  <1> SUFFICES ASSUME TypeOK, InRing, [Next]_vars PROVE InRing'
    OBVIOUS
  <1> USE DEF pipe
  <1>0. PIPESIZE \in Nat
    BY PipeAssumption
  <1>1. CASE UNCHANGED <<nread, nwrite>>
    BY <1>1 DEF InRing, Used
  <1>2. ASSUME NEW w \in Writer, NEW b \in Byte, write_byte(w, b) PROVE InRing'
    <2>1. Used \in Nat
      BY PipeAssumption DEF TypeOK, Used
    <2>2. QED
      BY <1>0, <1>2, <2>1, WriteMoves DEF InRing
  <1>3. ASSUME NEW r \in Reader, read_copy(r) PROVE InRing'
    <2>1. PICK k \in 0 .. Used : nread' = After(k) /\ nwrite' = nwrite
      BY <1>3, ReadTakes
    <2>2. Used \in 0 .. Wrap - 1 /\ Used' = Used - k
      BY <2>1, ReadMoves
    <2>3. QED
      BY <1>0, <2>2, PipeAssumption DEF InRing
  <1>4. QED
    BY <1>1, <1>2, <1>3
       DEF Next, write_step, read_step, write_broken, write_full, write_end,
           read_empty, sleep, close, kkill, call, vars

(* A full pipe is not empty. *)
LEMMA FullNotEmpty == TypeOK => ~(Full /\ Empty)
  <1> SUFFICES ASSUME TypeOK, Full, Empty PROVE FALSE
    OBVIOUS
  <1>1. nread \in Counter /\ nwrite \in Counter /\ Gap(nread, nwrite) = 0
    BY GapIs DEF TypeOK, Counter, Empty
  <1>2. QED
    BY <1>1, GapIs, PipeAssumption DEF Full, Empty

(* Which sides a closing process can close. *)
LEMMA CloseOne ==
  ASSUME TypeOK, EndsHeld, NEW p \in Users, close(p)
  PROVE  /\ p \in Writer => readopen' = readopen
         /\ p \in Reader => writeopen' = writeopen
  <1>1. /\ holds' = holds \ {p}
        /\ writeopen' = (writeopen /\ holds' \cap Writer # {})
        /\ readopen' = (readopen /\ holds' \cap Reader # {})
    BY DEF close
  <1>2. Writer \cap Reader = {}
    BY PipeAssumption
  <1>3. ASSUME p \in Writer PROVE readopen' = readopen
    <2>1. holds' \cap Reader = holds \cap Reader
      BY <1>1, <1>2, <1>3
    <2>2. QED
      BY <1>1, <2>1 DEF EndsHeld, TypeOK
  <1>4. ASSUME p \in Reader PROVE writeopen' = writeopen
    <2>1. holds' \cap Writer = holds \cap Writer
      BY <1>1, <1>2, <1>4
    <2>2. QED
      BY <1>1, <2>1 DEF EndsHeld, TypeOK
  <1>5. QED
    BY <1>3, <1>4

(* A process only leaves a channel by being woken from it. *)
LEMMA RegisteredStep ==
  TypeOK /\ EndsHeld /\ WritersRegistered /\ [Next]_vars => WritersRegistered'
  <1> SUFFICES ASSUME TypeOK, EndsHeld, WritersRegistered, [Next]_vars
               PROVE  WritersRegistered'
    OBVIOUS
  <1>0. Writer \cap Reader = {} /\ Nil \notin Writer
    BY PipeAssumption
  <1> USE DEF Goto, pipe, procs
  <1>1. ASSUME NEW w \in Writer, write_step(w) PROVE WritersRegistered'
    <2>1. CASE write_broken(w)
      BY <2>1 DEF WritersRegistered, write_broken, Leave, Full
    <2>2. CASE write_full(w)
      BY <1>0, <2>2 DEF WritersRegistered, write_full, Turn, Full, Broken
    <2>3. CASE write_end(w)
      BY <2>3 DEF WritersRegistered, write_end, Leave, wakeup, Full
    <2>4. CASE \E b \in Byte : write_byte(w, b)
      BY <2>4 DEF WritersRegistered, write_byte
    <2>5. QED
      BY <1>1, <2>1, <2>2, <2>3, <2>4 DEF write_step
  <1>2. ASSUME NEW r \in Reader, read_step(r) PROVE WritersRegistered'
    <2>1. CASE read_empty(r)
      <3>1. Empty /\ chan \cap Writer = {}
        BY <2>1, FullNotEmpty DEF WritersRegistered, read_empty, MustWait
      <3>2. chan' \subseteq chan \cup {r} /\ chan \subseteq chan' /\ asleep' = asleep
        BY <2>1 DEF read_empty
      <3>3. QED
        BY <1>0, <3>1, <3>2 DEF WritersRegistered
    <2>2. CASE read_copy(r)
      BY <2>2 DEF WritersRegistered, read_copy, wakeup
    <2>3. QED
      BY <1>2, <2>1, <2>2 DEF read_step
  <1>3. ASSUME NEW p \in Users, sleep(p) PROVE WritersRegistered'
    BY <1>3 DEF WritersRegistered, sleep, Full
  <1>4. ASSUME NEW p \in Users, close(p) PROVE WritersRegistered'
    <2>1. lock' = lock /\ nread' = nread /\ nwrite' = nwrite
      BY <1>4 DEF close
    <2>2. CASE writeopen # writeopen' /\ CloseWakes(Reader)
      <3>1. p \notin Reader /\ p \in Writer
        BY <1>4, <2>2, CloseOne DEF Users
      <3>2. readopen' = readopen
        BY <1>4, <3>1, CloseOne
      <3>3. QED
        BY <2>1, <2>2, <3>2 DEF WritersRegistered, CloseWakes, wakeup, Full
    <2>3. CASE readopen # readopen' /\ CloseWakes(Writer)
      BY <2>3 DEF WritersRegistered, CloseWakes, wakeup
    <2>4. CASE UNCHANGED <<writeopen, readopen, chan, asleep>>
      BY <2>1, <2>4 DEF WritersRegistered, Full
    <2>5. QED
      BY <1>4, <2>2, <2>3, <2>4 DEF close
  <1>5. ASSUME NEW p \in Users, kkill(p) PROVE WritersRegistered'
    BY <1>5 DEF WritersRegistered, kkill, Full
  <1>6. ASSUME NEW p \in Users, NEW k \in 1 .. MaxN, call(p, k) PROVE WritersRegistered'
    BY <1>6 DEF WritersRegistered, call, Full
  <1>7. CASE UNCHANGED vars
    BY <1>7 DEF WritersRegistered, vars, Full
  <1>8. QED
    BY <1>1, <1>2, <1>3, <1>4, <1>5, <1>6, <1>7 DEF Next

(* pipe.c: types, the ring's bound, the open ends and the sleepers'        *)
(* registrations hold in every state of every pipe.                        *)
THEOREM PipeInvariant == Spec => []PInv
  <1>1. PInv /\ [Next]_vars => PInv'
    BY TypeStep, RingStep, EndsStep, RegisteredStep DEF PInv
  <1>2. QED
    BY <1>1, PInvInit, PTL DEF Spec

-----------------------------------------------------------------------------
(* Sleeping. *)

(* A reader is registered only while the pipe can be written, and is empty *)
(* unless a writer is in its loop or a killed one left without a wakeup    *)
(* (pipe.c:86).                                                            *)
ReadersRegistered ==
  \A r \in Reader \cap chan : writeopen /\ (lock = Nil => Empty \/ untold)

(* Every step keeps that: pipewrite has the lock from its first byte until *)
(* it wakes the readers or is found killed.                                *)
LEMMA ReadersStep == PInv /\ ReadersRegistered /\ [Next]_vars => ReadersRegistered'
  <1> SUFFICES ASSUME TypeOK, EndsHeld, ReadersRegistered, [Next]_vars
               PROVE  ReadersRegistered'
    BY DEF PInv
  <1>0. Writer \cap Reader = {} /\ Nil \notin Writer \cup Reader
    BY PipeAssumption
  <1> USE DEF Goto, pipe, procs
  <1>1. ASSUME NEW w \in Writer, write_step(w) PROVE ReadersRegistered'
    <2>1. CASE write_broken(w)
      <3>1. lock \in {Nil, w} /\ untold' = (untold \/ lock = w)
        BY <2>1 DEF write_broken, Turn
      <3>2. UNCHANGED <<nread, nwrite, writeopen, chan>>
        BY <2>1 DEF write_broken
      <3>3. QED
        BY <3>1, <3>2 DEF ReadersRegistered, Empty
    <2>2. CASE write_full(w)
      BY <1>0, <2>2 DEF ReadersRegistered, write_full
    <2>3. CASE write_end(w)
      BY <2>3 DEF ReadersRegistered, write_end, wakeup
    <2>4. CASE \E b \in Byte : write_byte(w, b)
      BY <1>0, <2>4 DEF ReadersRegistered, write_byte
    <2>5. QED
      BY <1>1, <2>1, <2>2, <2>3, <2>4 DEF write_step
  <1>2. ASSUME NEW r \in Reader, read_step(r) PROVE ReadersRegistered'
    <2>1. lock = Nil
      BY <1>0, <1>2 DEF TypeOK, read_step, read_empty, read_copy, Turn
    <2>2. CASE read_empty(r)
      BY <2>2 DEF read_empty, MustWait, ReadersRegistered, Empty
    <2>3. CASE read_copy(r)
      <3>1. chan' \subseteq chan /\ UNCHANGED <<writeopen, untold>>
        BY <2>3 DEF read_copy, wakeup
      <3>2. Reader \cap chan # {} => untold
        BY <2>1, <2>3 DEF ReadersRegistered, read_copy, MustWait
      <3>3. QED
        BY <3>1, <3>2 DEF ReadersRegistered
    <2>4. QED
      BY <1>2, <2>2, <2>3 DEF read_step
  <1>3. ASSUME NEW p \in Users, sleep(p) PROVE ReadersRegistered'
    BY <1>3 DEF ReadersRegistered, sleep, Empty
  <1>4. ASSUME NEW p \in Users, close(p) PROVE ReadersRegistered'
    <2>1. UNCHANGED <<lock, nread, nwrite>>
      BY <1>4 DEF close
    <2>2. CASE writeopen # writeopen' /\ CloseWakes(Reader) /\ untold' = FALSE
      BY <2>1, <2>2 DEF ReadersRegistered, CloseWakes, wakeup
    <2>3. CASE readopen # readopen' /\ CloseWakes(Writer) /\ UNCHANGED untold
      <3>1. p \in Reader
        BY <1>4, <2>3, CloseOne DEF Users
      <3>2. writeopen' = writeopen
        BY <1>4, <3>1, CloseOne
      <3>3. QED
        BY <2>1, <2>3, <3>2 DEF ReadersRegistered, CloseWakes, wakeup, Empty
    <2>4. CASE UNCHANGED <<writeopen, readopen, chan, asleep, untold>>
      BY <2>1, <2>4 DEF ReadersRegistered, Empty
    <2>5. QED
      BY <1>4, <2>2, <2>3, <2>4 DEF close
  <1>5. ASSUME NEW p \in Users, kkill(p) PROVE ReadersRegistered'
    BY <1>5 DEF ReadersRegistered, kkill, Empty
  <1>6. ASSUME NEW p \in Users, NEW k \in 1 .. MaxN, call(p, k) PROVE ReadersRegistered'
    BY <1>6 DEF ReadersRegistered, call, Empty
  <1>7. CASE UNCHANGED vars
    BY <1>7 DEF ReadersRegistered, vars, Empty
  <1>8. QED
    BY <1>1, <1>2, <1>3, <1>4, <1>5, <1>6, <1>7 DEF Next

(* pipe.c:88, "DOC: pipewrite-full": whoever kills whom, a writer sleeps   *)
(* only while the pipe is full and can still be read.                      *)
THEOREM WritersSleepOnFull == Spec => []WriterSleepsOnFull
  <1>1. PInv => WriterSleepsOnFull
    BY DEF PInv, WritersRegistered, WriterSleepsOnFull
  <1>2. QED
    BY <1>1, PipeInvariant, PTL

(* pipe.c:88 and pipe.c:119: a writer sleeps only on a full pipe that can  *)
(* be read; a reader only on one that can be written and is empty, or was  *)
(* left by a killed writer, which returns at pipe.c:86 and wakes nobody:   *)
(* no other path of pipewrite, piperead and pipeclose misses a wakeup,     *)
(* whoever is killed and when.                                             *)
THEOREM NobodySleepsWithoutReason == Spec => []SleepersHaveReason
  <1>1. Init => ReadersRegistered
    BY DEF Init, ReadersRegistered
  <1>2. PInv /\ ReadersRegistered /\ [Next]_vars => ReadersRegistered'
    BY ReadersStep
  <1>3. PInv /\ ReadersRegistered => SleepersHaveReason
    BY DEF PInv, WritersRegistered, ReadersRegistered, SleepersHaveReason,
           WriterSleepsOnFull, ReaderSleepsOnEmpty
  <1>4. QED
    BY <1>1, <1>2, <1>3, PipeInvariant, PTL DEF Spec

-----------------------------------------------------------------------------
(* The ring implements a bounded queue. *)

Slot(x) == x % PIPESIZE

(* The contents are a sequence of bytes. *)
ContentsAreBytes ==
  /\ Used \in 0 .. Wrap - 1
  /\ Contents \in Seq(Byte) /\ Len(Contents) = Used
  /\ \A j \in 1 .. Used : Contents[j] = data[Slot(nread + j - 1)]

(* The slots from nread to nwrite are well defined in every state. *)
LEMMA ContentsIs == TypeOK => ContentsAreBytes
  <1> SUFFICES ASSUME TypeOK PROVE ContentsAreBytes
    OBVIOUS
  <1>1. PIPESIZE \in Nat \ {0} /\ Wrap \in Nat \ {0}
    BY PipeAssumption
  <1>2. nread \in Int /\ nwrite \in Int /\ data \in [0 .. PIPESIZE - 1 -> Byte]
    BY <1>1 DEF TypeOK
  <1>3. Used \in 0 .. Wrap - 1
    BY <1>1, <1>2 DEF Used
  <1>4. \A x \in Int : Slot(x) \in 0 .. PIPESIZE - 1
    BY <1>1 DEF Slot
  <1>5. \A j \in 1 .. Used : data[Slot(nread + j - 1)] \in Byte
    BY <1>2, <1>3, <1>4, SMTT(20)
  <1>6. Contents = [j \in 1 .. Used |-> data[Slot(nread + j - 1)]]
    BY DEF Contents, Slot
  <1> HIDE DEF Slot
  <1>7. Contents \in Seq(Byte) /\ Len(Contents) = Used
    BY <1>3, <1>5, <1>6
  <1>8. QED
    BY <1>3, <1>6, <1>7 DEF ContentsAreBytes

(* pipewrite's data[nwrite++ % PIPESIZE] = ch appends ch: the slot it      *)
(* overwrites is none of those still to be read.                           *)
LEMMA WriteAppends ==
  ASSUME TypeOK, TypeOK', InRing, NEW w \in Writer, NEW b \in Byte, write_byte(w, b)
  PROVE  Contents' = Append(Contents, b) /\ Used < PIPESIZE
  <1>0. PIPESIZE \in Nat \ {0} /\ Wrap \in Nat \ {0}
    BY PipeAssumption
  <1>1. Used < PIPESIZE /\ Used' = Used + 1
    BY WriteMoves
  <1>2. /\ Used \in 0 .. Wrap - 1
        /\ Contents \in Seq(Byte) /\ Len(Contents) = Used
        /\ \A j \in 1 .. Used : Contents[j] = data[Slot(nread + j - 1)]
    BY ContentsIs DEF ContentsAreBytes
  <1>3. /\ Contents' \in Seq(Byte) /\ Len(Contents') = Used'
        /\ \A j \in 1 .. Used' : Contents'[j] = data'[Slot(nread' + j - 1)]
    <2>1. ContentsAreBytes'
      BY ContentsIs, PTL
    <2>2. QED
      BY <2>1 DEF ContentsAreBytes, Slot
  <1>4. nread' = nread /\ data' = [data EXCEPT ![Slot(nwrite)] = b]
    BY DEF write_byte, Slot
  <1>5. nread \in Counter /\ nwrite \in Counter /\ Used = Gap(nread, nwrite)
    BY DEF TypeOK, Counter, Used, Gap
  <1>6. Slot(nwrite) = Slot(nread + Used)
    BY <1>5, GapIs DEF Slot
  <1>7. ASSUME NEW j \in 1 .. Used PROVE Slot(nread + j - 1) # Slot(nwrite)
    <2> DEFINE x == nread + j - 1  d == Used - (j - 1)
    <2>2. x \in Int /\ d \in 1 .. PIPESIZE - 1 /\ x + d = nread + Used
      BY <1>0, <1>1, <1>2, <1>5, SMTT(20) DEF Counter
    <2> HIDE DEF x, d
    <2>3. (x + d) % PIPESIZE # x % PIPESIZE
      BY <1>0, <2>2, ModDistinct, Zenon
    <2>4. QED
      BY <1>6, <2>2, <2>3 DEF Slot, x
  <1>8. Slot(nwrite) \in DOMAIN data /\ \A x \in Int : Slot(x) \in DOMAIN data
    BY <1>0, <1>5 DEF TypeOK, Slot, Counter
  <1>9. /\ Append(Contents, b) \in Seq(Byte)
        /\ Len(Append(Contents, b)) = Used + 1
        /\ \A j \in 1 .. Used : Append(Contents, b)[j] = Contents[j]
        /\ Append(Contents, b)[Used + 1] = b
    BY <1>2, AppendProperties
  <1> HIDE DEF Slot
  <1>10. ASSUME NEW j \in 1 .. Used + 1
         PROVE  Contents'[j] = Append(Contents, b)[j]
    <2>1. Contents'[j] = data'[Slot(nread + j - 1)]
      BY <1>1, <1>3, <1>4
    <2>2. CASE j \in 1 .. Used
      <3>1. Slot(nread + j - 1) # Slot(nwrite)
        BY <1>7, <2>2
      <3>2. data'[Slot(nread + j - 1)] = data[Slot(nread + j - 1)]
        BY <1>4, <1>5, <1>8, <3>1 DEF Counter
      <3>3. QED
        BY <1>2, <1>9, <2>1, <2>2, <3>2
    <2>3. CASE j = Used + 1
      <3>1. nread + j - 1 = nread + Used
        BY <1>2, <1>5, <2>3 DEF Counter
      <3>2. data'[Slot(nread + j - 1)] = b
        BY <1>4, <1>6, <1>8, <3>1
      <3>3. QED
        BY <1>9, <2>1, <2>3, <3>2
    <2>4. QED
      BY <1>2, <2>2, <2>3
  <1>11. Contents' = Append(Contents, b)
    BY <1>1, <1>3, <1>9, <1>10, SeqEqual
  <1>12. QED
    BY <1>1, <1>11

(* k bytes leave from the front. *)
LEMMA ReadTakesPrefix ==
  ASSUME TypeOK, TypeOK', NEW k \in 0 .. Used,
         nread' = After(k), nwrite' = nwrite, data' = data
  PROVE  /\ Contents' = SubSeq(Contents, k + 1, Len(Contents))
         /\ [j \in 1 .. k |-> data[(nread + j - 1) % PIPESIZE]] = SubSeq(Contents, 1, k)
  <1>0. PIPESIZE \in Nat \ {0} /\ Wrap \in Nat \ {0}
    BY PipeAssumption
  <1>1. Used \in 0 .. Wrap - 1 /\ Used' = Used - k
    BY ReadMoves
  <1>2. /\ Contents \in Seq(Byte) /\ Len(Contents) = Used
        /\ \A j \in 1 .. Used : Contents[j] = data[Slot(nread + j - 1)]
    BY ContentsIs DEF ContentsAreBytes
  <1>3. /\ Contents' \in Seq(Byte) /\ Len(Contents') = Used'
        /\ \A j \in 1 .. Used' : Contents'[j] = data'[Slot(nread' + j - 1)]
    <2>1. ContentsAreBytes'
      BY ContentsIs, PTL
    <2>2. QED
      BY <2>1 DEF ContentsAreBytes, Slot
  <1>4. nread \in Counter /\ k \in 0 .. Wrap
    BY <1>0, <1>1 DEF TypeOK, Counter
  <1>5. \A j \in Int : Slot(nread' + j) = Slot(nread + k + j)
    BY <1>4, Advance DEF After, Slot
  <1>6. \A j \in 1 .. Used : Contents[j] \in Byte
    BY <1>2, ElementOfSeq
  <1> HIDE DEF Slot
  <1>7. ASSUME NEW j \in 1 .. Used - k PROVE Contents'[j] = Contents[k + j]
    <2>1. Contents'[j] = data[Slot(nread' + (j - 1))]
      <3>1. nread' + j - 1 = nread' + (j - 1)
        BY <1>0, <1>1 DEF TypeOK
      <3>2. QED
        BY <1>1, <1>3, <3>1
    <2>2. Slot(nread' + (j - 1)) = Slot(nread + k + (j - 1))
      BY <1>1, <1>5
    <2>3. k + j \in 1 .. Used /\ nread + k + (j - 1) = nread + (k + j) - 1
      BY <1>1, <1>4 DEF Counter
    <2>4. QED
      BY <1>2, <2>1, <2>2, <2>3
  <1> DEFINE rest == SubSeq(Contents, k + 1, Used)  front == SubSeq(Contents, 1, k)
             taken == [j \in 1 .. k |-> data[(nread + j - 1) % PIPESIZE]]
  <1>8. /\ rest \in Seq(Byte) /\ Len(rest) = Used - k
        /\ \A j \in 1 .. Used - k : rest[j] = Contents[k + j]
    <2>1. \A j \in k + 1 .. Used : Contents[j] \in Byte
      BY <1>1, <1>6
    <2>2. /\ rest \in Seq(Byte)
          /\ Len(rest) = IF k + 1 <= Used THEN Used - (k + 1) + 1 ELSE 0
          /\ \A j \in 1 .. Used - (k + 1) + 1 : rest[j] = Contents[k + 1 + j - 1]
      BY <1>1, <2>1, SubSeqProperties
    <2> HIDE DEF rest
    <2>3. QED
      BY <1>1, <2>2
  <1>9. /\ front \in Seq(Byte) /\ Len(front) = k
        /\ \A j \in 1 .. k : front[j] = Contents[j]
    <2>1. \A j \in 1 .. k : Contents[j] \in Byte
      BY <1>1, <1>6
    <2>2. /\ front \in Seq(Byte)
          /\ Len(front) = IF 1 <= k THEN k - 1 + 1 ELSE 0
          /\ \A j \in 1 .. k - 1 + 1 : front[j] = Contents[1 + j - 1]
      BY <1>1, <2>1, SubSeqProperties
    <2> HIDE DEF front
    <2>3. QED
      BY <1>1, <2>2
  <1>10. taken \in Seq(Byte) /\ Len(taken) = k /\ \A j \in 1 .. k : taken[j] = Contents[j]
    <2>1. taken = [j \in 1 .. k |-> data[Slot(nread + j - 1)]]
      BY DEF Slot
    <2>2. \A j \in 1 .. k : data[Slot(nread + j - 1)] = Contents[j]
      BY <1>1, <1>2
    <2> HIDE DEF taken
    <2>3. taken = [j \in 1 .. k |-> Contents[j]]
      BY <2>1, <2>2
    <2>4. QED
      BY <1>1, <1>6, <2>3
  <1> HIDE DEF rest, front, taken
  <1>11. Contents' = rest
    BY <1>1, <1>3, <1>7, <1>8, SeqEqual
  <1>12. taken = front
    BY <1>1, <1>9, <1>10, SeqEqual
  <1>13. QED
    BY <1>2, <1>11, <1>12 DEF rest, front, taken

(* Every step of the pipe is a step of the queue, or none of its business. *)
LEMMA StepRefines == PInv /\ PInv' /\ [Next]_vars => [F!FNext]_(F!fvars)
  <1> SUFFICES ASSUME PInv, PInv', [Next]_vars PROVE [F!FNext]_(F!fvars)
    OBVIOUS
  <1>0. TypeOK /\ InRing /\ EndsHeld /\ TypeOK'
    BY DEF PInv
  <1>1. Used \in 0 .. Wrap - 1 /\ Len(Contents) = Used /\ Contents \in Seq(Byte)
    BY <1>0, ContentsIs DEF ContentsAreBytes
  <1> USE DEF pipe, procs
  <1>2. ASSUME UNCHANGED <<data, nread, nwrite, readopen, writeopen, out>>
        PROVE  UNCHANGED F!fvars
    <2>1. Contents' = Contents
      BY <1>2 DEF Contents, Used
    <2>2. QED
      BY <1>2, <2>1 DEF F!fvars
  <1>3. ASSUME NEW w \in Writer, NEW b \in Byte, write_byte(w, b) PROVE F!FWrite(b)
    <2>1. Contents' = Append(Contents, b) /\ Used < PIPESIZE
      BY <1>0, <1>3, WriteAppends
    <2>2. readopen /\ pc[w] = "write" /\ UNCHANGED <<readopen, writeopen, out>>
      BY <1>3 DEF write_byte, Broken, Turn
    <2>3. writeopen
      BY <1>0, <2>2 DEF EndsHeld, Users
    <2>4. QED
      BY <1>1, <2>1, <2>2, <2>3 DEF F!FWrite
  <1>4. ASSUME NEW r \in Reader, read_copy(r)
        PROVE  (\E k \in 0 .. Len(Contents) : F!FRead(k)) \/ UNCHANGED F!fvars
    <2>1. PICK k \in 0 .. Used :
            /\ k <= n[r] /\ nread' = After(k) /\ nwrite' = nwrite
            /\ \/ k = 0 /\ n[r] > 0 /\ Used > 0 /\ out' = out
               \/ /\ k > 0 \/ n[r] = 0 \/ Used = 0
                  /\ out' = [j \in 1 .. k |-> data[(nread + j - 1) % PIPESIZE]]
      BY <1>0, <1>4, ReadTakes
    <2>2. /\ pc[r] = "read" /\ (~Empty \/ ~writeopen)
          /\ UNCHANGED <<data, readopen, writeopen>>
      BY <1>4 DEF read_copy, Turn, MustWait
    <2>3. readopen /\ n[r] >= 1
      BY <1>0, <2>2 DEF EndsHeld, Users
    <2>4. CASE k = 0 /\ Used > 0 /\ out' = out
      <3>1. nread' = nread
        <4>1. nread \in Nat /\ nread < Wrap /\ Wrap \in Nat \ {0}
          BY <1>0, PipeAssumption DEF TypeOK
        <4>2. nread' = (nread + 0) % Wrap
          BY <2>1, <2>4 DEF After
        <4>3. QED
          BY <4>1, <4>2
      <3>2. QED
        BY <1>2, <2>1, <2>2, <2>4, <3>1
    <2>5. CASE /\ k > 0 \/ Used = 0
               /\ out' = [j \in 1 .. k |-> data[(nread + j - 1) % PIPESIZE]]
      <3>1. /\ Contents' = SubSeq(Contents, k + 1, Len(Contents))
            /\ out' = SubSeq(Contents, 1, k)
        BY <1>0, <2>1, <2>2, <2>5, ReadTakesPrefix
      <3>2. ASSUME k = 0 PROVE ~writeopen /\ Contents = <<>>
        <4>1. Used = 0
          BY <2>5, <3>2
        <4>2. Empty
          <5>1. nread \in Counter /\ nwrite \in Counter /\ Gap(nread, nwrite) = 0
            BY <1>0, <4>1 DEF TypeOK, Counter, Used, Gap
          <5>2. QED
            BY <5>1, GapIs DEF Empty
        <4>3. QED
          BY <1>1, <2>2, <4>1, <4>2
      <3>3. F!FRead(k)
        BY <2>2, <2>3, <3>1, <3>2 DEF F!FRead
      <3>4. QED
        BY <1>1, <3>3
    <2>6. n[r] # 0
      BY <1>0, <2>3, PipeAssumption DEF TypeOK, Users
    <2>7. QED
      BY <2>1, <2>4, <2>5, <2>6
  <1>5. ASSUME NEW p \in Users, close(p) PROVE F!FClose \/ UNCHANGED F!fvars
    <2>1. UNCHANGED <<data, nread, nwrite, out>>
      BY <1>5 DEF close
    <2>2. Contents' = Contents
      BY <2>1 DEF Contents, Used
    <2>3. CASE UNCHANGED <<readopen, writeopen>>
      BY <1>2, <2>1, <2>3
    <2>4. CASE readopen' # readopen
      <3>1. writeopen' = writeopen
        BY <1>0, <1>5, <2>4, CloseOne DEF Users
      <3>2. readopen' = FALSE
        BY <1>0, <1>5, <2>4, Zenon DEF close, TypeOK
      <3>3. QED
        BY <2>1, <2>2, <3>1, <3>2 DEF F!FClose
    <2>5. CASE writeopen' # writeopen
      <3>1. readopen' = readopen
        BY <1>0, <1>5, <2>5, CloseOne DEF Users
      <3>2. writeopen' = FALSE
        BY <1>0, <1>5, <2>5, Zenon DEF close, TypeOK
      <3>3. QED
        BY <2>1, <2>2, <3>1, <3>2 DEF F!FClose
    <2>6. QED
      BY <2>3, <2>4, <2>5
  <1>6. \/ UNCHANGED <<data, nread, nwrite, readopen, writeopen, out>>
        \/ \E w \in Writer, b \in Byte : write_byte(w, b)
        \/ \E r \in Reader : read_copy(r)
        \/ \E p \in Users : close(p)
    BY Zenon DEF Next, write_step, read_step, write_broken, write_full, write_end,
           read_empty, sleep, kkill, call, vars
  <1>7. QED
    BY <1>2, <1>3, <1>4, <1>5, <1>6 DEF F!FNext

(* The ring implements the queue: over any number of turns of the ring and *)
(* of the counters, and between any number of writers and readers, no byte *)
(* is lost, invented, duplicated or reordered, and a read comes back empty *)
(* only at end of file.                                                    *)
THEOREM PipeIsFifo == Spec => IsFifo
  <1>1. Init => F!FInit
    <2> SUFFICES ASSUME Init PROVE F!FInit
      OBVIOUS
    <2>1. TypeOK /\ Used = 0
      BY PInvInit, PipeAssumption DEF PInv, Init, Used
    <2>2. Contents = <<>>
      BY <2>1, ContentsIs DEF ContentsAreBytes
    <2>3. QED
      BY <2>2 DEF Init, F!FInit
  <1>2. QED
    BY <1>1, PipeInvariant, StepRefines, PTL DEF Spec, IsFifo, F!FSpec
=============================================================================
