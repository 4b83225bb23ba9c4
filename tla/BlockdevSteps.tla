--------------------------- MODULE BlockdevSteps ----------------------------
(***************************************************************************)
(* The inductive invariant of Blockdev (BInv), lemmas about rings with     *)
(* counters that wrap, what each step of Blockdev does, as one disjunct    *)
(* per outcome, and that the steps keep the types and the parts of BInv    *)
(* that are about the cache (Counted, Named, Listed, Locked) and the       *)
(* descriptors (Chained).                                                  *)
(***************************************************************************)
EXTENDS Blockdev, TLAPS

-----------------------------------------------------------------------------
(* Remainders: rings of N slots, counters modulo W *)

(* The remainder is the only number of 0 .. P - 1 that differs by a        *)
(* multiple of P.                                                          *)
LEMMA ModUnique ==
  ASSUME NEW P \in Nat \ {0}, NEW q \in Int, NEW r \in 0 .. P - 1
  PROVE  (P * q + r) % P = r
  OBVIOUS

(* Quotient and remainder, as TLA+ defines them. *)
LEMMA DivMod ==
  ASSUME NEW x \in Int, NEW P \in Nat \ {0}
  PROVE  /\ x \div P \in Int /\ x % P \in 0 .. P - 1
         /\ x = P * (x \div P) + (x % P)
  OBVIOUS

(* A multiple of P may be added. *)
LEMMA ModShift ==
  ASSUME NEW P \in Nat \ {0}, NEW x \in Int, NEW m \in Int
  PROVE  (x + P * m) % P = x % P
  <1> DEFINE r == x % P  q == x \div P  s == q + m
  <1>1. q \in Int /\ r \in 0 .. P - 1 /\ x = P * q + r
    BY DivMod
  <1> HIDE DEF r, q
  <1>2. s \in Int /\ x + P * m = P * s + r
    BY <1>1
  <1> HIDE DEF s
  <1>3. (P * s + r) % P = r
    BY <1>1, <1>2, ModUnique, Zenon
  <1>4. QED
    BY <1>2, <1>3 DEF r

(* Numbers less than P apart have different remainders. *)
LEMMA ModDistinct ==
  ASSUME NEW P \in Nat \ {0}, NEW x \in Int, NEW d \in 1 .. P - 1
  PROVE  (x + d) % P # x % P
  <1> DEFINE r == x % P  q == x \div P
  <1>1. q \in Int /\ r \in 0 .. P - 1 /\ x = P * q + r
    BY DivMod
  <1> HIDE DEF r, q
  <1>2. CASE r + d < P
    <2> DEFINE u == r + d
    <2>1. u \in 0 .. P - 1 /\ x + d = P * q + u /\ u # r
      BY <1>1, <1>2
    <2> HIDE DEF u
    <2>2. (P * q + u) % P = u
      BY <1>1, <2>1, ModUnique, Zenon
    <2>3. QED
      BY <2>1, <2>2 DEF r
  <1>3. CASE r + d >= P
    <2> DEFINE u == r + d - P  s == q + 1
    <2>1. u \in 0 .. P - 1 /\ s \in Int /\ x + d = P * s + u /\ u # r
      BY <1>1, <1>3
    <2> HIDE DEF u, s
    <2>2. (P * s + u) % P = u
      BY <2>1, ModUnique, Zenon
    <2>3. QED
      BY <2>1, <2>2 DEF r
  <1>4. QED
    BY <1>1, <1>2, <1>3

(* The remainder of a number at most one turn away from its range. *)
LEMMA WrapOnce ==
  ASSUME NEW W \in Nat \ {0}, NEW x \in Int, -W <= x, x < 2 * W
  PROVE  x % W = IF x < 0 THEN x + W ELSE IF x < W THEN x ELSE x - W
  <1>1. CASE x < 0
    BY <1>1
  <1>2. CASE x \in 0 .. W - 1
    BY <1>2
  <1>3. CASE x >= W
    BY <1>3
  <1>4. QED
    BY <1>1, <1>2, <1>3

-----------------------------------------------------------------------------

(* A turn of the counters is a whole number of turns of the ring. *)
LEMMA TurnKeepsSlot ==
  ASSUME NEW N \in Nat \ {0}, NEW W \in Nat \ {0}, W % N = 0, NEW x \in Int
  PROVE  (x + W) % N = x % N /\ (x - W) % N = x % N
  <1> DEFINE m == W \div N  k == -m
  <1>2. m \in Int /\ W = N * m
    OBVIOUS
  <1> HIDE DEF m
  <1>3. k \in Int /\ x - W = x + N * k /\ x + W = x + N * m
    BY <1>2
  <1> HIDE DEF k
  <1>4. (x + N * k) % N = x % N
    BY <1>3, ModShift, Zenon
  <1>5. (x + N * m) % N = x % N
    BY <1>2, ModShift, Zenon
  <1>6. QED
    BY <1>3, <1>4, <1>5

(* How far the counter w is ahead of the counter r. *)
Ahead(r, w, W) == (w - r) % W

(* How far the writer is ahead is a number below W, 0 when the counters are equal. *)
LEMMA AheadIs ==
  ASSUME NEW W \in Nat \ {0}, NEW r \in 0 .. W - 1, NEW w \in 0 .. W - 1
  PROVE  /\ Ahead(r, w, W) \in 0 .. W - 1
         /\ Ahead(r, w, W) = IF w >= r THEN w - r ELSE w - r + W
         /\ Ahead(r, w, W) = 0 <=> r = w
  <1> DEFINE d == w - r
  <1>1. d \in Int /\ -W <= d /\ d < W
    OBVIOUS
  <1>2. d % W = IF d < 0 THEN d + W ELSE IF d < W THEN d ELSE d - W
    <2>1. d < 2 * W
      BY <1>1
    <2> HIDE DEF d
    <2>2. QED BY <1>1, <2>1, WrapOnce, Zenon
  <1>3. QED
    BY <1>1, <1>2 DEF Ahead

(* The writer is that far ahead, modulo W. *)
LEMMA AheadLeads ==
  ASSUME NEW W \in Nat \ {0}, NEW r \in 0 .. W - 1, NEW w \in 0 .. W - 1
  PROVE  r + Ahead(r, w, W) = w \/ r + Ahead(r, w, W) = w + W
  <1>1. /\ Ahead(r, w, W) \in 0 .. W - 1
        /\ Ahead(r, w, W) = IF w >= r THEN w - r ELSE w - r + W
    BY AheadIs
  <1>2. QED
    BY <1>1

(* The slot of w is that many slots after the slot of r. *)
LEMMA SlotAhead ==
  ASSUME NEW N \in Nat \ {0}, NEW W \in Nat \ {0}, W % N = 0,
         NEW r \in 0 .. W - 1, NEW w \in 0 .. W - 1
  PROVE  w % N = (r + Ahead(r, w, W)) % N
  <1>1. (w + W) % N = w % N
    BY TurnKeepsSlot, w \in Int, Zenon
  <1>2. r + Ahead(r, w, W) = w \/ r + Ahead(r, w, W) = w + W
    BY AheadLeads, Zenon
  <1>3. QED
    BY <1>1, <1>2

(* A counter moves forward by at most a turn. *)
LEMMA Moves ==
  ASSUME NEW W \in Nat \ {0}, NEW r \in 0 .. W - 1, NEW k \in 0 .. W
  PROVE  /\ (r + k) % W \in 0 .. W - 1
         /\ (r + k) % W = IF r + k < W THEN r + k ELSE r + k - W
  <1> DEFINE x == r + k
  <1>1. x \in Int /\ -W <= x /\ x < 2 * W /\ 0 <= x
    OBVIOUS
  <1>2. x % W = IF x < 0 THEN x + W ELSE IF x < W THEN x ELSE x - W
    <2> HIDE DEF x
    <2>1. QED BY <1>1, WrapOnce, Zenon
  <1>3. QED
    BY <1>1, <1>2

(* A step of the leading counter, and k steps of the other. *)
LEMMA AheadMoves ==
  ASSUME NEW W \in Nat \ {0}, NEW r \in 0 .. W - 1, NEW w \in 0 .. W - 1
  PROVE  /\ Ahead(r, w, W) < W - 1 => Ahead(r, (w + 1) % W, W) = Ahead(r, w, W) + 1
         /\ \A k \in 0 .. Ahead(r, w, W) :
              Ahead((r + k) % W, w, W) = Ahead(r, w, W) - k
  <1>1. /\ Ahead(r, w, W) \in 0 .. W - 1
        /\ Ahead(r, w, W) = IF w >= r THEN w - r ELSE w - r + W
    BY AheadIs
  <1>2. ASSUME Ahead(r, w, W) < W - 1
        PROVE  Ahead(r, (w + 1) % W, W) = Ahead(r, w, W) + 1
    <2> DEFINE v == (w + 1) % W
    <2>0. 1 \in 0 .. W
      OBVIOUS
    <2>1. v \in 0 .. W - 1 /\ v = IF w + 1 < W THEN w + 1 ELSE w + 1 - W
      BY <2>0, Moves, Zenon
    <2> HIDE DEF v
    <2>2. Ahead(r, v, W) = IF v >= r THEN v - r ELSE v - r + W
      BY <2>1, AheadIs, Zenon
    <2>3. Ahead(r, v, W) = Ahead(r, w, W) + 1
      BY <1>1, <1>2, <2>1, <2>2
    <2>4. QED
      BY <2>3 DEF v
  <1>3. ASSUME NEW k \in 0 .. Ahead(r, w, W)
        PROVE  Ahead((r + k) % W, w, W) = Ahead(r, w, W) - k
    <2> DEFINE v == (r + k) % W
    <2>0. k \in 0 .. W
      BY <1>1
    <2>1. v \in 0 .. W - 1 /\ v = IF r + k < W THEN r + k ELSE r + k - W
      BY <2>0, Moves, Zenon
    <2> HIDE DEF v
    <2>2. Ahead(v, w, W) = IF w >= v THEN w - v ELSE w - v + W
      BY <2>1, AheadIs, Zenon
    <2>3. Ahead(v, w, W) = Ahead(r, w, W) - k
      BY <1>1, <2>1, <2>2
    <2>4. QED
      BY <2>3 DEF v
  <1>4. QED
    BY <1>2, <1>3

(* Two slots of fewer than N in a row are not the same. *)
LEMMA SlotsDiffer ==
  ASSUME NEW N \in Nat \ {0}, NEW x \in Int, NEW i \in 0 .. N - 1,
         NEW j \in 0 .. N - 1, i # j
  PROVE  (x + i) % N # (x + j) % N
  <1>1. ASSUME NEW k \in 0 .. N - 1, NEW l \in 0 .. N - 1, k < l
        PROVE  (x + k) % N # (x + l) % N
    <2> DEFINE y == x + k  d == l - k
    <2>1. y \in Int /\ d \in 1 .. N - 1 /\ x + l = y + d
      BY <1>1
    <2>2. (y + d) % N # y % N
      <3> HIDE DEF y, d
      <3>1. QED BY <2>1, ModDistinct, Zenon
    <2>3. QED
      BY <2>1, <2>2
  <1>2. i < j \/ j < i
    OBVIOUS
  <1>3. QED
    BY <1>1, <1>2, Zenon

-----------------------------------------------------------------------------
(* The invariant *)

(* Where a process has the sleep-lock of its buffer. *)
Holding == {"read", "write", "wait", "written", "have", "release"}

Buffer == [block : Block \cup {None}, refcnt : Int, valid : BOOLEAN,
           disk : BOOLEAN, data : Val]
Info == [b : {0} \cup Buf, status : {0, 255}, write : BOOLEAN,
         block : Block \cup {None}, addr : Buf]
Ring == [idx : 0 .. IDX - 1, ring : [Desc -> Desc]]

Types ==
  /\ buf \in [Buf -> Buffer]
  /\ lru \in [Buf -> Buf] /\ held \in [Buf -> Proc \cup {None}]
  /\ pc \in [Proc -> {"idle", "lock", "drop"} \cup Holding]
  /\ b \in [Proc -> Buf]
  /\ op \in [Proc -> [block : Block \cup {None}, val : Val \cup {None}, idx : Desc]]
  /\ asleep \in [Proc -> {None} \cup Channel]
  /\ free \subseteq Desc
  /\ desc \in [Desc -> [next : Desc, more : BOOLEAN]]
  /\ info \in [Desc -> Info] /\ avail \in Ring /\ used \in Ring
  /\ used_idx \in 0 .. IDX - 1 /\ seen \in 0 .. IDX - 1
  /\ intr \in {"off", "loop"} /\ line \in BOOLEAN
  /\ doing \subseteq Desc /\ store \in [Block -> Val]

(* refcnt counts the processes between bget and brelse; their buffer is   *)
(* their block's, and nobody else's; the list has every buffer once; the   *)
(* sleep-lock is with the process that is past acquiresleep.               *)
Users(x) == {p \in Proc : pc[p] # "idle" /\ b[p] = x}
Counted == \A x \in Buf : buf[x].refcnt = Cardinality(Users(x))
Named ==
  /\ \A p \in Proc : pc[p] # "idle" =>
       op[p].block \in Block /\ buf[b[p]].block = op[p].block
  /\ \A x, y \in Buf : buf[x].block = buf[y].block /\ x # y => buf[x].block = None
Listed ==
  /\ \A x \in Buf : \E i \in Buf : lru[i] = x
  /\ \A i, j \in Buf : lru[i] = lru[j] => i = j
Locked == \A p \in Proc, x \in Buf :
  held[x] = p <=> pc[p] \in Holding /\ b[p] = x

(* The descriptors of a request are a chain of three, apart from the other  *)
(* chains and from the free ones, and there are no others.                 *)
Second(p) == desc[op[p].idx].next
Third(p) == desc[Second(p)].next
Three(p) == {op[p].idx, Second(p), Third(p)}
Chained ==
  /\ \A p \in Waiting :
       /\ desc[op[p].idx].more /\ desc[Second(p)].more /\ ~desc[Third(p)].more
       /\ op[p].idx # Second(p) /\ op[p].idx # Third(p) /\ Second(p) # Third(p)
       /\ Three(p) \cap free = {}
  /\ \A p, q \in Waiting : p # q => Three(p) \cap Three(q) = {}
  /\ \A d \in Desc : d \in free \/ \E p \in Waiting : d \in Three(p)

(* The entries of the rings are different, a request is in one place only,  *)
(* and the requests in flight are those whose buffer the disk owns.        *)
Gap(lo, hi) == (hi - lo + IDX) % IDX
At(r, lo, i) == r.ring[(lo + i) % NUM]
Distinct(r, lo, hi) ==
  \A i, j \in 0 .. Gap(lo, hi) - 1 : At(r, lo, i) = At(r, lo, j) => i = j
Own == {p \in Waiting : buf[b[p]].disk}
InAvail == Entries(avail, seen, avail.idx)
InUsed == Entries(used, used_idx, used.idx)
Flying ==
  /\ Distinct(avail, seen, avail.idx) /\ Distinct(used, used_idx, used.idx)
  /\ InAvail \cap doing = {} /\ InAvail \cap InUsed = {} /\ doing \cap InUsed = {}
  /\ InAvail \cup doing \cup InUsed = {op[p].idx : p \in Own}
(* What disk.info says of a request in flight is what its process asked for. *)
Described ==
  /\ \A p \in Own : LET r == info[op[p].idx] IN
       /\ r.b = b[p] /\ r.addr = b[p] /\ r.block = op[p].block
       /\ r.write <=> pc[p] = "written"
  /\ \A d \in InUsed : info[d].status = 0

(* A valid buffer holds what is on the disk, unless somebody writes it;    *)
(* so does the buffer of a request that the device is done with; and who   *)
(* has a block has a valid buffer.                                         *)
Writers == {p \in Proc : pc[p] \in {"write", "written"}}
Clean == \A x \in Buf : buf[x].valid =>
  /\ buf[x].block \in Block
  /\ (\E p \in Writers : b[p] = x) \/ buf[x].data = store[buf[x].block]
Answered == \A p \in Waiting : op[p].idx \notin InAvail \cup doing =>
  buf[b[p]].data = store[op[p].block]
Handed == \A p \in Proc : pc[p] = "have" => buf[b[p]].valid
Coherent == Clean /\ Answered /\ Handed

(* The laws of finite sets that the counts of users and descriptors need.  *)
(* They hold always, CountingHolds: they are part of the invariant so that *)
(* the theorems on finite sets are brought in once, at the end.            *)
OntoCounts ==
  \A S, T : \A f \in [S -> T] : IsFiniteSet(S) /\ (\A t \in T : \E x \in S : f[x] = t) =>
    /\ IsFiniteSet(T) /\ Cardinality(T) <= Cardinality(S)
    /\ (\A x, y \in S : f[x] = f[y] => x = y) => Cardinality(T) = Cardinality(S)

Counting ==
  /\ IsFiniteSet({}) /\ Cardinality({}) = 0
  /\ \A S : IsFiniteSet(S) => Cardinality(S) \in Nat /\ (Cardinality(S) = 0 => S = {})
  /\ \A S : \A T \in SUBSET S :
       IsFiniteSet(S) => IsFiniteSet(T) /\ Cardinality(T) <= Cardinality(S)
  /\ \A S, x : IsFiniteSet(S) =>
       /\ IsFiniteSet(S \cup {x}) /\ IsFiniteSet(S \ {x})
       /\ Cardinality(S \cup {x}) = IF x \in S THEN Cardinality(S) ELSE Cardinality(S) + 1
       /\ Cardinality(S \ {x}) = IF x \in S THEN Cardinality(S) - 1 ELSE Cardinality(S)
  /\ \A n \in Nat : IsFiniteSet(0 .. n - 1) /\ Cardinality(0 .. n - 1) = n
  /\ \A n \in Nat : IsFiniteSet(1 .. n) /\ Cardinality(1 .. n) = n
  /\ \A S, T : IsFiniteSet(S) /\ IsFiniteSet(T) /\ S \cap T = {} =>
       IsFiniteSet(S \cup T) /\ Cardinality(S \cup T) = Cardinality(S) + Cardinality(T)
  /\ OntoCounts
  /\ \A S \in SUBSET Nat : S # {} => \E x \in S : \A y \in S : x <= y

BInv == Counting /\ Types /\ Counted /\ Named /\ Listed /\ Locked /\ Chained /\ Flying
         /\ Described /\ Coherent /\ NothingMissed

-----------------------------------------------------------------------------
(* The rings of Blockdev *)

(* What the constants give: a ring is not longer than the range of its counters. *)
LEMMA Sizes == /\ NUM \in Nat \ {0} /\ NUM >= 3 /\ IDX \in Nat \ {0} /\ IDX % NUM = 0
               /\ IDX >= NUM
  <1>1. NUM \in Nat \ {0} /\ NUM >= 3 /\ IDX \in Nat \ {0} /\ IDX % NUM = 0
    BY BlockdevAssumption
  <1>2. IDX < NUM => IDX % NUM = IDX
    BY <1>1
  <1>3. QED
    BY <1>1, <1>2

(* What the difference of the counters says. *)
LEMMA GapIs ==
  ASSUME NEW lo \in 0 .. IDX - 1, NEW hi \in 0 .. IDX - 1
  PROVE  /\ Gap(lo, hi) = Ahead(lo, hi, IDX) /\ Gap(lo, hi) \in 0 .. IDX - 1
         /\ Gap(lo, hi) = 0 <=> lo = hi
  <1>1. IDX \in Nat \ {0}
    BY Sizes, SMTT(20)
  <1> DEFINE x == hi - lo
  <1>2. x \in Int /\ hi - lo + IDX = x + IDX * 1
    BY <1>1, SMTT(20)
  <1>3. (x + IDX * 1) % IDX = x % IDX
    <2>1. 1 \in Int
      BY SMTT(20)
    <2> HIDE DEF x
    <2>2. QED BY <1>1, <1>2, <2>1, ModShift, Zenon
  <1>4. Gap(lo, hi) = Ahead(lo, hi, IDX)
    BY <1>2, <1>3, SMTT(20) DEF Gap, Ahead
  <1>5. /\ Ahead(lo, hi, IDX) \in 0 .. IDX - 1
        /\ Ahead(lo, hi, IDX) = 0 <=> lo = hi
    BY <1>1, AheadIs, SMTT(20)
  <1>6. QED
    BY <1>4, <1>5

(* A counter names a slot. *)
LEMMA SlotIs ==
  ASSUME NEW x \in Int
  PROVE  x % NUM \in Desc
  BY Sizes DEF Desc

(* The slots of the counters. *)
LEMMA SlotOf ==
  ASSUME NEW lo \in 0 .. IDX - 1, NEW hi \in 0 .. IDX - 1
  PROVE  hi % NUM = (lo + Ahead(lo, hi, IDX)) % NUM
  <1>1. NUM \in Nat \ {0} /\ IDX \in Nat \ {0} /\ IDX % NUM = 0
    BY Sizes
  <1>2. QED
    BY <1>1, SlotAhead

(* The slot i after the next one, at the wrap of the counter too. *)
LEMMA SlotAfter ==
  ASSUME NEW lo \in 0 .. IDX - 1, NEW i \in Int
  PROVE  (((lo + 1) % IDX) + i) % NUM = (lo + 1 + i) % NUM
  <1>1. NUM \in Nat \ {0} /\ IDX \in Nat \ {0} /\ IDX % NUM = 0 /\ 1 \in 0 .. IDX
    BY Sizes
  <1> DEFINE y == lo + 1 + i
  <1>2. (lo + 1) % IDX = IF lo + 1 < IDX THEN lo + 1 ELSE lo + 1 - IDX
    BY <1>1, Moves, Zenon
  <1>3. y \in Int /\ (((lo + 1) % IDX) + i = y \/ ((lo + 1) % IDX) + i = y - IDX)
    BY <1>1, <1>2
  <1>4. (y - IDX) % NUM = y % NUM
    <2> HIDE DEF y
    <2>1. QED BY <1>1, <1>3, TurnKeepsSlot, Zenon
  <1>5. QED
    BY <1>3, <1>4

(* The empty set, alone, has no elements. *)
LEMMA CountEmpty ==
  ASSUME Counting
  PROVE  /\ IsFiniteSet({}) /\ Cardinality({}) = 0
         /\ \A S : IsFiniteSet(S) => (Cardinality(S) = 0 <=> S = {})
  BY DEF Counting

(* The number of elements is a natural number. *)
LEMMA CountType == ASSUME Counting, NEW S, IsFiniteSet(S) PROVE Cardinality(S) \in Nat
  BY DEF Counting

(* A subset has no more. *)
LEMMA CountSubset ==
  ASSUME Counting, NEW S, IsFiniteSet(S), NEW T \in SUBSET S
  PROVE  IsFiniteSet(T) /\ Cardinality(T) <= Cardinality(S)
  BY Zenon DEF Counting

(* One more is counted once. *)
LEMMA CountAdd ==
  ASSUME Counting, NEW S, NEW x, IsFiniteSet(S)
  PROVE  /\ IsFiniteSet(S \cup {x})
         /\ Cardinality(S \cup {x}) = IF x \in S THEN Cardinality(S) ELSE Cardinality(S) + 1
  BY Zenon DEF Counting

(* One less. *)
LEMMA CountRemove ==
  ASSUME Counting, NEW S, NEW x, IsFiniteSet(S)
  PROVE  /\ IsFiniteSet(S \ {x})
         /\ Cardinality(S \ {x}) = IF x \in S THEN Cardinality(S) - 1 ELSE Cardinality(S)
  BY Zenon DEF Counting

(* A range has as many elements as it is long. *)
LEMMA CountRange ==
  ASSUME Counting, NEW n \in Nat
  PROVE  /\ IsFiniteSet(0 .. n - 1) /\ Cardinality(0 .. n - 1) = n
         /\ IsFiniteSet(1 .. n) /\ Cardinality(1 .. n) = n
  BY Zenon DEF Counting

(* Disjoint sets are counted one by one. *)
LEMMA DisjointCount ==
  ASSUME Counting, NEW S, NEW T, IsFiniteSet(S), IsFiniteSet(T), S \cap T = {}
  PROVE  /\ IsFiniteSet(S \cup T)
         /\ Cardinality(S \cup T) = Cardinality(S) + Cardinality(T)
  BY ZenonT(40) DEF Counting

(* A set of one has one element. *)
LEMMA SingletonCount ==
  ASSUME Counting, NEW x
  PROVE  IsFiniteSet({x}) /\ Cardinality({x}) = 1
  <1>1. /\ IsFiniteSet({} \cup {x})
        /\ Cardinality({} \cup {x}) = Cardinality({}) + 1
    BY CountEmpty, CountAdd, Zenon
  <1>2. {} \cup {x} = {x}
    OBVIOUS
  <1>3. QED
    BY <1>1, <1>2, CountEmpty

(* A function onto a set counts it, exactly when it is one-to-one. *)
LEMMA CountOnto ==
  ASSUME Counting, NEW S, NEW T, NEW f \in [S -> T], IsFiniteSet(S),
         \A t \in T : \E x \in S : f[x] = t
  PROVE  /\ IsFiniteSet(T) /\ Cardinality(T) <= Cardinality(S)
         /\ (\A x, y \in S : f[x] = f[y] => x = y) => Cardinality(T) = Cardinality(S)
  <1>1. OntoCounts
    BY Zenon DEF Counting
  <1>2. QED
    BY <1>1, Zenon DEF OntoCounts

(* A ring whose entries differ has as many of them as its counters say. *)
LEMMA EntriesCount ==
  ASSUME Counting, NEW r \in Ring, NEW lo \in 0 .. IDX - 1, Distinct(r, lo, r.idx)
  PROVE  /\ IsFiniteSet(Entries(r, lo, r.idx))
         /\ Cardinality(Entries(r, lo, r.idx)) = Gap(lo, r.idx)
  <1> DEFINE n == Gap(lo, r.idx)  E == Entries(r, lo, r.idx)
             f == [i \in 0 .. n - 1 |-> At(r, lo, i)]
  <1>1. n \in Nat
    <2>1. r.idx \in 0 .. IDX - 1
      BY SMTT(20) DEF Ring
    <2>2. QED
      BY <2>1, GapIs, SMTT(20)
  <1>2. E = {At(r, lo, i) : i \in 0 .. n - 1}
    BY SMTT(20) DEF Entries, At, Gap
  <1>3. \A i, j \in 0 .. n - 1 : At(r, lo, i) = At(r, lo, j) => i = j
    BY SMTT(20) DEF Distinct
  <1>4. /\ f \in [0 .. n - 1 -> E] /\ \A t \in E : \E i \in 0 .. n - 1 : f[i] = t
        /\ \A i, j \in 0 .. n - 1 : f[i] = f[j] => i = j
    <2> HIDE DEF n, E
    <2>1. QED BY <1>2, <1>3
  <1>5. IsFiniteSet(0 .. n - 1) /\ Cardinality(0 .. n - 1) = n
    <2> HIDE DEF n
    <2>1. QED BY <1>1, CountRange, SMTT(20)
  <1>6. QED
    <2> HIDE DEF f, n, E
    <2>1. IsFiniteSet(E) /\ Cardinality(E) = n
      BY <1>4, <1>5, CountOnto, ZenonT(40)
    <2>2. QED
      BY <2>1, SMTT(20) DEF n, E

(* They are not more than the descriptors they can be. *)
LEMMA EntriesFit ==
  ASSUME Counting, NEW r \in Ring, NEW lo \in 0 .. IDX - 1, Distinct(r, lo, r.idx),
         NEW S, IsFiniteSet(S), Entries(r, lo, r.idx) \subseteq S
  PROVE  Gap(lo, r.idx) <= Cardinality(S)
  BY EntriesCount, CountSubset, SMTT(20)

(* An entry is added to a ring that is not full. *)
LEMMA Put ==
  ASSUME NEW r \in Ring, NEW lo \in 0 .. IDX - 1, NEW d \in Desc, NEW s,
         Gap(lo, r.idx) < NUM, Gap(lo, r.idx) < IDX - 1,
         s = [idx |-> (r.idx + 1) % IDX, ring |-> [r.ring EXCEPT ![r.idx % NUM] = d]]
  PROVE  /\ s \in Ring
         /\ Entries(s, lo, s.idx) = Entries(r, lo, r.idx) \cup {d}
         /\ Distinct(r, lo, r.idx) /\ d \notin Entries(r, lo, r.idx)
              => Distinct(s, lo, s.idx)
  <1> DEFINE n == Gap(lo, r.idx)  hi == r.idx
  <1>1. /\ hi \in 0 .. IDX - 1 /\ n \in Nat /\ n < NUM /\ n < IDX - 1
        /\ n = Ahead(lo, hi, IDX)
    <2>1. hi \in 0 .. IDX - 1
      BY SMTT(20) DEF Ring
    <2>2. QED
      BY <2>1, GapIs, SMTT(20)
  <1>2. s.idx \in 0 .. IDX - 1 /\ Gap(lo, s.idx) = n + 1
    <2>1. 1 \in 0 .. IDX /\ IDX \in Nat \ {0}
      BY Sizes, SMTT(20)
    <2>2. s.idx = (hi + 1) % IDX
      OBVIOUS
    <2>3. s.idx \in 0 .. IDX - 1
      BY <1>1, <2>1, <2>2, Moves, Zenon
    <2>4. Ahead(lo, s.idx, IDX) = n + 1
      <3> HIDE DEF n, hi
      <3>1. Ahead(lo, (hi + 1) % IDX, IDX) = Ahead(lo, hi, IDX) + 1
        BY <1>1, <2>1, AheadMoves, SMTT(20)
      <3>2. QED
        BY <1>1, <2>2, <3>1, SMTT(20)
    <2>5. QED
      BY <2>3, <2>4, GapIs, Zenon
  <1>3. hi % NUM \in Desc /\ hi % NUM = (lo + n) % NUM
    <2>1. hi % NUM \in Desc
      BY <1>1, SlotIs, SMTT(20)
    <2>2. hi % NUM = (lo + Ahead(lo, hi, IDX)) % NUM
      <3> HIDE DEF n, hi
      <3>1. QED BY <1>1, SlotOf, Zenon
    <2>3. QED
      BY <1>1, <2>1, <2>2, SMTT(20)
  <1>4. s \in Ring
    BY <1>2, <1>3, SMTT(20) DEF Ring
  <1>5. At(s, lo, n) = d
    BY <1>3, Zenon DEF At, Ring
  <1>6. ASSUME NEW i \in 0 .. n - 1
        PROVE  At(s, lo, i) = At(r, lo, i)
    <2>1. i \in 0 .. NUM - 1 /\ n \in 0 .. NUM - 1 /\ i # n /\ lo \in Int
      BY <1>1, <1>6, Sizes
    <2>2. (lo + i) % NUM # (lo + n) % NUM
      <3> HIDE DEF n
      <3>1. QED BY <2>1, Sizes, SlotsDiffer, Zenon
    <2>3. (lo + i) % NUM \in Desc
      BY <2>1, SlotIs
    <2>4. QED
      BY <1>3, <2>2, <2>3, SMTT(20) DEF At, Ring
  <1> HIDE DEF n
  <1>7. 0 .. Gap(lo, s.idx) - 1 = (0 .. n - 1) \cup {n}
    BY <1>1, <1>2
  <1>8. /\ Entries(r, lo, r.idx) = {At(r, lo, i) : i \in 0 .. n - 1}
        /\ Entries(s, lo, s.idx) = {At(s, lo, i) : i \in 0 .. Gap(lo, s.idx) - 1}
    BY Zenon DEF Entries, At, Gap, n
  <1>9. Entries(s, lo, s.idx) = Entries(r, lo, r.idx) \cup {d}
    BY <1>5, <1>6, <1>7, <1>8
  <1>10. ASSUME Distinct(r, lo, r.idx), d \notin Entries(r, lo, r.idx)
         PROVE  Distinct(s, lo, s.idx)
    <2> USE <1>10
    <2>1. \A i, j \in 0 .. n - 1 : At(r, lo, i) = At(r, lo, j) => i = j
      BY Zenon DEF Distinct, n
    <2>2. \A i \in 0 .. n - 1 : At(r, lo, i) # d
      BY <1>8, Zenon
    <2>3. QED
      BY <1>5, <1>6, <1>7, <2>1, <2>2 DEF Distinct
  <1>11. QED
    BY <1>4, <1>9, <1>10, Zenon

(* The first entry of a ring is taken. *)
LEMMA Get ==
  ASSUME NEW r \in Ring, NEW lo \in 0 .. IDX - 1, lo # r.idx,
         Distinct(r, lo, r.idx), NEW d, d = r.ring[lo % NUM], NEW l, l = (lo + 1) % IDX
  PROVE  /\ d \in Entries(r, lo, r.idx) /\ d \in Desc /\ l \in 0 .. IDX - 1
         /\ Entries(r, l, r.idx) = Entries(r, lo, r.idx) \ {d}
         /\ Distinct(r, l, r.idx)
  <1> DEFINE n == Gap(lo, r.idx)  hi == r.idx
  <1>1. /\ hi \in 0 .. IDX - 1 /\ n \in Nat \ {0} /\ n = Ahead(lo, hi, IDX)
        /\ n \in 0 .. IDX - 1
    <2>1. hi \in 0 .. IDX - 1
      BY DEF Ring
    <2>2. QED
      BY <2>1, GapIs, SMTT(20)
  <1>2. 1 \in 0 .. IDX /\ IDX \in Nat \ {0}
    BY Sizes
  <1>3. l \in 0 .. IDX - 1 /\ Gap(l, hi) = n - 1
    <2>1. l \in 0 .. IDX - 1
      BY <1>2, Moves, SMTT(20)
    <2>2. 1 \in 0 .. Ahead(lo, hi, IDX)
      BY <1>1, SMTT(20)
    <2>3. Ahead(l, hi, IDX) = Ahead(lo, hi, IDX) - 1
      BY <1>1, <1>2, <2>2, AheadMoves, SMTT(20)
    <2>4. QED
      BY <1>1, <2>1, <2>3, GapIs, Zenon
  <1>4. At(r, lo, 0) = d /\ d \in Desc
    <2>1. lo + 0 = lo /\ lo % NUM \in Desc
      BY SlotIs, SMTT(20)
    <2>2. QED
      BY <2>1, SMTT(20) DEF At, Ring
  <1>5. ASSUME NEW i \in 0 .. n - 2
        PROVE  At(r, l, i) = At(r, lo, i + 1)
    <2>1. (l + i) % NUM = (lo + 1 + i) % NUM
      <3>1. i \in Int
        OBVIOUS
      <3>2. (((lo + 1) % IDX) + i) % NUM = (lo + 1 + i) % NUM
        BY <3>1, SlotAfter, Zenon
      <3>3. QED
        BY <3>2
    <2>2. lo + 1 + i = lo + (i + 1)
      OBVIOUS
    <2>3. QED
      BY <2>1, <2>2, SMTT(20) DEF At
  <1> HIDE DEF n
  <1>6. 0 .. n - 1 = {0} \cup {i + 1 : i \in 0 .. n - 2}
    <2>1. ASSUME NEW k \in 0 .. n - 1, k # 0
          PROVE  k - 1 \in 0 .. n - 2 /\ k = (k - 1) + 1
      BY <1>1, <2>1
    <2>2. QED
      BY <1>1, <2>1
  <1>7. /\ Entries(r, lo, r.idx) = {At(r, lo, i) : i \in 0 .. n - 1}
        /\ Entries(r, l, r.idx) = {At(r, l, i) : i \in 0 .. n - 2}
    <2>1. 0 .. Gap(l, hi) - 1 = 0 .. n - 2
      BY <1>1, <1>3
    <2>2. Entries(r, l, r.idx) = {At(r, l, i) : i \in 0 .. Gap(l, hi) - 1}
      BY DEF Entries, At, Gap
    <2>3. QED
      BY <2>1, <2>2, Zenon DEF Entries, At, Gap, n
  <1>8. \A i, j \in 0 .. n - 1 : At(r, lo, i) = At(r, lo, j) => i = j
    BY DEF Distinct, n
  <1>9. \A i \in 0 .. n - 2 : At(r, lo, i + 1) # d
    <2> SUFFICES ASSUME NEW i \in 0 .. n - 2 PROVE At(r, lo, i + 1) # d
      OBVIOUS
    <2>1. i + 1 \in 0 .. n - 1 /\ 0 \in 0 .. n - 1 /\ i + 1 # 0
      BY <1>1
    <2>2. QED
      BY <1>4, <1>8, <2>1
  <1>10. Entries(r, l, r.idx) = Entries(r, lo, r.idx) \ {d}
    BY <1>4, <1>5, <1>6, <1>7, <1>9
  <1>11. Distinct(r, l, r.idx)
    <2> SUFFICES ASSUME NEW i \in 0 .. n - 2, NEW j \in 0 .. n - 2,
                        At(r, l, i) = At(r, l, j)
                 PROVE  i = j
      BY <1>1, <1>3 DEF Distinct
    <2>1. i + 1 \in 0 .. n - 1 /\ j + 1 \in 0 .. n - 1
      BY <1>1
    <2>2. At(r, lo, i + 1) = At(r, lo, j + 1)
      BY <1>5
    <2>3. i + 1 = j + 1
      BY <1>8, <2>1, <2>2
    <2>4. QED
      BY <2>3
  <1>12. QED
    <2>1. 0 \in 0 .. n - 1
      BY <1>1
    <2>2. QED
      BY <1>3, <1>4, <1>7, <1>10, <1>11, <2>1

(* Min finds the least element of a nonempty set of naturals, *)
LEMMA MinIn ==
  ASSUME Counting, NEW S \in SUBSET Nat, S # {}
  PROVE  Min(S) \in S
  BY Zenon DEF Counting, Min

(* ... and Max finds the greatest of a bounded one. *)
LEMMA MaxIn ==
  ASSUME Counting, NEW n \in Nat, NEW S \in SUBSET (1 .. n), S # {}
  PROVE  Max(S) \in S
  <1> DEFINE T == {j \in 0 .. n : n - j \in S}
  <1>1. T \in SUBSET Nat /\ T # {}
    <2>1. PICK i \in S : i \in 1 .. n
      BY Zenon
    <2>2. n - i \in 0 .. n /\ n - (n - i) = i
      BY <2>1
    <2>3. n - i \in T
      BY <2>1, <2>2
    <2>4. T \subseteq 0 .. n
      OBVIOUS
    <2> HIDE DEF T
    <2>5. QED
      BY <2>3, <2>4
  <1>2. PICK x \in T : \A y \in T : x <= y
    <2> HIDE DEF T
    <2>1. QED BY <1>1, Zenon DEF Counting
  <1>3. ASSUME NEW y \in S PROVE n - x >= y
    <2>1. y \in 1 .. n
      OBVIOUS
    <2>2. n - y \in 0 .. n /\ n - (n - y) = y
      BY <2>1
    <2>3. n - y \in T
      BY <2>2
    <2>4. x <= n - y /\ x \in 0 .. n
      BY <1>2, <2>3, Zenon
    <2>5. QED
      BY <2>1, <2>4
  <1>4. n - x \in S
    BY <1>2
  <1>5. QED
    BY <1>3, <1>4, Zenon DEF Max

-----------------------------------------------------------------------------
(* What the steps with a choice do. *)

(* bget finds the block in buffer x. *)
Hit(p, k, v, x) ==
  /\ buf[x].block = k
  /\ buf' = [buf EXCEPT ![x].refcnt = @ + 1]

(* bget recycles buffer x. *)
Miss(p, k, v, x) ==
  /\ buf[x].refcnt = 0 /\ \A y \in Buf : buf[y].block # k
  /\ buf' = [buf EXCEPT ![x] = Taken(x, k)]

Got(p, k, v, x) ==
  /\ pc[p] = "idle" /\ k \in Block /\ v \in Val \cup {None}
  /\ op' = [op EXCEPT ![p] = [block |-> k, val |-> v, idx |-> 0]]
  /\ b' = [b EXCEPT ![p] = x] /\ pc' = [pc EXCEPT ![p] = "lock"]
  /\ UNCHANGED <<lru, held, asleep, driver, intr, device>>
  /\ Hit(p, k, v, x) \/ Miss(p, k, v, x)

(* virtio_disk_rw puts a request in avail, with the descriptors i, j, k. *)
Queued(p, i, j, k) ==
  /\ pc[p] \in {"read", "write"} /\ intr = "off"
  /\ i # j /\ i # k /\ j # k
  /\ free' = free \ {i, j, k}
  /\ desc' = [desc EXCEPT ![i] = [next |-> j, more |-> TRUE],
                          ![j] = [next |-> k, more |-> TRUE],
                          ![k] = [next |-> 0, more |-> FALSE]]
  /\ info' = [info EXCEPT ![i] = [b |-> b[p], status |-> 255,
                                  write |-> pc[p] = "write",
                                  block |-> buf[b[p]].block, addr |-> b[p]]]
  /\ avail' = [idx |-> Inc(avail.idx),
               ring |-> [avail.ring EXCEPT ![avail.idx % NUM] = i]]
  /\ buf' = [buf EXCEPT ![b[p]].disk = TRUE]
  /\ op' = [op EXCEPT ![p].idx = i]
  /\ asleep' = [asleep EXCEPT ![p] = b[p]]
  /\ pc' = [pc EXCEPT ![p] = IF pc[p] = "write" THEN "written" ELSE "wait"]
  /\ UNCHANGED <<lru, held, b, used_idx, intr, device>>

(* ... or finds too few of them. *)
Short(p) ==
  /\ Cardinality(free) < 3
  /\ \A q \in Proc : asleep'[q] \in {asleep[q], None} \/ (q = p /\ asleep'[q] = Free0)
  /\ asleep' \in [Proc -> {None} \cup Channel]
  /\ UNCHANGED <<cache, pc, b, op, driver, intr, device>>

(* acquiresleep ends. *)
Acquires(p) ==
  /\ pc[p] = "lock" /\ held[b[p]] = None
  /\ held' = [held EXCEPT ![b[p]] = p]
  /\ Goto(p, IF buf[b[p]].valid THEN "have" ELSE "read")
  /\ UNCHANGED <<buf, lru, b, op, asleep, driver, intr, device>>

(* A process sleeps on its buffer's lock, or goes on sleeping on the       *)
(* buffer, or the disk is done with it and it frees its chain.             *)
Waits(p) ==
  /\ \/ buf[b[p]].disk /\ asleep' = [asleep EXCEPT ![p] = b[p]]
     \/ held[b[p]] # None /\ asleep' = [asleep EXCEPT ![p] = Lk(b[p])]
  /\ UNCHANGED <<cache, pc, b, op, driver, intr, device>>

Done(p) ==
  /\ pc[p] \in {"wait", "written"} /\ ~buf[b[p]].disk
  /\ free' = free \cup Chain(op[p].idx)
  /\ desc' = [e \in Desc |-> IF e \in Chain(op[p].idx)
                               THEN [next |-> 0, more |-> FALSE] ELSE desc[e]]
  /\ info' = [info EXCEPT ![op[p].idx].b = 0]
  /\ asleep' = Woken(Free0)
  /\ buf' = [buf EXCEPT ![b[p]].valid = TRUE]
  /\ pc' = [pc EXCEPT ![p] = IF pc[p] = "wait" THEN "have" ELSE "release"]
  /\ UNCHANGED <<lru, held, b, op, avail, used_idx, intr, device>>

(* What the processes sleep on. *)
LEMMA ChannelHas ==
  Free0 \in Channel /\ \A x \in Buf : x \in Channel /\ Lk(x) \in Channel
  BY Zenon DEF Channel

(* The sets that are counted are finite. *)
LEMMA Finite ==
  Counting =>
  /\ IsFiniteSet(Proc) /\ IsFiniteSet(Desc) /\ Cardinality(Desc) = NUM
  /\ \A S : S \subseteq Proc => IsFiniteSet(S) /\ Cardinality(S) \in 0 .. Cardinality(Proc)
  /\ \A S : S \subseteq Desc => IsFiniteSet(S) /\ Cardinality(S) \in 0 .. NUM
  <1> SUFFICES ASSUME Counting
               PROVE  /\ IsFiniteSet(Proc) /\ IsFiniteSet(Desc) /\ Cardinality(Desc) = NUM
                      /\ \A S : S \subseteq Proc =>
                           IsFiniteSet(S) /\ Cardinality(S) \in 0 .. Cardinality(Proc)
                      /\ \A S : S \subseteq Desc =>
                           IsFiniteSet(S) /\ Cardinality(S) \in 0 .. NUM
    OBVIOUS
  <1>1. IsFiniteSet(Proc) /\ IsFiniteSet(Desc) /\ Cardinality(Desc) = NUM
    <2>1. NUM \in Nat
      BY BlockdevAssumption
    <2>2. QED
      BY <2>1, CountRange, BlockdevAssumption DEF Desc
  <1>2. ASSUME NEW T, IsFiniteSet(T), NEW S, S \subseteq T
        PROVE  IsFiniteSet(S) /\ Cardinality(S) \in 0 .. Cardinality(T)
    <2> USE <1>2
    <2>1. S \in SUBSET T
      OBVIOUS
    <2>2. IsFiniteSet(S) /\ Cardinality(S) <= Cardinality(T)
      BY <2>1, CountSubset
    <2>3. Cardinality(S) \in Nat /\ Cardinality(T) \in Nat
      BY <2>2, CountType
    <2>4. QED
      BY <2>2, <2>3
  <1>3. QED
    BY <1>1, <1>2

(* bget finds the block or recycles a buffer that nobody uses. *)
LEMMA BgetCases ==
  ASSUME Counting, Types, Counted, Listed, NEW p \in Proc, NEW r \in Request, bget(p, r[1], r[2])
  PROVE  \E x \in Buf : Got(p, r[1], r[2], x)
  <1> DEFINE k == r[1]  v == r[2]
  <1> k \in Block /\ v \in Val \cup {None}
    BY BlockdevAssumption
  <1>1. op' = [op EXCEPT ![p] = [block |-> k, val |-> v, idx |-> 0]]
    BY DEF bget
  <1>2. CASE Cached(k) # {}
    <2> USE <1>2
    <2> DEFINE x == Min(Cached(k))
    <2>0. Cached(k) \in SUBSET Buf /\ Buf \subseteq Nat
      BY BlockdevAssumption DEF Cached, Buf
    <2>1. x \in Cached(k)
      BY <2>0, MinIn, Zenon
    <2>2. x \in Buf /\ buf[x].block = k
      BY <2>1 DEF Cached
    <2>3. buf' = [buf EXCEPT ![x].refcnt = @ + 1] /\ b' = [b EXCEPT ![p] = x]
      BY DEF bget
    <2> HIDE DEF x
    <2>4. QED
      BY <1>1, <2>2, <2>3, Zenon DEF bget, Got, Hit, Goto
  <1>3. CASE Cached(k) = {}
    <2> USE <1>3
    <2> DEFINE S == {i \in Buf : buf[lru[i]].refcnt = 0}
    <2>1. S # {}
      <3>1. PICK x \in Buf : buf[x].refcnt = 0
        BY Zenon DEF bget, Unused
      <3>2. PICK i \in Buf : lru[i] = x
        BY DEF Listed
      <3>3. QED
        BY <3>1, <3>2
    <2>2. Max(S) \in S
      <3>1. S \in SUBSET (1 .. NBUF) /\ NBUF \in Nat
        BY BlockdevAssumption, Zenon DEF Buf
      <3> HIDE DEF S
      <3>2. QED BY <2>1, <3>1, MaxIn, Zenon
    <2> DEFINE x == Victim
    <2>3. x \in Buf /\ buf[x].refcnt = 0
      BY <2>2 DEF Victim, Types
    <2>4. buf' = [buf EXCEPT ![x] = Taken(x, k)] /\ b' = [b EXCEPT ![p] = x]
      BY DEF bget
    <2>5. \A y \in Buf : buf[y].block # k
      BY DEF Cached
    <2> HIDE DEF x
    <2>6. QED
      BY <1>1, <2>3, <2>4, <2>5, Zenon DEF bget, Got, Miss, Goto
  <1>4. QED
    BY <1>2, <1>3

(* Three descriptors are found when three are free. *)
LEMMA ThreeFree ==
  ASSUME Counting, Types, ~(Cardinality(free) < 3)
  PROVE  LET a == alloc3_desc IN
         /\ a[1] \in free /\ a[2] \in free /\ a[3] \in free
         /\ a[1] # a[2] /\ a[1] # a[3] /\ a[2] # a[3]
  <1> DEFINE i == Min(free)  j == Min(free \ {i})  k == Min(free \ {i, j})
  <1> free \in SUBSET Nat /\ IsFiniteSet(free) /\ Cardinality(free) \in Nat
    <2>1. Desc \subseteq Nat
      BY BlockdevAssumption DEF Desc
    <2>2. free \subseteq Desc
      BY DEF Types
    <2>3. IsFiniteSet(free) /\ Cardinality(free) \in 0 .. NUM
      BY <2>2, Finite
    <2>4. QED
      BY <2>1, <2>2, <2>3
  <1>1. i \in free
    <2>1. free # {}
      BY CountEmpty
    <2>2. QED
      BY <2>1, MinIn
  <1>2. IsFiniteSet(free \ {i}) /\ Cardinality(free \ {i}) = Cardinality(free) - 1
    <2> HIDE DEF i
    <2>1. QED BY <1>1, CountRemove
  <1>3. j \in free \ {i}
    <2> HIDE DEF i
    <2>1. free \ {i} # {}
      BY <1>2, CountEmpty
    <2>2. free \ {i} \in SUBSET Nat
      BY Zenon
    <2>3. QED
      BY <2>1, <2>2, MinIn
  <1>4. /\ Cardinality((free \ {i}) \ {j}) = Cardinality(free) - 2
        /\ IsFiniteSet((free \ {i}) \ {j})
    <2> HIDE DEF i, j
    <2>1. /\ Cardinality((free \ {i}) \ {j}) = Cardinality(free \ {i}) - 1
          /\ IsFiniteSet((free \ {i}) \ {j})
      BY <1>2, <1>3, CountRemove, Zenon
    <2>2. QED
      BY <1>2, <2>1
  <1>5. k \in free \ {i, j}
    <2> HIDE DEF i, j
    <2>1. (free \ {i}) \ {j} = free \ {i, j}
      OBVIOUS
    <2>2. free \ {i, j} # {}
      BY <1>4, <2>1, CountEmpty
    <2>3. free \ {i, j} \in SUBSET Nat
      BY Zenon
    <2>4. QED
      BY <2>2, <2>3, MinIn
  <1>6. alloc3_desc = <<i, j, k>>
    BY DEF alloc3_desc
  <1> HIDE DEF i, j, k
  <1>7. QED
    BY <1>1, <1>3, <1>5, <1>6

(* What virtio_disk_rw does up to its first sleep. *)
LEMMA RwCases ==
  ASSUME Counting, Types, NEW p \in Proc, virtio_disk_rw(p)
  PROVE  Short(p) \/ \E i, j, k \in free : Queued(p, i, j, k)
  <1>1. CASE Cardinality(free) < 3
    <2> USE <1>1
    <2>1. asleep' = [IF free = {} THEN asleep ELSE Woken(Free0) EXCEPT ![p] = Free0]
      BY Zenon DEF virtio_disk_rw
    <2>2. /\ asleep' \in [Proc -> {None} \cup Channel]
          /\ \A q \in Proc : asleep'[q] \in {asleep[q], None} \/ (q = p /\ asleep'[q] = Free0)
      BY <2>1, ChannelHas, Zenon DEF Woken, Types
    <2>3. QED
      BY <2>2 DEF virtio_disk_rw, Short, cache
  <1>2. CASE ~(Cardinality(free) < 3)
    <2> USE <1>2
    <2> DEFINE i == alloc3_desc[1]  j == alloc3_desc[2]  k == alloc3_desc[3]
    <2>1. i \in free /\ j \in free /\ k \in free /\ i # j /\ i # k /\ j # k
      BY ThreeFree, Zenon
    <2>2. Queued(p, i, j, k)
      BY <2>1, Zenon DEF virtio_disk_rw, Queued, Goto
    <2> HIDE DEF i, j, k
    <2>3. QED
      BY <2>1, <2>2
  <1>3. QED
    BY <1>1, <1>2

(* What it does when it wakes. *)
LEMMA DoneCases ==
  ASSUME NEW p \in Proc, rw_done(p)
  PROVE  Waits(p) \/ Done(p)
  BY Zenon DEF rw_done, Waits, Done, Given, Goto, cache, driver

-----------------------------------------------------------------------------
(* Types *)

(* A request that is in flight is one of a process that waits for it. *)
LEMMA Owner ==
  ASSUME BInv, NEW d \in InAvail \cup doing \cup InUsed
  PROVE  \E p \in Own :
           /\ op[p].idx = d /\ info[d].b = b[p] /\ info[d].addr = b[p]
           /\ info[d].block = op[p].block /\ info[d].block \in Block
           /\ buf[b[p]].block = op[p].block /\ b[p] \in Buf
           /\ info[d].write <=> pc[p] = "written"
  <1>1. PICK p \in Own : op[p].idx = d
    BY Zenon DEF BInv, Flying
  <1>2. p \in Proc /\ pc[p] # "idle"
    BY Zenon DEF Own, Waiting
  <1>3. op[p].block \in Block /\ buf[b[p]].block = op[p].block
    BY <1>2, Zenon DEF BInv, Named
  <1>4. b[p] \in Buf
    BY <1>2, Zenon DEF BInv, Types
  <1>5. /\ info[d].b = b[p] /\ info[d].addr = b[p] /\ info[d].block = op[p].block
        /\ info[d].write <=> pc[p] = "written"
    BY <1>1 DEF BInv, Described
  <1>6. QED
    BY <1>1, <1>3, <1>4, <1>5, Zenon

(* A counter stays in its range. *)
LEMMA IncIn == ASSUME NEW i \in 0 .. IDX - 1 PROVE (i + 1) % IDX \in 0 .. IDX - 1
  BY Sizes

(* The fields of a buffer. *)
LEMMA BufferGet ==
  ASSUME Types, NEW x \in Buf
  PROVE  /\ buf \in [Buf -> Buffer] /\ buf[x].refcnt \in Int
         /\ buf[x].block \in Block \cup {None} /\ buf[x].data \in Val
  <1>1. buf \in [Buf -> Buffer] /\ buf[x] \in Buffer
    BY DEF Types
  <1>2. QED
    BY <1>1, Zenon DEF Buffer

(* A record with one field changed is still one. *)
LEMMA BufferSet ==
  ASSUME NEW f \in [Buf -> Buffer], NEW x \in Buf
  PROVE  /\ \A n \in Int : [f EXCEPT ![x].refcnt = n] \in [Buf -> Buffer]
         /\ [f EXCEPT ![x].disk = TRUE] \in [Buf -> Buffer]
         /\ [f EXCEPT ![x].disk = FALSE] \in [Buf -> Buffer]
         /\ [f EXCEPT ![x].valid = TRUE] \in [Buf -> Buffer]
         /\ \A v \in Val : [f EXCEPT ![x].data = v] \in [Buf -> Buffer]
         /\ \A k \in Block : [f EXCEPT ![x] = [f[x] EXCEPT !.block = k, !.valid = FALSE,
                                               !.refcnt = 1]] \in [Buf -> Buffer]
  <1> f[x] \in Buffer
    OBVIOUS
  <1>2. \A n \in Int : [f[x] EXCEPT !.refcnt = n] \in Buffer
    BY DEF Buffer
  <1>3. [f[x] EXCEPT !.disk = TRUE] \in Buffer
    BY Zenon DEF Buffer
  <1>4. [f[x] EXCEPT !.disk = FALSE] \in Buffer
    BY Zenon DEF Buffer
  <1>5. [f[x] EXCEPT !.valid = TRUE] \in Buffer
    BY Zenon DEF Buffer
  <1>6. \A v \in Val : [f[x] EXCEPT !.data = v] \in Buffer
    BY DEF Buffer
  <1>7. \A k \in Block : [f[x] EXCEPT !.block = k, !.valid = FALSE, !.refcnt = 1] \in Buffer
    <2> SUFFICES ASSUME NEW k \in Block
                 PROVE  [f[x] EXCEPT !.block = k, !.valid = FALSE, !.refcnt = 1] \in Buffer
      BY Zenon
    <2> DEFINE g == [f[x] EXCEPT !.block = k]  h == [g EXCEPT !.valid = FALSE]
    <2>1. g \in Buffer
      BY DEF Buffer
    <2>2. h \in Buffer
      <3> HIDE DEF g
      <3>1. QED BY <2>1, Zenon DEF Buffer
    <2>3. [h EXCEPT !.refcnt = 1] \in Buffer
      <3> HIDE DEF g, h
      <3>1. QED BY <2>2 DEF Buffer
    <2>4. [f[x] EXCEPT !.block = k, !.valid = FALSE, !.refcnt = 1] = [h EXCEPT !.refcnt = 1]
      OBVIOUS
    <2>5. QED
      BY <2>3, <2>4
  <1>8. QED
    BY <1>2, <1>3, <1>4, <1>5, <1>6, <1>7, Zenon

(* The same for the entries of disk.info. *)
LEMMA InfoSet ==
  ASSUME NEW f \in [Desc -> Info], NEW d \in Desc
  PROVE  /\ [f EXCEPT ![d].b = 0] \in [Desc -> Info]
         /\ [f EXCEPT ![d].status = 0] \in [Desc -> Info]
         /\ f[d].b \in {0} \cup Buf /\ f[d].addr \in Buf
  <1> f[d] \in Info
    OBVIOUS
  <1>1. [f[d] EXCEPT !.b = 0] \in Info
    BY DEF Info
  <1>2. [f[d] EXCEPT !.status = 0] \in Info
    BY DEF Info
  <1>3. f[d].b \in {0} \cup Buf /\ f[d].addr \in Buf
    BY Zenon DEF Info
  <1>4. QED
    BY <1>1, <1>2, <1>3

(* bget keeps the types. *)
LEMMA TypesGot ==
  ASSUME Types, NEW p \in Proc, NEW k, NEW v, NEW x \in Buf, Got(p, k, v, x)
  PROVE  Types'
  <1>1. 0 \in Desc
    BY Sizes DEF Desc
  <1>2. buf' \in [Buf -> Buffer]
    <2>0. buf \in [Buf -> Buffer]
      BY DEF Types
    <2>1. CASE Hit(p, k, v, x)
      <3>1. buf[x].refcnt + 1 \in Int
        BY BufferGet
      <3>2. QED
        BY <2>0, <2>1, <3>1, BufferSet, Zenon DEF Hit
    <2>2. CASE Miss(p, k, v, x)
      BY <2>0, <2>2, BufferSet, Zenon DEF Miss, Got, Taken
    <2>3. QED
      BY <2>1, <2>2, Zenon DEF Got
  <1>3. QED
    BY <1>1, <1>2 DEF Types, Got, driver, device, Holding

(* virtio_disk_rw keeps the types. *)
LEMMA TypesQueued ==
  ASSUME Types, NEW p \in Proc, NEW i \in free, NEW j \in free, NEW k \in free,
         Queued(p, i, j, k)
  PROVE  Types'
  <1> 0 \in Desc /\ Inc(avail.idx) \in 0 .. IDX - 1 /\ avail.idx % NUM \in Desc
    <2>1. avail.idx \in 0 .. IDX - 1
      BY Zenon DEF Types, Ring
    <2>2. Inc(avail.idx) \in 0 .. IDX - 1
      BY <2>1, IncIn DEF Inc
    <2>3. avail.idx % NUM \in Desc
      BY <2>1, SlotIs
    <2>4. 0 \in Desc
      BY Sizes DEF Desc
    <2>5. QED
      BY <2>2, <2>3, <2>4, Zenon
  <1>1. avail' \in Ring
    BY DEF Types, Queued, Ring
  <1>2. buf' \in [Buf -> Buffer]
    BY BufferSet, Zenon DEF Types, Queued
  <1>3. desc' \in [Desc -> [next : Desc, more : BOOLEAN]]
    BY Zenon DEF Types, Queued
  <1>4. info' \in [Desc -> Info]
    <2>0. b[p] \in Buf
      BY Zenon DEF Types
    <2>1. b[p] \in Buf /\ buf[b[p]].block \in Block \cup {None}
      BY <2>0, BufferGet
    <2>2. (pc[p] = "write") \in BOOLEAN
      BY Zenon
    <2>3. [b |-> b[p], status |-> 255, write |-> pc[p] = "write",
           block |-> buf[b[p]].block, addr |-> b[p]] \in Info
      BY <2>1, <2>2 DEF Info
    <2>4. QED
      BY <2>3, Zenon DEF Types, Queued
  <1>5. /\ op' \in [Proc -> [block : Block \cup {None}, val : Val \cup {None}, idx : Desc]]
        /\ asleep' \in [Proc -> {None} \cup Channel]
    <2>1. b[p] \in {None} \cup Channel
      BY ChannelHas, Zenon DEF Types
    <2>2. QED
      BY <2>1, Zenon DEF Types, Queued
  <1>6. pc' \in [Proc -> {"idle", "lock", "drop"} \cup Holding]
    BY Zenon DEF Types, Queued, Holding
  <1>7. free' \subseteq Desc
    BY Zenon DEF Types, Queued
  <1>8. QED
    BY <1>1, <1>2, <1>3, <1>4, <1>5, <1>6, <1>7, Zenon DEF Types, Queued, device

(* free_chain keeps the types. *)
LEMMA TypesDone ==
  ASSUME Types, NEW p \in Proc, Done(p)
  PROVE  Types'
  <1>0. 0 \in Desc
    BY Sizes, SMTT(20) DEF Desc
  <1>1. Chain(op[p].idx) \subseteq Desc
    BY SMTT(20) DEF Types, Chain
  <1>2. buf' \in [Buf -> Buffer]
    BY BufferSet, Zenon DEF Types, Done
  <1>3. desc' \in [Desc -> [next : Desc, more : BOOLEAN]]
    BY <1>0, SMTT(20) DEF Types, Done
  <1>4. info' \in [Desc -> Info]
    BY InfoSet, Zenon DEF Types, Done
  <1>5. asleep' \in [Proc -> {None} \cup Channel]
    BY Zenon DEF Types, Done, Woken
  <1>6. QED
    BY <1>1, <1>2, <1>3, <1>4, <1>5, Zenon DEF Types, Done, device, Holding

(* The steps of the processes that touch neither the rings nor a chain. *)
LEMMA TypesCache ==
  ASSUME Types, NEW p \in Proc,
         Acquires(p) \/ modify(p) \/ releasesleep(p) \/ Short(p) \/ Waits(p)
  PROVE  Types'
  <1>1. CASE Acquires(p)
    BY <1>1, Zenon DEF Types, Acquires, Goto, driver, device, Holding
  <1>2. CASE modify(p)
    <2> USE <1>2
    <2>1. buf' \in [Buf -> Buffer]
      <3>1. b[p] \in Buf /\ op[p].val \in Val \cup {None} /\ buf \in [Buf -> Buffer]
        BY DEF Types
      <3>2. CASE op[p].val = None
        BY <3>1, <3>2 DEF modify
      <3>3. CASE op[p].val # None
        <4>1. op[p].val \in Val /\ buf' = [buf EXCEPT ![b[p]].data = op[p].val]
          BY <3>1, <3>3, Zenon DEF modify
        <4>2. QED
          BY <3>1, <4>1, BufferSet, Zenon
      <3>4. QED
        BY <3>2, <3>3, Zenon
    <2>2. QED
      BY <2>1, Zenon DEF Types, modify, Goto, driver, device, Holding
  <1>3. CASE releasesleep(p)
    BY <1>3, Zenon DEF Types, releasesleep, Woken, Goto, driver, device, Holding
  <1>4. CASE Short(p)
    BY <1>4, Zenon DEF Types, Short, cache, driver, device
  <1>5. CASE Waits(p)
    <2>1. b[p] \in Channel /\ Lk(b[p]) \in Channel
      BY ChannelHas, Zenon DEF Types
    <2>2. QED
      BY <1>5, <2>1, Zenon DEF Types, Waits, cache, driver, device
  <1>6. QED
    BY <1>1, <1>2, <1>3, <1>4, <1>5, Zenon

(* brelse keeps the types. *)
LEMMA TypesDrop ==
  ASSUME Types, Listed, NEW p \in Proc, brelse(p)
  PROVE  Types'
  <1>0. 0 \in Desc /\ 1 \in Buf
    BY Sizes, BlockdevAssumption DEF Desc, Buf
  <1>1. buf' \in [Buf -> Buffer]
    <2>1. b[p] \in Buf /\ buf \in [Buf -> Buffer]
      BY DEF Types
    <2>2. buf[b[p]].refcnt - 1 \in Int
      BY <2>1, BufferGet
    <2>3. QED
      BY <2>1, <2>2, BufferSet, Zenon DEF brelse
  <1>2. MoveToFront(b[p]) \in [Buf -> Buf]
    <2> DEFINE at == CHOOSE i \in Buf : lru[i] = b[p]
    <2>1. b[p] \in Buf
      BY Zenon DEF Types
    <2>2. at \in Buf
      BY <2>1 DEF Listed
    <2> HIDE DEF at
    <2>3. \A i \in Buf : i # 1 /\ i <= at => i - 1 \in Buf
      BY BlockdevAssumption DEF Buf
    <2>4. MoveToFront(b[p]) = [i \in Buf |-> IF i = 1 THEN b[p]
             ELSE IF i <= at THEN lru[i - 1] ELSE lru[i]]
      BY DEF MoveToFront, at
    <2>5. QED
      BY <2>1, <2>3, <2>4 DEF Types
  <1>3. lru' \in [Buf -> Buf]
    BY <1>2 DEF Types, brelse
  <1>4. QED
    BY <1>0, <1>1, <1>3, Zenon DEF Types, brelse, Goto, NoOp, driver, device, Holding

(* The handler and the device keep the types. *)
LEMMA TypesDevice ==
  ASSUME BInv, \/ virtio_disk_intr \/ intr_turn \/ intr_end \/ take
               \/ \E d \in Desc : complete(d)
  PROVE  Types'
  <1> Types
    BY DEF BInv
  <1>1. CASE virtio_disk_intr
    BY <1>1, Zenon DEF Types, virtio_disk_intr, cache, driver
  <1>2. CASE intr_turn
    <2> USE <1>2
    <2>1. buf' \in [Buf -> Buffer]
      <3>1. used_idx % NUM \in Desc
        BY SlotIs DEF Types
      <3>2. Id \in Desc
        BY <3>1 DEF Types, Ring, Id
      <3>3. info[Id].b \in Buf
        BY <3>2, InfoSet, Zenon DEF Types, intr_turn
      <3>4. QED
        BY <3>3, BufferSet, Zenon DEF Types, intr_turn
    <2>2. asleep' \in [Proc -> {None} \cup Channel]
      BY Zenon DEF Types, intr_turn, Woken
    <2>3. used_idx' \in 0 .. IDX - 1
      BY IncIn, Zenon DEF Types, intr_turn, Inc
    <2>4. QED
      BY <2>1, <2>2, <2>3 DEF Types, intr_turn, device
  <1>3. CASE intr_end
    BY <1>3, Zenon DEF Types, intr_end, cache, driver, device
  <1>4. CASE take
    <2> USE <1>4
    <2>1. seen' \in 0 .. IDX - 1
      BY IncIn, Zenon DEF Types, take
    <2>2. doing' \subseteq Desc
      BY SlotIs, SMTT(20) DEF Types, Ring, take
    <2>3. QED
      BY <2>1, <2>2, Zenon DEF Types, take, cache, driver
  <1>5. ASSUME NEW d \in Desc, complete(d) PROVE Types'
    <2> USE <1>5
    <2>1. d \in doing /\ info[d].block \in Block /\ info[d].addr \in Buf
      BY Owner, SMTT(20) DEF complete
    <2>2. buf' \in [Buf -> Buffer]
      <3> DEFINE v == store[info[d].block]  x == info[d].addr
      <3>1. buf \in [Buf -> Buffer] /\ v \in Val /\ x \in Buf
        BY <2>1, Zenon DEF Types
      <3>2. buf' = buf \/ buf' = [buf EXCEPT ![x].data = v]
        BY SMTT(20) DEF complete
      <3> HIDE DEF v, x
      <3>3. [buf EXCEPT ![x].data = v] \in [Buf -> Buffer]
        BY <3>1, BufferSet, Zenon
      <3>4. QED
        BY <3>1, <3>2, <3>3, Zenon
    <2>3. store' \in [Block -> Val]
      <3>1. buf[info[d].addr].data \in Val
        BY <2>1, BufferGet, Zenon
      <3>2. QED
        BY <2>1, <3>1, SMTT(20) DEF Types, complete
    <2>4. (used.idx + 1) % IDX \in 0 .. IDX - 1 /\ used.idx % NUM \in Desc
      BY IncIn, SlotIs, SMTT(20) DEF Types, Ring
    <2>5. used' \in Ring
      BY <2>4, SMTT(20) DEF Types, Ring, complete
    <2>6. info' \in [Desc -> Info]
      BY InfoSet, Zenon DEF Types, complete
    <2>7. line' \in BOOLEAN /\ doing' \subseteq Desc
      BY Zenon DEF Types, complete
    <2>8. QED
      BY <2>2, <2>3, <2>5, <2>6, <2>7, Zenon DEF Types, complete
  <1>6. QED
    BY <1>1, <1>2, <1>3, <1>4, <1>5

-----------------------------------------------------------------------------
(* Types and the cache *)

(* The steps, one by one. *)
LEMMA NextCases ==
  ASSUME BInv, [Next]_vars
  PROVE  \/ \E p \in Proc, x \in Buf : \E k, v : Got(p, k, v, x)
         \/ \E p \in Proc : Acquires(p) \/ modify(p) \/ releasesleep(p) \/ brelse(p)
         \/ \E p \in Proc : Short(p) \/ (\E i, j, k \in free : Queued(p, i, j, k))
                            \/ Waits(p) \/ Done(p)
         \/ virtio_disk_intr \/ intr_turn \/ intr_end \/ take
         \/ (\E d \in Desc : complete(d)) \/ UNCHANGED state
  <1> Counting /\ Types /\ Counted /\ Listed
    BY Zenon DEF BInv
  <1>1. ASSUME NEW p \in Proc, NEW r \in Request, bget(p, r[1], r[2])
        PROVE  \E x \in Buf : Got(p, r[1], r[2], x)
    BY <1>1, BgetCases, Zenon
  <1>2. ASSUME NEW p \in Proc, virtio_disk_rw(p)
        PROVE  Short(p) \/ \E i, j, k \in free : Queued(p, i, j, k)
    BY <1>2, RwCases
  <1>3. ASSUME NEW p \in Proc, rw_done(p) PROVE Waits(p) \/ Done(p)
    BY <1>3, DoneCases, Zenon
  <1>4. ASSUME NEW p \in Proc, acquiresleep(p) PROVE Waits(p) \/ Acquires(p)
    BY <1>4, Zenon DEF acquiresleep, Waits, Acquires, cache
  <1>5. ASSUME NEW p \in Proc, NEW k, bget_panic(p, k) PROVE UNCHANGED state
    BY <1>5, Zenon DEF bget_panic
  <1>6. CASE UNCHANGED vars
    BY <1>6 DEF vars
  <1>7. QED
    BY <1>1, <1>2, <1>3, <1>4, <1>5, <1>6 DEF Next, Step, step

(* Every step keeps the types. *)
LEMMA TypesStep == BInv /\ [Next]_vars => Types'
  <1> SUFFICES ASSUME BInv, [Next]_vars PROVE Types'
    OBVIOUS
  <1> Types /\ Listed
    BY DEF BInv
  <1>1. ASSUME NEW p \in Proc, NEW k, NEW v, NEW x \in Buf, Got(p, k, v, x) PROVE Types'
    BY <1>1, TypesGot
  <1>2. ASSUME NEW p \in Proc, Acquires(p) PROVE Types'
    BY <1>2, TypesCache
  <1>3. ASSUME NEW p \in Proc, modify(p) PROVE Types'
    BY <1>3, TypesCache
  <1>4. ASSUME NEW p \in Proc, releasesleep(p) PROVE Types'
    BY <1>4, TypesCache
  <1>5. ASSUME NEW p \in Proc, brelse(p) PROVE Types'
    BY <1>5, TypesDrop
  <1>6. ASSUME NEW p \in Proc, Short(p) PROVE Types'
    BY <1>6, TypesCache
  <1>7. ASSUME NEW p \in Proc, NEW i \in free, NEW j \in free, NEW k \in free,
               Queued(p, i, j, k)
        PROVE  Types'
    BY <1>7, TypesQueued
  <1>8. ASSUME NEW p \in Proc, Waits(p) PROVE Types'
    BY <1>8, TypesCache
  <1>9. ASSUME NEW p \in Proc, Done(p) PROVE Types'
    BY <1>9, TypesDone
  <1>10. CASE virtio_disk_intr
    BY <1>10, TypesDevice
  <1>11. CASE intr_turn
    BY <1>11, TypesDevice
  <1>12. CASE intr_end
    BY <1>12, TypesDevice
  <1>13. CASE take
    BY <1>13, TypesDevice
  <1>14. ASSUME NEW d \in Desc, complete(d) PROVE Types'
    BY <1>14, TypesDevice, Zenon
  <1>15. CASE UNCHANGED state
    BY <1>15, Zenon DEF state, cache, driver, device, Types
  <1>16. QED
    BY <1>1, <1>2, <1>3, <1>4, <1>5, <1>6, <1>7, <1>8, <1>9, <1>10, <1>11, <1>12, <1>13,
       <1>14, <1>15, NextCases

(* Nobody uses a buffer that is not counted. *)
LEMMA NoUsers ==
  ASSUME Counting, Types, Counted, NEW x \in Buf, buf[x].refcnt = 0
  PROVE  Users(x) = {}
  <1>1. Cardinality(Users(x)) = 0 /\ IsFiniteSet(Users(x))
    BY Finite DEF Counted, Users
  <1>2. QED
    BY <1>1, CountEmpty, Zenon

(* The handler works on a buffer. *)
LEMMA TurnBuffer ==
  ASSUME Types, intr_turn
  PROVE  Id \in Desc /\ info[Id].b \in Buf
  <1>1. used_idx % NUM \in Desc
    BY SlotIs DEF Types
  <1>2. Id \in Desc
    BY <1>1, Zenon DEF Types, Ring, Id
  <1>3. QED
    BY <1>2, InfoSet, Zenon DEF Types, intr_turn

(* Every step keeps refcnt the number of users. *)
LEMMA CountedStep == BInv /\ [Next]_vars => Counted'
  <1> SUFFICES ASSUME BInv, [Next]_vars PROVE Counted'
    OBVIOUS
  <1> Counting /\ Types /\ Counted
    BY Zenon DEF BInv
  <1>1. ASSUME NEW p \in Proc, NEW k, NEW v, NEW x \in Buf, Got(p, k, v, x) PROVE Counted'
    <2> USE <1>1
    <2>1. ASSUME NEW y \in Buf PROVE buf'[y].refcnt = Cardinality(Users(y)')
      <3>0. IsFiniteSet(Users(y)) /\ Cardinality(Users(y)) \in Nat
        BY Finite, CountType, Zenon DEF Users
      <3>1. CASE y = x
        <4> USE <3>1
        <4>1. p \notin Users(x) /\ Users(x)' = Users(x) \cup {p}
          BY DEF Got, Users, Types
        <4>2. Cardinality(Users(x)') = Cardinality(Users(x)) + 1
          BY <3>0, <4>1, CountAdd, Zenon
        <4>3. buf[x].refcnt = Cardinality(Users(x))
          BY SMTT(20) DEF Counted
        <4>4. buf'[x].refcnt = buf[x].refcnt + 1
          <5>1. buf \in [Buf -> Buffer] /\ buf[x] \in Buffer
            BY DEF Types
          <5>2. CASE Hit(p, k, v, x)
            BY <5>1, <5>2, Zenon DEF Hit, Buffer
          <5>3. CASE Miss(p, k, v, x)
            <6> USE <5>3
            <6>1. buf'[x] = Taken(x, k)
              BY <5>1, SMTT(20) DEF Miss
            <6>2. buf'[x].refcnt = 1
              BY <5>1, <6>1, Zenon DEF Taken, Buffer
            <6>3. QED
              BY <6>2, SMTT(20) DEF Miss
          <5>4. QED
            BY <5>2, <5>3, Zenon DEF Got
        <4>5. QED
          BY <4>2, <4>3, <4>4, Zenon
      <3>2. CASE y # x
        <4> USE <3>2
        <4>1. Users(y)' = Users(y)
          BY SMTT(20) DEF Got, Users, Types
        <4>2. buf'[y].refcnt = buf[y].refcnt
          BY Zenon DEF Got, Hit, Miss, Types
        <4>3. QED
          BY <4>1, <4>2, Zenon DEF Counted
      <3>3. QED
        BY <3>1, <3>2, Zenon
    <2>2. QED
      BY <2>1, Zenon DEF Counted
  <1>2. ASSUME NEW p \in Proc, Acquires(p) PROVE Counted'
    <2>1. \A y \in Buf : Users(y)' = Users(y) /\ buf'[y].refcnt = buf[y].refcnt
      BY <1>2, Zenon DEF Acquires, Goto, driver, device, Users, Types, Buffer
    <2>2. QED
      BY <2>1, Zenon DEF Counted
  <1>3. ASSUME NEW p \in Proc, modify(p) PROVE Counted'
    <2> USE <1>3
    <2>0. buf' = buf \/ buf' = [buf EXCEPT ![b[p]].data = op[p].val]
      BY DEF modify
    <2>1. \A y \in Buf : buf'[y].refcnt = buf[y].refcnt
      BY <2>0, SMTT(20) DEF Types, Buffer
    <2>2. \A y \in Buf : Users(y)' = Users(y)
      BY DEF modify, Goto, Users, Types
    <2>3. QED
      BY <2>1, <2>2 DEF Counted
  <1>4. ASSUME NEW p \in Proc, releasesleep(p) PROVE Counted'
    <2>1. \A y \in Buf : Users(y)' = Users(y) /\ buf'[y].refcnt = buf[y].refcnt
      BY <1>4, Zenon DEF releasesleep, Goto, driver, device, Users, Types, Buffer
    <2>2. QED
      BY <2>1 DEF Counted
  <1>5. ASSUME NEW p \in Proc, brelse(p) PROVE Counted'
    <2> USE <1>5
    <2>1. ASSUME NEW y \in Buf PROVE buf'[y].refcnt = Cardinality(Users(y)')
      <3>0. IsFiniteSet(Users(y)) /\ Cardinality(Users(y)) \in Nat
        BY Finite, CountType, Zenon DEF Users
      <3>1. CASE y = b[p]
        <4> USE <3>1
        <4>1. p \in Users(y) /\ Users(y)' = Users(y) \ {p}
          BY SMTT(20) DEF brelse, Goto, Users, Types
        <4>2. Cardinality(Users(y)') = Cardinality(Users(y)) - 1
          BY <3>0, <4>1, CountRemove, Zenon
        <4>3. buf[y].refcnt = Cardinality(Users(y))
          BY Zenon DEF Counted
        <4>4. buf'[y].refcnt = buf[y].refcnt - 1
          BY DEF brelse, Types, Buffer
        <4>5. QED
          BY <4>2, <4>3, <4>4, SMTT(20)
      <3>2. CASE y # b[p]
        <4> USE <3>2
        <4>1. Users(y)' = Users(y)
          BY SMTT(20) DEF brelse, Goto, Users, Types
        <4>2. buf'[y].refcnt = buf[y].refcnt
          BY Zenon DEF brelse, Types
        <4>3. QED
          BY <4>1, <4>2, SMTT(20) DEF Counted
      <3>3. QED
        BY <3>1, <3>2, Zenon
    <2>2. QED
      BY <2>1, Zenon DEF Counted
  <1>6. ASSUME NEW p \in Proc, Short(p) PROVE Counted'
    BY <1>6, Zenon DEF Short, cache, driver, device, Counted, Users
  <1>7. ASSUME NEW p \in Proc, NEW i \in free, NEW j \in free, NEW k \in free,
               Queued(p, i, j, k)
        PROVE  Counted'
    <2>1. \A y \in Buf : Users(y)' = Users(y) /\ buf'[y].refcnt = buf[y].refcnt
      BY <1>7, SMTT(20) DEF Queued, device, Users, Types, Buffer
    <2>2. QED
      BY <2>1, Zenon DEF Counted
  <1>8. ASSUME NEW p \in Proc, Waits(p) PROVE Counted'
    BY <1>8 DEF Waits, cache, driver, device, Counted, Users
  <1>9. ASSUME NEW p \in Proc, Done(p) PROVE Counted'
    <2>1. \A y \in Buf : Users(y)' = Users(y) /\ buf'[y].refcnt = buf[y].refcnt
      BY <1>9 DEF Done, device, Users, Types, Buffer
    <2>2. QED
      BY <2>1 DEF Counted
  <1>10. CASE virtio_disk_intr
    BY <1>10, Zenon DEF virtio_disk_intr, cache, driver, Counted, Users
  <1>11. CASE intr_turn
    <2> USE <1>11
    <2>0. info[Id].b \in Buf
      BY TurnBuffer, Zenon
    <2>1. \A y \in Buf : Users(y)' = Users(y) /\ buf'[y].refcnt = buf[y].refcnt
      BY <2>0 DEF intr_turn, device, Users, Types, Buffer
    <2>2. QED
      BY <2>1 DEF Counted
  <1>12. CASE intr_end
    BY <1>12, Zenon DEF intr_end, cache, driver, device, Counted, Users
  <1>13. CASE take
    BY <1>13, Zenon DEF take, cache, driver, Counted, Users
  <1>14. ASSUME NEW d \in Desc, complete(d) PROVE Counted'
    <2>1. \A y \in Buf : Users(y)' = Users(y)
      BY <1>14, Zenon DEF complete, Users
    <2>2. \A y \in Buf : buf'[y].refcnt = buf[y].refcnt
      <3>1. buf' = buf \/ \E a, v : buf' = [buf EXCEPT ![a].data = v]
        BY <1>14, Zenon DEF complete
      <3>2. QED
        BY <3>1, SMTT(20) DEF Types, Buffer
    <2>3. QED
      BY <2>1, <2>2 DEF Counted
  <1>15. CASE UNCHANGED state
    BY <1>15, Zenon DEF state, cache, driver, device, Counted, Users
  <1>16. QED
    BY <1>1, <1>2, <1>3, <1>4, <1>5, <1>6, <1>7, <1>8, <1>9, <1>10, <1>11, <1>12, <1>13,
       <1>14, <1>15, NextCases

(* No step makes a second buffer of a block, or gives a buffer in use to another block. *)
LEMMA NamedStep == BInv /\ [Next]_vars => Named'
  <1> SUFFICES ASSUME BInv, [Next]_vars PROVE Named'
    BY SMTT(20)
  <1> Types /\ Counted /\ Named
    BY Zenon DEF BInv
  <1>1. ASSUME NEW p \in Proc, NEW k, NEW v, NEW x \in Buf, Got(p, k, v, x) PROVE Named'
    <2> USE <1>1
    <2>1. CASE Hit(p, k, v, x)
      <3> USE <2>1
      <3>1. \A y \in Buf : buf'[y].block = buf[y].block
        BY SMTT(20) DEF Hit, Types, Buffer
      <3>2. QED
        BY <3>1, SMTT(20) DEF Got, Hit, Named, Types
    <2>2. CASE Miss(p, k, v, x)
      <3> USE <2>2
      <3>1. Users(x) = {}
        BY NoUsers, Zenon DEF Miss, BInv
      <3>2. buf'[x] = Taken(x, k) /\ \A y \in Buf : y # x => buf'[y] = buf[y]
        BY Zenon DEF Miss, Types
      <3>3. buf'[x].block = k
        BY <3>2, SMTT(20) DEF Taken, Types, Buffer
      <3>4. \A q \in Proc : pc[q] # "idle" => b[q] # x
        BY <3>1, Zenon DEF Users
      <3>5. QED
        BY <3>2, <3>3, <3>4, Zenon DEF Got, Miss, Named, Types
    <2>3. QED
      BY <2>1, <2>2, Zenon DEF Got
  <1>0. ASSUME UNCHANGED <<b, op>>, \A y \in Buf : buf'[y].block = buf[y].block,
               \A q \in Proc : pc'[q] # "idle" => pc[q] # "idle"
        PROVE  Named'
    BY <1>0, Zenon DEF Named, Types
  <1>2. ASSUME NEW p \in Proc, Acquires(p) PROVE Named'
    <2>1. UNCHANGED <<b, op, buf>> /\ \A q \in Proc : pc'[q] # "idle" => pc[q] # "idle"
      BY <1>2, Zenon DEF Acquires, Goto, Types
    <2>2. QED
      BY <2>1, <1>0, Zenon
  <1>3. ASSUME NEW p \in Proc, modify(p) PROVE Named'
    <2> USE <1>3
    <2>0. buf' = buf \/ buf' = [buf EXCEPT ![b[p]].data = op[p].val]
      BY SMTT(20) DEF modify
    <2>1. \A y \in Buf : buf'[y].block = buf[y].block
      BY <2>0, SMTT(20) DEF Types, Buffer
    <2>2. UNCHANGED <<b, op>> /\ \A q \in Proc : pc'[q] # "idle" => pc[q] # "idle"
      BY Zenon DEF modify, Goto, Types
    <2>3. QED
      BY <2>1, <2>2, <1>0, Zenon
  <1>4. ASSUME NEW p \in Proc, releasesleep(p) PROVE Named'
    BY <1>4, Zenon DEF releasesleep, Goto, driver, device, Named, Types
  <1>5. ASSUME NEW p \in Proc, brelse(p) PROVE Named'
    <2> USE <1>5
    <2>1. \A y \in Buf : buf'[y].block = buf[y].block
      BY SMTT(20) DEF brelse, Types, Buffer
    <2>2. QED
      BY <2>1, SMTT(20) DEF brelse, Goto, NoOp, driver, device, Named, Types
  <1>6. ASSUME NEW p \in Proc, Short(p) PROVE Named'
    BY <1>6, Zenon DEF Short, cache, driver, device, Named, Types
  <1>7. ASSUME NEW p \in Proc, NEW i \in free, NEW j \in free, NEW k \in free,
               Queued(p, i, j, k)
        PROVE  Named'
    <2> USE <1>7
    <2>1. \A y \in Buf : buf'[y].block = buf[y].block
      BY SMTT(20) DEF Queued, Types, Buffer
    <2>2. QED
      BY <2>1, SMTT(20) DEF Queued, device, Named, Types
  <1>8. ASSUME NEW p \in Proc, Waits(p) PROVE Named'
    BY <1>8, Zenon DEF Waits, cache, driver, device, Named, Types
  <1>9. ASSUME NEW p \in Proc, Done(p) PROVE Named'
    <2> USE <1>9
    <2>1. \A y \in Buf : buf'[y].block = buf[y].block
      BY DEF Done, Types, Buffer
    <2>2. UNCHANGED <<b, op>> /\ \A q \in Proc : pc'[q] # "idle" => pc[q] # "idle"
      BY Zenon DEF Done, Types
    <2>3. QED
      BY <2>1, <2>2, <1>0, Zenon
  <1>10. CASE virtio_disk_intr
    BY <1>10, Zenon DEF virtio_disk_intr, cache, driver, Named, Types
  <1>11. CASE intr_turn
    <2> USE <1>11
    <2>0. info[Id].b \in Buf
      BY TurnBuffer, Zenon
    <2>1. \A y \in Buf : buf'[y].block = buf[y].block
      BY <2>0 DEF intr_turn, Types, Buffer
    <2>2. QED
      BY <2>1, <1>0, Zenon DEF intr_turn
  <1>12. CASE intr_end
    BY <1>12, Zenon DEF intr_end, cache, driver, device, Named, Types
  <1>13. CASE take
    BY <1>13, Zenon DEF take, cache, driver, Named, Types
  <1>14. ASSUME NEW d \in Desc, complete(d) PROVE Named'
    <2> USE <1>14
    <2>0. buf' = buf \/ buf' = [buf EXCEPT ![info[d].addr].data = store[info[d].block]]
      BY Zenon DEF complete
    <2>1. \A y \in Buf : buf'[y].block = buf[y].block
      BY <2>0, SMTT(20) DEF Types, Buffer
    <2>2. QED
      BY <2>1, <1>0, Zenon DEF complete
  <1>15. CASE UNCHANGED state
    BY <1>15, <1>0, Zenon DEF state, cache
  <1>16. QED
    BY <1>1, <1>2, <1>3, <1>4, <1>5, <1>6, <1>7, <1>8, <1>9, <1>10, <1>11, <1>12, <1>13,
       <1>14, <1>15, NextCases

(* brelse keeps every buffer in the list, once. *)
LEMMA Moved ==
  ASSUME Types, Listed, NEW x \in Buf, lru' = MoveToFront(x)
  PROVE  Listed'
  <1> DEFINE at == CHOOSE i \in Buf : lru[i] = x
  <1>1. at \in Buf /\ lru[at] = x
    BY Zenon DEF Listed
  <1>2. lru' = [i \in Buf |-> IF i = 1 THEN x ELSE IF i <= at THEN lru[i - 1] ELSE lru[i]]
    BY Zenon DEF MoveToFront
  <1> HIDE DEF at
  <1>3. Buf = 1 .. NBUF /\ NBUF \in Nat \ {0}
    BY BlockdevAssumption, Zenon DEF Buf
  <1>4. \A i, j \in Buf : lru[i] = lru[j] => i = j
    BY Zenon DEF Listed
  <1>5. ASSUME NEW i \in Buf, NEW j \in Buf, lru'[i] = lru'[j] PROVE i = j
    <2>1. ASSUME NEW n \in Buf
          PROVE  \/ n = 1 /\ lru'[n] = lru[at]
                 \/ n # 1 /\ n <= at /\ lru'[n] = lru[n - 1] /\ n - 1 \in Buf
                 \/ n # 1 /\ n > at /\ lru'[n] = lru[n]
      BY <1>1, <1>2, <1>3, SMTT(20)
    <2>2. QED
      BY <1>1, <1>3, <1>4, <1>5, <2>1, SMTT(20)
  <1>6. ASSUME NEW y \in Buf PROVE \E i \in Buf : lru'[i] = y
    <2>1. PICK n \in Buf : lru[n] = y
      BY Zenon DEF Listed
    <2>2. CASE n = at
      BY <1>1, <1>2, <1>3, <2>1, <2>2
    <2>3. CASE n < at
      <3>1. n + 1 \in Buf /\ n + 1 # 1 /\ n + 1 <= at /\ (n + 1) - 1 = n
        BY <1>1, <1>3, <2>3
      <3>2. QED
        BY <1>2, <2>1, <3>1, Zenon
    <2>4. CASE n > at
      <3>1. n # 1 /\ ~(n <= at)
        BY <1>1, <1>3, <2>4
      <3>2. QED
        BY <1>2, <2>1, <3>1, Zenon
    <2>5. QED
      BY <1>1, <1>3, <2>2, <2>3, <2>4, SMTT(20)
  <1>7. QED
    BY <1>5, <1>6, Zenon DEF Listed

(* Every step keeps every buffer in the list once. *)
LEMMA ListedStep == BInv /\ [Next]_vars => Listed'
  <1> SUFFICES ASSUME BInv, [Next]_vars PROVE Listed'
    OBVIOUS
  <1> Types /\ Listed
    BY DEF BInv
  <1>1. ASSUME NEW p \in Proc, NEW k, NEW v, NEW x \in Buf, Got(p, k, v, x) PROVE Listed'
    BY <1>1, Zenon DEF Got, Hit, Miss, Taken, driver, device, Listed
  <1>2. ASSUME NEW p \in Proc, Acquires(p) PROVE Listed'
    BY <1>2 DEF Acquires, Goto, driver, device, Listed
  <1>3. ASSUME NEW p \in Proc, modify(p) PROVE Listed'
    BY <1>3, Zenon DEF modify, Goto, driver, device, Listed
  <1>4. ASSUME NEW p \in Proc, releasesleep(p) PROVE Listed'
    BY <1>4 DEF releasesleep, Goto, driver, device, Listed
  <1>5. ASSUME NEW p \in Proc, brelse(p) PROVE Listed'
    <2>1. CASE lru' = lru
      BY <2>1, Zenon DEF Listed
    <2>2. CASE lru' = MoveToFront(b[p])
      BY <2>2, Moved, Zenon DEF Types
    <2>3. QED
      BY <1>5, <2>1, <2>2, Zenon DEF brelse
  <1>6. ASSUME NEW p \in Proc, Short(p) PROVE Listed'
    BY <1>6, Zenon DEF Short, cache, driver, device, Listed
  <1>7. ASSUME NEW p \in Proc, NEW i \in free, NEW j \in free, NEW k \in free,
               Queued(p, i, j, k)
        PROVE  Listed'
    BY <1>7, Zenon DEF Queued, device, Listed
  <1>8. ASSUME NEW p \in Proc, Waits(p) PROVE Listed'
    BY <1>8, Zenon DEF Waits, cache, driver, device, Listed
  <1>9. ASSUME NEW p \in Proc, Done(p) PROVE Listed'
    BY <1>9, Zenon DEF Done, device, Listed
  <1>10. CASE virtio_disk_intr
    BY <1>10, Zenon DEF virtio_disk_intr, cache, driver, Listed
  <1>11. CASE intr_turn
    BY <1>11, Zenon DEF intr_turn, device, Listed
  <1>12. CASE intr_end
    BY <1>12, Zenon DEF intr_end, cache, driver, device, Listed
  <1>13. CASE take
    BY <1>13, Zenon DEF take, cache, driver, Listed
  <1>14. ASSUME NEW d \in Desc, complete(d) PROVE Listed'
    BY <1>14, Zenon DEF complete, Listed
  <1>15. CASE UNCHANGED state
    BY <1>15 DEF state, cache, driver, device, Listed
  <1>16. QED
    BY <1>1, <1>2, <1>3, <1>4, <1>5, <1>6, <1>7, <1>8, <1>9, <1>10, <1>11, <1>12, <1>13,
       <1>14, <1>15, NextCases

(* Every step keeps the sleep-locks with the processes that hold a buffer. *)
LEMMA LockedStep == BInv /\ [Next]_vars => Locked'
  <1> SUFFICES ASSUME BInv, [Next]_vars PROVE Locked'
    OBVIOUS
  <1> Types /\ Locked
    BY Zenon DEF BInv
  <1>1. ASSUME NEW p \in Proc, NEW k, NEW v, NEW x \in Buf, Got(p, k, v, x) PROVE Locked'
    BY <1>1 DEF Got, Hit, Miss, Taken, driver, device, Locked, Types, Holding
  <1>2. ASSUME NEW p \in Proc, Acquires(p) PROVE Locked'
    <2>0. None \notin Proc
      BY BlockdevAssumption, Zenon
    <2>1. QED
      BY <1>2, <2>0 DEF Acquires, Goto, Locked, Types, Holding
  <1>3. ASSUME NEW p \in Proc, modify(p) PROVE Locked'
    BY <1>3 DEF modify, Goto, driver, device, Locked, Types, Holding
  <1>4. ASSUME NEW p \in Proc, releasesleep(p) PROVE Locked'
    <2>0. None \notin Proc
      BY BlockdevAssumption
    <2>1. QED
      BY <1>4, <2>0 DEF releasesleep, Goto, Locked, Types, Holding
  <1>5. ASSUME NEW p \in Proc, brelse(p) PROVE Locked'
    BY <1>5 DEF brelse, Goto, NoOp, driver, device, Locked, Types, Holding
  <1>6. ASSUME NEW p \in Proc, Short(p) PROVE Locked'
    BY <1>6 DEF Short, cache, driver, device, Locked, Types, Holding
  <1>7. ASSUME NEW p \in Proc, NEW i \in free, NEW j \in free, NEW k \in free,
               Queued(p, i, j, k)
        PROVE  Locked'
    BY <1>7 DEF Queued, device, Locked, Types, Holding
  <1>8. ASSUME NEW p \in Proc, Waits(p) PROVE Locked'
    BY <1>8 DEF Waits, cache, driver, device, Locked, Types, Holding
  <1>9. ASSUME NEW p \in Proc, Done(p) PROVE Locked'
    BY <1>9 DEF Done, device, Locked, Types, Holding
  <1>10. CASE virtio_disk_intr
    BY <1>10 DEF virtio_disk_intr, cache, driver, Locked, Types, Holding
  <1>11. CASE intr_turn
    BY <1>11 DEF intr_turn, device, Locked, Types, Holding
  <1>12. CASE intr_end
    BY <1>12, SMTT(20) DEF intr_end, cache, driver, device, Locked, Types, Holding
  <1>13. CASE take
    BY <1>13, SMTT(20) DEF take, cache, driver, Locked, Types, Holding
  <1>14. ASSUME NEW d \in Desc, complete(d) PROVE Locked'
    BY <1>14, SMTT(20) DEF complete, Locked, Types, Holding
  <1>15. CASE UNCHANGED state
    BY <1>15, SMTT(20) DEF state, cache, driver, device, Locked, Types, Holding
  <1>16. QED
    BY <1>1, <1>2, <1>3, <1>4, <1>5, <1>6, <1>7, <1>8, <1>9, <1>10, <1>11, <1>12, <1>13,
       <1>14, <1>15, NextCases

-----------------------------------------------------------------------------
(* The steps that move no request *)

(* The steps that put nothing in the rings, take nothing from them, and    *)
(* leave those who wait for the disk alone.                                *)
Quiet ==
  \/ \E p \in Proc : \/ \E x \in Buf : \E k, v : Got(p, k, v, x)
                     \/ Acquires(p) \/ modify(p) \/ releasesleep(p) \/ brelse(p)
                     \/ Short(p) \/ Waits(p)
  \/ virtio_disk_intr \/ intr_end \/ UNCHANGED state

(* Every step is quiet or one of the five that move a request. *)
LEMMA NextIsQuiet ==
  ASSUME BInv, [Next]_vars
  PROVE  \/ Quiet
         \/ \E p \in Proc : \E i, j, k \in free : Queued(p, i, j, k)
         \/ \E p \in Proc : Done(p)
         \/ intr_turn \/ take \/ \E d \in Desc : complete(d)
  BY NextCases, Zenon DEF Quiet

(* What such a step leaves alone. *)
Kept ==
  /\ UNCHANGED <<driver, used, seen, doing, store>>
  /\ Waiting' = Waiting
  /\ \A q \in Waiting : b'[q] = b[q] /\ op'[q] = op[q] /\ pc'[q] = pc[q]
  /\ \A y \in Buf : buf'[y].disk <=> buf[y].disk

(* What a quiet step keeps. *)
LEMMA QuietKeeps ==
  ASSUME Types, Quiet
  PROVE  Kept
  <1>1. UNCHANGED <<driver, used, seen, doing, store>>
    BY ZenonT(30) DEF Quiet, Got, Acquires, modify, releasesleep, brelse, Short, Waits,
       virtio_disk_intr, intr_end, state, driver, device
  <1>2. /\ Waiting' = Waiting
        /\ \A q \in Waiting : b'[q] = b[q] /\ op'[q] = op[q] /\ pc'[q] = pc[q]
    <2>1. ASSUME NEW p \in Proc, pc[p] \notin {"wait", "written"},
                 pc'[p] \notin {"wait", "written"}, \A q \in Proc \ {p} :
                   b'[q] = b[q] /\ op'[q] = op[q] /\ pc'[q] = pc[q]
          PROVE  /\ Waiting' = Waiting
                 /\ \A q \in Waiting : b'[q] = b[q] /\ op'[q] = op[q] /\ pc'[q] = pc[q]
      BY <2>1, Zenon DEF Waiting
    <2>2. CASE UNCHANGED <<pc, b, op>>
      BY <2>2, Zenon DEF Waiting
    <2>3. ASSUME NEW p \in Proc,
                 \/ Acquires(p) \/ modify(p) \/ releasesleep(p) \/ brelse(p)
                 \/ \E x \in Buf : \E k, v : Got(p, k, v, x)
          PROVE  /\ pc[p] \notin {"wait", "written"} /\ pc'[p] \notin {"wait", "written"}
                 /\ \A q \in Proc \ {p} : b'[q] = b[q] /\ op'[q] = op[q] /\ pc'[q] = pc[q]
      BY <2>3, SMTT(20) DEF Types, Acquires, modify, releasesleep, brelse, Got, Goto
    <2>4. QED
      BY <2>1, <2>2, <2>3, Zenon DEF Quiet, Short, Waits, virtio_disk_intr, intr_end, state
  <1>3. ASSUME NEW y \in Buf PROVE buf'[y].disk <=> buf[y].disk
    <2>1. buf \in [Buf -> Buffer] /\ \A p \in Proc : b[p] \in Buf
      BY Zenon DEF Types
    <2>2. CASE buf' = buf
      BY <2>2, SMTT(20)
    <2>3. ASSUME NEW p \in Proc, NEW k, NEW v, NEW x \in Buf, Got(p, k, v, x)
          PROVE  buf'[y].disk <=> buf[y].disk
      <3>1. buf[x] \in Buffer
        BY <2>1, SMTT(20)
      <3>2. Taken(x, k).disk <=> buf[x].disk
        BY <3>1, SMTT(20) DEF Taken, Buffer
      <3>3. CASE Hit(p, k, v, x)
        BY <2>1, <3>3, Zenon DEF Hit, Buffer
      <3>4. CASE Miss(p, k, v, x)
        BY <2>1, <3>2, <3>4 DEF Miss
      <3>5. QED
        BY <2>3, <3>3, <3>4, Zenon DEF Got
    <2>4. ASSUME NEW p \in Proc, modify(p) PROVE buf'[y].disk <=> buf[y].disk
      <3>1. buf' = buf \/ buf' = [buf EXCEPT ![b[p]].data = op[p].val]
        BY <2>4 DEF modify
      <3>2. QED
        BY <2>1, <3>1 DEF Buffer
    <2>5. ASSUME NEW p \in Proc, brelse(p) PROVE buf'[y].disk <=> buf[y].disk
      BY <2>1, <2>5, Zenon DEF brelse, Buffer
    <2>6. QED
      BY <2>2, <2>3, <2>4, <2>5, Zenon DEF Quiet, Acquires, releasesleep, Short, Waits,
         virtio_disk_intr, intr_end, state, cache
  <1>4. QED
    BY <1>1, <1>2, <1>3, SMTT(20) DEF Kept

(* Who waits for the disk holds a buffer. *)
LEMMA WaitingHolds ==
  ASSUME Types, NEW p \in Waiting
  PROVE  p \in Proc /\ pc[p] \in Holding /\ b[p] \in Buf
  BY Zenon DEF Waiting, Holding, Types

(* A quiet step leaves the buffers that the disk owns as they are. *)
LEMMA OwnKept ==
  ASSUME Types, Kept
  PROVE  Own' = Own
  <1>1. \A q \in Waiting : buf'[b'[q]].disk <=> buf[b[q]].disk
    BY WaitingHolds, Zenon DEF Kept
  <1>2. QED
    BY <1>1, Zenon DEF Own, Kept

-----------------------------------------------------------------------------
(* The descriptors *)

(* The steps that leave the chains alone. *)
LEMMA ChainedKept ==
  ASSUME Chained, desc' = desc, free' = free, Waiting' = Waiting,
         \A p \in Waiting : op'[p].idx = op[p].idx
  PROVE  Chained'
  <1>1. \A p \in Waiting : Second(p)' = Second(p)
    BY Zenon DEF Second
  <1>2. \A p \in Waiting : Third(p)' = Third(p)
    BY <1>1, Zenon DEF Third
  <1>3. \A p \in Waiting : Three(p)' = Three(p)
    BY <1>1, <1>2, Zenon DEF Three
  <1>4. QED
    BY <1>1, <1>2, <1>3, SMTT(20) DEF Chained

(* free_chain follows the three descriptors of the request. *)
LEMMA ChainIs ==
  ASSUME Types, Chained, NEW p \in Waiting
  PROVE  /\ Chain(op[p].idx) = Three(p) /\ Three(p) \subseteq Desc
         /\ op[p].idx \in Desc /\ Second(p) \in Desc /\ Third(p) \in Desc
  <1>1. op[p].idx \in Desc
    BY Zenon DEF Types, Waiting
  <1>2. Second(p) \in Desc
    BY <1>1, Zenon DEF Types, Second
  <1>3. Third(p) \in Desc
    BY <1>2, Zenon DEF Types, Third
  <1>4. desc[op[p].idx].more /\ desc[Second(p)].more
    BY Zenon DEF Chained
  <1>5. Chain(op[p].idx) = Three(p)
    BY <1>4, SMTT(20) DEF Chain, Three, Second, Third
  <1>6. QED
    BY <1>1, <1>2, <1>3, <1>5, Zenon DEF Three

(* alloc3_desc makes a chain of three free descriptors. *)
LEMMA ChainedQueued ==
  ASSUME Types, Chained, NEW p \in Proc, NEW i \in free, NEW j \in free, NEW k \in free,
         Queued(p, i, j, k)
  PROVE  Chained'
  <1> i \in Desc /\ j \in Desc /\ k \in Desc /\ i # j /\ i # k /\ j # k
    BY Zenon DEF Types, Queued
  <1>1. p \notin Waiting /\ Waiting' = Waiting \cup {p}
    BY Zenon DEF Queued, Waiting, Types
  <1>2. op'[p].idx = i /\ \A q \in Proc : q # p => op'[q] = op[q]
    BY DEF Queued, Types
  <1>3. /\ desc'[i] = [next |-> j, more |-> TRUE] /\ desc'[j] = [next |-> k, more |-> TRUE]
        /\ desc'[k] = [next |-> 0, more |-> FALSE]
        /\ \A e \in Desc : e \notin {i, j, k} => desc'[e] = desc[e]
    BY Zenon DEF Queued, Types
  <1>4. Second(p)' = j /\ Third(p)' = k /\ Three(p)' = {i, j, k}
    <2>1. desc'[i].next = j /\ desc'[j].next = k
      BY <1>3
    <2>2. QED
      BY <1>2, <2>1, Zenon DEF Second, Third, Three
  <1>5. ASSUME NEW q \in Waiting
        PROVE  /\ Second(q)' = Second(q) /\ Third(q)' = Third(q) /\ Three(q)' = Three(q)
               /\ op'[q].idx = op[q].idx /\ Three(q) \cap {i, j, k} = {}
               /\ desc'[op[q].idx] = desc[op[q].idx] /\ desc'[Second(q)] = desc[Second(q)]
               /\ desc'[Third(q)] = desc[Third(q)]
    <2>1. Three(q) \cap {i, j, k} = {}
      BY DEF Chained
    <2>2. op'[q].idx = op[q].idx
      BY <1>1, <1>2 DEF Waiting
    <2>3. /\ desc'[op[q].idx] = desc[op[q].idx] /\ desc'[Second(q)] = desc[Second(q)]
          /\ desc'[Third(q)] = desc[Third(q)]
      BY <1>3, <2>1, ChainIs, Zenon DEF Three
    <2>4. Second(q)' = Second(q)
      BY <2>2, <2>3, Zenon DEF Second
    <2>5. Third(q)' = Third(q)
      BY <2>3, <2>4, SMTT(20) DEF Third
    <2>6. QED
      BY <2>1, <2>2, <2>3, <2>4, <2>5, Zenon DEF Three
  <1>6. free' = free \ {i, j, k}
    BY Zenon DEF Queued
  <1>7. ASSUME NEW q \in Waiting'
        PROVE  /\ desc'[op'[q].idx].more /\ desc'[Second(q)'].more /\ ~desc'[Third(q)'].more
               /\ op'[q].idx # Second(q)' /\ op'[q].idx # Third(q)' /\ Second(q)' # Third(q)'
               /\ Three(q)' \cap free' = {}
    <2>1. CASE q = p
      BY <1>2, <1>3, <1>4, <1>6, <2>1, SMTT(20)
    <2>2. CASE q \in Waiting
      BY <1>5, <1>6, <2>2, SMTT(20) DEF Chained
    <2>3. QED
      BY <1>1, <2>1, <2>2, Zenon
  <1>8. ASSUME NEW q \in Waiting', NEW r \in Waiting', q # r
        PROVE  Three(q)' \cap Three(r)' = {}
    BY <1>1, <1>4, <1>5, <1>8, SMTT(20) DEF Chained
  <1>9. ASSUME NEW d \in Desc PROVE d \in free' \/ \E q \in Waiting' : d \in Three(q)'
    BY <1>1, <1>4, <1>5, <1>6, SMTT(20) DEF Chained
  <1>10. QED
    BY <1>7, <1>8, <1>9, Zenon DEF Chained

(* free_chain gives back one whole chain, and no other. *)
LEMMA ChainedDone ==
  ASSUME Types, Chained, NEW p \in Proc, Done(p)
  PROVE  Chained'
  <1>1. p \in Waiting /\ Waiting' = Waiting \ {p}
    BY SMTT(20) DEF Done, Waiting, Types
  <1>2. free' = free \cup Three(p) /\ op' = op
    BY <1>1, ChainIs DEF Done
  <1>3. \A e \in Desc : e \notin Three(p) => desc'[e] = desc[e]
    BY <1>1, ChainIs, Zenon DEF Done
  <1>5. ASSUME NEW q \in Waiting, q # p
        PROVE  /\ Second(q)' = Second(q) /\ Third(q)' = Third(q) /\ Three(q)' = Three(q)
               /\ Three(q) \cap Three(p) = {}
               /\ desc'[op[q].idx] = desc[op[q].idx] /\ desc'[Second(q)] = desc[Second(q)]
               /\ desc'[Third(q)] = desc[Third(q)]
    <2>1. Three(q) \cap Three(p) = {}
      BY <1>1, <1>5, Zenon DEF Chained
    <2>3. /\ desc'[op[q].idx] = desc[op[q].idx] /\ desc'[Second(q)] = desc[Second(q)]
          /\ desc'[Third(q)] = desc[Third(q)]
      <3>1. {op[q].idx, Second(q), Third(q)} \cap Three(p) = {}
        BY <2>1, Zenon DEF Three
      <3>2. QED
        BY <1>3, <3>1, ChainIs, Zenon
    <2>4. Second(q)' = Second(q)
      BY <1>2, <2>3, Zenon DEF Second
    <2>5. Third(q)' = Third(q)
      BY <2>3, <2>4, Zenon DEF Third
    <2>6. QED
      BY <1>2, <2>1, <2>3, <2>4, <2>5, Zenon DEF Three
  <1>7. ASSUME NEW q \in Waiting'
        PROVE  /\ desc'[op'[q].idx].more /\ desc'[Second(q)'].more /\ ~desc'[Third(q)'].more
               /\ op'[q].idx # Second(q)' /\ op'[q].idx # Third(q)' /\ Second(q)' # Third(q)'
               /\ Three(q)' \cap free' = {}
    <2>1. q \in Waiting /\ q # p
      BY <1>1, Zenon
    <2>2. Three(q) \cap free = {}
      BY <2>1, Zenon DEF Chained
    <2>3. Three(q)' \cap free' = {}
      BY <1>2, <1>5, <2>1, <2>2, Zenon
    <2>4. QED
      BY <1>2, <1>5, <2>1, <2>3, SMTT(20) DEF Chained
  <1>8. ASSUME NEW q \in Waiting', NEW r \in Waiting', q # r
        PROVE  Three(q)' \cap Three(r)' = {}
    BY <1>1, <1>5, <1>8, SMTT(20) DEF Chained
  <1>9. ASSUME NEW d \in Desc PROVE d \in free' \/ \E q \in Waiting' : d \in Three(q)'
    BY <1>1, <1>2, <1>5, SMTT(20) DEF Chained
  <1>10. QED
    BY <1>7, <1>8, <1>9, Zenon DEF Chained

(* alloc3_desc and free_chain. *)
LEMMA ChainedStep == BInv /\ [Next]_vars => Chained'
  <1> SUFFICES ASSUME BInv, [Next]_vars PROVE Chained'
    BY SMTT(20)
  <1> Types /\ Chained
    BY Zenon DEF BInv
  <1>1. CASE Quiet
    <2>1. Kept
      BY <1>1, QuietKeeps, Zenon
    <2>2. QED
      BY <2>1, ChainedKept DEF Kept, driver
  <1>2. ASSUME NEW p \in Proc, NEW i \in free, NEW j \in free, NEW k \in free,
               Queued(p, i, j, k)
        PROVE  Chained'
    BY <1>2, ChainedQueued
  <1>3. ASSUME NEW p \in Proc, Done(p) PROVE Chained'
    BY <1>3, ChainedDone, Zenon
  <1>4. CASE intr_turn
    <2>1. desc' = desc /\ free' = free /\ pc' = pc /\ op' = op
      BY <1>4, Zenon DEF intr_turn
    <2>2. QED
      BY <2>1, ChainedKept DEF Waiting
  <1>5. CASE take
    <2>1. desc' = desc /\ free' = free /\ pc' = pc /\ op' = op
      BY <1>5, Zenon DEF take, driver
    <2>2. QED
      BY <2>1, ChainedKept DEF Waiting
  <1>6. ASSUME NEW d \in Desc, complete(d) PROVE Chained'
    <2>1. desc' = desc /\ free' = free /\ pc' = pc /\ op' = op
      BY <1>6 DEF complete
    <2>2. QED
      BY <2>1, ChainedKept, Zenon DEF Waiting
  <1>7. QED
    BY <1>1, <1>2, <1>3, <1>4, <1>5, <1>6, NextIsQuiet, SMTT(20)
=============================================================================
