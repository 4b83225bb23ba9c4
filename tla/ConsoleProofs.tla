--------------------------- MODULE ConsoleProofs ----------------------------
(***************************************************************************)
(* Proofs about Console, for every set of readers and writers, every size  *)
(* of the input buffer and of the transmitter, and every width of the      *)
(* counters.                                                               *)
(***************************************************************************)
EXTENDS Console, TLAPS

-----------------------------------------------------------------------------
(* Remainders. *)

(* The remainder is the only number below P a multiple of P away. *)
LEMMA ModUnique ==
  ASSUME NEW P \in Nat \ {0}, NEW q \in Int, NEW x \in 0 .. P - 1
  PROVE  (P * q + x) % P = x
  OBVIOUS

(* A multiple of P may be added. *)
LEMMA ModShift ==
  ASSUME NEW P \in Nat \ {0}, NEW x \in Int, NEW m \in Int
  PROVE  (x + P * m) % P = x % P
  <1> DEFINE y == x % P  q == x \div P  s == q + m
  <1>1. q \in Int /\ y \in 0 .. P - 1 /\ x = P * q + y
    OBVIOUS
  <1> HIDE DEF y, q
  <1>2. s \in Int /\ x + P * m = P * s + y
    BY <1>1
  <1> HIDE DEF s
  <1>3. (P * s + y) % P = y
    BY <1>1, <1>2, ModUnique, Zenon
  <1>4. QED
    BY <1>2, <1>3 DEF y

(* Numbers less than P apart have different remainders. *)
LEMMA ModDistinct ==
  ASSUME NEW P \in Nat \ {0}, NEW x \in Int, NEW d \in 1 .. P - 1
  PROVE  (x + d) % P # x % P
  <1> DEFINE y == x % P  q == x \div P
  <1>1. q \in Int /\ y \in 0 .. P - 1 /\ x = P * q + y
    OBVIOUS
  <1> HIDE DEF y, q
  <1>2. CASE y + d < P
    <2> DEFINE u == y + d
    <2>1. u \in 0 .. P - 1 /\ x + d = P * q + u /\ u # y
      BY <1>1, <1>2
    <2> HIDE DEF u
    <2>2. (P * q + u) % P = u
      BY <1>1, <2>1, ModUnique, Zenon
    <2>3. QED
      BY <2>1, <2>2 DEF y
  <1>3. CASE y + d >= P
    <2> DEFINE u == y + d - P  s == q + 1
    <2>1. u \in 0 .. P - 1 /\ s \in Int /\ x + d = P * s + u /\ u # y
      BY <1>1, <1>3
    <2> HIDE DEF u, s
    <2>2. (P * s + u) % P = u
      BY <2>1, ModUnique, Zenon
    <2>3. QED
      BY <2>1, <2>2 DEF y
  <1>4. QED
    BY <1>1, <1>2, <1>3

(* The remainder of a number less than two turns away from 0. *)
LEMMA WrapOnce ==
  ASSUME NEW W \in Nat \ {0}, NEW x \in 0 .. 2 * W - 1
  PROVE  x % W = IF x < W THEN x ELSE x - W
  OBVIOUS

-----------------------------------------------------------------------------
(* The counters and the slots they stand for. *)

Counter == 0 .. UINT - 1

(* The counter k steps after x, and the slot of the jth character from x. *)
Plus(x, k) == (x + k) % UINT
Place(x, j) == Slot((x + j - 1) % UINT)

(* The sizes. *)
LEMMA Sizes ==
  /\ INPUT_BUF_SIZE \in Nat \ {0} /\ UINT \in Nat \ {0} /\ UINT > INPUT_BUF_SIZE
  /\ UINT % INPUT_BUF_SIZE = 0
  /\ FIFO \in Nat /\ FIFO >= 2 /\ BATCH \in Nat \ {0} /\ MaxLen \in Nat
  BY ConsoleAssumption

(* The remainder, without a remainder, for sums and differences. *)
LEMMA Turn ==
  ASSUME NEW a \in 0 .. 2 * UINT - 1
  PROVE  a % UINT = IF a < UINT THEN a ELSE a - UINT
  BY Sizes, WrapOnce, Zenon

(* Adding to a counter wraps at most once. *)
LEMMA PlusIs ==
  ASSUME NEW x \in Counter, NEW k \in 0 .. UINT
  PROVE  /\ Plus(x, k) = IF x + k < UINT THEN x + k ELSE (x + k) - UINT
         /\ Plus(x, k) \in Counter
  <1> DEFINE a == x + k
  <1>1. a \in 0 .. 2 * UINT - 1
    BY Sizes DEF Counter
  <1>2. a % UINT = IF a < UINT THEN a ELSE a - UINT
    <2> HIDE DEF a
    <2>1. QED BY <1>1, Turn
  <1>3. QED
    BY <1>2, Sizes DEF Plus, Counter

(* So does the increment of a counter. *)
LEMMA IncIs ==
  ASSUME NEW x \in Counter
  PROVE  /\ Inc(x) = IF x + 1 < UINT THEN x + 1 ELSE 0
         /\ Inc(x) \in Counter /\ Inc(x) = Plus(x, 1)
  <1>1. 1 \in 0 .. UINT /\ Inc(x) = Plus(x, 1)
    BY Sizes DEF Inc, Plus
  <1>2. /\ Plus(x, 1) = IF x + 1 < UINT THEN x + 1 ELSE (x + 1) - UINT
        /\ Plus(x, 1) \in Counter
    BY <1>1, PlusIs, Zenon
  <1>3. QED
    BY <1>1, <1>2, Sizes DEF Counter

(* A counter goes down to UINT - 1 from 0. *)
LEMMA DecIs ==
  ASSUME NEW x \in Counter
  PROVE  Dec(x) = (IF x = 0 THEN UINT - 1 ELSE x - 1) /\ Dec(x) \in Counter
  <1> DEFINE a == x + UINT - 1
  <1>1. a \in 0 .. 2 * UINT - 1
    BY Sizes DEF Counter
  <1>2. a % UINT = IF a < UINT THEN a ELSE a - UINT
    <2> HIDE DEF a
    <2>1. QED BY <1>1, Turn
  <1>3. QED
    BY <1>2, Sizes DEF Dec, Counter

(* The unsigned difference of two counters. *)
LEMMA MinusIs ==
  ASSUME NEW x \in Counter, NEW y \in Counter
  PROVE  /\ Minus(x, y) = IF x >= y THEN x - y ELSE x - y + UINT
         /\ Minus(x, y) \in Counter
  <1> DEFINE a == x + UINT - y
  <1>1. a \in 0 .. 2 * UINT - 1
    BY Sizes DEF Counter
  <1>2. a % UINT = IF a < UINT THEN a ELSE a - UINT
    <2> HIDE DEF a
    <2>1. QED BY <1>1, Turn
  <1>3. QED
    BY <1>2, Sizes DEF Minus, Counter

(* How the distance of two counters changes. *)
LEMMA Distance ==
  ASSUME NEW x \in Counter, NEW y \in Counter
  PROVE  /\ Minus(y, x) = 0 <=> x = y
         /\ Minus(y, x) + 1 < UINT => Minus(Inc(y), x) = Minus(y, x) + 1
         /\ x # y => Minus(Dec(y), x) = Minus(y, x) - 1
         /\ x # y => Minus(y, Inc(x)) = Minus(y, x) - 1
         /\ Plus(x, Minus(y, x)) = y
  <1>1. Inc(x) \in Counter /\ Inc(y) \in Counter /\ Dec(y) \in Counter
    BY IncIs, DecIs
  <1>2. /\ Inc(x) = IF x + 1 < UINT THEN x + 1 ELSE 0
        /\ Inc(y) = IF y + 1 < UINT THEN y + 1 ELSE 0
        /\ Dec(y) = IF y = 0 THEN UINT - 1 ELSE y - 1
    BY IncIs, DecIs
  <1>3. /\ Minus(y, x) = IF y >= x THEN y - x ELSE y - x + UINT
        /\ Minus(y, x) \in Counter
        /\ Minus(Inc(y), x) = IF Inc(y) >= x THEN Inc(y) - x ELSE Inc(y) - x + UINT
        /\ Minus(Dec(y), x) = IF Dec(y) >= x THEN Dec(y) - x ELSE Dec(y) - x + UINT
        /\ Minus(y, Inc(x)) = IF y >= Inc(x) THEN y - Inc(x) ELSE y - Inc(x) + UINT
    BY <1>1, MinusIs, Zenon
  <1>4. Minus(y, x) \in 0 .. UINT
    BY <1>3, Sizes DEF Counter
  <1>5. Plus(x, Minus(y, x)) = IF x + Minus(y, x) < UINT THEN x + Minus(y, x)
                               ELSE (x + Minus(y, x)) - UINT
    BY <1>4, PlusIs, Zenon
  <1>6. QED
    BY <1>2, <1>3, <1>5, Sizes DEF Counter

(* Distances add up, within a turn. *)
LEMMA Distances ==
  ASSUME NEW x \in Counter, NEW y \in Counter, NEW z \in Counter,
         Minus(y, x) + Minus(z, y) < UINT
  PROVE  Minus(z, x) = Minus(y, x) + Minus(z, y)
  <1>1. /\ Minus(y, x) = IF y >= x THEN y - x ELSE y - x + UINT
        /\ Minus(z, y) = IF z >= y THEN z - y ELSE z - y + UINT
        /\ Minus(z, x) = IF z >= x THEN z - x ELSE z - x + UINT
    BY MinusIs
  <1>2. QED
    BY <1>1, Sizes DEF Counter

(* A turn of the counters is a whole number of turns of the buffer. *)
LEMMA SlotPlus ==
  ASSUME NEW x \in Counter, NEW k \in 0 .. UINT
  PROVE  Slot(Plus(x, k)) = (x + k) % INPUT_BUF_SIZE
  <1> DEFINE S == INPUT_BUF_SIZE  m == UINT \div S  l == -m  a == x + k
  <1>1. S \in Nat \ {0} /\ m \in Int /\ UINT = S * m /\ a \in Int /\ UINT \in Int
    BY Sizes DEF Counter
  <1>2. Plus(x, k) = IF x + k < UINT THEN x + k ELSE (x + k) - UINT
    BY PlusIs, Zenon
  <1> HIDE DEF m
  <1>3. l \in Int /\ a - UINT = a + S * l
    BY <1>1
  <1> HIDE DEF a, l, S
  <1>4. (a + S * l) % S = a % S
    BY <1>1, <1>3, ModShift, Zenon
  <1>5. CASE a < UINT
    BY <1>2, <1>5, Zenon DEF Slot, S, a
  <1>6. CASE ~(a < UINT)
    <2>1. Plus(x, k) = a - UINT
      BY <1>2, <1>6, Zenon DEF a
    <2>2. Plus(x, k) % S = a % S
      BY <1>3, <1>4, <2>1, Zenon
    <2>3. QED
      BY <2>2, Zenon DEF Slot, S, a
  <1>7. QED
    BY <1>5, <1>6, Zenon

(* Slots less than a turn of the buffer apart are different. *)
LEMMA SlotsApart ==
  ASSUME NEW x \in Counter, NEW j \in 0 .. UINT, NEW k \in 0 .. UINT,
         j < k, k - j < INPUT_BUF_SIZE
  PROVE  Slot(Plus(x, j)) # Slot(Plus(x, k))
  <1> DEFINE a == x + j  d == k - j
  <1>1. INPUT_BUF_SIZE \in Nat \ {0} /\ a \in Int /\ d \in 1 .. INPUT_BUF_SIZE - 1
    BY Sizes DEF Counter
  <1>2. x + k = a + d
    BY DEF Counter
  <1>3. (a + d) % INPUT_BUF_SIZE # a % INPUT_BUF_SIZE
    <2> HIDE DEF a, d
    <2>1. QED BY <1>1, ModDistinct, Zenon
  <1>4. QED
    BY <1>2, <1>3, SlotPlus

-----------------------------------------------------------------------------
(* What the buffer holds. *)

(* The jth character from x is the one j - 1 steps after it. *)
LEMMA PlaceIs ==
  ASSUME NEW x \in Counter, NEW j \in 1 .. UINT
  PROVE  /\ Place(x, j) = Slot(Plus(x, j - 1)) /\ Place(x, j) = (x + (j - 1)) % INPUT_BUF_SIZE
         /\ Place(x, j) \in 0 .. INPUT_BUF_SIZE - 1
         /\ Place(x, 1) = Slot(x)
  <1>1. x + j - 1 = x + (j - 1) /\ j - 1 \in 0 .. UINT /\ x + (j - 1) \in Int
    BY Sizes DEF Counter
  <1>2. Place(x, j) = Slot(Plus(x, j - 1))
    BY <1>1 DEF Place, Plus
  <1>3. Place(x, j) = (x + (j - 1)) % INPUT_BUF_SIZE
    BY <1>1, <1>2, SlotPlus, Zenon
  <1>4. (x + 1 - 1) % UINT = x
    BY Sizes DEF Counter
  <1>5. QED
    BY <1>1, <1>2, <1>3, <1>4, Sizes DEF Place

(* The characters of b from x up to y are those of s. *)
Holds(b, x, y, s) ==
  Len(s) = Minus(y, x) /\ \A j \in 1 .. Len(s) : s[j] = b[Place(x, j)]

Text == Seq(Char)
Buffer == [0 .. INPUT_BUF_SIZE - 1 -> Char]

(* Holds says what Between says. *)
LEMMA HoldsIs ==
  ASSUME NEW b, NEW x \in Counter, NEW y \in Counter, NEW s \in Text
  PROVE  Holds(b, x, y, s) <=>
           [j \in 1 .. Minus(y, x) |-> b[Slot((x + j - 1) % UINT)]] = s
  <1>1. Minus(y, x) \in Nat
    BY MinusIs DEF Counter
  <1>2. DOMAIN s = 1 .. Len(s) /\ Len(s) \in Nat /\ s = [j \in 1 .. Len(s) |-> s[j]]
    BY DEF Text
  <1>3. QED
    BY <1>1, <1>2 DEF Holds, Place

(* The line from y to z follows the text from x to y. *)
LEMMA PlaceAfter ==
  ASSUME NEW x \in Counter, NEW y \in Counter, NEW j \in 1 .. UINT,
         Minus(y, x) + j <= UINT
  PROVE  Place(y, j) = Place(x, Minus(y, x) + j)
  <1> DEFINE d == Minus(y, x)
  <1>1. d \in Nat /\ d + j \in 1 .. UINT /\ d = IF y >= x THEN y - x ELSE y - x + UINT
    <2>1. d \in Counter /\ d = IF y >= x THEN y - x ELSE y - x + UINT
      BY MinusIs, Zenon
    <2>2. QED
      BY <2>1, Sizes DEF Counter
  <1>2. Place(y, j) = Slot(Plus(y, j - 1)) /\ Place(x, d + j) = Slot(Plus(x, (d + j) - 1))
    BY <1>1, PlaceIs, Zenon
  <1>3. j - 1 \in 0 .. UINT /\ (d + j) - 1 \in 0 .. UINT
    BY <1>1, Sizes
  <1>4. /\ Plus(y, j - 1) = IF y + (j - 1) < UINT THEN y + (j - 1) ELSE (y + (j - 1)) - UINT
        /\ Plus(x, (d + j) - 1) = IF x + ((d + j) - 1) < UINT THEN x + ((d + j) - 1)
                                  ELSE (x + ((d + j) - 1)) - UINT
    BY <1>3, PlusIs, Zenon
  <1>5. Plus(y, j - 1) = Plus(x, (d + j) - 1)
    BY <1>1, <1>4, Sizes DEF Counter
  <1>6. QED
    BY <1>2, <1>5

(* The place after the text is its end. *)
LEMMA PlaceEnd ==
  ASSUME NEW x \in Counter, NEW y \in Counter
  PROVE  Place(x, Minus(y, x) + 1) = Slot(y)
  <1> DEFINE d == Minus(y, x)
  <1>1. d \in Counter /\ Plus(x, d) = y
    BY MinusIs, Distance, Zenon
  <1>2. d + 1 \in 1 .. UINT /\ (d + 1) - 1 = d
    BY <1>1, Sizes DEF Counter
  <1>3. Place(x, d + 1) = Slot(Plus(x, (d + 1) - 1))
    BY <1>2, PlaceIs, Zenon
  <1>4. QED
    BY <1>1, <1>2, <1>3, Zenon

(* A character stored there overwrites none of the text. *)
LEMMA PlacesApart ==
  ASSUME NEW x \in Counter, NEW y \in Counter, Minus(y, x) < INPUT_BUF_SIZE,
         NEW j \in 1 .. Minus(y, x)
  PROVE  Place(x, j) # Slot(y)
  <1> DEFINE d == Minus(y, x)  i == j - 1
  <1>1. d \in Counter /\ Plus(x, d) = y
    BY MinusIs, Distance, Zenon
  <1>2. /\ j \in 1 .. UINT /\ d \in 0 .. UINT
        /\ i \in 0 .. UINT /\ i < d /\ d - i < INPUT_BUF_SIZE
    BY <1>1, Sizes DEF Counter
  <1>3. Place(x, j) = Slot(Plus(x, i))
    BY <1>2, PlaceIs, Zenon
  <1>4. Slot(Plus(x, i)) # Slot(Plus(x, d))
    <2> HIDE DEF i, d
    <2>1. QED BY <1>2, SlotsApart, Zenon
  <1>5. QED
    BY <1>1, <1>3, <1>4, Zenon

(* No text, no characters. *)
LEMMA HoldsNothing ==
  ASSUME NEW b, NEW x \in Counter
  PROVE  /\ Holds(b, x, x, <<>>)
         /\ \A y \in Counter, s \in Text : Holds(b, x, y, s) => (s = <<>> <=> x = y)
  <1>1. \A y \in Counter : Minus(y, x) = 0 <=> x = y
    BY Distance, Zenon
  <1>2. QED
    BY <1>1 DEF Holds, Text

(* The first character is taken. *)
LEMMA HoldsTail ==
  ASSUME NEW b, NEW x \in Counter, NEW y \in Counter, NEW s \in Text,
         Holds(b, x, y, s), x # y
  PROVE  /\ s # <<>> /\ s[1] = b[Slot(x)]
         /\ Tail(s) \in Text /\ Holds(b, Inc(x), y, Tail(s))
  <1>1. /\ Minus(y, x) \in Counter /\ Minus(y, x) # 0
        /\ Minus(y, Inc(x)) = Minus(y, x) - 1 /\ Inc(x) \in Counter
    BY Distance, MinusIs, IncIs, Zenon
  <1>2. Minus(Inc(x), x) = 1
    <2>1. Minus(x, x) = 0 /\ (Minus(x, x) + 1 < UINT => Minus(Inc(x), x) = Minus(x, x) + 1)
      BY Distance, Zenon
    <2>2. QED
      BY <2>1, Sizes
  <1>3. /\ s # <<>> /\ Len(s) \in 1 .. UINT - 1 /\ Tail(s) \in Text
        /\ Len(Tail(s)) = Len(s) - 1 /\ \A j \in 1 .. Len(s) - 1 : Tail(s)[j] = s[j + 1]
    BY <1>1 DEF Holds, Text, Counter
  <1>4. s[1] = b[Slot(x)]
    <2>1. 1 \in 1 .. UINT /\ 1 \in 1 .. Len(s)
      BY <1>3, Sizes
    <2>2. QED
      BY <2>1, PlaceIs, Zenon DEF Holds
  <1>5. ASSUME NEW j \in 1 .. Len(s) - 1 PROVE Tail(s)[j] = b[Place(Inc(x), j)]
    <2>1. /\ j \in 1 .. UINT /\ 1 + j <= UINT /\ 1 + j = j + 1 /\ j + 1 \in 1 .. Len(s)
      BY <1>3, Sizes
    <2>2. Place(Inc(x), j) = Place(x, 1 + j)
      BY <1>1, <1>2, <2>1, PlaceAfter
    <2>3. QED
      BY <1>3, <2>1, <2>2 DEF Holds
  <1>6. QED
    BY <1>1, <1>3, <1>4, <1>5 DEF Holds

(* The last character is deleted. *)
LEMMA HoldsFront ==
  ASSUME NEW b, NEW x \in Counter, NEW y \in Counter, NEW s \in Text,
         Holds(b, x, y, s), x # y
  PROVE  /\ s # <<>> /\ SubSeq(s, 1, Len(s) - 1) \in Text
         /\ Len(SubSeq(s, 1, Len(s) - 1)) = Len(s) - 1
         /\ \A j \in 1 .. Len(s) - 1 : SubSeq(s, 1, Len(s) - 1)[j] = s[j]
         /\ Holds(b, x, Dec(y), SubSeq(s, 1, Len(s) - 1))
  <1>1. Minus(y, x) \in Counter /\ Minus(y, x) # 0 /\ Minus(Dec(y), x) = Minus(y, x) - 1
    BY Distance, MinusIs, Zenon
  <1> DEFINE t == SubSeq(s, 1, Len(s) - 1)
  <1>2. /\ s # <<>> /\ Len(s) \in 1 .. UINT - 1 /\ t \in Text
        /\ Len(t) = Len(s) - 1 /\ \A j \in 1 .. Len(s) - 1 : t[j] = s[j]
    BY <1>1 DEF Holds, Text, Counter
  <1> HIDE DEF t
  <1>3. Holds(b, x, Dec(y), t)
    BY <1>1, <1>2 DEF Holds
  <1>4. QED
    BY <1>2, <1>3 DEF t

(* A character is stored after the text. *)
LEMMA HoldsAppend ==
  ASSUME NEW b \in Buffer, NEW x \in Counter, NEW y \in Counter, NEW s \in Text,
         Holds(b, x, y, s), Minus(y, x) < INPUT_BUF_SIZE, NEW k \in Char
  PROVE  Holds([b EXCEPT ![Slot(y)] = k], x, Inc(y), Append(s, k))
  <1> DEFINE c == [b EXCEPT ![Slot(y)] = k]
  <1>1. Minus(y, x) \in Counter /\ Minus(Inc(y), x) = Minus(y, x) + 1
    <2>1. Minus(y, x) \in Counter
      BY MinusIs, Zenon
    <2>2. Minus(y, x) + 1 < UINT
      BY <2>1, Sizes DEF Counter
    <2>3. QED
      BY <2>1, <2>2, Distance, Zenon
  <1>2. /\ Append(s, k) \in Text /\ Len(s) \in Nat /\ Len(Append(s, k)) = Len(s) + 1
        /\ \A j \in 1 .. Len(s) : Append(s, k)[j] = s[j]
        /\ Append(s, k)[Len(s) + 1] = k
    BY DEF Text
  <1>3. Place(x, Len(s) + 1) = Slot(y)
    BY PlaceEnd DEF Holds
  <1>4. Slot(y) \in 0 .. INPUT_BUF_SIZE - 1
    BY Sizes DEF Slot, Counter
  <1>5. c[Slot(y)] = k /\ \A z \in 0 .. INPUT_BUF_SIZE - 1 : z # Slot(y) => c[z] = b[z]
    BY <1>4 DEF Buffer
  <1> HIDE DEF c
  <1>6. ASSUME NEW j \in 1 .. Len(s) PROVE c[Place(x, j)] = s[j]
    <2>1. j \in 1 .. UINT /\ j \in 1 .. Minus(y, x)
      BY <1>1, Sizes DEF Counter, Holds
    <2>2. Place(x, j) # Slot(y) /\ Place(x, j) \in 0 .. INPUT_BUF_SIZE - 1
      BY <2>1, PlacesApart, PlaceIs, Zenon
    <2>3. QED
      BY <1>5, <2>2 DEF Holds
  <1>7. Holds(c, x, Inc(y), Append(s, k))
    <2>1. Len(Append(s, k)) = Minus(Inc(y), x)
      BY <1>1, <1>2 DEF Holds
    <2>2. ASSUME NEW j \in 1 .. Len(s) + 1 PROVE Append(s, k)[j] = c[Place(x, j)]
      <3>1. CASE j \in 1 .. Len(s)
        BY <1>2, <1>6, <3>1
      <3>2. CASE j = Len(s) + 1
        BY <1>2, <1>3, <1>5, <3>2
      <3>3. QED
        BY <1>2, <3>1, <3>2
    <2>3. QED
      BY <1>2, <2>1, <2>2 DEF Holds
  <1>8. QED
    BY <1>7 DEF c

(* It changes nothing before it. *)
LEMMA HoldsKept ==
  ASSUME NEW b \in Buffer, NEW x \in Counter, NEW y \in Counter, NEW z \in Counter,
         NEW s \in Text, Holds(b, x, y, s),
         Minus(y, x) <= Minus(z, x), Minus(z, x) < INPUT_BUF_SIZE, NEW k
  PROVE  Holds([b EXCEPT ![Slot(z)] = k], x, y, s)
  <1> DEFINE c == [b EXCEPT ![Slot(z)] = k]
  <1>1. Minus(y, x) \in Counter /\ Minus(z, x) \in Counter
    BY MinusIs, Zenon
  <1>2. \A i \in 0 .. INPUT_BUF_SIZE - 1 : i # Slot(z) => c[i] = b[i]
    BY DEF Buffer
  <1> HIDE DEF c
  <1>3. ASSUME NEW j \in 1 .. Len(s) PROVE c[Place(x, j)] = s[j]
    <2>1. j \in 1 .. UINT /\ j \in 1 .. Minus(z, x)
      BY <1>1, Sizes DEF Counter, Holds
    <2>2. Place(x, j) # Slot(z) /\ Place(x, j) \in 0 .. INPUT_BUF_SIZE - 1
      BY <2>1, PlacesApart, PlaceIs, Zenon
    <2>3. QED
      BY <1>2, <2>2 DEF Holds
  <1>4. Holds(c, x, y, s)
    BY <1>3 DEF Holds
  <1>5. QED
    BY <1>4 DEF c

(* Two texts, one after the other. *)
LEMMA HoldsJoin ==
  ASSUME NEW b, NEW x \in Counter, NEW y \in Counter, NEW z \in Counter,
         NEW s \in Text, NEW t \in Text, Holds(b, x, y, s), Holds(b, y, z, t),
         Len(s) + Len(t) < UINT
  PROVE  Holds(b, x, z, s \o t)
  <1>1. /\ s \o t \in Text /\ Len(s) \in Nat /\ Len(t) \in Nat
        /\ Len(s \o t) = Len(s) + Len(t)
        /\ \A j \in 1 .. Len(s) : (s \o t)[j] = s[j]
        /\ \A j \in 1 .. Len(t) : (s \o t)[Len(s) + j] = t[j]
    BY DEF Text
  <1>2. Len(s \o t) = Minus(z, x)
    BY <1>1, Distances DEF Holds
  <1>3. ASSUME NEW j \in 1 .. Len(t) PROVE b[Place(x, Len(s) + j)] = t[j]
    <2>1. j \in 1 .. UINT /\ Len(s) + j <= UINT
      BY <1>1, Sizes
    <2>2. Place(y, j) = Place(x, Len(s) + j)
      BY <2>1, PlaceAfter DEF Holds
    <2>3. QED
      BY <2>2 DEF Holds
  <1>4. ASSUME NEW j \in 1 .. Len(s) + Len(t) PROVE (s \o t)[j] = b[Place(x, j)]
    <2>1. CASE j <= Len(s)
      BY <1>1, <2>1 DEF Holds
    <2>2. CASE j > Len(s)
      <3> DEFINE i == j - Len(s)
      <3>1. i \in 1 .. Len(t) /\ j = Len(s) + i
        BY <1>1, <2>2
      <3> HIDE DEF i
      <3>2. QED
        BY <1>1, <1>3, <3>1
    <2>3. QED
      BY <1>1, <2>1, <2>2
  <1>5. QED
    BY <1>1, <1>2, <1>4 DEF Holds

-----------------------------------------------------------------------------
(* Types. *)

Busy == {"tx_loop", "tx_test", "tx_store", "tx_falling", "tx_asleep"}
PCs == {"idle", "read", "falling", "asleep", "woken", "write"} \cup Busy

Types ==
  /\ TypeOK
  /\ pc \in [Proc -> PCs] /\ lost \in Nat /\ eof \in [taken : Nat, returned : Nat]
  /\ ready \in Text /\ editing \in Text
  /\ intr = "put" => echo > 0
  /\ \A p \in Proc : pc[p] \in {"tx_test", "tx_store"} => batch[p] > 0

(* The text of the last line, which fits the buffer, has no line end. *)
Lines ==
  /\ Holds(buf, r, w, ready) /\ Holds(buf, w, e, editing)
  /\ Len(ready) + Len(editing) <= INPUT_BUF_SIZE
  /\ \A j \in 1 .. Len(editing) : editing[j] \notin {"nl", "D"}

(* The groups of variables that the steps leave alone. *)
Ring == <<buf, r, w, e, ready, editing>>
Wire == <<rx, tx, thri, lost, intr, echo>>

(* wakeup and kkill move sleepers to where they go on. *)
LEMMA ResumedType ==
  ASSUME pc \in [Proc -> PCs], NEW S
  PROVE  /\ Resumed(S) \in [Proc -> PCs]
         /\ \A p \in Proc : /\ Resumed(S)[p] \in Busy <=> pc[p] \in Busy
                            /\ \A l \in {"tx_test", "tx_store", "tx_falling", "falling"} :
                                 Resumed(S)[p] = l <=> pc[p] = l
                            /\ \A l \in {"asleep", "tx_asleep"} :
                                 Resumed(S)[p] = l <=> pc[p] = l /\ p \notin S
  BY DEF Resumed, PCs, Busy

(* The variables start with their types. *)
LEMMA TypesInit == Init => Types
  <1> SUFFICES ASSUME Init PROVE Types
    OBVIOUS
  <1>1. TypeOK
    <2>1. buf \in [0 .. INPUT_BUF_SIZE - 1 -> Char] /\ {r, w, e} \subseteq 0 .. UINT - 1
      BY Sizes DEF Init, Char
    <2>2. /\ n \in [Proc -> 0 .. MaxLen] /\ target \in [Proc -> 0 .. MaxLen]
          /\ left \in [Proc -> 0 .. MaxLen] /\ batch \in [Proc -> 0 .. BATCH]
          /\ echo \in 0 .. 3 * INPUT_BUF_SIZE /\ tx \in 0 .. FIFO /\ rx \in Seq(Key)
      BY Sizes DEF Init
    <2>3. QED
      BY <2>1, <2>2, Zenon DEF Init, TypeOK
  <1>2. QED
    BY <1>1 DEF Init, Types, PCs, Text

(* What typing a character does to the ring and to what it should hold. *)
LEMMA TypedRing ==
  ASSUME Types, Lines, intr_rx
  PROVE  /\ buf' \in Buffer /\ {r', w', e'} \subseteq Counter
         /\ ready' \in Text /\ editing' \in Text
         /\ Lines' /\ echo' \in 0 .. 3 * INPUT_BUF_SIZE
  <1> DEFINE k == Head(rx)
  <1>1. /\ buf \in Buffer /\ r \in Counter /\ w \in Counter /\ e \in Counter
        /\ ready \in Text /\ editing \in Text
        /\ Len(ready) = Minus(w, r) /\ Len(editing) = Minus(e, w)
        /\ Holds(buf, r, w, ready) /\ Holds(buf, w, e, editing)
    BY DEF Types, TypeOK, Counter, Buffer, Lines, Holds
  <1>2. k \in Key /\ consoleintr(k) /\ ready' = Typed(k)[1] /\ editing' = Typed(k)[2]
    BY DEF intr_rx, Types, TypeOK
  <1> HIDE DEF k
  <1>3. Len(ready) \in Nat /\ Len(editing) \in Nat
    BY <1>1 DEF Text
  <1>4. Minus(e, r) = Len(ready) + Len(editing) /\ Minus(e, r) \in 0 .. INPUT_BUF_SIZE
    <2>1. Minus(w, r) + Minus(e, w) < UINT
      BY <1>1, <1>3, Sizes DEF Lines
    <2>2. QED
      BY <1>1, <1>3, <2>1, Distances DEF Lines
  <1>5. /\ Inc(e) \in Counter /\ Dec(e) \in Counter
        /\ e = w <=> editing = <<>>
    <2>1. editing = <<>> <=> w = e
      BY <1>1, HoldsNothing, Zenon
    <2>2. QED
      BY <1>1, <2>1, IncIs, DecIs, Zenon
  <1>6. CASE k = "U"
    <2>1. /\ UNCHANGED <<buf, r, w>> /\ e' = Stop /\ echo' = 3 * Minus(e, Stop)
          /\ ready' = ready /\ editing' = <<>>
      BY <1>2, <1>6, Zenon DEF consoleintr, Typed, Char
    <2>2. Stop = w
      <3>1. ASSUME NEW j \in 1 .. Minus(e, w) PROVE buf[Slot((w + j - 1) % UINT)] # "nl"
        BY <1>1, <3>1 DEF Lines, Holds, Place
      <3>2. (w + 0) % UINT = w
        BY <1>1, Sizes DEF Counter
      <3>3. {j \in 1 .. Minus(e, w) : buf[Slot((w + j - 1) % UINT)] = "nl"} = {}
        BY <3>1, Zenon
      <3>4. QED
        BY <3>2, <3>3, Zenon DEF Stop
    <2>3. Holds(buf, w, w, <<>>) /\ <<>> \in Text /\ Len(<<>>) = 0
      BY <1>1, HoldsNothing DEF Text
    <2>4. Lines'
      BY <1>1, <1>3, <2>1, <2>2, <2>3, Sizes DEF Lines
    <2>5. QED
      BY <1>1, <1>3, <1>4, <2>1, <2>2, <2>3, <2>4, Sizes DEF Lines
  <1>7. CASE k = "H"
    <2>1. /\ UNCHANGED <<buf, r, w>> /\ ready' = ready
          /\ e' = (IF e # w THEN Dec(e) ELSE e) /\ echo' = (IF e # w THEN 3 ELSE 0)
          /\ editing' = IF editing = <<>> THEN <<>> ELSE SubSeq(editing, 1, Len(editing) - 1)
      BY <1>2, <1>7, Zenon DEF consoleintr, Typed, Char
    <2>2. CASE e = w
      BY <1>1, <1>5, <2>1, <2>2, Sizes DEF Lines
    <2>3. CASE e # w
      <3>1. /\ editing' \in Text /\ Holds(buf, w, e', editing')
            /\ Len(editing') = Len(editing) - 1
            /\ \A j \in 1 .. Len(editing) - 1 : editing'[j] = editing[j]
        BY <1>1, <1>5, <2>1, <2>3, HoldsFront
      <3>2. Lines'
        BY <1>1, <1>3, <2>1, <3>1, Sizes DEF Lines
      <3>3. QED
        BY <1>1, <1>5, <2>1, <2>3, <3>1, <3>2, Sizes
    <2>4. QED
      BY <2>2, <2>3, Zenon
  <1>8. CASE k \in Char /\ ~Room
    <2>1. UNCHANGED <<buf, r, w, e>> /\ echo' = 0
      BY <1>2, <1>8, Zenon DEF consoleintr, Char, cons
    <2>2. ready' = ready /\ editing' = editing
      <3>1. Append(editing, k) \in Text /\ Len(Append(editing, k)) = Len(editing) + 1
        BY <1>1, <1>8 DEF Text
      <3>2. Len(ready) + Len(Append(editing, k)) > INPUT_BUF_SIZE
        BY <1>3, <1>4, <1>8, <3>1, Sizes DEF Room
      <3>3. QED
        BY <1>2, <1>8, <3>2, Zenon DEF Typed, Char
    <2>3. QED
      BY <1>1, <2>1, <2>2, Sizes DEF Lines
  <1>9. CASE k \in Char /\ Room
    <2> DEFINE b == [buf EXCEPT ![Slot(e)] = k]  line == Append(editing, k)
    <2>1. /\ buf' = b /\ e' = Inc(e) /\ r' = r /\ echo' = 1
          /\ w' = IF Commits(k) THEN Inc(e) ELSE w
      BY <1>2, <1>9, Zenon DEF consoleintr, Char
    <2>2. /\ line \in Text /\ Len(line) = Len(editing) + 1 /\ line[Len(editing) + 1] = k
          /\ \A j \in 1 .. Len(editing) : line[j] = editing[j]
      BY <1>1, <1>9 DEF Text
    <2>3. Minus(e, r) < INPUT_BUF_SIZE /\ Minus(e, w) < INPUT_BUF_SIZE
      BY <1>1, <1>3, <1>4, <1>9, Sizes DEF Room
    <2>4. b \in Buffer
      BY <1>1, <1>9, Zenon DEF Buffer
    <2>5. Holds(b, w, Inc(e), line)
      BY <1>1, <1>9, <2>3, HoldsAppend, Zenon
    <2>6. Holds(b, r, w, ready)
      <3>1. Minus(w, r) <= Minus(e, r)
        BY <1>1, <1>3, <1>4
      <3>2. QED
        BY <1>1, <2>3, <3>1, HoldsKept, Zenon
    <2>7. Commits(k) <=> k \in {"nl", "D"} \/ Len(ready) + Len(line) = INPUT_BUF_SIZE
      <3>1. Minus(Inc(e), r) = Minus(e, r) + 1
        <4>1. Minus(e, r) + 1 < UINT
          BY <1>4, <2>3, Sizes
        <4>2. QED
          BY <1>1, <4>1, Distance, Zenon
      <3>2. QED
        BY <1>3, <1>4, <2>2, <3>1, Sizes DEF Commits
    <2>8. ~(Len(ready) + Len(line) > INPUT_BUF_SIZE) /\ Len(ready) + Len(line) < UINT
      BY <1>3, <1>4, <2>2, <2>3, Sizes
    <2> HIDE DEF b
    <2>9. CASE Commits(k)
      <3>1. ready' = ready \o line /\ editing' = <<>>
        BY <1>2, <1>9, <2>7, <2>8, <2>9 DEF Typed, Char
      <3>2. Holds(b, r, Inc(e), ready \o line)
        BY <1>1, <1>5, <2>2, <2>5, <2>6, <2>8, HoldsJoin, Zenon
      <3>3. Holds(b, Inc(e), Inc(e), <<>>)
        BY <1>5, HoldsNothing, Zenon
      <3>4. ready \o line \in Text /\ Len(ready \o line) = Len(ready) + Len(line)
        BY <1>1, <2>2 DEF Text
      <3>5. <<>> \in Text /\ Len(<<>>) = 0
        BY DEF Text
      <3>6. Lines'
        BY <1>3, <2>1, <2>2, <2>8, <2>9, <3>1, <3>2, <3>3, <3>4, <3>5, Sizes DEF Lines
      <3>7. QED
        BY <1>1, <1>5, <2>1, <2>4, <2>9, <3>1, <3>4, <3>5, <3>6, Sizes
    <2>10. CASE ~Commits(k)
      <3>1. ready' = ready /\ editing' = line
        BY <1>2, <1>9, <2>7, <2>8, <2>10 DEF Typed, Char
      <3>2. \A j \in 1 .. Len(line) : line[j] \notin {"nl", "D"}
        BY <1>3, <2>2, <2>7, <2>10 DEF Lines
      <3>3. Lines'
        BY <1>3, <2>1, <2>2, <2>5, <2>6, <2>8, <2>10, <3>1, <3>2, Sizes DEF Lines
      <3>4. QED
        BY <1>1, <1>5, <2>1, <2>2, <2>4, <2>10, <3>1, <3>3, Sizes
    <2>11. QED
      BY <2>9, <2>10, Zenon
  <1>10. QED
    BY <1>2, <1>6, <1>7, <1>8, <1>9, Zenon DEF Key

(* What reading a character does to them. *)
LEMMA ReadRing ==
  ASSUME Types, Lines, NEW p \in Proc, NEW copied \in BOOLEAN, read_char(p, copied)
  PROVE  r' \in Counter /\ ready' \in Text /\ Lines' /\ UNCHANGED <<buf, w, e, editing>>
  <1>1. /\ r \in Counter /\ w \in Counter /\ ready \in Text
        /\ Holds(buf, r, w, ready)
    BY DEF Types, TypeOK, Counter, Lines
  <1>2. r # w /\ UNCHANGED <<buf, w, e, editing>>
    BY Zenon DEF read_char
  <1>3. CASE r' = r /\ ready' = ready
    BY <1>1, <1>2, <1>3, Zenon DEF Lines
  <1>4. CASE r' = Inc(r) /\ ready' = Tail(ready)
    <2>1. ready # <<>> /\ Tail(ready) \in Text /\ Holds(buf, Inc(r), w, Tail(ready))
      BY <1>1, <1>2, HoldsTail
    <2>2. Inc(r) \in Counter
      BY <1>1, IncIs
    <2>3. Len(Tail(ready)) = Len(ready) - 1 /\ Len(ready) \in Nat /\ Len(editing) \in Nat
      BY <1>1, <2>1 DEF Types, Text
    <2>4. QED
      BY <1>2, <1>4, <2>1, <2>2, <2>3, Sizes DEF Lines
  <1>5. QED
    BY <1>3, <1>4, Zenon DEF read_char

(* Nothing else touches the ring. *)
LEMMA OtherRing ==
  ASSUME [Next]_vars, ~intr_rx, \A p \in Proc, copied \in BOOLEAN : ~read_char(p, copied)
  PROVE  UNCHANGED Ring
  <1> USE DEF Ring, cons, history
  <1>1. ASSUME NEW p \in Proc, step(p) PROVE UNCHANGED Ring
    BY <1>1, Zenon DEF step, read_wait, sleep, read_woken, read_full, uartwrite, write_end,
       tx_prepare, tx_test, tx_store, tx_end
  <1>2. CASE handler
    BY <1>2, Zenon DEF handler, uartintr, intr_tx, echo_test, echo_store, echo_end, intr_end
  <1>3. ASSUME NEW p, NEW k, consoleread(p, k) \/ consolewrite(p, k) \/ kkill(p) \/ type(k)
        PROVE  UNCHANGED Ring
    BY <1>3, Zenon DEF consoleread, consolewrite, kkill, type
  <1>4. CASE transmit
    BY <1>4, Zenon DEF transmit
  <1>5. CASE UNCHANGED vars
    BY <1>5 DEF vars
  <1>6. QED
    BY <1>1, <1>2, <1>3, <1>4, <1>5, Zenon DEF Next

(* The ring holds what was typed. *)
LEMMA LinesStep == Types /\ Lines /\ [Next]_vars => Lines'
  <1> SUFFICES ASSUME Types, Lines, [Next]_vars PROVE Lines'
    BY Zenon
  <1>1. CASE intr_rx
    BY <1>1, TypedRing
  <1>2. CASE \E p \in Proc, copied \in BOOLEAN : read_char(p, copied)
    BY <1>2, ReadRing, Zenon
  <1>3. CASE UNCHANGED Ring
    BY <1>3 DEF Ring, Lines
  <1>4. QED
    BY <1>1, <1>2, <1>3, OtherRing

(* Types of what a step leaves alone. *)
RingType ==
  /\ buf \in Buffer /\ {r, w, e} \subseteq Counter
  /\ ready \in Text /\ editing \in Text
ProcType ==
  /\ pc \in [Proc -> PCs] /\ chan \in [Proc -> {None, "r", "tx"}]
  /\ killed \in [Proc -> BOOLEAN]
  /\ lock \in Proc \cup {None, "intr"} /\ tx_lock \in Proc \cup {None}
CountType ==
  /\ n \in [Proc -> 0 .. MaxLen] /\ target \in [Proc -> 0 .. MaxLen]
  /\ left \in [Proc -> 0 .. MaxLen] /\ batch \in [Proc -> 0 .. BATCH]
  /\ \A p \in Proc : pc[p] \in {"tx_test", "tx_store"} => batch[p] > 0
WireType ==
  /\ intr \in {"off", "tx", "rx", "echo", "put"} /\ echo \in 0 .. 3 * INPUT_BUF_SIZE
  /\ tx \in 0 .. FIFO /\ rx \in Seq(Key) /\ thri \in BOOLEAN /\ lost \in Nat
  /\ intr = "put" => echo > 0
EofType == eof \in [taken : Nat, returned : Nat]

(* The types, in the groups that the steps change together. *)
LEMMA TypesAre == Types <=> RingType /\ ProcType /\ CountType /\ WireType /\ EofType
  BY Zenon DEF Types, TypeOK, RingType, ProcType, CountType, WireType, EofType, Buffer, Counter

(* The steps keep the types of the ring and of the text it stands for. *)
LEMMA RingTyped == Types /\ Lines /\ [Next]_vars => RingType'
  <1> SUFFICES ASSUME Types, Lines, [Next]_vars PROVE RingType'
    OBVIOUS
  <1>0. RingType
    BY TypesAre
  <1>1. CASE intr_rx
    BY <1>1, TypedRing, Zenon DEF RingType
  <1>2. CASE \E p \in Proc, copied \in BOOLEAN : read_char(p, copied)
    BY <1>0, <1>2, ReadRing, Zenon DEF RingType
  <1>3. CASE UNCHANGED Ring
    BY <1>0, <1>3, Zenon DEF Ring, RingType
  <1>4. QED
    BY <1>1, <1>2, <1>3, OtherRing

(* The program counters, channels and locks. *)
LEMMA ProcTyped == ProcType /\ [Next]_vars => ProcType'
  <1> SUFFICES ASSUME ProcType, [Next]_vars PROVE ProcType'
    BY Zenon
  <1> USE DEF At, Goto
  <1>1. pc \in [Proc -> PCs] /\ chan \in [Proc -> {None, "r", "tx"}]
    BY Zenon DEF ProcType
  <1>2. ASSUME NEW S, pc' = Resumed(S) PROVE pc' \in [Proc -> PCs]
    BY <1>1, <1>2, ResumedType
  <1>3. \A c : Woken(c) \in [Proc -> {None, "r", "tx"}]
    BY <1>1, Zenon DEF Woken
  <1>4. ASSUME NEW p \in Proc, NEW l \in PCs, pc' = [pc EXCEPT ![p] = l],
               \/ UNCHANGED chan
               \/ \E c \in {None, "r", "tx"} : chan' = [chan EXCEPT ![p] = c],
               UNCHANGED killed,
               lock' \in {lock, p, None}, tx_lock' \in {tx_lock, p, None}
        PROVE  ProcType'
    BY <1>1, <1>4 DEF ProcType
  <1>5. \A l \in {"idle", "read", "falling", "asleep", "woken", "write", "tx_loop", "tx_test",
                  "tx_store", "tx_falling", "tx_asleep"} : l \in PCs
    BY Zenon DEF PCs, Busy
  <1>6. ASSUME NEW p \in Proc, NEW k, consoleread(p, k) \/ consolewrite(p, k) PROVE ProcType'
    BY <1>4, <1>5, <1>6, Zenon DEF consoleread, consolewrite, output
  <1>7. ASSUME NEW p \in Proc, step(p) PROVE ProcType'
    <2>1. CASE read_wait(p)
      BY <1>4, <1>5, <2>1, SMTT(20) DEF read_wait, output
    <2>2. CASE sleep(p)
      BY <1>4, <1>5, <2>2, Zenon DEF sleep, output
    <2>3. CASE read_woken(p) \/ read_full(p)
      BY <1>4, <1>5, <2>3 DEF read_woken, read_full, output
    <2>4. ASSUME NEW copied \in BOOLEAN, read_char(p, copied) PROVE ProcType'
      <3>1. CASE UNCHANGED <<lock, pc, chan, killed, tx_lock>>
        BY <3>1, Zenon DEF ProcType
      <3>2. QED
        BY <1>4, <1>5, <2>4, <3>1, Zenon DEF read_char, output
    <2>5. CASE uartwrite(p) \/ write_end(p) \/ tx_store(p) \/ tx_end(p)
      BY <1>4, <1>5, <2>5, Zenon DEF uartwrite, write_end, tx_store, tx_end
    <2>6. CASE tx_prepare(p) \/ tx_test(p)
      BY <1>4, <1>5, <2>6 DEF tx_prepare, tx_test, output
    <2>7. QED
      BY <1>7, <2>1, <2>2, <2>3, <2>4, <2>5, <2>6, Zenon DEF step
  <1>8. ASSUME NEW p \in Proc, kkill(p) PROVE ProcType'
    BY <1>1, <1>2, <1>8, Zenon DEF kkill, ProcType, output
  <1>9. CASE intr_tx
    BY <1>1, <1>2, <1>3, <1>9, Zenon DEF intr_tx, ProcType, output
  <1>10. CASE intr_rx
    <2>1. lock' = "intr" /\ UNCHANGED <<killed, tx_lock>>
      BY <1>10 DEF intr_rx, output
    <2>2. \/ UNCHANGED <<chan, pc>>
          \/ chan' = Woken("r") /\ pc' = Resumed(Waiters("r"))
      BY <1>10, Zenon DEF intr_rx, consoleintr
    <2>3. QED
      BY <1>1, <1>2, <1>3, <2>1, <2>2 DEF ProcType
  <1>11. CASE uartintr \/ echo_test \/ echo_store \/ echo_end \/ intr_end
    BY <1>11, Zenon DEF uartintr, echo_test, echo_store, echo_end, intr_end, ProcType, output
  <1>12. ASSUME NEW k, type(k) \/ transmit \/ UNCHANGED vars PROVE ProcType'
    BY <1>12, Zenon DEF type, transmit, vars, ProcType, output
  <1>13. QED
    BY <1>6, <1>7, <1>8, <1>9, <1>10, <1>11, <1>12, ConsoleAssumption DEF Next, handler

(* The counters of the calls. *)
LEMMA CountTyped == ProcType /\ CountType /\ [Next]_vars => CountType'
  <1> SUFFICES ASSUME ProcType, CountType, [Next]_vars PROVE CountType'
    OBVIOUS
  <1> USE DEF At, Goto, Return, reads, output
  <1>1. pc \in [Proc -> PCs] /\ MaxLen \in Nat /\ BATCH \in Nat \ {0}
    BY Sizes, Zenon DEF ProcType
  <1>2. ASSUME NEW S, pc' = Resumed(S), UNCHANGED <<n, target, left, batch>> PROVE CountType'
    <2>1. \A p \in Proc : pc'[p] \in {"tx_test", "tx_store"} => pc[p] \in {"tx_test", "tx_store"}
      BY <1>1, <1>2, ResumedType
    <2>2. QED
      BY <1>2, <2>1, Zenon DEF CountType
  <1>3. ASSUME NEW p \in Proc, NEW l \in PCs \ {"tx_test", "tx_store"},
               pc' = [pc EXCEPT ![p] = l], UNCHANGED <<left, batch>>,
               \/ UNCHANGED <<n, target>>
               \/ \E k \in 0 .. MaxLen : /\ n' = [n EXCEPT ![p] = k]
                                         /\ target' = [target EXCEPT ![p] = k]
        PROVE  CountType'
    BY <1>1, <1>3 DEF CountType
  <1>4. \A l \in {"idle", "read", "falling", "asleep", "woken", "write", "tx_loop",
                  "tx_falling", "tx_asleep"} : l \in PCs \ {"tx_test", "tx_store"}
    BY DEF PCs, Busy
  <1>5. 0 \in 0 .. MaxLen
    BY <1>1
  <1>6. ASSUME NEW p \in Proc, NEW k \in 1 .. MaxLen, consoleread(p, k) PROVE CountType'
    <2>1. k \in 0 .. MaxLen
      BY <1>1
    <2>2. QED
      BY <1>3, <1>4, <1>6, <2>1, Zenon DEF consoleread
  <1>7. ASSUME NEW p \in Proc, NEW k \in 1 .. MaxLen, consolewrite(p, k) PROVE CountType'
    BY <1>1, <1>7 DEF consolewrite, CountType
  <1>8. ASSUME NEW p \in Proc, step(p) PROVE CountType'
    <2>1. CASE read_wait(p)
      BY <1>3, <1>4, <1>5, <2>1, Zenon DEF read_wait
    <2>2. CASE sleep(p)
      BY <1>3, <1>4, <2>2, Zenon DEF sleep
    <2>3. CASE read_woken(p) \/ read_full(p) \/ tx_end(p)
      BY <1>3, <1>4, <1>5, <2>3 DEF read_woken, read_full, tx_end
    <2>4. ASSUME NEW copied \in BOOLEAN, read_char(p, copied) PROVE CountType'
      <3>1. CASE Return(p) /\ pc' = [pc EXCEPT ![p] = "idle"]
        <4>1. UNCHANGED <<left, batch>>
          BY <2>4 DEF read_char
        <4>2. QED
          BY <1>3, <1>4, <1>5, <3>1, <4>1, Zenon
      <3>2. CASE n' = [n EXCEPT ![p] = @ - 1] /\ UNCHANGED <<lock, pc, target>>
        BY <1>1, <2>4, <3>2 DEF read_char, CountType
      <3>3. QED
        BY <2>4, <3>1, <3>2 DEF read_char
    <2>5. CASE uartwrite(p)
      <3>1. /\ nn(left[p]) \in 0 .. BATCH /\ left[p] - nn(left[p]) \in 0 .. MaxLen
        BY <1>1, <2>5 DEF uartwrite, nn, CountType
      <3>2. QED
        BY <1>1, <2>5, <3>1, Zenon DEF uartwrite, CountType
    <2>6. CASE write_end(p)
      BY <1>1, <2>6 DEF write_end, CountType
    <2>7. CASE tx_prepare(p) \/ tx_test(p)
      BY <1>1, <2>7, Zenon DEF tx_prepare, tx_test, CountType
    <2>8. CASE tx_store(p)
      BY <1>1, <2>8 DEF tx_store, CountType
    <2>9. QED
      BY <1>8, <2>1, <2>2, <2>3, <2>4, <2>5, <2>6, <2>7, <2>8, Zenon DEF step
  <1>9. ASSUME NEW p \in Proc, kkill(p) PROVE CountType'
    BY <1>2, <1>9, Zenon DEF kkill
  <1>10. CASE intr_tx \/ intr_rx
    <2>1. UNCHANGED <<n, target, left, batch>>
      BY <1>10 DEF intr_tx, intr_rx
    <2>2. UNCHANGED pc \/ \E S : pc' = Resumed(S)
      BY <1>10, Zenon DEF intr_tx, intr_rx, consoleintr
    <2>3. QED
      BY <1>2, <2>1, <2>2 DEF CountType
  <1>11. CASE UNCHANGED <<pc, n, target, left, batch>>
    BY <1>11, Zenon DEF CountType
  <1>12. CASE uartintr \/ echo_test \/ echo_store \/ echo_end \/ intr_end
    BY <1>11, <1>12, Zenon DEF uartintr, echo_test, echo_store, echo_end, intr_end
  <1>13. ASSUME NEW k, type(k) \/ transmit \/ UNCHANGED vars PROVE CountType'
    BY <1>11, <1>13, Zenon DEF type, transmit, vars
  <1>14. QED
    BY <1>6, <1>7, <1>8, <1>9, <1>10, <1>12, <1>13, ConsoleAssumption, Zenon DEF Next, handler

(* The device and the handler. *)
LEMMA WireTyped == Types /\ Lines /\ [Next]_vars => WireType'
  <1> SUFFICES ASSUME Types, Lines, [Next]_vars PROVE WireType'
    OBVIOUS
  <1> USE DEF device
  <1>0. WireType /\ INPUT_BUF_SIZE \in Nat \ {0} /\ FIFO \in Nat
    BY TypesAre, Sizes, Zenon
  <1>1. CASE UNCHANGED Wire
    BY <1>0, <1>1, Zenon DEF Wire, WireType
  <1>2. ASSUME NEW p, NEW k, consoleread(p, k) \/ consolewrite(p, k) \/ kkill(p)
        PROVE  WireType'
    BY <1>1, <1>2, Zenon DEF consoleread, consolewrite, kkill, Wire
  <1>3. ASSUME NEW p \in Proc, step(p), ~tx_store(p) PROVE WireType'
    BY <1>1, <1>3, Zenon DEF step, read_wait, sleep, read_woken, read_char, read_full, uartwrite,
       write_end, tx_prepare, tx_test, tx_end, Wire
  <1>4. ASSUME NEW p \in Proc, tx_store(p) PROVE WireType'
    BY <1>0, <1>4 DEF tx_store, Store, WireType
  <1>5. CASE intr_rx
    <2>1. echo' \in 0 .. 3 * INPUT_BUF_SIZE
      BY <1>5, TypedRing
    <2>2. rx' = Tail(rx) /\ intr' = "echo" /\ UNCHANGED <<tx, thri, lost>> /\ rx # <<>>
      BY <1>5, Zenon DEF intr_rx
    <2>3. rx' \in Seq(Key)
      BY <1>0, <2>2 DEF WireType
    <2>4. QED
      BY <1>0, <2>1, <2>2, <2>3, Zenon DEF WireType
  <1>6. CASE uartintr \/ intr_tx \/ echo_test \/ echo_end \/ intr_end
    BY <1>0, <1>6, Zenon DEF uartintr, intr_tx, echo_test, echo_end, intr_end, WireType
  <1>7. CASE echo_store
    BY <1>0, <1>7 DEF echo_store, Store, WireType
  <1>8. ASSUME NEW k \in Key, type(k) PROVE WireType'
    BY <1>0, <1>8 DEF type, WireType
  <1>9. CASE transmit
    BY <1>0, <1>9 DEF transmit, WireType
  <1>10. CASE UNCHANGED vars
    BY <1>1, <1>10, Zenon DEF vars, Wire
  <1>11. QED
    BY <1>2, <1>3, <1>4, <1>5, <1>6, <1>7, <1>8, <1>9, <1>10, Zenon DEF Next, handler, step

(* The counts of ^D. *)
LEMMA EofTyped == EofType /\ [Next]_vars => EofType'
  <1> SUFFICES ASSUME EofType, [Next]_vars PROVE EofType'
    OBVIOUS
  <1> USE DEF history
  <1>1. CASE UNCHANGED eof
    BY <1>1, Zenon DEF EofType
  <1>2. ASSUME NEW p, NEW k, consoleread(p, k) \/ consolewrite(p, k) \/ kkill(p) \/ type(k)
        PROVE  EofType'
    BY <1>1, <1>2 DEF consoleread, consolewrite, kkill, type
  <1>3. ASSUME NEW p \in Proc, NEW copied, read_char(p, copied) PROVE EofType'
    BY <1>3 DEF read_char, EofType
  <1>4. ASSUME NEW p \in Proc, step(p) PROVE EofType'
    BY <1>1, <1>3, <1>4, Zenon DEF step, read_wait, sleep, read_woken, read_full, uartwrite,
       write_end, tx_prepare, tx_test, tx_store, tx_end
  <1>5. CASE intr_rx
    BY <1>5 DEF intr_rx, EofType
  <1>6. CASE handler
    BY <1>1, <1>5, <1>6, Zenon DEF handler, uartintr, intr_tx, echo_test, echo_store, echo_end, intr_end
  <1>7. CASE transmit \/ UNCHANGED vars
    BY <1>1, <1>7 DEF transmit, vars
  <1>8. QED
    BY <1>2, <1>4, <1>6, <1>7 DEF Next

(* The steps keep all the types. *)
LEMMA TypesStep == Types /\ Lines /\ [Next]_vars => Types'
  <1> SUFFICES ASSUME Types, Lines, [Next]_vars PROVE Types'
    BY Zenon
  <1>1. RingType' /\ ProcType' /\ CountType' /\ WireType' /\ EofType'
    BY TypesAre, RingTyped, ProcTyped, CountTyped, WireTyped, EofTyped, Zenon
  <1>2. QED
    BY <1>1, Zenon DEF Types, TypeOK, RingType, ProcType, CountType, WireType, EofType, Buffer, Counter

-----------------------------------------------------------------------------
(* The transmitter. *)

Storing == \E p \in Proc : pc[p] = "tx_store"

(* Who found the transmitter empty will store one byte: one of uartwrite,  *)
(* which tx_lock makes the only one, and one of the echo.                  *)
Spare ==
  /\ \A p \in Proc : tx_lock = p <=> pc[p] \in Busy
  /\ intr = "put" /\ Storing => tx = 0
  /\ intr = "put" \/ Storing => tx <= 1
  /\ NoByteLost

(* The steps keep the room for the bytes that are about to be stored. *)
LEMMA SpareStep == Types /\ Spare /\ [Next]_vars => Spare'
  <1> SUFFICES ASSUME Types, Spare, [Next]_vars PROVE Spare'
    OBVIOUS
  <1> USE DEF At, Goto, device, NoByteLost
  <1>0. /\ pc \in [Proc -> PCs] /\ tx_lock \in Proc \cup {None} /\ None \notin Proc
        /\ tx \in 0 .. FIFO /\ FIFO \in Nat /\ FIFO >= 2
    BY Sizes, ConsoleAssumption, Zenon DEF Types, TypeOK
  <1>1. ASSUME UNCHANGED <<tx_lock, tx, lost>>, intr' = "put" => intr = "put",
               \A p \in Proc : /\ pc'[p] \in Busy <=> pc[p] \in Busy
                               /\ pc'[p] = "tx_store" => pc[p] = "tx_store"
        PROVE  Spare'
    <2>1. Storing' => Storing
      BY <1>1, Zenon DEF Storing
    <2>2. \A p \in Proc : tx_lock' = p <=> pc'[p] \in Busy
      BY <1>1, Zenon DEF Spare
    <2>3. QED
      BY <1>0, <1>1, <2>1, <2>2 DEF Spare
  <1>2. ASSUME NEW p \in Proc, NEW l, pc' = [pc EXCEPT ![p] = l], l # "tx_store",
               l \in Busy <=> pc[p] \in Busy, UNCHANGED <<tx_lock, tx, lost, intr>>
        PROVE  Spare'
    <2>1. \A q \in Proc : pc'[q] = IF q = p THEN l ELSE pc[q]
      BY <1>0, <1>2, Zenon
    <2>2. QED
      BY <1>1, <1>2, <2>1, Zenon
  <1>3. /\ \A l \in {"idle", "read", "falling", "asleep", "woken", "write"} :
             l \notin Busy /\ l # "tx_store"
        /\ \A l \in {"tx_loop", "tx_test", "tx_falling", "tx_asleep"} :
             l \in Busy /\ l # "tx_store"
    BY Zenon DEF Busy
  <1>4. ASSUME NEW p \in Proc, NEW k, consoleread(p, k) \/ consolewrite(p, k) PROVE Spare'
    BY <1>2, <1>3, <1>4 DEF consoleread, consolewrite, output
  <1>5. ASSUME NEW p \in Proc,
               read_wait(p) \/ sleep(p) \/ read_woken(p) \/ read_full(p) \/ write_end(p)
               \/ tx_prepare(p)
        PROVE  Spare'
    <2>1. UNCHANGED <<tx_lock, tx, lost, intr>>
      BY <1>5, Zenon DEF read_wait, sleep, read_woken, read_full, write_end, tx_prepare, output
    <2>2. \E l : /\ pc' = [pc EXCEPT ![p] = l] /\ l # "tx_store"
                 /\ l \in Busy <=> pc[p] \in Busy
      BY <1>3, <1>5 DEF read_wait, sleep, read_woken, read_full, write_end, tx_prepare
    <2>3. QED
      BY <1>2, <2>1, <2>2, Zenon
  <1>6. ASSUME NEW p \in Proc, NEW copied \in BOOLEAN, read_char(p, copied) PROVE Spare'
    <2>1. CASE UNCHANGED pc
      BY <1>1, <1>6, <2>1, Zenon DEF read_char, output
    <2>2. QED
      BY <1>2, <1>3, <1>6, <2>1 DEF read_char, output
  <1>7. ASSUME NEW p \in Proc, uartwrite(p) PROVE Spare'
    BY <1>0, <1>3, <1>7 DEF uartwrite, Spare, Storing
  <1>8. ASSUME NEW p \in Proc, tx_end(p) PROVE Spare'
    BY <1>0, <1>3, <1>8, Zenon DEF tx_end, Spare, Storing
  <1>9. ASSUME NEW p \in Proc, tx_test(p) PROVE Spare'
    BY <1>0, <1>9 DEF tx_test, TxIdle, Spare, Storing, Busy, output
  <1>10. ASSUME NEW p \in Proc, tx_store(p) PROVE Spare'
    <2>1. \A q \in Proc : pc[q] = "tx_store" => q = p
      BY <1>0, <1>10 DEF tx_store, Spare, Busy
    <2>2. tx' = tx + 1 /\ lost' = lost /\ tx <= 1 /\ (intr = "put" => tx = 0)
      BY <1>0, <1>10 DEF tx_store, Store, Spare, Storing
    <2>3. QED
      BY <1>0, <1>10, <2>1, <2>2 DEF tx_store, Spare, Storing, Busy
  <1>11. ASSUME NEW p \in Proc, kkill(p) PROVE Spare'
    BY <1>0, <1>1, <1>11, ResumedType DEF kkill, output
  <1>12. CASE intr_tx \/ intr_rx
    <2>1. UNCHANGED pc \/ \E S : pc' = Resumed(S)
      BY <1>12 DEF intr_tx, intr_rx, consoleintr
    <2>2. UNCHANGED <<tx_lock, tx, lost>> /\ intr' # "put"
      BY <1>12, Zenon DEF intr_tx, intr_rx, output
    <2>3. QED
      BY <1>0, <1>1, <2>1, <2>2, ResumedType
  <1>13. CASE uartintr \/ echo_end \/ intr_end
    BY <1>1, <1>13, Zenon DEF uartintr, echo_end, intr_end, output
  <1>14. CASE echo_test
    BY <1>0, <1>14 DEF echo_test, TxIdle, Spare, Storing, output
  <1>15. CASE echo_store
    BY <1>0, <1>15 DEF echo_store, Store, Spare, Storing, output
  <1>16. ASSUME NEW k, type(k) \/ UNCHANGED vars PROVE Spare'
    BY <1>1, <1>16, Zenon DEF type, vars, output
  <1>17. CASE transmit
    BY <1>0, <1>17 DEF transmit, Spare, Storing, output
  <1>18. QED
    BY <1>4, <1>5, <1>6, <1>7, <1>8, <1>9, <1>10, <1>11, <1>12, <1>13, <1>14, <1>15, <1>16,
       <1>17, ConsoleAssumption, Zenon DEF Next, step, handler

-----------------------------------------------------------------------------
(* The sleepers. *)

(* Those who wait on the channel c, or are about to, in the places S. *)
Sleeps(p, S, c) == pc[p] \in S /\ chan[p] = c

(* The steps leave no reader asleep with a line to read: consoleread       *)
(* tests for a line and takes its channel, and consoleintr commits a line  *)
(* and wakes the channel, in one hold of cons.lock each.                   *)
LEMMA ReaderStep == Types /\ ReaderAwake /\ [Next]_vars => ReaderAwake'
  <1> SUFFICES ASSUME Types, ReaderAwake, [Next]_vars PROVE ReaderAwake'
    BY Zenon
  <1> DEFINE S == {"falling", "asleep"}
  <1> USE DEF At, Goto, cons
  <1>0. /\ pc \in [Proc -> PCs] /\ chan \in [Proc -> {None, "r", "tx"}]
        /\ None # "r" /\ None # "tx"
    BY ConsoleAssumption, SMTT(20) DEF Types, TypeOK
  <1>1. ASSUME UNCHANGED <<r, w>>,
               \A p \in Proc : Sleeps(p, S, "r")' => Sleeps(p, S, "r")
        PROVE  ReaderAwake'
    BY <1>1, Zenon DEF ReaderAwake, Sleeps
  <1>2. ASSUME NEW p \in Proc, NEW l, pc' = [pc EXCEPT ![p] = l], UNCHANGED <<r, w>>,
               \/ l \notin S /\ \E c : chan' = [chan EXCEPT ![p] = c]
               \/ UNCHANGED chan /\ (l \in S => pc[p] \in S)
        PROVE  ReaderAwake'
    BY <1>0, <1>1, <1>2, Zenon DEF Sleeps
  <1>3. ASSUME NEW p \in Proc, NEW k, consoleread(p, k) \/ consolewrite(p, k) PROVE ReaderAwake'
    BY <1>2, <1>3, Zenon DEF consoleread, consolewrite
  <1>4. ASSUME NEW p \in Proc, read_wait(p) PROVE ReaderAwake'
    BY <1>0, <1>4, Zenon DEF read_wait, ReaderAwake
  <1>5. ASSUME NEW p \in Proc, NEW copied \in BOOLEAN, read_char(p, copied) PROVE ReaderAwake'
    <2>1. \A q \in Proc : ~Sleeps(q, S, "r")
      BY <1>5 DEF read_char, ReaderAwake, Sleeps
    <2>2. UNCHANGED pc \/ pc' = [pc EXCEPT ![p] = "idle"]
      BY <1>5 DEF read_char
    <2>3. UNCHANGED chan
      BY <1>5 DEF read_char
    <2>4. QED
      BY <1>0, <2>1, <2>2, <2>3 DEF ReaderAwake, Sleeps
  <1>6. ASSUME NEW p \in Proc,
               sleep(p) \/ read_woken(p) \/ read_full(p) \/ uartwrite(p) \/ write_end(p)
               \/ tx_prepare(p) \/ tx_test(p) \/ tx_store(p) \/ tx_end(p)
        PROVE  ReaderAwake'
    <2>1. UNCHANGED <<r, w>>
      BY <1>6, Zenon DEF sleep, read_woken, read_full, uartwrite, write_end, tx_prepare, tx_test,
         tx_store, tx_end
    <2>2. CASE sleep(p)
      BY <1>2, <2>1, <2>2, Zenon DEF sleep
    <2>3. CASE tx_prepare(p)
      BY <1>2, <2>1, <2>3, Zenon DEF tx_prepare
    <2>4. CASE tx_test(p)
      BY <1>2, <2>1, <2>4, Zenon DEF tx_test
    <2>5. QED
      BY <1>2, <1>6, <2>1, <2>2, <2>3, <2>4, Zenon DEF read_woken, read_full, uartwrite, write_end,
         tx_store, tx_end
  <1>7. ASSUME NEW p \in Proc, kkill(p) PROVE ReaderAwake'
    <2>1. \A q \in Proc : pc'[q] \in S => pc[q] \in S
      BY <1>0, <1>7, ResumedType, SMTT(20) DEF kkill
    <2>2. QED
      BY <1>1, <1>7, <2>1, Zenon DEF kkill, Sleeps
  <1>8. ASSUME NEW c \in {"r", "tx"}, chan' = Woken(c), pc' = Resumed(Waiters(c))
        PROVE  /\ \A q \in Proc : Sleeps(q, S, "r")' => Sleeps(q, S, "r") /\ c # "r"
    <2>1. \A q \in Proc : pc'[q] \in S => pc[q] \in S
      BY <1>0, <1>8, ResumedType, SMTT(20)
    <2>2. \A q \in Proc : chan'[q] = "r" => chan[q] = "r" /\ c # "r"
      BY <1>0, <1>8, Zenon DEF Woken
    <2>3. QED
      BY <2>1, <2>2, Zenon DEF Sleeps
  <1>9. CASE intr_tx
    <2>1. UNCHANGED <<r, w>>
      BY <1>9, Zenon DEF intr_tx
    <2>2. CASE UNCHANGED <<chan, pc>>
      BY <1>1, <2>1, <2>2, Zenon DEF Sleeps
    <2>3. CASE chan' = Woken("tx") /\ pc' = Resumed(Waiters("tx"))
      BY <1>1, <1>8, <2>1, <2>3, Zenon
    <2>4. QED
      BY <1>9, <2>2, <2>3, Zenon DEF intr_tx
  <1>10. CASE intr_rx
    <2>1. \/ UNCHANGED <<r, w, chan, pc>>
          \/ chan' = Woken("r") /\ pc' = Resumed(Waiters("r"))
      BY <1>10, Zenon DEF intr_rx, consoleintr, Notifies
    <2>2. CASE UNCHANGED <<r, w, chan, pc>>
      BY <1>1, <2>2, Zenon DEF Sleeps
    <2>3. CASE chan' = Woken("r") /\ pc' = Resumed(Waiters("r"))
      BY <1>8, <2>3, Zenon DEF Sleeps, ReaderAwake
    <2>4. QED
      BY <2>1, <2>2, <2>3
  <1>11. CASE uartintr \/ echo_test \/ echo_store \/ echo_end \/ intr_end
    BY <1>1, <1>11, Zenon DEF uartintr, echo_test, echo_store, echo_end, intr_end, Sleeps
  <1>12. ASSUME NEW k, type(k) \/ transmit \/ UNCHANGED vars PROVE ReaderAwake'
    BY <1>1, <1>12, Zenon DEF type, transmit, vars, Sleeps
  <1>13. QED
    BY <1>3, <1>4, <1>5, <1>6, <1>7, <1>9, <1>10, <1>11, <1>12, ConsoleAssumption
    DEF Next, step, handler

(* The steps leave no writer asleep that no interrupt will wake:           *)
(* uartwrite goes to sleep on a transmitter that is not empty, and when    *)
(* it becomes empty the interrupt is due until the handler looks at LSR.   *)
LEMMA WriterStep == Types /\ WriterAwake /\ [Next]_vars => WriterAwake'
  <1> SUFFICES ASSUME Types, WriterAwake, [Next]_vars PROVE WriterAwake'
    OBVIOUS
  <1> DEFINE S == {"tx_falling", "tx_asleep"}  Due == tx > 0 \/ thri \/ intr = "tx"
  <1> USE DEF At, Goto, device
  <1>0. /\ pc \in [Proc -> PCs] /\ chan \in [Proc -> {None, "r", "tx"}]
        /\ None # "r" /\ None # "tx" /\ tx \in Nat
    <2>1. tx \in 0 .. FIFO /\ FIFO \in Nat
      BY Sizes, Zenon DEF Types, TypeOK
    <2>2. tx \in Nat
      BY <2>1, SMTT(20)
    <2>3. QED
      BY <2>2, ConsoleAssumption, Zenon DEF Types, TypeOK
  <1>1. ASSUME Due => Due',
               \A p \in Proc : Sleeps(p, S, "tx")' => Sleeps(p, S, "tx") \/ Due
        PROVE  WriterAwake'
    BY <1>1, Zenon DEF WriterAwake, Sleeps
  <1>2. ASSUME NEW p \in Proc, NEW l, pc' = [pc EXCEPT ![p] = l], Due => Due',
               \/ l \notin S /\ \E c : chan' = [chan EXCEPT ![p] = c]
               \/ UNCHANGED chan /\ (l \in S => pc[p] \in S \/ Due)
        PROVE  WriterAwake'
    <2>1. \A q \in Proc : Sleeps(q, S, "tx")' => Sleeps(q, S, "tx") \/ Due
      BY <1>0, <1>2 DEF Sleeps
    <2>2. QED
      BY <1>1, <1>2, <2>1, Zenon
  <1>3. ASSUME UNCHANGED <<tx, thri, intr>> PROVE Due => Due'
    BY <1>3, Zenon
  <1>4. ASSUME NEW p \in Proc, NEW k, consoleread(p, k) \/ consolewrite(p, k) PROVE WriterAwake'
    BY <1>2, <1>3, <1>4, Zenon DEF consoleread, consolewrite
  <1>5. ASSUME NEW p \in Proc, read_wait(p) PROVE WriterAwake'
    BY <1>2, <1>3, <1>5, Zenon DEF read_wait
  <1>6. ASSUME NEW p \in Proc, NEW copied \in BOOLEAN, read_char(p, copied) PROVE WriterAwake'
    <2>1. CASE UNCHANGED pc
      BY <1>1, <1>3, <1>6, <2>1 DEF read_char, Sleeps
    <2>2. QED
      BY <1>2, <1>3, <1>6, <2>1, Zenon DEF read_char
  <1>7. ASSUME NEW p \in Proc, sleep(p) PROVE WriterAwake'
    BY <1>2, <1>3, <1>7, Zenon DEF sleep
  <1>8. ASSUME NEW p \in Proc, read_woken(p) \/ read_full(p) \/ uartwrite(p) \/ write_end(p)
                               \/ tx_prepare(p) \/ tx_end(p)
        PROVE  WriterAwake'
    <2>1. UNCHANGED <<tx, thri, intr>>
      BY <1>8, Zenon DEF read_woken, read_full, uartwrite, write_end, tx_prepare, tx_end
    <2>2. \E l : /\ l \notin S /\ pc' = [pc EXCEPT ![p] = l]
                 /\ UNCHANGED chan \/ \E c : chan' = [chan EXCEPT ![p] = c]
      BY <1>8, Zenon DEF read_woken, read_full, uartwrite, write_end, tx_prepare, tx_end
    <2>3. QED
      BY <1>2, <1>3, <2>1, <2>2, Zenon
  <1>9. ASSUME NEW p \in Proc, tx_test(p) PROVE WriterAwake'
    <2>1. UNCHANGED <<tx, thri, intr, chan>>
      BY <1>9 DEF tx_test
    <2>2. CASE tx = 0 /\ pc' = [pc EXCEPT ![p] = "tx_store"]
      BY <1>2, <1>3, <2>1, <2>2, Zenon
    <2>3. CASE tx # 0 /\ pc' = [pc EXCEPT ![p] = "tx_falling"]
      <3>1. Due
        BY <1>0, <2>3
      <3>2. QED
        BY <1>2, <1>3, <2>1, <2>3, <3>1, Zenon
    <2>4. QED
      BY <1>9, <2>2, <2>3, Zenon DEF tx_test, TxIdle
  <1>10. ASSUME Store, UNCHANGED thri, intr = "tx" => intr' = "tx" PROVE Due => Due'
    BY <1>0, <1>10 DEF Store
  <1>11. ASSUME NEW p \in Proc, tx_store(p) PROVE WriterAwake'
    BY <1>2, <1>10, <1>11, Zenon DEF tx_store
  <1>12. ASSUME NEW p \in Proc, kkill(p) PROVE WriterAwake'
    <2>1. \A q \in Proc : pc'[q] \in S => pc[q] \in S
      BY <1>0, <1>12, ResumedType DEF kkill
    <2>2. QED
      BY <1>1, <1>3, <1>12, <2>1, Zenon DEF kkill, Sleeps
  <1>13. ASSUME NEW c \in {"r", "tx"}, chan' = Woken(c), pc' = Resumed(Waiters(c))
         PROVE  /\ \A q \in Proc : Sleeps(q, S, "tx")' => Sleeps(q, S, "tx") /\ c # "tx"
    <2>1. \A q \in Proc : pc'[q] \in S => pc[q] \in S
      BY <1>0, <1>13, ResumedType
    <2>2. \A q \in Proc : chan'[q] = "tx" => chan[q] = "tx" /\ c # "tx"
      BY <1>0, <1>13 DEF Woken
    <2>3. QED
      BY <2>1, <2>2, Zenon DEF Sleeps
  <1>14. CASE intr_tx
    <2>1. CASE TxIdle
      BY <1>13, <1>14, <2>1, Zenon DEF intr_tx, Wakes, WriterAwake, Sleeps
    <2>2. CASE ~TxIdle
      <3>1. tx' > 0 /\ UNCHANGED <<chan, pc>>
        BY <1>0, <1>14, <2>2 DEF intr_tx, Wakes, TxIdle
      <3>2. QED
        BY <3>1, Zenon DEF WriterAwake
    <2>3. QED
      BY <2>1, <2>2, Zenon
  <1>15. CASE intr_rx
    <2>1. Due => Due'
      BY <1>15 DEF intr_rx
    <2>2. UNCHANGED <<chan, pc>> \/ (chan' = Woken("r") /\ pc' = Resumed(Waiters("r")))
      BY <1>15, Zenon DEF intr_rx, consoleintr
    <2>3. CASE UNCHANGED <<chan, pc>>
      BY <1>1, <2>1, <2>3, Zenon DEF Sleeps
    <2>4. CASE chan' = Woken("r") /\ pc' = Resumed(Waiters("r"))
      BY <1>1, <1>13, <2>1, <2>4, Zenon
    <2>5. QED
      BY <2>2, <2>3, <2>4
  <1>16. ASSUME Due => Due', UNCHANGED <<chan, pc>> PROVE WriterAwake'
    BY <1>1, <1>16, Zenon DEF Sleeps
  <1>17. CASE uartintr \/ echo_test \/ echo_end \/ intr_end
    BY <1>16, <1>17, Zenon DEF uartintr, echo_test, echo_end, intr_end
  <1>18. CASE echo_store
    BY <1>10, <1>16, <1>18, Zenon DEF echo_store
  <1>19. ASSUME NEW k, type(k) \/ UNCHANGED vars PROVE WriterAwake'
    BY <1>16, <1>19 DEF type, vars
  <1>20. CASE transmit
    <2>1. UNCHANGED <<intr, chan, pc>> /\ tx' = tx - 1 /\ (thri' <=> thri \/ tx = 1)
      BY <1>20, Zenon DEF transmit
    <2>2. Due => Due'
      BY <1>0, <2>1
    <2>3. QED
      BY <1>16, <2>1, <2>2
  <1>21. QED
    BY <1>4, <1>5, <1>6, <1>7, <1>8, <1>9, <1>11, <1>12, <1>14, <1>15, <1>17, <1>18, <1>19,
       <1>20, ConsoleAssumption DEF Next, step, handler

-----------------------------------------------------------------------------
(* The theorems. *)

(* The inductive invariant. *)
CInv == Types /\ Lines /\ Spare /\ NobodyStuck

(* The invariant holds at first. *)
LEMMA CInvInit == Init => CInv
  <1> SUFFICES ASSUME Init PROVE CInv
    OBVIOUS
  <1>1. Types
    BY TypesInit, Zenon
  <1>2. Lines
    <2>1. /\ r \in Counter /\ r = w /\ w = e /\ ready = <<>> /\ editing = <<>>
      BY Sizes DEF Init, Counter
    <2>2. Len(<<>>) = 0
      BY Zenon
    <2>3. QED
      BY <2>1, <2>2, HoldsNothing, Sizes DEF Lines
  <1>3. Spare
    BY ConsoleAssumption, Zenon DEF Init, Spare, Storing, NoByteLost, Busy
  <1>4. NobodyStuck
    BY Zenon DEF Init, NobodyStuck, ReaderAwake, WriterAwake
  <1>5. QED
    BY <1>1, <1>2, <1>3, <1>4 DEF CInv

(* Every step keeps the invariant. *)
LEMMA CInvNext == CInv /\ [Next]_vars => CInv'
  BY TypesStep, LinesStep, SpareStep, ReaderStep, WriterStep DEF CInv, NobodyStuck

(* The ring holds what was typed and not read, with the edits applied, and *)
(* only whole lines, or a full buffer, are readable: for every size of the *)
(* buffer and wherever the unsigned counters wrap.                         *)
THEOREM LinesAreRight == Spec => []LineDiscipline
  <1>1. CInv => LineDiscipline
    <2> SUFFICES ASSUME CInv
                 PROVE  TypeOK /\ Between(r, w) = ready /\ Between(w, e) = editing
      BY Zenon DEF LineDiscipline
    <2>1. /\ TypeOK /\ r \in Counter /\ w \in Counter /\ e \in Counter
          /\ ready \in Text /\ editing \in Text
      BY Zenon DEF CInv, Types, TypeOK, Counter
    <2>2. QED
      BY <2>1, HoldsIs, Zenon DEF CInv, Lines, Between
  <1>2. QED
    BY <1>1, CInvInit, CInvNext, PTL DEF Spec

(* No byte is stored in a full transmitter, although uartwrite and the     *)
(* echo test it and store without a common lock: a transmitter of two      *)
(* bytes has room for the one byte each of them may be about to store.     *)
THEOREM NoByteIsLost == Spec => []NoByteLost
  <1>1. CInv => NoByteLost
    BY Zenon DEF CInv, Spare
  <1>2. QED
    BY <1>1, CInvInit, CInvNext, PTL DEF Spec

(* Nobody sleeps on the console with a line to read, or on the transmitter *)
(* with no interrupt to come.                                              *)
THEOREM SleepersAreWoken == Spec => []NobodyStuck
  <1>1. CInv => NobodyStuck
    BY DEF CInv
  <1>2. QED
    BY <1>1, CInvInit, CInvNext, PTL DEF Spec

-----------------------------------------------------------------------------
(* End of file. *)

FS == INSTANCE FiniteSetTheorems

(* Where the ^Ds of a text are. *)
Ends(s) == {j \in DOMAIN s : s[j] = "D"}

(* The instance counts as FiniteSets does. *)
LEMMA SameCounts ==
  /\ \A S : FS!Cardinality(S) = Cardinality(S)
  /\ \A S : FS!IsFiniteSet(S) = IsFiniteSet(S)
  BY DEF FS!Cardinality, Cardinality, FS!IsFiniteSet, IsFiniteSet

(* They are finitely many. *)
LEMMA EndsFinite ==
  ASSUME NEW s \in Text
  PROVE  IsFiniteSet(Ends(s)) /\ Cardinality(Ends(s)) \in Nat
  <1>1. DOMAIN s = 1 .. Len(s) /\ Len(s) \in Nat
    BY DEF Text
  <1>2. IsFiniteSet(1 .. Len(s))
    BY <1>1, SameCounts, FS!FS_Interval
  <1>3. Ends(s) \in SUBSET (1 .. Len(s))
    BY <1>1, Zenon DEF Ends
  <1>4. IsFiniteSet(Ends(s))
    BY <1>2, <1>3, SameCounts, FS!FS_Subset, Zenon
  <1>5. QED
    BY <1>4, SameCounts, FS!FS_CardinalityType, Zenon

(* Reading the first character takes its ^D, if it is one. *)
LEMMA EndsTail ==
  ASSUME NEW s \in Text, s # <<>>
  PROVE  Cardinality(Ends(Tail(s))) =
           IF s[1] = "D" THEN Cardinality(Ends(s)) - 1 ELSE Cardinality(Ends(s))
  <1> DEFINE S == Ends(Tail(s))  T == Ends(s) \ {1}  f == [j \in S |-> j + 1]
  <1>1. /\ DOMAIN s = 1 .. Len(s) /\ Len(s) \in Nat /\ Tail(s) \in Text
        /\ DOMAIN Tail(s) = 1 .. Len(s) - 1
        /\ \A j \in 1 .. Len(s) - 1 : Tail(s)[j] = s[j + 1]
    BY DEF Text
  <1>2. f \in [S -> T] /\ \A i, j \in S : f[i] = f[j] => i = j
    BY <1>1 DEF Ends
  <1>3. ASSUME NEW t \in T PROVE \E j \in S : f[j] = t
    <2>1. t - 1 \in S /\ f[t - 1] = t
      BY <1>1 DEF Ends
    <2>2. QED
      BY <2>1, Zenon
  <1>4. IsFiniteSet(S) /\ IsFiniteSet(Ends(s))
    BY <1>1, EndsFinite, Zenon
  <1>5. 1 \in Ends(s) <=> s[1] = "D"
    BY <1>1 DEF Ends, Text
  <1> HIDE DEF S, f
  <1>6. f \in FS!Bijection(S, T)
    BY <1>2, <1>3, Zenon DEF FS!Bijection, FS!Injection, FS!IsInjective, FS!Surjection
  <1>7. Cardinality(T) = Cardinality(S)
    <2> HIDE DEF T
    <2>1. FS!ExistsBijection(S, T)
      BY <1>6 DEF FS!ExistsBijection
    <2>2. QED
      BY <1>4, <2>1, SameCounts, FS!FS_Bijection, Zenon
  <1>8. Cardinality(T) = IF 1 \in Ends(s) THEN Cardinality(Ends(s)) - 1 ELSE Cardinality(Ends(s))
    BY <1>4, SameCounts, FS!FS_RemoveElement, Zenon
  <1>9. QED
    BY <1>5, <1>7, <1>8, Zenon DEF S

(* A line brings the ^D that ends it, if one does. *)
LEMMA EndsJoin ==
  ASSUME NEW s \in Text, NEW t \in Text, NEW k \in Char,
         \A j \in 1 .. Len(t) : t[j] # "D"
  PROVE  Cardinality(Ends(s \o Append(t, k))) =
           IF k = "D" THEN Cardinality(Ends(s)) + 1 ELSE Cardinality(Ends(s))
  <1> DEFINE u == s \o Append(t, k)  m == Len(s) + Len(t) + 1
  <1>1. /\ Len(s) \in Nat /\ Len(t) \in Nat /\ DOMAIN s = 1 .. Len(s)
        /\ DOMAIN u = 1 .. m /\ u[m] = k
        /\ \A j \in 1 .. Len(s) : u[j] = s[j]
        /\ \A j \in 1 .. Len(t) : u[Len(s) + j] = t[j]
    BY DEF Text
  <1>2. ASSUME NEW j \in 1 .. m PROVE u[j] = "D" <=> (j \in Ends(s) \/ (j = m /\ k = "D"))
    <2>1. CASE j <= Len(s)
      BY <1>1, <2>1 DEF Ends
    <2>2. CASE j > Len(s) /\ j < m
      <3> DEFINE i == j - Len(s)
      <3>1. i \in 1 .. Len(t) /\ j = Len(s) + i
        BY <1>1, <2>2
      <3>2. u[j] = t[i]
        BY <1>1, <3>1, Zenon
      <3>3. QED
        BY <1>1, <2>2, <3>1, <3>2, Zenon DEF Ends
    <2>3. CASE j = m
      BY <1>1, <2>3, Zenon DEF Ends
    <2>4. QED
      BY <1>1, <2>1, <2>2, <2>3
  <1>3. m \notin Ends(s) /\ m \in 1 .. m /\ Ends(s) \subseteq 1 .. m
    BY <1>1 DEF Ends
  <1>4. Ends(u) = {j \in 1 .. m : u[j] = "D"}
    BY <1>1, Zenon DEF Ends
  <1> HIDE DEF u, m
  <1>5. Ends(u) = IF k = "D" THEN Ends(s) \cup {m} ELSE Ends(s)
    BY <1>2, <1>3, <1>4
  <1>6. Cardinality(Ends(s) \cup {m}) = Cardinality(Ends(s)) + 1
    BY <1>3, EndsFinite, SameCounts, FS!FS_AddElement, Zenon
  <1>7. QED
    BY <1>5, <1>6, Zenon DEF u

(* Only reading a ^D and typing one that fits change the count, each on    *)
(* both sides.                                                             *)
LEMMA EofStep == CInv /\ EofReturnedOnce /\ [Next]_vars => EofReturnedOnce'
  <1> SUFFICES ASSUME CInv, EofReturnedOnce, [Next]_vars PROVE EofReturnedOnce'
    OBVIOUS
  <1>0. /\ Types /\ Lines /\ ready \in Text /\ editing \in Text
        /\ eof.taken \in Nat /\ eof.returned \in Nat /\ eof \in [taken : Nat, returned : Nat]
        /\ Cardinality(Ends(ready)) \in Nat
        /\ eof.taken = eof.returned + Cardinality(Ends(ready))
    BY EndsFinite, Zenon DEF CInv, Types, EofReturnedOnce, Ends
  <1>1. SUFFICES eof'.taken = eof'.returned + Cardinality(Ends(ready'))
    BY Zenon DEF EofReturnedOnce, Ends
  <1>2. ASSUME NEW p \in Proc, NEW copied \in BOOLEAN, read_char(p, copied)
        PROVE  eof'.taken = eof'.returned + Cardinality(Ends(ready'))
    <2>1. ready # <<>> /\ ready[1] = buf[Slot(r)]
      <3>1. r \in Counter /\ w \in Counter /\ r # w /\ Holds(buf, r, w, ready)
        BY <1>0, <1>2, Zenon DEF Types, TypeOK, Counter, Lines, read_char
      <3>2. QED
        BY <1>0, <3>1, HoldsTail
    <2>2. Cardinality(Ends(Tail(ready))) = IF ready[1] = "D" THEN Cardinality(Ends(ready)) - 1
                                           ELSE Cardinality(Ends(ready))
      BY <1>0, <2>1, EndsTail, Zenon
    <2>3. CASE UNCHANGED <<eof, ready>>
      BY <1>0, <2>3, Zenon
    <2>4. CASE ready[1] = "D" /\ eof' = [eof EXCEPT !.returned = @ + 1] /\ ready' = Tail(ready)
      BY <1>0, <2>2, <2>4
    <2>5. CASE ready[1] # "D" /\ eof' = eof /\ ready' = Tail(ready)
      BY <1>0, <2>2, <2>5, Zenon
    <2>6. QED
      BY <1>2, <2>1, <2>3, <2>4, <2>5, Zenon DEF read_char, Kept
  <1>3. CASE intr_rx
    <2> DEFINE k == Head(rx)  line == Append(editing, k)
    <2>1. /\ k \in Key /\ ready' = Typed(k)[1]
          /\ eof' = IF k = "D" /\ Room THEN [eof EXCEPT !.taken = @ + 1] ELSE eof
      BY <1>0, <1>3, SMTT(20) DEF intr_rx, Types, TypeOK
    <2> HIDE DEF k
    <2>2. Room <=> Len(ready) + Len(line) <= INPUT_BUF_SIZE
      <3>1. /\ r \in Counter /\ w \in Counter /\ e \in Counter
            /\ Len(ready) \in Nat /\ Len(editing) \in Nat /\ Len(line) = Len(editing) + 1
            /\ Len(ready) = Minus(w, r) /\ Len(editing) = Minus(e, w)
            /\ Len(ready) + Len(editing) <= INPUT_BUF_SIZE
        <4>1. r \in Counter /\ w \in Counter /\ e \in Counter
          BY <1>0, Zenon DEF Types, TypeOK, Counter
        <4>2. /\ Len(ready) \in Nat /\ Len(editing) \in Nat
              /\ Len(line) = Len(editing) + 1
          BY <1>0 DEF Text
        <4>3. QED
          BY <1>0, <4>1, <4>2, Zenon DEF Lines, Holds
      <3>2. Minus(e, r) = Len(ready) + Len(editing)
        BY <3>1, Distances, Sizes
      <3>3. QED
        BY <3>1, <3>2, Sizes DEF Room
    <2>3. CASE ready' = ready /\ ~(k = "D" /\ Room)
      BY <1>0, <2>1, <2>3, Zenon
    <2>4. CASE k \in Char /\ ready' = ready \o line /\ Room
      <3>1. Cardinality(Ends(ready')) =
              IF k = "D" THEN Cardinality(Ends(ready)) + 1 ELSE Cardinality(Ends(ready))
        BY <1>0, <2>4, EndsJoin, Zenon DEF Lines
      <3>2. QED
        BY <1>0, <2>1, <2>4, <3>1
    <2>5. Len(ready) + Len(line) \in Int /\ INPUT_BUF_SIZE \in Int
      BY <1>0, <2>1, Sizes DEF Text
    <2>6. QED
      BY <2>1, <2>2, <2>3, <2>4, <2>5, SMTT(20) DEF Typed, Key, Char
  <1>4. CASE UNCHANGED <<eof, ready>>
    BY <1>0, <1>4, Zenon
  <1>5. ASSUME ~intr_rx, \A p \in Proc, copied \in BOOLEAN : ~read_char(p, copied)
        PROVE  UNCHANGED <<eof, ready>>
    <2>1. UNCHANGED ready
      BY <1>5, OtherRing, Zenon DEF Ring
    <2>2. UNCHANGED eof
      BY <1>5, Zenon DEF Next, step, handler, consoleread, consolewrite, read_wait, sleep, read_woken,
         read_full, kkill, uartwrite, write_end, tx_prepare, tx_test, tx_store, tx_end, uartintr,
         intr_tx, echo_test, echo_store, echo_end, intr_end, type, transmit, vars, history
    <2>3. QED
      BY <2>1, <2>2, Zenon
  <1>6. QED
    BY <1>2, <1>3, <1>4, <1>5, Zenon

(* Every ^D that was typed and fitted makes exactly one read return no     *)
(* bytes, whether it comes alone or consoleread puts it back first.        *)
THEOREM EndsAreReturnedOnce == Spec => []EofReturnedOnce
  <1>1. Init => EofReturnedOnce
    <2> SUFFICES ASSUME Init PROVE EofReturnedOnce
      OBVIOUS
    <2>1. {j \in DOMAIN ready : ready[j] = "D"} = {}
      BY DEF Init
    <2>2. Cardinality({}) = 0
      BY SameCounts, FS!FS_EmptySet
    <2>3. QED
      BY <2>1, <2>2 DEF Init, EofReturnedOnce
  <1>2. QED
    BY <1>1, CInvInit, CInvNext, EofStep, PTL DEF Spec
=============================================================================
