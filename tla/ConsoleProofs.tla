--------------------------- MODULE ConsoleProofs ---------------------------
(***************************************************************************)
(* For every size of the input buffer, every wrap-around of its three      *)
(* indices and every number of readers: what is typed reaches the readers  *)
(* (InputKept).  The argument is about the cells that two indices enclose: *)
(* how an index that moves on by one, or back, changes them.               *)
(***************************************************************************)
EXTENDS Console, TLAPS

-----------------------------------------------------------------------------
(* Remainders.                                                             *)

\* Quotient and remainder.
LEMMA Divided ==
  ASSUME NEW M \in Nat \ {0}, NEW x \in Int
  PROVE  \E q \in Int, s \in 0..(M - 1) : x = M * q + s /\ x % M = s
<1>1. /\ x \div M \in Int /\ x % M \in 0..(M - 1)
      /\ x = M * (x \div M) + (x % M)
  OBVIOUS
<1> WITNESS x \div M \in Int, x % M \in 0..(M - 1)
<1> QED
  BY <1>1, Zenon

\* Products of different numbers are at least a factor apart.
LEMMA Times ==
  ASSUME NEW M \in Nat \ {0}, NEW a \in Int, NEW b \in Int, a < b
  PROVE  M * b >= M * a + M
<1>1. PICK d \in Nat : b = a + (1 + d)
  <2>1. b - a - 1 \in Nat /\ b = a + (1 + (b - a - 1))
    OBVIOUS
  <2> QED
    BY <2>1, Zenon
<1>2. M * b = M * a + (M + M * d) /\ M * d \in Nat /\ M * a \in Int
  BY <1>1
<1> QED
  BY <1>2

\* There is one remainder.
LEMMA OneRest ==
  ASSUME NEW M \in Nat \ {0}, NEW x \in Int, NEW q \in Int, NEW s \in 0..(M - 1), x = M * q + s
  PROVE  x % M = s
<1>1. PICK d \in Int, t \in 0..(M - 1) : x = M * d + t /\ x % M = t
  BY Divided, Zenon
<1>2. d < q => M * q >= M * d + M
  BY Times, Zenon
<1>3. q < d => M * d >= M * q + M
  BY Times, Zenon
<1>4. M * q \in Int /\ M * d \in Int /\ (q = d => M * q = M * d)
  OBVIOUS
<1> QED
  BY <1>1, <1>2, <1>3, <1>4

\* A sum may be reduced on the way.
LEMMA ModPlus ==
  ASSUME NEW M \in Nat \ {0}, NEW x \in Int, NEW y \in Int
  PROVE  ((x % M) + y) % M = (x + y) % M
<1>1. PICK q \in Int, s \in 0..(M - 1) : x = M * q + s /\ x % M = s
  BY Divided, Zenon
<1>2. s + y \in Int
  OBVIOUS
<1>3. PICK d \in Int, t \in 0..(M - 1) : s + y = M * d + t /\ (s + y) % M = t
  BY <1>2, Divided, Zenon
<1>4. x + y \in Int /\ q + d \in Int /\ x + y = M * (q + d) + t
  BY <1>1, <1>3
<1>5. (x + y) % M = t
  BY <1>4, OneRest, Zenon
<1> QED
  BY <1>1, <1>3, <1>5, Zenon

\* A remainder may be taken by a multiple of the modulus first.
LEMMA ModMod ==
  ASSUME NEW M \in Nat \ {0}, NEW L \in Nat \ {0}, M % L = 0, NEW x \in Int
  PROVE  (x % M) % L = x % L
<1>1. PICK q \in Int, s \in 0..(M - 1) : x = M * q + s /\ x % M = s
  BY Divided, Zenon
<1>2. s \in Int /\ M \in Int
  OBVIOUS
<1>3. PICK d \in Int, t \in 0..(L - 1) : s = L * d + t /\ s % L = t
  BY <1>2, Divided, Zenon
<1>4. PICK c \in Int, z \in 0..(L - 1) : M = L * c + z /\ M % L = z
  BY <1>2, Divided, Zenon
<1>5. M = L * c
  BY <1>4
<1>6. c * q + d \in Int /\ x = L * (c * q + d) + t
  BY <1>1, <1>3, <1>5
<1>7. x % L = t
  BY <1>6, OneRest, Zenon
<1> QED
  BY <1>1, <1>3, <1>7, Zenon

-----------------------------------------------------------------------------
(* Indices and cells.                                                      *)

\* The cell k places after index a.
At(a, k) == (a + k) % INPUT_BUF
Slot == 0..(INPUT_BUF - 1)
Index == 0..(CountMod - 1)
Char == {"x", "nl", "eof"}

\* What ConsoleAssumption says of the two sizes.
LEMMA Sizes ==
  ASSUME ConsoleAssumption
  PROVE  /\ INPUT_BUF \in Nat \ {0} /\ CountMod \in Nat \ {0} /\ INPUT_BUF < CountMod
         /\ CountMod % INPUT_BUF = 0
BY Zenon DEF ConsoleAssumption

\* An index is its own remainder.
LEMMA SmallIndex ==
  ASSUME ConsoleAssumption, NEW x \in Index
  PROVE  x % CountMod = x /\ (x + CountMod) % CountMod = x
<1>0. CountMod \in Nat \ {0}
  BY Sizes, Zenon
<1>1. /\ x \in Int /\ x + CountMod \in Int /\ 0 \in Int /\ 1 \in Int /\ x \in 0..(CountMod - 1)
      /\ x = CountMod * 0 + x /\ x + CountMod = CountMod * 1 + x
  BY <1>0 DEF Index
<1> QED
  BY <1>0, <1>1, OneRest, Zenon

\* An index is no places after itself.
LEMMA Here == ASSUME ConsoleAssumption, NEW a \in Index PROVE 0 \in Index /\ (a + 0) % CountMod = a
<1>1. a + 0 = a /\ 0 \in Index
  BY Sizes DEF Index
<1>2. a % CountMod = a
  BY SmallIndex, Zenon
<1> QED
  BY <1>1, <1>2, Zenon

\* Index b is as many places after index a as Minus says.
LEMMA Offset ==
  ASSUME ConsoleAssumption, NEW a \in Index, NEW b \in Index
  PROVE  Minus(b, a) \in Index /\ b = (a + Minus(b, a)) % CountMod
<1>0. CountMod \in Nat \ {0} /\ a \in Int /\ b \in Int
  BY Sizes DEF Index
<1> DEFINE x == b - a + CountMod
<1>1. x \in Int /\ x + a = b + CountMod
  BY <1>0
<1>2. ((x % CountMod) + a) % CountMod = (x + a) % CountMod
  <2> HIDE DEF x
  <2> QED
    BY <1>0, <1>1, ModPlus, Zenon
<1>3. (b + CountMod) % CountMod = b
  BY SmallIndex, Zenon
<1>4. x % CountMod \in 0..(CountMod - 1)
  <2> HIDE DEF x
  <2> QED
    BY <1>0, <1>1
<1>5. (x % CountMod) + a = a + (x % CountMod)
  <2>1. PICK d \in 0..(CountMod - 1) : x % CountMod = d
    BY <1>4, Zenon
  <2>2. d + a = a + d
    BY <1>0
  <2> QED
    BY <2>1, <2>2, Zenon
<1> QED
  BY <1>1, <1>2, <1>3, <1>4, <1>5, Zenon DEF Minus, Index

\* The places after a, and the places after one of these.
LEMMA Place == ASSUME ConsoleAssumption, NEW a \in Index, NEW m \in Nat PROVE (a + m) % CountMod \in Index
<1>1. CountMod \in Nat \ {0} /\ a + m \in Int
  BY Sizes DEF Index
<1> QED
  BY <1>1 DEF Index

LEMMA Along ==
  ASSUME ConsoleAssumption, NEW a \in Index, NEW m \in Nat, NEW n \in Nat
  PROVE  (((a + m) % CountMod) + n) % CountMod = (a + (m + n)) % CountMod
<1>0. CountMod \in Nat \ {0} /\ a + m \in Int /\ n \in Int /\ (a + m) + n = a + (m + n)
  BY Sizes DEF Index
<1>1. (((a + m) % CountMod) + n) % CountMod = ((a + m) + n) % CountMod
  BY <1>0, ModPlus, Zenon
<1> QED
  BY <1>0, <1>1, Zenon

\* Minus counts them.
LEMMA MinusIs ==
  ASSUME ConsoleAssumption, NEW a \in Index, NEW n \in Index
  PROVE  Minus((a + n) % CountMod, a) = n
<1>0. CountMod \in Nat \ {0} /\ a \in Int /\ n \in Int
  BY Sizes DEF Index
<1> DEFINE x == a + n
           y == CountMod - a
<1>1. x \in Int /\ y \in Int /\ x + y = n + CountMod
  BY <1>0
<1>2. ((x % CountMod) + y) % CountMod = (x + y) % CountMod
  <2> HIDE DEF x, y
  <2> QED
    BY <1>0, <1>1, ModPlus, Zenon
<1>3. (n + CountMod) % CountMod = n
  BY SmallIndex, Zenon
<1>4. (x % CountMod) - a + CountMod = (x % CountMod) + y
  <2>1. x % CountMod \in Int
    <3> HIDE DEF x
    <3> QED
      BY <1>0, <1>1
  <2> QED
    BY <1>0, <2>1
<1> QED
  BY <1>1, <1>2, <1>3, <1>4, Zenon DEF Minus

\* Minus of two places after the same index.
LEMMA Between ==
  ASSUME ConsoleAssumption, NEW a \in Index, NEW m \in Index, NEW n \in Index, m <= n
  PROVE  Minus((a + n) % CountMod, (a + m) % CountMod) = n - m
<1>0. CountMod \in Nat \ {0} /\ m \in Nat /\ n - m \in Nat /\ n - m \in Index /\ m + (n - m) = n
  BY Sizes DEF Index
<1> DEFINE b == (a + m) % CountMod
<1>1. b \in Index /\ (b + (n - m)) % CountMod = (a + (m + (n - m))) % CountMod
  <2>1. b \in Index
    BY <1>0, Place, Zenon
  <2>2. (b + (n - m)) % CountMod = (a + (m + (n - m))) % CountMod
    BY <1>0, Along, Zenon
  <2> QED
    BY <2>1, <2>2, Zenon
<1>2. Minus((b + (n - m)) % CountMod, b) = n - m
  <2> HIDE DEF b
  <2> QED
    BY <1>0, <1>1, MinusIs, Zenon
<1> QED
  BY <1>0, <1>1, <1>2, Zenon

\* The cells of the places after an index.
LEMMA AtFacts ==
  ASSUME ConsoleAssumption, NEW a \in Index, NEW k \in Nat
  PROVE  At(a, k) \in Slot /\ ((a + k) % CountMod) % INPUT_BUF = At(a, k)
<1>0. CountMod \in Nat \ {0} /\ INPUT_BUF \in Nat \ {0} /\ CountMod % INPUT_BUF = 0 /\ a + k \in Int
  BY Sizes DEF Index
<1>1. At(a, k) \in Slot
  BY <1>0 DEF At, Slot
<1>2. ((a + k) % CountMod) % INPUT_BUF = At(a, k)
  BY <1>0, ModMod, Zenon DEF At
<1> QED
  BY <1>1, <1>2, Zenon

\* The cells of the places after one of them.
LEMMA AtAlong ==
  ASSUME ConsoleAssumption, NEW a \in Index, NEW m \in Nat, NEW k \in Nat
  PROVE  At((a + m) % CountMod, k) = At(a, m + k)
<1>0. m + k \in Nat /\ (a + m) % CountMod \in Index
  BY Place
<1>1. ((((a + m) % CountMod) + k) % CountMod) % INPUT_BUF = At((a + m) % CountMod, k)
  <2> DEFINE b == (a + m) % CountMod
  <2> HIDE DEF b
  <2>1. b \in Index
    BY <1>0, Zenon DEF b
  <2>2. ((b + k) % CountMod) % INPUT_BUF = At(b, k)
    BY <2>1, AtFacts, Zenon
  <2> QED
    BY <2>2, Zenon DEF b
<1>2. ((a + (m + k)) % CountMod) % INPUT_BUF = At(a, m + k)
  BY <1>0, AtFacts, Zenon
<1>3. (((a + m) % CountMod) + k) % CountMod = (a + (m + k)) % CountMod
  BY Along, Zenon
<1> QED
  BY <1>1, <1>2, <1>3, Zenon

\* Cells fewer than INPUT_BUF places apart are different.
LEMMA AtOnce ==
  ASSUME ConsoleAssumption, NEW a \in Index, NEW j \in Slot, NEW k \in Slot, At(a, j) = At(a, k)
  PROVE  j = k
<1>0. INPUT_BUF \in Nat \ {0} /\ a \in Int /\ a + j \in Int /\ a + k \in Int
  BY Sizes DEF Index, Slot
<1>1. PICK q \in Int, s \in 0..(INPUT_BUF - 1) : a + j = INPUT_BUF * q + s /\ (a + j) % INPUT_BUF = s
  BY <1>0, Divided, Zenon
<1>2. PICK d \in Int, t \in 0..(INPUT_BUF - 1) : a + k = INPUT_BUF * d + t /\ (a + k) % INPUT_BUF = t
  BY <1>0, Divided, Zenon
<1>3. s = t
  BY <1>1, <1>2, Zenon DEF At
<1>4. d < q => INPUT_BUF * q >= INPUT_BUF * d + INPUT_BUF
  BY <1>0, Times, Zenon
<1>5. q < d => INPUT_BUF * d >= INPUT_BUF * q + INPUT_BUF
  BY <1>0, Times, Zenon
<1>6. INPUT_BUF * q \in Int /\ INPUT_BUF * d \in Int /\ (q = d => INPUT_BUF * q = INPUT_BUF * d)
  BY <1>0
<1> QED
  BY <1>0, <1>1, <1>2, <1>3, <1>4, <1>5, <1>6 DEF Slot

\* The cells between two indices.
LEMMA CellsAre ==
  ASSUME ConsoleAssumption, NEW a \in Index, NEW m \in Index, NEW n \in Index, m <= n
  PROVE  Cells((a + m) % CountMod, (a + n) % CountMod) = {At(a, k) : k \in m..(n - 1)}
<1>0. CountMod \in Nat \ {0} /\ m \in Nat /\ n \in Nat
  BY Sizes DEF Index
<1> DEFINE b == (a + m) % CountMod
<1>1. b \in Index
  BY <1>0, Place, Zenon
<1>2. Minus((a + n) % CountMod, b) = n - m
  BY Between, Zenon
<1>3. ASSUME NEW k \in 0..(n - m - 1)
      PROVE  ((b + k) % CountMod) % INPUT_BUF = At(a, m + k) /\ m + k \in m..(n - 1)
  <2>1. k \in Nat /\ m + k \in m..(n - 1)
    BY <1>0, <1>3
  <2>2. ((b + k) % CountMod) % INPUT_BUF = At(b, k)
    <3> HIDE DEF b
    <3> QED
      BY <1>1, <2>1, AtFacts, Zenon
  <2>3. At(b, k) = At(a, m + k)
    BY <1>0, <2>1, AtAlong, Zenon
  <2> QED
    BY <2>1, <2>2, <2>3, Zenon
<1>4. ASSUME NEW k \in m..(n - 1)
      PROVE  \E j \in 0..(n - m - 1) : m + j = k
  <2>1. k - m \in 0..(n - m - 1) /\ m + (k - m) = k
    BY <1>0, <1>4
  <2> QED
    BY <2>1, Zenon
<1>5. Cells(b, (a + n) % CountMod) = {((b + k) % CountMod) % INPUT_BUF : k \in 0..(n - m - 1)}
  BY <1>2, Zenon DEF Cells
<1> HIDE DEF b
<1>6. {((b + k) % CountMod) % INPUT_BUF : k \in 0..(n - m - 1)} = {At(a, k) : k \in m..(n - 1)}
  <2>1. ASSUME NEW i \in {((b + k) % CountMod) % INPUT_BUF : k \in 0..(n - m - 1)}
        PROVE  i \in {At(a, k) : k \in m..(n - 1)}
    BY <1>3, Zenon
  <2>2. ASSUME NEW i \in {At(a, k) : k \in m..(n - 1)}
        PROVE  i \in {((b + k) % CountMod) % INPUT_BUF : k \in 0..(n - m - 1)}
    <3>1. PICK k \in m..(n - 1) : i = At(a, k)
      BY <2>2, Zenon
    <3>2. PICK j \in 0..(n - m - 1) : m + j = k
      BY <1>4, Zenon
    <3> QED
      BY <1>3, <3>1, <3>2, Zenon
  <2> QED
    BY <2>1, <2>2, Zenon
<1> QED
  BY <1>5, <1>6, Zenon DEF b

-----------------------------------------------------------------------------
(* The ring: n cells from a on hold characters, of which the first m are   *)
(* the readers'.                                                           *)

\* There are n characters from index a on, of which the first m belong to
\* finished lines; every other cell is dead.
Ring(b, a, m, n) ==
  /\ m \in Nat /\ n \in 0..INPUT_BUF /\ m <= n /\ (n = INPUT_BUF => m # 0)
  /\ \A i \in Slot : b[i] # Dead <=> \E k \in 0..(n - 1) : i = At(a, k)
  /\ \A k \in m..(n - 1) : b[At(a, k)] = "x"

Buffers == [Slot -> Char \cup {Dead}]

\* consoleintr stores a character.
LEMMA StoreRing ==
  ASSUME ConsoleAssumption, NEW b \in Buffers, NEW a \in Index, NEW m, NEW n, Ring(b, a, m, n),
         n < INPUT_BUF, NEW o, o = n + 1, NEW c \in Char, NEW l \in {m, o},
         c # "x" => l = o, o = INPUT_BUF => l = o
  PROVE  /\ Ring([b EXCEPT ![At(a, n)] = c], a, l, o)
         /\ At(a, n) \in Slot /\ b[At(a, n)] = Dead
<1>0. INPUT_BUF \in Nat \ {0} /\ m \in Nat /\ n \in 0..INPUT_BUF /\ m <= n /\ n \in Slot
  BY Sizes DEF Ring, Slot
<1>1. \A k \in 0..n : k \in Slot /\ k \in Nat /\ At(a, k) \in Slot
  <2> TAKE k \in 0..n
  <2>1. k \in Slot /\ k \in Nat
    BY <1>0 DEF Slot
  <2>2. At(a, k) \in Slot
    BY <2>1, AtFacts, Zenon
  <2> QED
    BY <2>1, <2>2, Zenon
<1>2. \A k \in 0..(n - 1) : At(a, k) # At(a, n) /\ k \in 0..n
  <2> TAKE k \in 0..(n - 1)
  <2>1. k \in 0..n /\ k # n
    BY <1>0
  <2>2. k \in Slot
    BY <1>1, <2>1, Zenon
  <2> QED
    BY <1>0, <2>1, <2>2, AtOnce, Zenon
<1>3. n \in 0..n /\ At(a, n) \in Slot
  <2>1. n \in 0..n
    BY <1>0
  <2> QED
    BY <1>1, <2>1, Zenon
<1>4. b[At(a, n)] = Dead
  BY <1>2, <1>3, Zenon DEF Ring
<1> DEFINE d == [b EXCEPT ![At(a, n)] = c]
<1>5. d[At(a, n)] = c /\ \A i \in Slot : i # At(a, n) => d[i] = b[i]
  BY <1>3, Zenon DEF Buffers
<1> HIDE DEF d
<1>6. \A k \in 0..(o - 1) : k = n \/ k \in 0..(n - 1)
  BY <1>0
<1>7. o - 1 = n
  BY <1>0
<1>8. c # Dead
  BY Zenon DEF Char, Dead
<1>9. ASSUME NEW i \in Slot PROVE d[i] # Dead <=> \E k \in 0..(o - 1) : i = At(a, k)
  <2>1. CASE i = At(a, n)
    BY <1>3, <1>5, <1>7, <1>8, <2>1, Zenon
  <2>2. CASE i # At(a, n)
    <3>1. d[i] = b[i]
      BY <1>5, <2>2, Zenon
    <3>2. b[i] # Dead <=> \E k \in 0..(n - 1) : i = At(a, k)
      BY Zenon DEF Ring
    <3>3. (\E k \in 0..(n - 1) : i = At(a, k)) <=> \E k \in 0..n : i = At(a, k)
      BY <1>2, <1>6, <1>7, <2>2, Zenon
    <3> QED
      BY <1>7, <3>1, <3>2, <3>3, Zenon
  <2> QED
    BY <2>1, <2>2, Zenon
<1>10. ASSUME NEW k \in l..(o - 1) PROVE d[At(a, k)] = "x"
  <2>1. k = n \/ (k \in m..(n - 1) /\ k \in 0..(n - 1))
    BY <1>0
  <2>2. l # o
    BY <1>0
  <2>3. CASE k = n
    BY <1>5, <2>2, <2>3, Zenon
  <2>4. CASE k \in m..(n - 1) /\ k \in 0..(n - 1)
    <3>1. b[At(a, k)] = "x"
      BY <2>4, Zenon DEF Ring
    <3> QED
      BY <1>1, <1>2, <1>5, <2>4, <3>1, Zenon
  <2> QED
    BY <2>1, <2>3, <2>4, Zenon
<1>11. /\ l \in Nat /\ o \in 0..INPUT_BUF /\ l <= o /\ (o = INPUT_BUF => l # 0)
  BY <1>0
<1>12. Ring(d, a, l, o)
  BY <1>9, <1>10, <1>11, Zenon DEF Ring
<1> QED
  BY <1>3, <1>4, <1>12, Zenon DEF d

\* consoleintr erases the last characters.
LEMMA EraseRing ==
  ASSUME ConsoleAssumption, NEW b \in Buffers, NEW a \in Index, NEW m, NEW n, Ring(b, a, m, n),
         NEW t \in m..n, NEW d,
         d = [i \in Slot |-> IF i \in {At(a, k) : k \in t..(n - 1)} THEN Dead ELSE b[i]]
  PROVE  Ring(d, a, m, t) /\ d \in Buffers /\ \A i \in Slot : d[i] = "eof" <=> b[i] = "eof"
<1>0. INPUT_BUF \in Nat \ {0} /\ m \in Nat /\ n \in 0..INPUT_BUF /\ m <= n /\ t \in 0..INPUT_BUF
  BY Sizes DEF Ring
<1>1. \A k \in 0..(n - 1) : k \in Slot /\ k \in Nat /\ At(a, k) \in Slot
  <2> TAKE k \in 0..(n - 1)
  <2>1. k \in Slot /\ k \in Nat
    BY <1>0 DEF Slot
  <2>2. At(a, k) \in Slot
    BY <2>1, AtFacts, Zenon
  <2> QED
    BY <2>1, <2>2, Zenon
<1>2. \A j \in 0..(n - 1), k \in 0..(n - 1) : At(a, j) = At(a, k) => j = k
  BY <1>1, AtOnce, Zenon
<1>3. /\ \A k \in t..(n - 1) : k \in 0..(n - 1) /\ k \in m..(n - 1)
      /\ \A k \in 0..(t - 1) : k \in 0..(n - 1) /\ k \notin t..(n - 1)
      /\ \A k \in 0..(n - 1) : k \in t..(n - 1) \/ k \in 0..(t - 1)
      /\ \A k \in m..(t - 1) : k \in m..(n - 1) /\ k \in 0..(t - 1)
  BY <1>0
<1>4. \A k \in 0..(t - 1) : At(a, k) \in Slot /\ d[At(a, k)] = b[At(a, k)]
  BY <1>1, <1>2, <1>3, Zenon
<1>5. \A k \in t..(n - 1) : At(a, k) \in Slot /\ d[At(a, k)] = Dead
  BY <1>1, <1>3, Zenon
<1>6. ASSUME NEW i \in Slot PROVE d[i] # Dead <=> \E k \in 0..(t - 1) : i = At(a, k)
  <2>1. b[i] # Dead <=> \E k \in 0..(n - 1) : i = At(a, k)
    BY Zenon DEF Ring
  <2>2. CASE \E k \in 0..(t - 1) : i = At(a, k)
    <3>1. PICK k \in 0..(t - 1) : i = At(a, k)
      BY <2>2, Zenon
    <3> QED
      BY <1>3, <1>4, <2>1, <3>1, Zenon
  <2>3. CASE ~\E k \in 0..(t - 1) : i = At(a, k)
    <3>1. CASE i \in {At(a, k) : k \in t..(n - 1)}
      BY <1>5, <2>3, <3>1, Zenon
    <3>2. CASE i \notin {At(a, k) : k \in t..(n - 1)}
      BY <1>3, <2>1, <2>3, <3>2, Zenon
    <3> QED
      BY <3>1, <3>2, Zenon
  <2> QED
    BY <2>2, <2>3, Zenon
<1>7. \A k \in m..(t - 1) : d[At(a, k)] = "x"
  BY <1>3, <1>4, Zenon DEF Ring
<1>8. m <= t /\ (t = INPUT_BUF => m # 0)
  <2>1. n = INPUT_BUF => m # 0
    BY Zenon DEF Ring
  <2> QED
    BY <1>0, <2>1
<1>9. \A i \in Slot : d[i] = "eof" <=> b[i] = "eof"
  <2> TAKE i \in Slot
  <2>1. CASE i \in {At(a, k) : k \in t..(n - 1)}
    <3>1. PICK k \in t..(n - 1) : i = At(a, k)
      BY <2>1, Zenon
    <3>2. d[i] = Dead /\ b[i] = "x"
      BY <1>3, <1>5, <3>1, Zenon DEF Ring
    <3> QED
      BY <3>2, Zenon DEF Dead
  <2>2. CASE i \notin {At(a, k) : k \in t..(n - 1)}
    BY <2>2, Zenon
  <2> QED
    BY <2>1, <2>2, Zenon
<1>10. d \in Buffers
  BY Zenon DEF Buffers
<1> QED
  BY <1>0, <1>6, <1>7, <1>8, <1>9, <1>10, Zenon DEF Ring

\* consoleread takes a character.
LEMMA ConsumeRing ==
  ASSUME ConsoleAssumption, NEW b \in Buffers, NEW a \in Index, NEW m, NEW n, Ring(b, a, m, n), m # 0,
         NEW z, z = (a + 1) % CountMod
  PROVE  /\ Ring([b EXCEPT ![At(a, 0)] = Dead], z, m - 1, n - 1)
         /\ At(a, 0) \in Slot /\ b[At(a, 0)] # Dead
<1>0. INPUT_BUF \in Nat \ {0} /\ m \in Nat /\ n \in 0..INPUT_BUF /\ m <= n /\ n >= 1 /\ m >= 1
  BY Sizes DEF Ring
<1>1. \A k \in 0..(n - 1) : k \in Slot /\ k \in Nat /\ At(a, k) \in Slot
  <2> TAKE k \in 0..(n - 1)
  <2>1. k \in Slot /\ k \in Nat
    BY <1>0 DEF Slot
  <2>2. At(a, k) \in Slot
    BY <2>1, AtFacts, Zenon
  <2> QED
    BY <2>1, <2>2, Zenon
<1>2. \A k \in 1..(n - 1) : At(a, k) # At(a, 0) /\ k \in 0..(n - 1)
  <2> TAKE k \in 1..(n - 1)
  <2>1. k \in 0..(n - 1) /\ 0 \in 0..(n - 1) /\ k # 0
    BY <1>0
  <2>2. k \in Slot /\ 0 \in Slot
    BY <1>1, <2>1, Zenon
  <2> QED
    BY <2>1, <2>2, AtOnce, Zenon
<1>3. 0 \in 0..(n - 1) /\ At(a, 0) \in Slot
  <2>1. 0 \in 0..(n - 1)
    BY <1>0
  <2> QED
    BY <1>1, <2>1, Zenon
<1>4. b[At(a, 0)] # Dead
  BY <1>3, Zenon DEF Ring
<1> DEFINE d == [b EXCEPT ![At(a, 0)] = Dead]
<1>5. d[At(a, 0)] = Dead /\ \A i \in Slot : i # At(a, 0) => d[i] = b[i]
  BY <1>3, Zenon DEF Buffers
<1> HIDE DEF d
<1>6. \A k \in 0..(n - 1 - 1) : At(z, k) = At(a, 1 + k) /\ 1 + k \in 1..(n - 1)
  <2> TAKE k \in 0..(n - 1 - 1)
  <2>1. k \in Nat /\ 1 \in Nat /\ 1 + k \in 1..(n - 1)
    BY <1>0
  <2> QED
    BY <2>1, AtAlong, Zenon
<1>7. \A k \in 0..(n - 1) : k = 0 \/ \E j \in 0..(n - 1 - 1) : k = 1 + j
  <2> TAKE k \in 0..(n - 1)
  <2>1. k = 0 \/ (k - 1 \in 0..(n - 1 - 1) /\ k = 1 + (k - 1))
    BY <1>0
  <2> QED
    BY <2>1, Zenon
<1>8. ASSUME NEW i \in Slot PROVE d[i] # Dead <=> \E k \in 0..(n - 1 - 1) : i = At(z, k)
  <2>1. CASE i = At(a, 0)
    BY <1>2, <1>5, <1>6, <2>1, Zenon
  <2>2. CASE i # At(a, 0)
    <3>1. d[i] = b[i]
      BY <1>5, <2>2, Zenon
    <3>2. b[i] # Dead <=> \E k \in 0..(n - 1) : i = At(a, k)
      BY Zenon DEF Ring
    <3>3. (\E k \in 0..(n - 1) : i = At(a, k)) => \E k \in 0..(n - 1 - 1) : i = At(z, k)
      BY <1>6, <1>7, <2>2, Zenon
    <3>4. (\E k \in 0..(n - 1 - 1) : i = At(z, k)) => \E k \in 0..(n - 1) : i = At(a, k)
      BY <1>2, <1>6, Zenon
    <3> QED
      BY <3>1, <3>2, <3>3, <3>4, Zenon
  <2> QED
    BY <2>1, <2>2, Zenon
<1>9. ASSUME NEW k \in (m - 1)..(n - 1 - 1) PROVE d[At(z, k)] = "x"
  <2>1. k \in 0..(n - 1 - 1) /\ 1 + k \in m..(n - 1)
    BY <1>0
  <2>2. b[At(a, 1 + k)] = "x"
    BY <2>1, Zenon DEF Ring
  <2> QED
    BY <1>1, <1>2, <1>5, <1>6, <2>1, <2>2, Zenon
<1>10. m - 1 \in Nat /\ n - 1 \in 0..INPUT_BUF /\ m - 1 <= n - 1 /\ n - 1 # INPUT_BUF
  BY <1>0
<1> QED
  BY <1>3, <1>4, <1>8, <1>9, <1>10, Zenon DEF Ring, d

-----------------------------------------------------------------------------
(* The ^D in the buffer.                                                   *)

\* The ^D in the buffer.
Eofs(b) == {i \in Slot : b[i] = "eof"}

\* What the proofs use of finite sets.  FiniteSetTheorems proves it at the end
\* of this module: it is a large library to have in every context.
SetFacts ==
  /\ IsFiniteSet({}) /\ Cardinality({}) = 0
  /\ \A S : IsFiniteSet(S) => (Cardinality(S) = 0 <=> S = {})
  /\ \A S : IsFiniteSet(S) => Cardinality(S) \in Nat
  /\ \A S : \A T \in SUBSET S : IsFiniteSet(S) =>
       /\ IsFiniteSet(T) /\ Cardinality(T) <= Cardinality(S)
       /\ Cardinality(S) = Cardinality(T) => S = T
  /\ \A i, j \in Int :
       IsFiniteSet(i..j) /\ Cardinality(i..j) = IF i > j THEN 0 ELSE j - i + 1
  /\ \A S, x : IsFiniteSet(S) =>
       /\ IsFiniteSet(S \cup {x})
       /\ Cardinality(S \cup {x}) = IF x \in S THEN Cardinality(S) ELSE Cardinality(S) + 1
  /\ \A S, x : IsFiniteSet(S) =>
       /\ IsFiniteSet(S \ {x})
       /\ Cardinality(S \ {x}) = IF x \in S THEN Cardinality(S) - 1 ELSE Cardinality(S)

\* The empty set has no element, and no other finite set has none.
LEMMA SetEmptySet ==
  ASSUME SetFacts
  PROVE  /\ IsFiniteSet({}) /\ Cardinality({}) = 0
         /\ \A S : IsFiniteSet(S) => (Cardinality(S) = 0 <=> S = {})
BY Zenon DEF SetFacts

\* A finite set can be counted.
LEMMA SetCardinalityType ==
  ASSUME SetFacts, NEW S, IsFiniteSet(S)
  PROVE  Cardinality(S) \in Nat
BY Zenon DEF SetFacts

\* A subset is no larger.
LEMMA SetSubset ==
  ASSUME SetFacts, NEW S, IsFiniteSet(S), NEW T \in SUBSET S
  PROVE  /\ IsFiniteSet(T) /\ Cardinality(T) <= Cardinality(S)
         /\ Cardinality(S) = Cardinality(T) => S = T
BY Zenon DEF SetFacts

\* An interval.
LEMMA SetInterval ==
  ASSUME SetFacts, NEW i \in Int, NEW j \in Int
  PROVE  IsFiniteSet(i..j) /\ Cardinality(i..j) = IF i > j THEN 0 ELSE j - i + 1
BY Zenon DEF SetFacts

\* An element more.
LEMMA SetAddElement ==
  ASSUME SetFacts
  PROVE  \A S, x : IsFiniteSet(S) =>
           /\ IsFiniteSet(S \cup {x})
           /\ Cardinality(S \cup {x}) = IF x \in S THEN Cardinality(S) ELSE Cardinality(S) + 1
BY Zenon DEF SetFacts

\* An element less.
LEMMA SetRemoveElement ==
  ASSUME SetFacts
  PROVE  \A S, x : IsFiniteSet(S) =>
           /\ IsFiniteSet(S \ {x})
           /\ Cardinality(S \ {x}) = IF x \in S THEN Cardinality(S) - 1 ELSE Cardinality(S)
BY Zenon DEF SetFacts

\* They can be counted.
LEMMA EofsFinite == ASSUME SetFacts, ConsoleAssumption, NEW b PROVE IsFiniteSet(Eofs(b)) /\ Cardinality(Eofs(b)) \in Nat
<1>1. INPUT_BUF - 1 \in Int /\ 0 \in Int
  BY Sizes
<1>2. IsFiniteSet(0..(INPUT_BUF - 1))
  BY <1>1, SetInterval, Zenon
<1>3. Eofs(b) \subseteq 0..(INPUT_BUF - 1)
  BY Zenon DEF Eofs, Slot
<1>4. IsFiniteSet(Eofs(b))
  BY <1>2, <1>3, SetSubset, Zenon
<1> QED
  BY <1>4, SetCardinalityType, Zenon

\* One cell changes.
LEMMA EofsPut ==
  ASSUME SetFacts, ConsoleAssumption, NEW b, NEW d, NEW i \in Slot, b[i] # "eof", \A j \in Slot : j # i => d[j] = b[j]
  PROVE  Cardinality(Eofs(d)) = IF d[i] = "eof" THEN Cardinality(Eofs(b)) + 1 ELSE Cardinality(Eofs(b))
<1>1. CASE d[i] = "eof"
  <2>1. Eofs(d) = Eofs(b) \cup {i} /\ i \notin Eofs(b)
    BY <1>1, SMT DEF Eofs
  <2>2. IsFiniteSet(Eofs(b))
    BY EofsFinite, Zenon
  <2>3. Cardinality(Eofs(b) \cup {i}) = Cardinality(Eofs(b)) + 1
    BY <2>1, <2>2, SetAddElement, Zenon
  <2> QED
    BY <1>1, <2>1, <2>3, Zenon
<1>2. CASE d[i] # "eof"
  <2>1. Eofs(d) = Eofs(b)
    BY <1>2, Zenon DEF Eofs
  <2> QED
    BY <1>2, <2>1, Zenon
<1> QED
  BY <1>1, <1>2, Zenon

\* One of them is taken out.
LEMMA EofsTake ==
  ASSUME SetFacts, ConsoleAssumption, NEW b \in Buffers, NEW i \in Slot, NEW d, d = [b EXCEPT ![i] = Dead]
  PROVE  Cardinality(Eofs(d)) = IF b[i] = "eof" THEN Cardinality(Eofs(b)) - 1 ELSE Cardinality(Eofs(b))
<1>0. Dead # "eof"
  BY Zenon DEF Dead
<1>1. d[i] = Dead /\ \A j \in Slot : j # i => d[j] = b[j]
  BY Zenon DEF Buffers
<1>2. CASE b[i] = "eof"
  <2>1. Eofs(d) = Eofs(b) \ {i} /\ i \in Eofs(b)
    BY <1>0, <1>1, <1>2, Zenon DEF Eofs
  <2>2. IsFiniteSet(Eofs(b))
    BY EofsFinite, Zenon
  <2>3. Cardinality(Eofs(b) \ {i}) = Cardinality(Eofs(b)) - 1
    BY <2>1, <2>2, SetRemoveElement, Zenon
  <2> QED
    BY <1>2, <2>1, <2>3, Zenon
<1>3. CASE b[i] # "eof"
  <2>1. Eofs(d) = Eofs(b)
    BY <1>0, <1>1, <1>3, Zenon DEF Eofs
  <2> QED
    BY <1>3, <2>1, Zenon
<1> QED
  BY <1>2, <1>3, Zenon

-----------------------------------------------------------------------------
(* The invariant.                                                          *)

\* Where a process is in consoleread or consolewrite.
CPc == {"user", "r_loop", "r_sleep", "r_asleep", "r_woken", "w_loop"}

\* The types of what the invariant is about.
CTypeOK ==
  /\ buf \in Buffers /\ r \in Index /\ w \in Index /\ e \in Index
  /\ cpc \in [Proc -> CPc]

\* r..w are finished lines, w..e is the line being edited, and one end of file
\* is owed for each ^D in the buffer.
BufOK == Ring(buf, r, Minus(w, r), Minus(e, r)) /\ owed = Cardinality(Eofs(buf))

\* Who is in a loop has cons.lock; who goes to sleep has found nothing to read,
\* and that is still so.
ReaderOK(p) ==
  /\ cpc[p] \in {"r_loop", "r_sleep", "w_loop"} => clock = p
  /\ cpc[p] \in {"r_sleep", "r_asleep"} => r = w

\* The inductive invariant.
CInv == CTypeOK /\ BufOK /\ \A p \in Proc : ReaderOK(p)

\* The three indices, by their places after r.
LEMMA Marks ==
  ASSUME ConsoleAssumption, CTypeOK
  PROVE  \E m \in Index, n \in Index :
           /\ m = Minus(w, r) /\ n = Minus(e, r)
           /\ w = (r + m) % CountMod /\ e = (r + n) % CountMod
           /\ (m = 0 <=> w = r)
<1>0. r \in Index /\ w \in Index /\ e \in Index
  BY Zenon DEF CTypeOK
<1>1. Minus(w, r) \in Index /\ w = (r + Minus(w, r)) % CountMod
  BY <1>0, Offset, Zenon
<1>2. Minus(e, r) \in Index /\ e = (r + Minus(e, r)) % CountMod
  BY <1>0, Offset, Zenon
<1>3. 0 \in Index /\ (r + 0) % CountMod = r
  BY <1>0, Here, Zenon
<1>4. Minus((r + 0) % CountMod, r) = 0
  BY <1>0, <1>3, MinusIs, Zenon
<1>5. Minus(w, r) = 0 <=> w = r
  BY <1>1, <1>3, <1>4, Zenon
<1> QED
  BY <1>1, <1>2, <1>5, Zenon

\* A step that leaves cons alone.
LEMMA SameBuf ==
  ASSUME CInv, UNCHANGED <<buf, r, w, e, owed>>
  PROVE  BufOK' /\ (cpc' \in [Proc -> CPc] => CTypeOK')
<1>1. BufOK'
  BY Zenon DEF CInv, BufOK, Minus
<1>2. cpc' \in [Proc -> CPc] => CTypeOK'
  BY Zenon DEF CInv, CTypeOK
<1> QED
  BY <1>1, <1>2, Zenon

\* A step of process p that leaves w alone.
LEMMA OneReader ==
  ASSUME CInv, NEW p \in Proc, NEW l \in CPc, cpc' = [cpc EXCEPT ![p] = l],
         \/ clock' = clock
         \/ clock = p /\ l \notin {"r_loop", "r_sleep", "w_loop"}
         \/ clock \notin Proc,
         l \in {"r_loop", "r_sleep", "w_loop"} => clock' = p,
         l \in {"r_sleep", "r_asleep"} => r' = w',
         r' = r \/ r # w, w' = w, r' = r \/ clock = p
  PROVE  cpc' \in [Proc -> CPc] /\ \A q \in Proc : ReaderOK(q)'
<1>0. cpc \in [Proc -> CPc]
  BY Zenon DEF CInv, CTypeOK
<1>1. cpc' \in [Proc -> CPc] /\ cpc'[p] = l /\ \A q \in Proc : q # p => cpc'[q] = cpc[q]
  BY <1>0, Zenon
<1>2. ASSUME NEW q \in Proc PROVE ReaderOK(q)'
  <2>1. CASE q = p
    BY <1>1, <2>1, Zenon DEF ReaderOK
  <2>2. CASE q # p
    <3>1. ReaderOK(q) /\ cpc'[q] = cpc[q]
      BY <1>1, <2>2, Zenon DEF CInv
    <3> QED
      BY <2>2, <3>1, Zenon DEF ReaderOK
  <2> QED
    BY <2>1, <2>2, Zenon
<1> QED
  BY <1>1, <1>2, Zenon

-----------------------------------------------------------------------------
(* The steps.                                                              *)

\* consoleintr has cons.lock, so that no process is in a loop.
LEMMA NobodyInside ==
  ASSUME ConsoleAssumption, CInv, clock = Nobody
  PROVE  \A p \in Proc : cpc[p] \notin {"r_loop", "r_sleep", "w_loop"}
BY Zenon DEF ConsoleAssumption, CInv, ReaderOK

\* consoleintr stores a character, and may finish a line with it.
LEMMA StoreCInv ==
  ASSUME SetFacts, ConsoleAssumption, CInv, clock = Nobody, UNCHANGED clock, NEW k, intr_store(k)
  PROVE  CInv'
<1>0. /\ CTypeOK /\ buf \in Buffers /\ r \in Index /\ w \in Index /\ e \in Index
      /\ cpc \in [Proc -> CPc]
      /\ INPUT_BUF \in Nat \ {0} /\ CountMod \in Nat \ {0} /\ INPUT_BUF < CountMod
  BY Sizes, Zenon DEF CInv, CTypeOK
<1>1. PICK m \in Index, n \in Index :
           /\ m = Minus(w, r) /\ n = Minus(e, r)
           /\ w = (r + m) % CountMod /\ e = (r + n) % CountMod
           /\ (m = 0 <=> w = r)
  BY <1>0, Marks, Zenon
<1>2. Ring(buf, r, m, n) /\ owed = Cardinality(Eofs(buf))
  BY <1>1, Zenon DEF CInv, BufOK
<1>3. n < INPUT_BUF /\ m \in Nat /\ n \in Nat /\ m <= n /\ n + 1 \in Index
  BY <1>0, <1>1, <1>2 DEF intr_store, Ring, Index
<1>4. PICK c \in Char :
        /\ c = IF k = "cr" THEN "nl" ELSE k
        /\ buf' = [buf EXCEPT ![e % INPUT_BUF] = c]
        /\ e' = Plus(e)
        /\ owed' = IF c = "eof" THEN owed + 1 ELSE owed
        /\ IF Commits(c) THEN w' = Plus(e) /\ cpc' = WakeReaders(cpc) ELSE w' = w /\ cpc' = cpc
        /\ r' = r
  <2>1. (IF k = "cr" THEN "nl" ELSE k) \in Char
    BY Zenon DEF intr_store, Char
  <2> QED
    BY <2>1, Zenon DEF intr_store
<1>5. e % INPUT_BUF = At(r, n)
  <2>1. ((r + n) % CountMod) % INPUT_BUF = At(r, n)
    BY <1>0, <1>3, AtFacts, Zenon
  <2> QED
    BY <1>1, <2>1, Zenon
<1>6. Plus(e) = (r + (n + 1)) % CountMod /\ Plus(e) \in Index
  <2>1. 1 \in Nat /\ n + 1 \in Nat
    BY <1>3
  <2>2. (((r + n) % CountMod) + 1) % CountMod = (r + (n + 1)) % CountMod
    <3>1. r \in Index /\ n \in Nat
      BY <1>0, <1>3, Zenon
    <3> QED
      BY <2>1, <3>1, Along, Zenon
  <2>3. (r + (n + 1)) % CountMod \in Index
    BY <1>0, <2>1, Place, Zenon
  <2> QED
    BY <1>1, <2>2, <2>3, Zenon DEF Plus
<1>7. Minus(Plus(e), r) = n + 1
  BY <1>0, <1>3, <1>6, MinusIs, Zenon
<1> DEFINE l == IF Commits(c) THEN n + 1 ELSE m
<1>8. c # "x" => l = n + 1
  BY Zenon DEF Commits, Char
<1>9. n + 1 = INPUT_BUF => l = n + 1
  <2>1. n + 1 = INPUT_BUF => Commits(c)
    BY <1>6, Zenon DEF Commits
  <2> QED
    BY <2>1, Zenon
<1>10. l \in {m, n + 1}
  BY Zenon
<1>11. Minus(w, r)' = l /\ Minus(e, r)' = n + 1 /\ w' \in Index /\ e' \in Index
  <2>1. Minus(e, r)' = Minus(Plus(e), r)
    BY <1>4, Zenon DEF Minus
  <2>2. Minus(w, r)' = IF Commits(c) THEN Minus(Plus(e), r) ELSE Minus(w, r)
    BY <1>4, Zenon DEF Minus
  <2> QED
    BY <1>0, <1>1, <1>4, <1>6, <1>7, <2>1, <2>2, Zenon
<1> HIDE DEF l
<1>12. /\ Ring([buf EXCEPT ![At(r, n)] = c], r, l, n + 1)
       /\ At(r, n) \in Slot /\ buf[At(r, n)] = Dead
  BY <1>0, <1>2, <1>3, <1>8, <1>9, <1>10, StoreRing, Zenon
<1>13. buf' = [buf EXCEPT ![At(r, n)] = c] /\ buf' \in Buffers
  <2>1. buf' = [buf EXCEPT ![At(r, n)] = c]
    BY <1>4, <1>5, Zenon
  <2> QED
    BY <1>0, <1>12, <2>1, Zenon DEF Buffers
<1>14. Ring(buf, r, Minus(w, r), Minus(e, r))'
  <2>1. Ring(buf', r', l, n + 1)
    BY <1>4, <1>12, <1>13, Zenon
  <2> QED
    BY <1>11, <2>1, Zenon DEF Ring
<1>15. (owed = Cardinality(Eofs(buf)))'
  <2>1. buf[At(r, n)] # "eof"
    BY <1>12, Zenon DEF Dead
  <2>2. Cardinality(Eofs(buf')) = IF c = "eof" THEN Cardinality(Eofs(buf)) + 1 ELSE Cardinality(Eofs(buf))
    <3>1. buf'[At(r, n)] = c /\ At(r, n) \in Slot /\ \A j \in Slot : j # At(r, n) => buf'[j] = buf[j]
      BY <1>0, <1>12, <1>13, Zenon DEF Buffers
    <3>2. PICK d : d = buf'
      BY Zenon
    <3>3. Cardinality(Eofs(d)) = IF d[At(r, n)] = "eof" THEN Cardinality(Eofs(buf)) + 1 ELSE Cardinality(Eofs(buf))
      BY <2>1, <3>1, <3>2, EofsPut, Zenon
    <3> QED
      BY <3>1, <3>2, <3>3, Zenon
  <2> QED
    BY <1>2, <1>4, <2>2, Zenon DEF Eofs
<1>16. cpc' \in [Proc -> CPc] /\ \A q \in Proc : ReaderOK(q)'
  <2>1. \A q \in Proc : cpc[q] \notin {"r_loop", "r_sleep", "w_loop"} /\ ReaderOK(q)
    BY NobodyInside, Zenon DEF CInv
  <2>2. CASE Commits(c)
    <3>1. cpc' = [q \in Proc |-> IF cpc[q] = "r_asleep" THEN "r_woken" ELSE cpc[q]]
      BY <1>4, <2>2, Zenon DEF WakeReaders
    <3> QED
      BY <1>0, <2>1, <3>1, Zenon DEF CPc, ReaderOK
  <2>3. CASE ~Commits(c)
    <3>1. cpc' = cpc /\ w' = w /\ r' = r
      BY <1>4, <2>3, Zenon
    <3> QED
      BY <1>0, <2>1, <3>1, Zenon DEF ReaderOK
  <2> QED
    BY <2>2, <2>3, Zenon
<1> QED
  BY <1>0, <1>4, <1>11, <1>13, <1>14, <1>15, <1>16, Zenon DEF CInv, CTypeOK, BufOK

\* Where ^H and ^U go back to is not before w: there is no newline after it.
LEMMA ErasesEdit ==
  ASSUME ConsoleAssumption, CInv, NEW k, NEW m \in Index, NEW n \in Index,
         w = (r + m) % CountMod, e = (r + n) % CountMod, Ring(buf, r, m, n)
  PROVE  \E t \in m..n : EraseTo(k) = (r + t) % CountMod
<1>0. r \in Index /\ w \in Index /\ e \in Index /\ CountMod \in Nat \ {0} /\ m \in Nat /\ n \in Nat /\ m <= n
  BY Sizes DEF CInv, CTypeOK, Index, Ring
<1>1. CASE e = w
  <2>1. EraseTo(k) = e
    BY <1>1, Zenon DEF EraseTo
  <2>2. n \in m..n
    BY <1>0
  <2> QED
    BY <2>1, <2>2, Zenon
<1>2. CASE e # w /\ k = "kill"
  <2> DEFINE From == {(w + j) % CountMod : j \in 0..Minus(e, w)}
             Stop(i) == /\ i = w \/ Cell((i + CountMod - 1) % CountMod) = "nl"
                        /\ \A j \in 1..Minus(e, i) : Cell((i + j - 1) % CountMod) # "nl"
  <2>1. Minus(e, w) = n - m
    BY <1>0, Between, Zenon
  <2>2. \A j \in 0..(n - m) : (w + j) % CountMod = (r + (m + j)) % CountMod /\ m + j \in m..n
    <3> TAKE j \in 0..(n - m)
    <3>1. j \in Nat /\ m + j \in m..n
      BY <1>0
    <3> QED
      BY <1>0, <3>1, Along, Zenon
  <2>3. w \in From
    <3>1. w + 0 = w /\ 0 \in 0..(n - m)
      BY <1>0
    <3>2. w % CountMod = w
      BY <1>0, SmallIndex, Zenon
    <3> QED
      BY <2>1, <3>1, <3>2, Zenon
  <2>4. ASSUME NEW j \in 1..(n - m) PROVE Cell((w + j - 1) % CountMod) # "nl"
    <3>1. j - 1 \in 0..(n - m) /\ w + j - 1 = w + (j - 1) /\ m + (j - 1) \in Nat /\ m + (j - 1) \in m..(n - 1)
      BY <1>0
    <3>2. (w + j - 1) % CountMod = (r + (m + (j - 1))) % CountMod
      BY <2>2, <3>1, Zenon
    <3>3. ((r + (m + (j - 1))) % CountMod) % INPUT_BUF = At(r, m + (j - 1))
      BY <1>0, <3>1, AtFacts, Zenon
    <3>4. buf[At(r, m + (j - 1))] = "x"
      BY <3>1, Zenon DEF Ring
    <3>5. Cell((w + j - 1) % CountMod) = "x"
      BY <3>2, <3>3, <3>4, Zenon DEF Cell
    <3> QED
      BY <3>5, Zenon
  <2>5. Stop(w)
    BY <2>1, <2>4, Zenon
  <2>6. KillTo = CHOOSE i \in From : Stop(i)
    BY Zenon DEF KillTo
  <2>7. KillTo \in From
    <3> HIDE DEF From, Stop
    <3> QED
      BY <2>3, <2>5, <2>6, Zenon
  <2>8. PICK j \in 0..(n - m) : KillTo = (w + j) % CountMod
    BY <2>1, <2>7, Zenon
  <2>9. EraseTo(k) = KillTo
    BY <1>2, Zenon DEF EraseTo
  <2> QED
    BY <2>2, <2>8, <2>9, Zenon
<1>3. CASE e # w /\ k # "kill"
  <2>1. EraseTo(k) = (e + CountMod - 1) % CountMod
    BY <1>3, Zenon DEF EraseTo
  <2>2. n # m
    BY <1>3, Zenon
  <2>3. n - 1 \in m..n /\ r + n \in Int /\ CountMod - 1 \in Int
    BY <1>0, <2>2 DEF Index
  <2>4. (((r + n) % CountMod) + (CountMod - 1)) % CountMod = ((r + n) + (CountMod - 1)) % CountMod
    BY <1>0, <2>3, ModPlus, Zenon
  <2>5. (r + n) + (CountMod - 1) = (r + (n - 1)) + CountMod /\ e + CountMod - 1 = e + (CountMod - 1)
        /\ r + (n - 1) \in Int
    BY <1>0 DEF Index
  <2>6. ((r + (n - 1)) + CountMod) % CountMod = (r + (n - 1)) % CountMod
    <3>1. PICK q \in Int, s \in 0..(CountMod - 1) : r + (n - 1) = CountMod * q + s /\ (r + (n - 1)) % CountMod = s
      BY <1>0, <2>5, Divided, Zenon
    <3>2. (r + (n - 1)) + CountMod \in Int /\ q + 1 \in Int /\ (r + (n - 1)) + CountMod = CountMod * (q + 1) + s
      BY <1>0, <2>5, <3>1
    <3>3. ((r + (n - 1)) + CountMod) % CountMod = s
      BY <1>0, <3>2, OneRest, Zenon
    <3> QED
      BY <3>1, <3>3, Zenon
  <2>7. EraseTo(k) = (r + (n - 1)) % CountMod
    BY <2>1, <2>4, <2>5, <2>6, Zenon
  <2> QED
    BY <2>3, <2>7, Zenon
<1> QED
  BY <1>1, <1>2, <1>3, Zenon

\* ^H, ^U and DEL.
LEMMA EraseCInv ==
  ASSUME ConsoleAssumption, CInv, UNCHANGED clock, NEW k, intr_erase(k)
  PROVE  CInv'
<1>0. /\ CTypeOK /\ buf \in Buffers /\ r \in Index /\ w \in Index /\ e \in Index
      /\ cpc \in [Proc -> CPc]
      /\ INPUT_BUF \in Nat \ {0} /\ CountMod \in Nat \ {0} /\ INPUT_BUF < CountMod
  BY Sizes, Zenon DEF CInv, CTypeOK
<1>1. PICK m \in Index, n \in Index :
           /\ m = Minus(w, r) /\ n = Minus(e, r)
           /\ w = (r + m) % CountMod /\ e = (r + n) % CountMod
           /\ (m = 0 <=> w = r)
  BY <1>0, Marks, Zenon
<1>2. Ring(buf, r, m, n) /\ owed = Cardinality(Eofs(buf))
  BY <1>1, Zenon DEF CInv, BufOK
<1>3. PICK t \in m..n : EraseTo(k) = (r + t) % CountMod
  BY <1>1, <1>2, ErasesEdit, Zenon
<1>4. /\ e' = (r + t) % CountMod
      /\ buf' = [i \in DOMAIN buf |-> IF i \in Cells((r + t) % CountMod, e) THEN Dead ELSE buf[i]]
      /\ r' = r /\ w' = w /\ cpc' = cpc /\ owed' = owed
  BY <1>3, Zenon DEF intr_erase
<1>5. t \in Index /\ t <= n /\ t \in Nat
  BY <1>0, <1>1, <1>3 DEF Index
<1>6. Cells((r + t) % CountMod, e) = {At(r, j) : j \in t..(n - 1)}
  <2>1. Cells((r + t) % CountMod, (r + n) % CountMod) = {At(r, j) : j \in t..(n - 1)}
    BY <1>0, <1>5, CellsAre, Zenon
  <2> QED
    BY <1>1, <2>1, Zenon
<1>7. DOMAIN buf = Slot
  BY <1>0, Zenon DEF Buffers
<1>8. buf' = [i \in Slot |-> IF i \in {At(r, j) : j \in t..(n - 1)} THEN Dead ELSE buf[i]]
  BY <1>4, <1>6, <1>7, Zenon
<1>9. Ring(buf', r, m, t) /\ buf' \in Buffers /\ \A i \in Slot : buf'[i] = "eof" <=> buf[i] = "eof"
  <2>1. buf \in Buffers /\ r \in Index /\ Ring(buf, r, m, n)
    BY <1>0, <1>2, Zenon
  <2> QED
    BY <1>3, <1>8, <2>1, EraseRing
<1>10. Minus(e, r)' = t /\ Minus(w, r)' = m /\ e' \in Index
  <2>1. Minus((r + t) % CountMod, r) = t
    BY <1>0, <1>5, MinusIs, Zenon
  <2>2. (r + t) % CountMod \in Index
    BY <1>0, <1>5, Place, Zenon
  <2> QED
    BY <1>1, <1>4, <2>1, <2>2, Zenon DEF Minus
<1>11. Ring(buf, r, Minus(w, r), Minus(e, r))'
  BY <1>4, <1>9, <1>10, Zenon DEF Ring
<1>12. (owed = Cardinality(Eofs(buf)))'
  <2>1. {i \in Slot : buf'[i] = "eof"} = {i \in Slot : buf[i] = "eof"}
    BY <1>9, Zenon
  <2> QED
    BY <1>2, <1>4, <2>1, Zenon DEF Eofs
<1>13. \A q \in Proc : ReaderOK(q)'
  BY <1>4, Zenon DEF CInv, ReaderOK
<1> QED
  BY <1>0, <1>4, <1>9, <1>10, <1>11, <1>12, <1>13, Zenon DEF CInv, CTypeOK, BufOK

\* Every character consoleintr gets.
LEMMA IntrCInv == ASSUME SetFacts, ConsoleAssumption, CInv, consoleintr PROVE CInv'
<1>0. UNCHANGED clock /\ clock = Nobody
  BY Zenon DEF consoleintr
<1>1. CASE intr_ignored(Head(rx))
  <2>1. UNCHANGED <<buf, r, w, e, owed>> /\ cpc' = cpc
    BY <1>1, Zenon DEF intr_ignored, cons
  <2>2. BufOK' /\ CTypeOK'
    BY <2>1, SameBuf, Zenon DEF CInv, CTypeOK
  <2>3. \A q \in Proc : ReaderOK(q)'
    BY <1>0, <2>1, Zenon DEF CInv, ReaderOK
  <2> QED
    BY <2>2, <2>3, Zenon DEF CInv
<1>2. CASE intr_erase(Head(rx))
  BY <1>0, <1>2, EraseCInv, Zenon
<1>3. CASE intr_store(Head(rx))
  BY <1>0, <1>3, StoreCInv, Zenon
<1> QED
  BY <1>1, <1>2, <1>3, Zenon DEF consoleintr

\* A character or a ^D is taken out of the buffer.
LEMMA ConsumeBuf ==
  ASSUME SetFacts, ConsoleAssumption, CInv, r # w, Consume, UNCHANGED <<w, e>>,
         owed' = IF Cell(r) = "eof" THEN owed - 1 ELSE owed
  PROVE  BufOK' /\ (cpc' \in [Proc -> CPc] => CTypeOK')
<1>0. /\ CTypeOK /\ buf \in Buffers /\ r \in Index /\ w \in Index /\ e \in Index
      /\ INPUT_BUF \in Nat \ {0} /\ CountMod \in Nat \ {0} /\ INPUT_BUF < CountMod
  BY Sizes, Zenon DEF CInv, CTypeOK
<1>1. PICK m \in Index, n \in Index :
           /\ m = Minus(w, r) /\ n = Minus(e, r)
           /\ w = (r + m) % CountMod /\ e = (r + n) % CountMod
           /\ (m = 0 <=> w = r)
  BY <1>0, Marks, Zenon
<1>2. Ring(buf, r, m, n) /\ owed = Cardinality(Eofs(buf))
  BY <1>1, Zenon DEF CInv, BufOK
<1>3. m # 0 /\ m >= 1 /\ n >= 1 /\ 1 \in Index
  <2>1. m # 0
    BY <1>1, Zenon
  <2> QED
    BY <1>0, <1>1, <1>2, <2>1 DEF Ring, Index
<1>4. r' = (r + 1) % CountMod /\ r' \in Index
  <2>1. 1 \in Nat
    BY Zenon
  <2> QED
    BY <1>0, <2>1, Place, Zenon DEF Consume, Plus
<1>5. r % INPUT_BUF = At(r, 0)
  <2>1. 0 \in Nat
    BY Zenon
  <2>2. ((r + 0) % CountMod) % INPUT_BUF = At(r, 0)
    BY <1>0, <2>1, AtFacts, Zenon
  <2>3. (r + 0) % CountMod = r
    BY <1>0, Here, Zenon
  <2> QED
    BY <2>2, <2>3, Zenon
<1>6. buf' = [buf EXCEPT ![At(r, 0)] = Dead]
  BY <1>5, Zenon DEF Consume
<1>7. Ring(buf', r', m - 1, n - 1) /\ At(r, 0) \in Slot
  BY <1>0, <1>2, <1>3, <1>4, <1>6, ConsumeRing, Zenon
<1>8. buf' \in Buffers
  BY <1>0, <1>6, <1>7, Zenon DEF Buffers
<1>9. Minus(w, r)' = m - 1 /\ Minus(e, r)' = n - 1
  <2>1. Minus((r + m) % CountMod, (r + 1) % CountMod) = m - 1
    BY <1>0, <1>3, Between, Zenon
  <2>2. Minus((r + n) % CountMod, (r + 1) % CountMod) = n - 1
    BY <1>0, <1>3, Between, Zenon
  <2> QED
    BY <1>1, <1>4, <2>1, <2>2, Zenon DEF Minus
<1>10. Ring(buf, r, Minus(w, r), Minus(e, r))'
  BY <1>7, <1>9, Zenon DEF Ring
<1>11. (owed = Cardinality(Eofs(buf)))'
  <2>1. Cardinality(Eofs(buf')) = IF buf[At(r, 0)] = "eof" THEN Cardinality(Eofs(buf)) - 1 ELSE Cardinality(Eofs(buf))
    BY <1>0, <1>6, <1>7, EofsTake, Zenon
  <2>2. Cell(r) = buf[At(r, 0)]
    BY <1>5, Zenon DEF Cell
  <2> QED
    BY <1>2, <2>1, <2>2, Zenon DEF Eofs
<1> QED
  BY <1>0, <1>4, <1>8, <1>10, <1>11, Zenon DEF BufOK, CTypeOK

\* A step of process p that leaves cons alone and may take or release cons.lock.
Settles(p) ==
  /\ UNCHANGED <<buf, r, w, e, owed>>
  /\ \E l \in CPc :
       /\ cpc' = [cpc EXCEPT ![p] = l]
       /\ \/ clock' = clock
          \/ clock = p /\ l \notin {"r_loop", "r_sleep", "w_loop"}
          \/ clock \notin Proc
       /\ l \in {"r_loop", "r_sleep", "w_loop"} => clock' = p
       /\ l \in {"r_sleep", "r_asleep"} => r = w

\* One of consoleread's, which has found input.
Takes(p) ==
  /\ clock = p /\ r # w /\ w' = w
  /\ \E l \in {"user", "r_loop"} :
       /\ cpc' = [cpc EXCEPT ![p] = l]
       /\ l = "r_loop" => clock' = clock

LEMMA SettleCInv == ASSUME CInv, NEW p \in Proc, Settles(p) PROVE CInv'
<1>1. PICK l \in CPc :
        /\ cpc' = [cpc EXCEPT ![p] = l]
        /\ \/ clock' = clock
           \/ clock = p /\ l \notin {"r_loop", "r_sleep", "w_loop"}
           \/ clock \notin Proc
        /\ l \in {"r_loop", "r_sleep", "w_loop"} => clock' = p
        /\ l \in {"r_sleep", "r_asleep"} => r = w
  BY Zenon DEF Settles
<1>2. UNCHANGED <<buf, r, w, e, owed>> /\ r' = r /\ w' = w
  BY Zenon DEF Settles
<1>3. l \in {"r_sleep", "r_asleep"} => r' = w'
  BY <1>1, <1>2, Zenon
<1>4. cpc' \in [Proc -> CPc] /\ \A q \in Proc : ReaderOK(q)'
  BY <1>1, <1>2, <1>3, OneReader, Zenon
<1>5. BufOK' /\ CTypeOK'
  BY <1>2, <1>4, SameBuf, Zenon
<1> QED
  BY <1>4, <1>5, Zenon DEF CInv

\* consoleread.
LEMMA ReadCInv == ASSUME SetFacts, ConsoleAssumption, CInv, NEW p \in Proc, Reads(p) PROVE CInv'
<1>0. cpc \in [Proc -> CPc] /\ ReaderOK(p) /\ Nobody \notin Proc
  BY Zenon DEF CInv, CTypeOK, ConsoleAssumption
<1>1. CASE read_wait(p) \/ read_sleep(p) \/ read_woken(p) \/ read_full(p)
  <2>1. Settles(p)
    <3>1. CASE read_wait(p) /\ ckilled[p] = 1
      BY <1>0, <3>1, Zenon DEF read_wait, CReturn, CGoto, cons, ReaderOK, CPc, Settles
    <3>2. CASE read_wait(p) /\ ckilled[p] # 1
      BY <1>0, <3>2, Zenon DEF read_wait, CGoto, cons, ReaderOK, CPc, Settles
    <3>3. CASE read_sleep(p)
      BY <1>0, <3>3, Zenon DEF read_sleep, CGoto, cons, ReaderOK, CPc, Settles
    <3>4. CASE read_woken(p)
      BY <1>0, <3>4, Zenon DEF read_woken, CGoto, cons, ReaderOK, CPc, Settles
    <3>5. CASE read_full(p)
      BY <1>0, <3>5, Zenon DEF read_full, CReturn, CGoto, cons, ReaderOK, CPc, Settles
    <3> QED
      BY <1>1, <3>1, <3>2, <3>3, <3>4, <3>5, Zenon
  <2> QED
    BY <2>1, SettleCInv, Zenon
<1>2. CASE read_eof(p) \/ \E copied \in BOOLEAN : read_char(p, copied)
  <2>1. Takes(p)
    <3>1. CASE read_eof(p)
      BY <1>0, <3>1, Zenon DEF Takes, read_eof, CReturn, CGoto, ReaderOK
    <3>2. ASSUME NEW copied \in BOOLEAN, read_char(p, copied), ~copied \/ Cell(r) = "nl" PROVE Takes(p)
      BY <1>0, <3>2, Zenon DEF Takes, read_char, CReturn, CGoto, ReaderOK
    <3>3. ASSUME NEW copied \in BOOLEAN, read_char(p, copied), ~(~copied \/ Cell(r) = "nl") PROVE Takes(p)
      <4>1. cpc[p] = "r_loop" /\ cpc' = cpc /\ clock' = clock /\ r # w /\ w' = w
        BY <3>3, Zenon DEF read_char
      <4>2. cpc = [cpc EXCEPT ![p] = "r_loop"]
        BY <1>0, <4>1, Zenon
      <4> QED
        BY <1>0, <4>1, <4>2, Zenon DEF ReaderOK, Takes
    <3> QED
      BY <1>2, <3>1, <3>2, <3>3, Zenon
  <2>2. cpc' \in [Proc -> CPc] /\ \A q \in Proc : ReaderOK(q)'
    <3>1. PICK l \in {"user", "r_loop"} : cpc' = [cpc EXCEPT ![p] = l] /\ (l = "r_loop" => clock' = clock)
      BY <2>1, Zenon DEF Takes
    <3>2. /\ l \in CPc /\ (l \notin {"r_loop", "r_sleep", "w_loop"} \/ clock' = clock)
          /\ (l \in {"r_loop", "r_sleep", "w_loop"} => clock' = p)
          /\ l \notin {"r_sleep", "r_asleep"}
      BY <2>1, <3>1, Zenon DEF CPc, Takes
    <3>3. clock = p /\ r # w /\ w' = w
      BY <2>1, Zenon DEF Takes
    <3> QED
      BY <3>1, <3>2, <3>3, OneReader, Zenon
  <2>3. \/ UNCHANGED <<buf, r, w, e, owed>>
        \/ Consume /\ UNCHANGED <<w, e>> /\ owed' = IF Cell(r) = "eof" THEN owed - 1 ELSE owed
    BY <1>2, Zenon DEF read_eof, read_char
  <2>4. BufOK' /\ CTypeOK'
    BY <2>1, <2>2, <2>3, SameBuf, ConsumeBuf, Zenon DEF Takes
  <2> QED
    BY <2>2, <2>4, Zenon DEF CInv
<1> QED
  BY <1>1, <1>2, Zenon DEF Reads

\* The calls themselves, consolewrite's loop, kill and the exit that follows.
LEMMA OtherCInv ==
  ASSUME ConsoleAssumption, CInv, NEW p \in Proc,
         \/ Writes(p) \/ ckill(p) \/ cexit(p)
         \/ \E n \in 0..MaxN : consoleread(p, n) \/ consolewrite(p, n)
  PROVE  CInv'
<1>0. cpc \in [Proc -> CPc] /\ ReaderOK(p) /\ Nobody \notin Proc
  BY Zenon DEF CInv, CTypeOK, ConsoleAssumption
<1>1. Settles(p)
  <2>1. CASE write_end(p)
    BY <1>0, <2>1, Zenon DEF write_end, CReturn, CGoto, cons, ReaderOK, CPc, Settles
  <2>2. CASE write_char(p) \/ cexit(p)
    <3>1. UNCHANGED <<buf, r, w, e, owed>> /\ cpc' = cpc /\ clock' = clock
      BY <2>2, Zenon DEF write_char, cexit, cons, reader
    <3>2. cpc[p] \in CPc /\ cpc = [cpc EXCEPT ![p] = cpc[p]]
      BY <1>0, Zenon
    <3> QED
      BY <1>0, <3>1, <3>2, Zenon DEF Settles, ReaderOK
  <2>3. CASE ckill(p)
    <3>1. /\ UNCHANGED <<buf, r, w, e, owed>> /\ clock' = clock
          /\ cpc' = [cpc EXCEPT ![p] = IF cpc[p] = "r_asleep" THEN "r_woken" ELSE cpc[p]]
      BY <2>3, Zenon DEF ckill, cons
    <3>2. cpc[p] \in CPc
      BY <1>0, Zenon
    <3> QED
      BY <1>0, <3>1, <3>2, Zenon DEF Settles, ReaderOK, CPc
  <2>4. ASSUME NEW n \in 0..MaxN, consoleread(p, n) PROVE Settles(p)
    BY <1>0, <2>4, Zenon DEF consoleread, CGoto, cons, CPc, Settles
  <2>5. ASSUME NEW n \in 0..MaxN, consolewrite(p, n) PROVE Settles(p)
    BY <1>0, <2>5, Zenon DEF consolewrite, CGoto, cons, CPc, Settles
  <2> QED
    BY <2>1, <2>2, <2>3, <2>4, <2>5, Zenon DEF Writes
<1> QED
  BY <1>1, SettleCInv, Zenon

\* Every step keeps the invariant.
LEMMA NextCInv == ASSUME SetFacts, ConsoleAssumption, CInv, [CNext]_cvars PROVE CInv'
<1>1. CASE UNCHANGED cvars \/ transmit \/ \E k \in Key : type(k)
  <2>1. UNCHANGED <<buf, r, w, e, owed>> /\ cpc' = cpc /\ clock' = clock
    BY <1>1, Zenon DEF cvars, transmit, type, cons, reader
  <2>2. BufOK' /\ CTypeOK'
    BY <2>1, SameBuf, Zenon DEF CInv, CTypeOK
  <2>3. \A q \in Proc : ReaderOK(q)'
    BY <2>1, Zenon DEF CInv, ReaderOK
  <2> QED
    BY <2>2, <2>3, Zenon DEF CInv
<1>2. CASE consoleintr
  BY <1>2, IntrCInv, Zenon
<1>3. ASSUME NEW p \in Proc,
             \/ Reads(p) \/ Writes(p) \/ ckill(p) \/ cexit(p)
             \/ \E n \in 0..MaxN : consoleread(p, n) \/ consolewrite(p, n)
      PROVE  CInv'
  BY <1>3, ReadCInv, OtherCInv, Zenon
<1> QED
  BY <1>1, <1>2, <1>3, Zenon DEF CNext

\* consoleinit.
LEMMA InitCInv == ASSUME SetFacts, ConsoleAssumption, CInit PROVE CInv
<1>0. INPUT_BUF \in Nat \ {0} /\ CountMod \in Nat \ {0} /\ 0 \in Index
  BY Sizes DEF Index
<1>1. CTypeOK
  BY <1>0, Zenon DEF CInit, CTypeOK, Buffers, Slot, CPc
<1>2. PICK m \in Index, n \in Index :
           /\ m = Minus(w, r) /\ n = Minus(e, r)
           /\ w = (r + m) % CountMod /\ e = (r + n) % CountMod
           /\ (m = 0 <=> w = r)
  BY <1>1, Marks, Zenon
<1>3. m = 0 /\ n = 0
  BY <1>2, Zenon DEF CInit
<1>4. Ring(buf, r, 0, 0)
  <2>1. \A i \in Slot : buf[i] = Dead
    BY Zenon DEF CInit, Slot
  <2>2. 0..(0 - 1) = {} /\ 0 \in Nat /\ 0 \in 0..INPUT_BUF /\ 0 <= 0 /\ 0 # INPUT_BUF
    BY <1>0
  <2> QED
    BY <2>1, <2>2, Zenon DEF Ring
<1>5. Eofs(buf) = {}
  BY Zenon DEF CInit, Slot, Eofs, Dead
<1>6. owed = Cardinality(Eofs(buf))
  BY <1>5, SetEmptySet, Zenon DEF CInit
<1>7. BufOK
  BY <1>2, <1>3, <1>4, <1>6, Zenon DEF BufOK
<1>8. \A p \in Proc : ReaderOK(p)
  BY Zenon DEF CInit, ReaderOK
<1> QED
  BY <1>1, <1>7, <1>8, Zenon DEF CInv

\* The invariant gives the properties.
LEMMA CInvKeeps == ASSUME ConsoleAssumption, CInv PROVE InputKept
<1>0. CTypeOK /\ r \in Index
  BY Zenon DEF CInv, CTypeOK
<1>1. PICK m \in Index, n \in Index :
           /\ m = Minus(w, r) /\ n = Minus(e, r)
           /\ w = (r + m) % CountMod /\ e = (r + n) % CountMod
           /\ (m = 0 <=> w = r)
  BY <1>0, Marks, Zenon
<1>2. Ring(buf, r, m, n) /\ owed = Cardinality(Eofs(buf))
  BY <1>1, Zenon DEF CInv, BufOK
<1>3. /\ INPUT_BUF \in Nat \ {0} /\ m \in Nat /\ n \in Nat /\ m <= n /\ n <= INPUT_BUF /\ 0 \in Index
      /\ 0 <= m /\ 0 <= n /\ m + (n - m) = n
  BY <1>1, <1>2, Sizes DEF Ring, Index
<1>h. (r + 0) % CountMod = r
  BY <1>0, Here, Zenon
<1>4. Cells(r, e) = {At(r, k) : k \in 0..(n - 1)}
  <2>1. Cells((r + 0) % CountMod, (r + n) % CountMod) = {At(r, k) : k \in 0..(n - 1)}
    BY <1>0, <1>3, CellsAre, Zenon
  <2> QED
    BY <1>1, <1>h, <2>1, Zenon
<1>5. Cells(w, e) = {At(r, k) : k \in m..(n - 1)}
  <2>1. Cells((r + m) % CountMod, (r + n) % CountMod) = {At(r, k) : k \in m..(n - 1)}
    BY <1>0, <1>3, CellsAre, Zenon
  <2> QED
    BY <1>1, <1>h, <2>1, Zenon
<1>6. Cells(r, w) = {At(r, k) : k \in 0..(m - 1)}
  <2>1. Cells((r + 0) % CountMod, (r + m) % CountMod) = {At(r, k) : k \in 0..(m - 1)}
    BY <1>0, <1>3, CellsAre, Zenon
  <2> QED
    BY <1>1, <1>h, <2>1, Zenon
<1>7. \A k \in 0..(n - 1) : At(r, k) \in Slot
  <2> TAKE k \in 0..(n - 1)
  <2>1. k \in Nat
    BY <1>3
  <2> QED
    BY <1>0, <2>1, AtFacts, Zenon
<1>8. RingInOrder
  <2>1. Minus((r + n) % CountMod, (r + m) % CountMod) = n - m
    BY <1>0, <1>3, Between, Zenon
  <2>2. {At(r, k) : k \in 0..(n - 1)} = {i \in Slot : buf[i] # Dead}
    BY <1>2, <1>7, Zenon DEF Ring
  <2> QED
    <3>1. Minus(e, w) = n - m
      BY <1>1, <2>1, Zenon
    <3> QED
      BY <1>1, <1>3, <1>4, <2>2, <3>1, Zenon DEF RingInOrder, Slot
<1>9. FullIsReadable
  BY <1>1, <1>2, Zenon DEF FullIsReadable, Ring
<1>10. EditIsOpen
  BY <1>2, <1>5, Zenon DEF EditIsOpen, Ring
<1>11. EveryEofReported
  <2>1. \A k \in 0..(n - 1) : k \in 0..(m - 1) \/ k \in m..(n - 1)
    BY <1>3
  <2>2. \A k \in 0..(m - 1) : k \in 0..(n - 1)
    BY <1>3
  <2>3. Dead # "eof" /\ "x" # "eof"
    BY Zenon DEF Dead
  <2>4. ASSUME NEW i \in Slot, buf[i] = "eof" PROVE i \in {At(r, k) : k \in 0..(m - 1)}
    <3>1. PICK k \in 0..(n - 1) : i = At(r, k)
      BY <1>2, <2>3, <2>4, Zenon DEF Ring
    <3>2. k \notin m..(n - 1)
      BY <1>2, <2>3, <2>4, <3>1, Zenon DEF Ring
    <3> QED
      BY <2>1, <3>1, <3>2, Zenon
  <2>5. {i \in {At(r, k) : k \in 0..(m - 1)} : buf[i] = "eof"} = Eofs(buf)
    BY <1>7, <2>2, <2>4, Zenon DEF Eofs
  <2> QED
    BY <1>2, <1>6, <2>5, Zenon DEF EveryEofReported
<1>12. CNoLostWakeup
  BY Zenon DEF CInv, ReaderOK, CNoLostWakeup
<1> QED
  BY <1>8, <1>9, <1>10, <1>11, <1>12, Zenon DEF InputKept

-----------------------------------------------------------------------------
(* The theorems.                                                           *)

INSTANCE FiniteSetTheorems

\* SetFacts is true.
LEMMA SetsCount == SetFacts
BY FS_EmptySet, FS_CardinalityType, FS_Subset, FS_Interval, FS_AddElement, FS_RemoveElement, Zenon DEF SetFacts

\* The console loses no input (consoleread, consoleintr: kernel/console.c): the
\* cells between cons.r and cons.e are the live ones, also after the uints
\* have wrapped around, erasing never reaches a finished line, a reader sleeps
\* only while there is no line for it, and each ^D ends exactly one read.
THEOREM ConsoleKeepsInput == ASSUME ConsoleAssumption PROVE CSpec => []InputKept
<1>1. CInit => CInv
  BY SetsCount, InitCInv, Zenon
<1>2. CInv /\ [CNext]_cvars => CInv'
  BY SetsCount, NextCInv, Zenon
<1>3. CInv => InputKept
  BY CInvKeeps, Zenon
<1> QED
  BY <1>1, <1>2, <1>3, PTL DEF CSpec

=============================================================================
