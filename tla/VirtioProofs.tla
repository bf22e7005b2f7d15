---------------------------- MODULE VirtioProofs ----------------------------
(***************************************************************************)
(* The disk driver of Virtio, proved for any number of processes, of       *)
(* descriptors and of ring index values: TransfersSafe holds always.       *)
(*                                                                         *)
(* The inductive invariant VInv says what is in the two rings.  Between    *)
(* where the device has looked (seen) and where the driver has written     *)
(* (availidx) lie the first descriptors of different requests, all of them *)
(* formatted, busy and not yet served; between used_idx and usedid those   *)
(* of different requests the device has served and the interrupt handler   *)
(* has not looked at; what the device works on is in neither.  A request   *)
(* has three descriptors, so the requests are too few to fill a ring: that *)
(* is what keeps an index from catching up with the other one from behind. *)
(***************************************************************************)
EXTENDS Virtio, TLAPS

VTypeOK ==
  /\ free \in [Desc -> {0, 1}] /\ next \in [Desc -> Desc \cup {NoDesc}]
  /\ addr \in [Desc -> Proc \cup {Nobody}] /\ info \in [Desc -> Proc \cup {Nobody}]
  /\ avail \in [Desc -> Desc \cup {NoDesc}] /\ elems \in [Desc -> Desc \cup {NoDesc}]
  /\ availidx \in 0..(IdxMod - 1) /\ usedid \in 0..(IdxMod - 1) /\ seen \in 0..(IdxMod - 1)
  /\ used_idx \in Desc
  /\ vlock \in Proc \cup {Nobody, "intr"}
  /\ vpc \in [Proc -> {"idle", "start", "sleep_free", "notify", "sleep_b", "woken"}]
  /\ idx \in [Proc -> Desc \cup {NoDesc}]
  /\ write \in [Proc -> {0, 1}] /\ busy \in [Proc -> {0, 1}]
  /\ bdata \in [Proc -> {0, 1}] /\ medium \in [Proc -> {0, 1}]
  /\ inflight \in SUBSET Desc
  /\ pend \in {0, 1} /\ intr \in {"none", "spin", "loop"}

\* Who is where, and who holds vdisk_lock.
LockOK ==
  /\ \A p \in Proc : idx[p] # NoDesc <=> vpc[p] \in {"notify", "sleep_b", "woken"}
  /\ \A p \in Proc : vpc[p] = "notify" <=> vlock = p
  /\ vlock = "intr" <=> intr = "loop"

\* A request's chain: three descriptors of its own, none of them free.
ChainOK(p) ==
  LET i == idx[p]  j == next[i]  k == next[j]
  IN /\ j \in Desc /\ k \in Desc /\ i # j /\ i # k /\ j # k
     /\ free[i] = 0 /\ free[j] = 0 /\ free[k] = 0
     /\ addr[i] = p /\ addr[j] = p /\ addr[k] = p
     /\ info[i] = p

\* Every descriptor that is not free is in the chain of a request.
DescOK ==
  /\ \A p \in Waiting : ChainOK(p)
  /\ \A i \in Desc : free[i] = 0 => addr[i] \in Waiting /\ i \in Chain(idx[addr[i]])
  /\ IsFiniteSet(Waiting)
  /\ Cardinality(FreeDescs) + 3 * Cardinality(Waiting) = NUM

\* What the buffer and the block hold before the transfer and after it.
Unserved(p) == bdata[p] = 1 /\ medium[p] = 0
Served(p) == bdata[p] = write[p] /\ medium[p] = write[p]

\* i is the first descriptor of a request whose caller waits for b->disk.
Head(i) == /\ i \in Desc /\ info[i] \in Proc /\ idx[info[i]] = i /\ busy[info[i]] = 1
           /\ vpc[info[i]] \in {"sleep_b", "woken"}

\* The slots of a ring from s on, and how many there are up to e.
Slot(s, d) == IF s + d < NUM THEN s + d ELSE s + d - NUM
Dist(s, e) == IF s <= e THEN e - s ELSE e - s + NUM

\* The entries of the two rings that the other side has not consumed yet.
NAvail == Dist(seen % NUM, availidx % NUM)
NUsed == Dist(used_idx, usedid % NUM)
AvailAt(d) == avail[Slot(seen % NUM, d)]
UsedAt(d) == elems[Slot(used_idx, d)]

\* The avail ring and the requests the device works on.  The indices count
\* modulo IdxMod, so they tell an empty ring from a full one.
AvailOK ==
  /\ availidx \in {seen + NAvail, seen + NAvail - IdxMod}
  /\ \A d \in 0..(NAvail - 1) : Head(AvailAt(d)) /\ Unserved(info[AvailAt(d)])
  /\ \A d, e \in 0..(NAvail - 1) : AvailAt(d) = AvailAt(e) => d = e
  /\ \A d \in 0..(NAvail - 1) : AvailAt(d) \notin inflight
  /\ \A i \in inflight : Head(i) /\ Unserved(info[i])
  /\ \A p \in Proc : vpc[p] = "notify" => avail[availidx % NUM] = idx[p]

\* The used ring.
UsedOK ==
  /\ \A d \in 0..(NUsed - 1) : Head(UsedAt(d)) /\ Served(info[UsedAt(d)])
  /\ \A d, e \in 0..(NUsed - 1) : UsedAt(d) = UsedAt(e) => d = e

\* How far each request has come.
TransferOK ==
  \A p \in Proc :
    /\ vpc[p] = "idle" => bdata[p] = 0 /\ medium[p] = 0
    /\ vpc[p] \in {"start", "sleep_free", "notify"} => Unserved(p)
    /\ vpc[p] = "notify" => busy[p] = 1
    /\ idx[p] # NoDesc /\ busy[p] = 0 => Served(p)

\* The inductive invariant.
VInv == VTypeOK /\ LockOK /\ DescOK /\ AvailOK /\ UsedOK /\ TransferOK /\ VNoLostWakeup

-----------------------------------------------------------------------------
(* Positions in a ring.                                                    *)

\* The constants, in numbers.
LEMMA Sizes == ASSUME VirtioAssumption PROVE NUM \in Nat \ {0} /\ IdxMod \in Nat \ {0} /\ IdxMod % NUM = 0
BY Zenon DEF VirtioAssumption

\* Quotient and remainder.
LEMMA Divided ==
  ASSUME NEW M \in Nat \ {0}, NEW x \in Int
  PROVE  \E q \in Int, r \in 0..(M - 1) : x = M * q + r /\ x % M = r
<1>1. /\ x \div M \in Int /\ x % M \in 0..(M - 1)
      /\ x = M * (x \div M) + (x % M)
  OBVIOUS
<1> WITNESS x \div M \in Int, x % M \in 0..(M - 1)
<1> QED
  BY <1>1, Zenon

\* Products of different numbers are at least a factor apart.
LEMMA Times ==
  ASSUME NEW M \in Nat \ {0}, NEW a \in Int, NEW b \in Int, a < b
  PROVE  M * b >= M * a + M
<1>1. PICK d \in Nat : b = a + (1 + d)
  <2>1. b - a - 1 \in Nat /\ b = a + (1 + (b - a - 1))
    OBVIOUS
  <2> QED
    BY <2>1, Zenon
<1>2. M * b = M * a + (M + M * d) /\ M * d \in Nat /\ M * a \in Int
  BY <1>1
<1> QED
  BY <1>2

\* There is one remainder.
LEMMA OneRest ==
  ASSUME NEW M \in Nat \ {0}, NEW a \in Int, NEW b \in Int,
         NEW r \in 0..(M - 1), NEW s \in 0..(M - 1), M * a + r = M * b + s
  PROVE  r = s
<1>1. a < b => M * b >= M * a + M
  BY Times, Zenon
<1>2. b < a => M * a >= M * b + M
  BY Times, Zenon
<1>3. M * a \in Int /\ M * b \in Int /\ (a = b => M * a = M * b)
  OBVIOUS
<1> QED
  BY <1>1, <1>2, <1>3

\* The indices run around the ring at least once before they wrap.
LEMMA OneRound == ASSUME VirtioAssumption PROVE NUM <= IdxMod
<1>0. NUM \in Nat \ {0} /\ IdxMod \in Nat \ {0} /\ IdxMod % NUM = 0
  BY Sizes, Zenon
<1>1. SUFFICES ASSUME IdxMod < NUM PROVE FALSE
  BY <1>0
<1>2. PICK q \in Int, r \in 0..(NUM - 1) : IdxMod = NUM * q + r /\ IdxMod % NUM = r
  BY <1>0, Divided
<1>3. IdxMod \in 0..(NUM - 1) /\ 0 \in Int /\ NUM * 0 + IdxMod = NUM * q + r
  BY <1>0, <1>1, <1>2
<1>4. IdxMod = r
  BY <1>0, <1>3, OneRest, Zenon
<1> QED
  BY <1>0, <1>2, <1>4, Zenon

\* The next slot, whether or not the index itself wraps around.
LEMMA NextSlot ==
  ASSUME VirtioAssumption, NEW x \in 0..(IdxMod - 1)
  PROVE  /\ (x + 1) % IdxMod = IF x + 1 = IdxMod THEN 0 ELSE x + 1
         /\ x % NUM \in Desc
         /\ ((x + 1) % IdxMod) % NUM = Slot(x % NUM, 1)
<1>0. NUM \in Nat \ {0} /\ IdxMod \in Nat \ {0} /\ IdxMod % NUM = 0
  BY Sizes, Zenon
<1>1. (x + 1) % IdxMod = IF x + 1 = IdxMod THEN 0 ELSE x + 1
  <2> DEFINE y == x + 1
  <2>1. y \in Int /\ y \in 1..IdxMod
    BY <1>0
  <2> HIDE DEF y
  <2>2. PICK a \in Int, r \in 0..(IdxMod - 1) : y = IdxMod * a + r /\ y % IdxMod = r
    BY <1>0, <2>1, Divided, Zenon
  <2>3. CASE y = IdxMod
    <3>1. IdxMod * a + r = IdxMod * 1 + 0 /\ 0 \in 0..(IdxMod - 1) /\ 1 \in Int
      BY <1>0, <2>2, <2>3
    <3>2. r = 0
      BY <1>0, <2>2, <3>1, OneRest
    <3> QED
      BY <2>2, <2>3, <3>2, Zenon DEF y
  <2>4. CASE y # IdxMod
    <3>1. IdxMod * a + r = IdxMod * 0 + y /\ y \in 0..(IdxMod - 1) /\ 0 \in Int
      BY <1>0, <2>1, <2>2, <2>4
    <3>2. r = y
      BY <1>0, <2>2, <3>1, OneRest
    <3> QED
      BY <2>2, <2>4, <3>2, Zenon DEF y
  <2> QED
    BY <2>3, <2>4, Zenon DEF y
<1>x. x \in Int /\ IdxMod \in Int
  BY <1>0
<1>2. PICK q \in Int, r \in 0..(NUM - 1) : x = NUM * q + r /\ x % NUM = r
  BY <1>0, <1>x, Divided, Zenon
<1>3. PICK k \in Int : IdxMod = NUM * k
  <2>1. PICK a \in Int, b \in 0..(NUM - 1) : IdxMod = NUM * a + b /\ IdxMod % NUM = b
    BY <1>0, <1>x, Divided, Zenon
  <2>2. b = 0 /\ NUM * a \in Int
    BY <1>0, <2>1
  <2>3. IdxMod = NUM * a
    BY <2>1, <2>2
  <2> QED
    BY <2>3, Zenon
<1>4. ASSUME NEW y \in Int, NEW a \in Int, NEW b \in 0..(NUM - 1), y = NUM * a + b PROVE y % NUM = b
  <2>1. PICK c \in Int, d \in 0..(NUM - 1) : y = NUM * c + d /\ y % NUM = d
    BY <1>0, Divided, Zenon
  <2>2. NUM * a + b = NUM * c + d
    BY <1>4, <2>1, Zenon
  <2> QED
    BY <1>0, <2>1, <2>2, OneRest, Zenon
<1>5. CASE x + 1 = IdxMod
  <2>1. 0 % NUM = 0
    <3>1. 0 = NUM * 0 + 0 /\ 0 \in 0..(NUM - 1)
      BY <1>0
    <3> QED
      BY <1>4, <3>1
  <2>2. r + 1 = NUM
    <3>1. SUFFICES ASSUME r + 1 \in 0..(NUM - 1) PROVE FALSE
      BY <1>0, <1>2
    <3>2. IdxMod = NUM * q + (r + 1) /\ IdxMod = NUM * k + 0 /\ 0 \in 0..(NUM - 1)
      BY <1>0, <1>2, <1>3, <1>5
    <3>3. IdxMod % NUM = r + 1
      BY <1>x, <1>4, <3>1, <3>2, Zenon
    <3> QED
      BY <1>0, <1>2, <3>3
  <2> QED
    BY <1>0, <1>1, <1>2, <1>5, <2>1, <2>2 DEF Slot, Desc
<1>6. CASE x + 1 # IdxMod /\ r + 1 < NUM
  <2>1. x + 1 = NUM * q + (r + 1) /\ r + 1 \in 0..(NUM - 1) /\ x + 1 \in Int
    BY <1>0, <1>2, <1>6
  <2>2. (x + 1) % NUM = r + 1
    BY <1>4, <2>1, Zenon
  <2> QED
    BY <1>0, <1>1, <1>2, <1>6, <2>2, Zenon DEF Slot, Desc
<1>7. CASE x + 1 # IdxMod /\ r + 1 = NUM
  <2>1. x + 1 = NUM * (q + 1) + 0 /\ 0 \in 0..(NUM - 1) /\ x + 1 \in Int /\ q + 1 \in Int
    BY <1>0, <1>2, <1>7
  <2>2. (x + 1) % NUM = 0
    BY <1>4, <2>1, Zenon
  <2> QED
    BY <1>0, <1>1, <1>2, <1>7, <2>2 DEF Slot, Desc
<1> QED
  BY <1>0, <1>2, <1>5, <1>6, <1>7

\* Slots from s on: different for different distances, and a step of either end.
LEMMA Slots ==
  ASSUME NUM \in Nat \ {0}, NEW s \in Desc, NEW d \in Desc
  PROVE  /\ Slot(s, d) \in Desc /\ Slot(s, 0) = s
         /\ \A e \in Desc : Slot(s, d) = Slot(s, e) => d = e
         /\ d + 1 \in Desc => Slot(Slot(s, 1), d) = Slot(s, d + 1)
         /\ Dist(s, d) \in Desc /\ Slot(s, Dist(s, d)) = d /\ (Dist(s, d) = 0 <=> s = d)
         /\ Dist(s, d) + 1 \in Desc => Dist(s, Slot(d, 1)) = Dist(s, d) + 1
         /\ Dist(s, d) # 0 => Dist(Slot(s, 1), d) = Dist(s, d) - 1
BY DEF Slot, Dist, Desc

\* The distance of a slot, and of the one after it.
LEMMA DistIs ==
  ASSUME NUM \in Nat \ {0}, NEW s \in Desc, NEW d \in Desc
  PROVE  Dist(s, d) \in Desc /\ Slot(s, Dist(s, d)) = d /\ (Dist(s, d) = 0 <=> s = d)
BY DEF Slot, Dist, Desc

LEMMA DistNext ==
  ASSUME NUM \in Nat \ {0}, NEW s \in Desc, NEW d \in Desc, Dist(s, d) + 1 \in Desc
  PROVE  Dist(s, Slot(d, 1)) = Dist(s, d) + 1
BY DEF Slot, Dist, Desc

-----------------------------------------------------------------------------
(* Allocation.                                                             *)

\* What the proofs use of finite sets.  FiniteSetTheorems proves it at the end
\* of this module: it is a large library to have in every context.
SetFacts ==
  /\ IsFiniteSet({}) /\ Cardinality({}) = 0
  /\ \A S : IsFiniteSet(S) => (Cardinality(S) = 0 <=> S = {})
  /\ \A S : IsFiniteSet(S) => Cardinality(S) \in Nat
  /\ \A x : IsFiniteSet({x}) /\ Cardinality({x}) = 1
  /\ \A S : \A T \in SUBSET S : IsFiniteSet(S) =>
       /\ IsFiniteSet(T) /\ Cardinality(T) <= Cardinality(S)
       /\ Cardinality(S) = Cardinality(T) => S = T
  /\ \A i, j \in Int :
       IsFiniteSet(i..j) /\ Cardinality(i..j) = IF i > j THEN 0 ELSE j - i + 1
  /\ \A S, x : IsFiniteSet(S) =>
       /\ IsFiniteSet(S \cup {x})
       /\ Cardinality(S \cup {x}) = IF x \in S THEN Cardinality(S) ELSE Cardinality(S) + 1
  /\ \A S, x : IsFiniteSet(S) =>
       /\ IsFiniteSet(S \ {x})
       /\ Cardinality(S \ {x}) = IF x \in S THEN Cardinality(S) - 1 ELSE Cardinality(S)
  /\ \A S, T : \A f \in [S -> T] :
       IsFiniteSet(T) /\ (\A x, y \in S : f[x] = f[y] => x = y) => Cardinality(S) <= Cardinality(T)
  /\ \A S \in SUBSET Int : IsFiniteSet(S) /\ S # {} => \E x \in S : \A y \in S : x <= y

\* The empty set has no element, and no other finite set has none.
LEMMA SetEmptySet ==
  ASSUME SetFacts
  PROVE  /\ IsFiniteSet({}) /\ Cardinality({}) = 0
         /\ \A S : IsFiniteSet(S) => (Cardinality(S) = 0 <=> S = {})
BY Zenon DEF SetFacts

\* A finite set can be counted.
LEMMA SetCardinalityType ==
  ASSUME SetFacts, NEW S, IsFiniteSet(S)
  PROVE  Cardinality(S) \in Nat
BY Zenon DEF SetFacts

\* A set of one.
LEMMA SetSingleton ==
  ASSUME SetFacts, NEW x
  PROVE  IsFiniteSet({x}) /\ Cardinality({x}) = 1
BY Zenon DEF SetFacts

\* A subset is no larger.
LEMMA SetSubset ==
  ASSUME SetFacts, NEW S, IsFiniteSet(S), NEW T \in SUBSET S
  PROVE  /\ IsFiniteSet(T) /\ Cardinality(T) <= Cardinality(S)
         /\ Cardinality(S) = Cardinality(T) => S = T
BY Zenon DEF SetFacts

\* An interval.
LEMMA SetInterval ==
  ASSUME SetFacts, NEW i \in Int, NEW j \in Int
  PROVE  IsFiniteSet(i..j) /\ Cardinality(i..j) = IF i > j THEN 0 ELSE j - i + 1
BY Zenon DEF SetFacts

\* An element more.
LEMMA SetAddElement ==
  ASSUME SetFacts
  PROVE  \A S, x : IsFiniteSet(S) =>
           /\ IsFiniteSet(S \cup {x})
           /\ Cardinality(S \cup {x}) = IF x \in S THEN Cardinality(S) ELSE Cardinality(S) + 1
BY Zenon DEF SetFacts

\* An element less.
LEMMA SetRemoveElement ==
  ASSUME SetFacts
  PROVE  \A S, x : IsFiniteSet(S) =>
           /\ IsFiniteSet(S \ {x})
           /\ Cardinality(S \ {x}) = IF x \in S THEN Cardinality(S) - 1 ELSE Cardinality(S)
BY Zenon DEF SetFacts

\* An injection leads to a set that is no smaller.
LEMMA SetInjection ==
  ASSUME SetFacts
  PROVE  \A S, T : \A f \in [S -> T] :
           IsFiniteSet(T) /\ (\A x, y \in S : f[x] = f[y] => x = y) => Cardinality(S) <= Cardinality(T)
BY Zenon DEF SetFacts

\* A finite set of numbers has a least one.
LEMMA SetLeast ==
  ASSUME SetFacts, NEW S \in SUBSET Int, IsFiniteSet(S), S # {}
  PROVE  \E x \in S : \A y \in S : x <= y
BY Zenon DEF SetFacts

\* The free descriptors are finitely many numbers.
LEMMA FreeFinite ==
  ASSUME SetFacts, VirtioAssumption
  PROVE  IsFiniteSet(FreeDescs) /\ FreeDescs \subseteq Desc /\ FreeDescs \subseteq Int
         /\ Cardinality(FreeDescs) \in Nat
<1>1. IsFiniteSet(Desc) /\ Desc \subseteq Int
  BY Sizes, SetInterval DEF Desc
<1>2. FreeDescs \subseteq Desc
  BY Zenon DEF FreeDescs
<1> QED
  BY <1>1, <1>2, SetSubset, SetCardinalityType, Zenon

\* alloc3_desc, when there are three: three different free descriptors.
LEMMA AllocDesc ==
  ASSUME SetFacts, VirtioAssumption, Cardinality(FreeDescs) >= 3
  PROVE  /\ alloc_desc(0) \in FreeDescs /\ alloc_desc(1) \in FreeDescs /\ alloc_desc(2) \in FreeDescs
         /\ alloc_desc(0) # alloc_desc(1) /\ alloc_desc(0) # alloc_desc(2) /\ alloc_desc(1) # alloc_desc(2)
<1> DEFINE F == FreeDescs
           B(i) == {j \in F : j < i}
<1>0. IsFiniteSet(F) /\ F \subseteq Int /\ Cardinality(F) \in Nat /\ Cardinality(F) >= 3
  BY FreeFinite, Zenon
<1> HIDE DEF F
<1>i. \A n \in F : n \in Int
  BY <1>0, Zenon
<1>1. PICK x \in F : \A y \in F : x <= y
  BY <1>0, SetLeast, SetEmptySet
<1>2. IsFiniteSet(F \ {x}) /\ Cardinality(F \ {x}) = Cardinality(F) - 1
  BY <1>0, <1>1, SetRemoveElement, Zenon
<1>3. PICK y \in F \ {x} : \A z \in F \ {x} : y <= z
  <2>1. F \ {x} # {} /\ F \ {x} \in SUBSET Int
    BY <1>0, <1>2, SetEmptySet
  <2> QED
    BY <1>2, <2>1, SetLeast, Zenon
<1>4. IsFiniteSet((F \ {x}) \ {y}) /\ Cardinality((F \ {x}) \ {y}) = Cardinality(F) - 2
  <2>1. /\ IsFiniteSet((F \ {x}) \ {y})
        /\ Cardinality((F \ {x}) \ {y}) = IF y \in F \ {x} THEN Cardinality(F \ {x}) - 1 ELSE Cardinality(F \ {x})
    BY <1>2, SetRemoveElement, Zenon
  <2>2. Cardinality((F \ {x}) \ {y}) = Cardinality(F \ {x}) - 1
    BY <1>3, <2>1, Zenon
  <2> QED
    BY <1>0, <1>2, <2>1, <2>2
<1>5. PICK z \in (F \ {x}) \ {y} : \A w \in (F \ {x}) \ {y} : z <= w
  <2>1. (F \ {x}) \ {y} # {} /\ (F \ {x}) \ {y} \in SUBSET Int
    BY <1>0, <1>4, SetEmptySet
  <2> QED
    BY <1>4, <2>1, SetLeast, Zenon
<1>6. Cardinality(B(x)) = 0
  <2>1. ASSUME NEW n \in B(x) PROVE FALSE
    BY <1>i, <1>1, <2>1
  <2>2. B(x) = {}
    BY <2>1, Zenon
  <2> QED
    BY <2>2, SetEmptySet, Zenon
<1>7. Cardinality(B(y)) = 1
  <2>a. ASSUME NEW n \in B(y) PROVE n = x
    BY <1>i, <1>1, <1>3, <2>a
  <2>b. x \in B(y)
    BY <1>i, <1>1, <1>3
  <2>1. B(y) = {x}
    BY <2>a, <2>b, Zenon
  <2> QED
    BY <2>1, SetSingleton, Zenon
<1>8. Cardinality(B(z)) = 2
  <2>a. ASSUME NEW n \in B(z) PROVE n = x \/ n = y
    BY <1>i, <1>5, <2>a
  <2>b. x \in B(z) /\ y \in B(z)
    BY <1>i, <1>1, <1>3, <1>5
  <2> HIDE DEF B
  <2>1. B(z) = {x} \cup {y}
    BY <2>a, <2>b, Zenon
  <2>2. IsFiniteSet({x}) /\ Cardinality({x}) = 1 /\ y \notin {x}
    BY <1>3, SetSingleton, Zenon
  <2>3. Cardinality({x} \cup {y}) = Cardinality({x}) + 1
    BY <2>2, SetAddElement, Zenon
  <2> QED
    BY <2>1, <2>2, <2>3
<1> DEFINE P(i, k) == i \in F /\ Cardinality(B(i)) = k
           a(k) == CHOOSE i \in F : Cardinality(B(i)) = k
<1>9. P(x, 0) /\ P(y, 1) /\ P(z, 2)
  BY <1>1, <1>3, <1>5, <1>6, <1>7, <1>8, Zenon
<1>10. a(0) \in F /\ Cardinality(B(a(0))) = 0
  BY <1>9, Zenon
<1>11. a(1) \in F /\ Cardinality(B(a(1))) = 1
  BY <1>9, Zenon
<1>12. a(2) \in F /\ Cardinality(B(a(2))) = 2
  BY <1>9, Zenon
<1>13. a(0) = alloc_desc(0) /\ a(1) = alloc_desc(1) /\ a(2) = alloc_desc(2)
  BY Zenon DEF alloc_desc, F
<1> HIDE DEF a, P, B
<1>14. a(0) # a(1) /\ a(0) # a(2) /\ a(1) # a(2)
  BY <1>10, <1>11, <1>12
<1> QED
  BY <1>10, <1>11, <1>12, <1>13, <1>14, Zenon DEF F

-----------------------------------------------------------------------------
(* The rings.                                                              *)

\* A step that keeps, for head i, what the rings' invariant says of it.
Keep(i) ==
  /\ info'[i] = info[i]
  /\ \A q \in Proc : q = info[i] =>
       /\ idx'[q] = idx[q] /\ busy'[q] = busy[q] /\ vpc'[q] \in {"sleep_b", "woken"}
       /\ bdata'[q] = bdata[q] /\ medium'[q] = medium[q] /\ write'[q] = write[q]

\* What such a step keeps.
LEMMA KeepHead ==
  ASSUME NEW i, Head(i), Keep(i)
  PROVE  /\ Head(i)'
         /\ Unserved(info[i]) => Unserved(info[i])'
         /\ Served(info[i]) => Served(info[i])'
<1>1. info[i] \in Proc /\ info'[i] = info[i] /\ i \in Desc /\ idx[info[i]] = i /\ busy[info[i]] = 1
  BY Zenon DEF Head, Keep
<1>2. PICK q \in Proc : q = info[i]
  BY <1>1, Zenon
<1>3. /\ idx'[q] = idx[q] /\ busy'[q] = busy[q] /\ vpc'[q] \in {"sleep_b", "woken"}
      /\ bdata'[q] = bdata[q] /\ medium'[q] = medium[q] /\ write'[q] = write[q]
  BY <1>2, Zenon DEF Keep
<1> QED
  BY <1>1, <1>2, <1>3, Zenon DEF Head, Unserved, Served

\* Where the rings are, in numbers.
LEMMA RingFacts ==
  ASSUME VirtioAssumption, VTypeOK
  PROVE  /\ NUM \in Nat \ {0} /\ IdxMod \in Nat \ {0}
         /\ seen % NUM \in Desc /\ availidx % NUM \in Desc /\ usedid % NUM \in Desc /\ used_idx \in Desc
         /\ NAvail \in Desc /\ NUsed \in Desc
         /\ Slot(seen % NUM, NAvail) = availidx % NUM /\ Slot(used_idx, NUsed) = usedid % NUM
         /\ NAvail = 0 <=> seen % NUM = availidx % NUM
         /\ NUsed = 0 <=> used_idx = usedid % NUM
<1>0. NUM \in Nat \ {0} /\ IdxMod \in Nat \ {0}
  BY Sizes, Zenon
<1>1. /\ seen \in 0..(IdxMod - 1) /\ availidx \in 0..(IdxMod - 1) /\ usedid \in 0..(IdxMod - 1)
      /\ used_idx \in Desc
  BY Zenon DEF VTypeOK
<1>2. seen % NUM \in Desc /\ availidx % NUM \in Desc /\ usedid % NUM \in Desc
  BY <1>1, NextSlot, Zenon
<1> DEFINE S == seen % NUM  A == availidx % NUM  U == usedid % NUM
<1> HIDE DEF S, A, U
<1>3. S \in Desc /\ A \in Desc /\ U \in Desc
  BY <1>2, Zenon DEF S, A, U
<1>4. Dist(S, A) \in Desc /\ Slot(S, Dist(S, A)) = A /\ (Dist(S, A) = 0 <=> S = A)
  BY <1>0, <1>3, DistIs, Zenon
<1>5. Dist(used_idx, U) \in Desc /\ Slot(used_idx, Dist(used_idx, U)) = U /\ (Dist(used_idx, U) = 0 <=> used_idx = U)
  BY <1>0, <1>1, <1>3, DistIs, Zenon
<1> QED
  BY <1>0, <1>1, <1>2, <1>4, <1>5, Zenon DEF NAvail, NUsed, S, A, U

\* A step that leaves the entries of the avail ring alone, and their requests.
LEMMA AvailSame ==
  ASSUME AvailOK, UNCHANGED availidx, UNCHANGED seen, inflight' \subseteq inflight,
         \A d \in 0..(NAvail - 1) : AvailAt(d)' = AvailAt(d) /\ Keep(AvailAt(d)),
         \A p \in Proc : vpc'[p] = "notify" => avail'[availidx % NUM] = idx'[p],
         \A i \in inflight' : Keep(i)
  PROVE  AvailOK'
<1>1. NAvail' = NAvail
  BY Zenon DEF NAvail
<1>2. ASSUME NEW d \in 0..(NAvail - 1) PROVE Head(AvailAt(d))' /\ Unserved(info[AvailAt(d)])'
  <2>1. PICK i : i = AvailAt(d)
    BY Zenon
  <2>2. Head(i) /\ Unserved(info[i]) /\ AvailAt(d)' = i /\ Keep(i)
    BY <2>1, <1>2, Zenon DEF AvailOK
  <2> QED
    BY <2>2, KeepHead, Zenon
<1>4. ASSUME NEW i \in inflight' PROVE Head(i)' /\ Unserved(info[i])'
  <2>1. Head(i) /\ Unserved(info[i]) /\ Keep(i)
    BY Zenon DEF AvailOK
  <2> QED
    BY <2>1, KeepHead, Zenon
<1>5. (availidx \in {seen + NAvail, seen + NAvail - IdxMod})'
  BY <1>1, Zenon DEF AvailOK
<1>6. ASSUME NEW d \in 0..(NAvail' - 1), NEW e \in 0..(NAvail' - 1), AvailAt(d)' = AvailAt(e)' PROVE d = e
  <2>1. d \in 0..(NAvail - 1) /\ e \in 0..(NAvail - 1)
    BY <1>1, Zenon
  <2>2. AvailAt(d) = AvailAt(e)
    BY <1>6, <2>1, Zenon
  <2> QED
    BY <2>1, <2>2, Zenon DEF AvailOK
<1>7. ASSUME NEW d \in 0..(NAvail' - 1) PROVE AvailAt(d)' \notin inflight'
  <2>1. d \in 0..(NAvail - 1)
    BY <1>1, Zenon
  <2> QED
    BY <2>1, Zenon DEF AvailOK
<1>8. (\A p \in Proc : vpc[p] = "notify" => avail[availidx % NUM] = idx[p])'
  BY Zenon
<1>9. /\ \A d \in 0..(NAvail' - 1) : Head(AvailAt(d))' /\ Unserved(info[AvailAt(d)])'
      /\ \A i \in inflight' : Head(i)' /\ Unserved(info[i])'
  BY <1>1, <1>2, <1>4, Zenon
<1> QED
  BY <1>5, <1>6, <1>7, <1>8, <1>9, Zenon DEF AvailOK

\* The same for the used ring.
LEMMA UsedSame ==
  ASSUME UsedOK, UNCHANGED elems, UNCHANGED usedid, UNCHANGED used_idx, \A i \in Desc : Head(i) => Keep(i)
  PROVE  UsedOK'
<1>1. NUsed' = NUsed /\ \A d \in 0..(NUsed - 1) : UsedAt(d)' = UsedAt(d)
  BY Zenon DEF NUsed, UsedAt
<1>3. ASSUME NEW d \in 0..(NUsed - 1) PROVE Head(UsedAt(d))' /\ Served(info[UsedAt(d)])'
  <2>1. PICK i : i = UsedAt(d)
    BY Zenon
  <2>2. Head(i) /\ Served(info[i]) /\ UsedAt(d)' = i
    BY <2>1, <1>1, <1>3, Zenon DEF UsedOK
  <2>3. Keep(i)
    BY <2>2, Zenon DEF Head
  <2> QED
    BY <2>2, <2>3, KeepHead, Zenon
<1>4. ASSUME NEW d \in 0..(NUsed' - 1) PROVE d \in 0..(NUsed - 1) /\ UsedAt(d)' = UsedAt(d)
  BY <1>1, Zenon
<1>5. ASSUME NEW d \in 0..(NUsed' - 1), NEW e \in 0..(NUsed' - 1), UsedAt(d)' = UsedAt(e)' PROVE d = e
  <2>1. d \in 0..(NUsed - 1) /\ e \in 0..(NUsed - 1) /\ UsedAt(d) = UsedAt(e)
    BY <1>4, <1>5, Zenon
  <2> QED
    BY <2>1, Zenon DEF UsedOK
<1>6. \A d \in 0..(NUsed' - 1) : Head(UsedAt(d))' /\ Served(info[UsedAt(d)])'
  BY <1>3, <1>4, Zenon
<1> QED
  BY <1>5, <1>6, Zenon DEF UsedOK

\* Different requests for n + 1 positions of a ring: the ring is not full.
LEMMA Room ==
  ASSUME SetFacts, VirtioAssumption, DescOK, NEW n \in Nat, NEW f \in [0..n -> Waiting],
         \A d, e \in 0..n : f[d] = f[e] => d = e
  PROVE  n + 1 \in Desc
<1>2. IsFiniteSet(Waiting) /\ Cardinality(FreeDescs) + 3 * Cardinality(Waiting) = NUM
  BY Zenon DEF DescOK
<1>3. Cardinality(0..n) <= Cardinality(Waiting) /\ Cardinality(Waiting) \in Nat
  BY <1>2, SetInjection, SetCardinalityType, Zenon
<1>4. Cardinality(0..n) = n + 1
  <2>1. 0 \in Int /\ n \in Int /\ ~(0 > n) /\ n - 0 + 1 = n + 1
    OBVIOUS
  <2>2. Cardinality(0..n) = IF 0 > n THEN 0 ELSE n - 0 + 1
    BY <2>1, SetInterval, Zenon
  <2> QED
    BY <2>1, <2>2, Zenon
<1>5. Cardinality(FreeDescs) \in Nat
  BY FreeFinite, Zenon
<1> QED
  BY <1>2, <1>3, <1>4, <1>5, Sizes DEF Desc

\* A step that leaves the descriptors and the requests alone.
LEMMA SameDesc ==
  ASSUME DescOK, UNCHANGED <<driver, idx>> PROVE DescOK' /\ Waiting' = Waiting /\ FreeDescs' = FreeDescs
<1>1. UNCHANGED free /\ UNCHANGED next /\ UNCHANGED addr /\ UNCHANGED info /\ UNCHANGED idx
  BY Zenon DEF driver
<1>2. Waiting' = Waiting /\ FreeDescs' = FreeDescs /\ (\A i : Chain(i)' = Chain(i))
  BY <1>1, Zenon DEF Waiting, FreeDescs, Chain
<1>3. ASSUME NEW p \in Waiting PROVE ChainOK(p)'
  BY <1>1 DEF DescOK, ChainOK
<1> QED
  BY <1>1, <1>2, <1>3, Zenon DEF DescOK

\* The three descriptors of a request, by name.
LEMMA Links ==
  ASSUME VTypeOK, DescOK, NEW p \in Waiting
  PROVE  \E a, b, c \in Desc :
           /\ a = idx[p] /\ b = next[a] /\ c = next[b] /\ a # b /\ a # c /\ b # c
           /\ free[a] = 0 /\ free[b] = 0 /\ free[c] = 0
           /\ addr[a] = p /\ addr[b] = p /\ addr[c] = p /\ info[a] = p
<1>1. p \in Proc /\ idx[p] # NoDesc
  BY Zenon DEF Waiting
<1>2. idx[p] \in Desc /\ ChainOK(p)
  BY <1>1, Zenon DEF VTypeOK, DescOK
<1> QED
  BY <1>2, Zenon DEF ChainOK

\* The conjuncts of the invariant, by name.
LEMMA Parts ==
  ASSUME VInv
  PROVE  VTypeOK /\ LockOK /\ DescOK /\ AvailOK /\ UsedOK /\ TransferOK /\ VNoLostWakeup
BY Zenon DEF VInv

\* What such a step may do to process p.
Quiet(p) ==
  /\ vpc'[p] = "notify" => vpc[p] = "notify"
  /\ vpc[p] \in {"sleep_b", "woken"} => vpc'[p] \in {"sleep_b", "woken"}
  /\ vpc[p] # "idle" => vpc'[p] # "idle" /\ bdata'[p] = bdata[p] /\ write'[p] = write[p]
  /\ vpc[p] = "idle" => /\ vpc'[p] \in {"idle", "start"}
                        /\ bdata'[p] = IF vpc'[p] = "idle" THEN bdata[p] ELSE 1
  /\ vpc'[p] \in {"start", "sleep_free"} => vpc[p] \in {"idle", "start", "sleep_free"}
  /\ vpc'[p] = "sleep_free" => Cardinality(FreeDescs) < 3
  /\ vpc'[p] = "sleep_b" => busy[p] = 1

\* A step that changes nothing the rings or the descriptors depend on but
\* where a process is.
LEMMA QuietStep ==
  ASSUME VInv, VTypeOK', LockOK', UNCHANGED <<driver, ring, elems, device, used_idx, idx, busy, medium>>,
         \A p \in Proc : Quiet(p)
  PROVE  VInv'
<1>0. VTypeOK /\ LockOK /\ DescOK /\ AvailOK /\ UsedOK /\ TransferOK /\ VNoLostWakeup
  BY Parts, Zenon
<1>1. /\ UNCHANGED free /\ UNCHANGED next /\ UNCHANGED addr /\ UNCHANGED info /\ UNCHANGED avail
      /\ UNCHANGED availidx /\ UNCHANGED elems /\ UNCHANGED usedid /\ UNCHANGED seen
      /\ UNCHANGED inflight /\ UNCHANGED used_idx /\ UNCHANGED idx /\ UNCHANGED busy /\ UNCHANGED medium
  BY Zenon DEF driver, ring, device
<1>2. DescOK' /\ FreeDescs' = FreeDescs
  <2>1. UNCHANGED <<driver, idx>>
    BY <1>1, Zenon DEF driver
  <2> QED
    BY <1>0, <2>1, SameDesc, Zenon
<1>3. AvailOK' /\ UsedOK'
  <2>1. \A d \in 0..(NAvail - 1) : AvailAt(d)' = AvailAt(d) /\ Head(AvailAt(d))
    BY <1>0, <1>1, Zenon DEF AvailAt, AvailOK
  <2>2. \A p \in Proc : vpc'[p] = "notify" => avail'[availidx % NUM] = idx'[p]
    BY <1>0, <1>1, Zenon DEF AvailOK, Quiet
  <2>3. \A i \in Desc : Head(i) => Keep(i)
    BY <1>1, Zenon DEF Head, Keep, Quiet
  <2>4. \A i : Head(i) => i \in Desc
    BY Zenon DEF Head
  <2>5. \A i \in inflight : Head(i)
    BY <1>0, Zenon DEF AvailOK
  <2>6. AvailOK'
    BY <1>0, <1>1, <2>1, <2>2, <2>3, <2>4, <2>5, AvailSame, Zenon
  <2> QED
    BY <1>0, <1>1, <2>3, <2>6, UsedSame, Zenon
<1>4. TransferOK'
  <2>1. ASSUME NEW p \in Proc
        PROVE  /\ vpc'[p] = "idle" => bdata'[p] = 0 /\ medium'[p] = 0
               /\ vpc'[p] \in {"start", "sleep_free", "notify"} => bdata'[p] = 1 /\ medium'[p] = 0
               /\ vpc'[p] = "notify" => busy'[p] = 1
               /\ idx'[p] # NoDesc /\ busy'[p] = 0 => bdata'[p] = write'[p] /\ medium'[p] = write'[p]
    <3>1. /\ vpc[p] = "idle" => bdata[p] = 0 /\ medium[p] = 0
          /\ vpc[p] \in {"start", "sleep_free", "notify"} => bdata[p] = 1 /\ medium[p] = 0
          /\ vpc[p] = "notify" => busy[p] = 1
          /\ idx[p] # NoDesc /\ busy[p] = 0 => bdata[p] = write[p] /\ medium[p] = write[p]
          /\ idx[p] # NoDesc => vpc[p] # "idle"
      BY <1>0, Zenon DEF TransferOK, Unserved, Served, LockOK
    <3> QED
      BY <1>1, <3>1, Zenon DEF Quiet
  <2> QED
    BY <2>1, Zenon DEF TransferOK, Unserved, Served
<1>5. VNoLostWakeup'
  BY <1>1, <1>2, Zenon DEF VNoLostWakeup, Quiet
<1> QED
  BY <1>2, <1>3, <1>4, <1>5, Zenon DEF VInv

-----------------------------------------------------------------------------
(* The steps.                                                              *)

\* A call starts.
LEMMA CallVInv ==
  ASSUME VirtioAssumption, VInv, NEW p \in Proc, NEW w \in {0, 1}, virtio_disk_rw(p, w)
  PROVE VInv'
<1>0. VTypeOK /\ LockOK /\ VNoLostWakeup
  BY Parts, Zenon
<1>1. /\ vpc[p] = "idle" /\ vpc' = [vpc EXCEPT ![p] = "start"]
      /\ write' = [write EXCEPT ![p] = w] /\ bdata' = [bdata EXCEPT ![p] = 1]
      /\ UNCHANGED <<driver, ring, elems, device, used_idx, vlock, idx, busy, medium, pend, intr>>
  BY Zenon DEF virtio_disk_rw
<1>2. VTypeOK'
  BY <1>0, <1>1, Zenon DEF VTypeOK, driver, ring, device
<1>3. LockOK'
  BY <1>0, <1>1, Zenon DEF VTypeOK, LockOK
<1>4. \A q \in Proc : Quiet(q)
  BY <1>0, <1>1, Zenon DEF VTypeOK, VNoLostWakeup, Quiet
<1>5. UNCHANGED <<driver, ring, elems, device, used_idx, idx, busy, medium>>
  BY <1>1, Zenon
<1> QED
  BY <1>2, <1>3, <1>4, <1>5, QuietStep, Zenon

\* alloc3_desc fails: sleep, after the wakeups of free_desc.
LEMMA SleepVInv == ASSUME VirtioAssumption, VInv, NEW p \in Proc, rw_sleep(p) PROVE VInv'
<1>0. VTypeOK /\ LockOK /\ VNoLostWakeup
  BY Parts, Zenon
<1> DEFINE f == IF FreeDescs = {} THEN vpc ELSE WakeFree(vpc)
<1>1. /\ vpc[p] = "start" /\ Cardinality(FreeDescs) < 3 /\ vpc' = [f EXCEPT ![p] = "sleep_free"]
      /\ UNCHANGED <<driver, ring, elems, device, used_idx, vlock, idx, write, busy, contents, pend, intr>>
  BY Zenon DEF rw_sleep
<1>2. /\ f \in [Proc -> {"idle", "start", "sleep_free", "notify", "sleep_b", "woken"}]
      /\ \A q \in Proc : f[q] = vpc[q] \/ (vpc[q] = "sleep_free" /\ f[q] = "start")
  BY <1>0, Zenon DEF WakeFree, VTypeOK
<1> HIDE DEF f
<1>3. \A q \in Proc : \/ q = p /\ vpc'[q] = "sleep_free"
                      \/ q # p /\ vpc'[q] = vpc[q]
                      \/ q # p /\ vpc[q] = "sleep_free" /\ vpc'[q] = "start"
  BY <1>1, <1>2, Zenon
<1>4. VTypeOK'
  BY <1>0, <1>1, <1>2, Zenon DEF VTypeOK, driver, ring, device, contents
<1>5. LockOK'
  BY <1>0, <1>1, <1>3, Zenon DEF LockOK
<1>6. \A q \in Proc : Quiet(q)
  BY <1>0, <1>1, <1>3, Zenon DEF contents, VNoLostWakeup, Quiet
<1>7. UNCHANGED <<driver, ring, elems, device, used_idx, idx, busy, medium>>
  BY <1>1, Zenon DEF contents
<1> QED
  BY <1>4, <1>5, <1>6, <1>7, QuietStep, Zenon

\* kill wakes a sleeper.
LEMMA KillVInv == ASSUME VirtioAssumption, VInv, NEW p \in Proc, kill_sleeper(p) PROVE VInv'
<1>0. VTypeOK /\ LockOK /\ VNoLostWakeup
  BY Parts, Zenon
<1>1. /\ vpc[p] \in {"sleep_free", "sleep_b"}
      /\ vpc' = [vpc EXCEPT ![p] = IF vpc[p] = "sleep_b" THEN "woken" ELSE "start"]
      /\ UNCHANGED <<driver, ring, elems, device, used_idx, vlock, idx, write, busy, contents, pend, intr>>
  BY Zenon DEF kill_sleeper
<1>2. VTypeOK'
  BY <1>0, <1>1, Zenon DEF VTypeOK, driver, ring, device, contents
<1>3. LockOK'
  BY <1>0, <1>1, Zenon DEF VTypeOK, LockOK
<1>4. \A q \in Proc : Quiet(q)
  BY <1>0, <1>1, Zenon DEF VTypeOK, contents, VNoLostWakeup, Quiet
<1>5. UNCHANGED <<driver, ring, elems, device, used_idx, idx, busy, medium>>
  BY <1>1, Zenon DEF contents
<1> QED
  BY <1>2, <1>3, <1>4, <1>5, QuietStep, Zenon

\* b->disk is still set.
LEMMA AgainVInv == ASSUME VirtioAssumption, VInv, NEW p \in Proc, rw_again(p) PROVE VInv'
<1>0. VTypeOK /\ LockOK /\ VNoLostWakeup
  BY Parts, Zenon
<1>1. /\ vpc[p] = "woken" /\ busy[p] # 0 /\ vpc' = [vpc EXCEPT ![p] = "sleep_b"]
      /\ UNCHANGED <<driver, ring, elems, device, used_idx, vlock, idx, write, busy, contents, pend, intr>>
  BY Zenon DEF rw_again, Done
<1>2. VTypeOK'
  BY <1>0, <1>1, Zenon DEF VTypeOK, driver, ring, device, contents
<1>3. LockOK'
  BY <1>0, <1>1, Zenon DEF VTypeOK, LockOK
<1>4. \A q \in Proc : Quiet(q)
  BY <1>0, <1>1, Zenon DEF VTypeOK, contents, VNoLostWakeup, Quiet
<1>5. UNCHANGED <<driver, ring, elems, device, used_idx, idx, busy, medium>>
  BY <1>1, Zenon DEF contents
<1> QED
  BY <1>2, <1>3, <1>4, <1>5, QuietStep, Zenon

\* virtio_disk_intr begins, takes vdisk_lock, and ends.
LEMMA IntrVInv == ASSUME VirtioAssumption, VInv, intr_claim \/ intr_acquire \/ intr_end PROVE VInv'
<1>0. VTypeOK /\ LockOK /\ VNoLostWakeup
  BY Parts, Zenon
<1>1. /\ UNCHANGED <<driver, ring, elems, device, used_idx, vpc, idx, write, busy, contents>>
      /\ pend' \in {0, 1} /\ intr' \in {"none", "spin", "loop"} /\ vlock' \in {vlock, Nobody, "intr"}
      /\ vlock' # vlock => vlock \notin Proc
      /\ vlock' = "intr" <=> intr' = "loop"
  BY <1>0, Zenon DEF intr_claim, intr_acquire, intr_end, VTypeOK, LockOK, VirtioAssumption
<1>2. VTypeOK'
  BY <1>0, <1>1, Zenon DEF VTypeOK, driver, ring, device, contents
<1>3. LockOK'
  BY <1>0, <1>1, Zenon DEF LockOK, VirtioAssumption
<1>4. \A q \in Proc : Quiet(q)
  BY <1>0, <1>1, Zenon DEF VTypeOK, contents, VNoLostWakeup, Quiet
<1>5. UNCHANGED <<driver, ring, elems, device, used_idx, idx, busy, medium>>
  BY <1>1, Zenon DEF contents
<1> QED
  BY <1>2, <1>3, <1>4, <1>5, QuietStep, Zenon

\* Who has put an index where the device will look, and not said so: one more
\* request than the avail ring has entries.
LEMMA AvailRoom ==
  ASSUME SetFacts, VirtioAssumption, VInv, NEW p \in Proc, vpc[p] = "notify" PROVE NAvail + 1 \in Desc
<1>0. VTypeOK /\ LockOK /\ DescOK /\ AvailOK
  BY Parts, Zenon
<1>1. NAvail \in Nat
  BY <1>0, RingFacts DEF Desc
<1> DEFINE f == [d \in 0..NAvail |-> IF d = NAvail THEN p ELSE info[AvailAt(d)]]
<1>2. p \in Waiting
  BY <1>0, Zenon DEF Waiting, LockOK
<1>3. ASSUME NEW d \in 0..NAvail, d # NAvail
      PROVE  d \in 0..(NAvail - 1) /\ f[d] \in Waiting /\ f[d] # p /\ idx[f[d]] = AvailAt(d)
  <2>1. d \in 0..(NAvail - 1)
    BY <1>1, <1>3
  <2>2. Head(AvailAt(d)) /\ f[d] = info[AvailAt(d)]
    BY <1>0, <1>3, <2>1, Zenon DEF AvailOK
  <2>3. AvailAt(d) # NoDesc
    BY <2>2, Sizes DEF Head, Desc, NoDesc
  <2> QED
    BY <2>1, <2>2, <2>3, Zenon DEF Head, Waiting
<1>4. f[NAvail] = p /\ NAvail \in 0..NAvail
  BY <1>1
<1>5. f \in [0..NAvail -> Waiting]
  <2>1. \A d \in 0..NAvail : f[d] \in Waiting
    BY <1>2, <1>3, <1>4, Zenon
  <2>2. f = [d \in 0..NAvail |-> f[d]]
    BY Zenon
  <2> QED
    BY <2>1, <2>2, Zenon
<1>6. ASSUME NEW d \in 0..NAvail, NEW e \in 0..NAvail, f[d] = f[e] PROVE d = e
  <2> HIDE DEF f
  <2>1. CASE d # NAvail /\ e # NAvail
    <3>1. /\ d \in 0..(NAvail - 1) /\ e \in 0..(NAvail - 1)
          /\ idx[f[d]] = AvailAt(d) /\ idx[f[e]] = AvailAt(e)
      BY <1>3, <2>1, Zenon
    <3>2. AvailAt(d) = AvailAt(e)
      BY <1>6, <3>1, Zenon
    <3> QED
      BY <1>0, <3>1, <3>2, Zenon DEF AvailOK
  <2>2. CASE d = NAvail \/ e = NAvail
    BY <1>3, <1>4, <1>6, <2>2, Zenon
  <2> QED
    BY <2>1, <2>2, Zenon
<1> HIDE DEF f
<1> QED
  BY <1>0, <1>1, <1>5, <1>6, Room, Zenon

\* A request the device works on is one more than the used ring has entries.
LEMMA UsedRoom ==
  ASSUME SetFacts, VirtioAssumption, VInv, NEW i \in inflight PROVE NUsed + 1 \in Desc
<1>0. VTypeOK /\ LockOK /\ DescOK /\ AvailOK /\ UsedOK
  BY Parts, Zenon
<1>1. NUsed \in Nat
  BY <1>0, RingFacts DEF Desc
<1> DEFINE p == info[i]
           f == [d \in 0..NUsed |-> IF d = NUsed THEN p ELSE info[UsedAt(d)]]
<1>2. p \in Waiting /\ bdata[p] = 1 /\ medium[p] = 0
  <2>1. Head(i) /\ Unserved(p)
    BY <1>0, Zenon DEF AvailOK
  <2>2. i # NoDesc
    BY <2>1, Sizes DEF Head, Desc, NoDesc
  <2> QED
    BY <2>1, <2>2, Zenon DEF Head, Waiting, Unserved
<1> HIDE DEF p
<1>3. ASSUME NEW d \in 0..NUsed, d # NUsed
      PROVE  d \in 0..(NUsed - 1) /\ f[d] \in Waiting /\ f[d] # p /\ idx[f[d]] = UsedAt(d)
  <2>1. d \in 0..(NUsed - 1)
    BY <1>1, <1>3
  <2>2. Head(UsedAt(d)) /\ f[d] = info[UsedAt(d)] /\ Served(info[UsedAt(d)])
    BY <1>0, <1>3, <2>1, Zenon DEF UsedOK
  <2>3. UsedAt(d) # NoDesc
    BY <2>2, Sizes DEF Head, Desc, NoDesc
  <2>4. f[d] # p
    BY <1>2, <2>2 DEF Served
  <2> HIDE DEF f
  <2> QED
    BY <2>1, <2>2, <2>3, <2>4, Zenon DEF Head, Waiting
<1>4. f[NUsed] = p /\ NUsed \in 0..NUsed
  BY <1>1
<1>5. f \in [0..NUsed -> Waiting]
  <2>1. \A d \in 0..NUsed : f[d] \in Waiting
    BY <1>2, <1>3, <1>4, Zenon
  <2>2. f = [d \in 0..NUsed |-> f[d]]
    BY Zenon
  <2> QED
    BY <2>1, <2>2, Zenon
<1>6. ASSUME NEW d \in 0..NUsed, NEW e \in 0..NUsed, f[d] = f[e] PROVE d = e
  <2> HIDE DEF f
  <2>1. CASE d # NUsed /\ e # NUsed
    BY <1>0, <1>3, <1>6, <2>1, Zenon DEF UsedOK
  <2>2. CASE d = NUsed \/ e = NUsed
    BY <1>3, <1>4, <1>6, <2>2, Zenon
  <2> QED
    BY <2>1, <2>2, Zenon
<1> HIDE DEF f
<1> QED
  BY <1>0, <1>1, <1>5, <1>6, Room, Zenon

\* The avail ring gets an entry: there is room for it.
LEMMA NotifyVInv == ASSUME SetFacts, VirtioAssumption, VInv, NEW p \in Proc, rw_notify(p) PROVE VInv'
<1>0. VTypeOK /\ LockOK /\ DescOK /\ AvailOK /\ UsedOK /\ TransferOK /\ VNoLostWakeup
  BY Parts, Zenon
<1>1. /\ vpc[p] = "notify" /\ availidx' = (availidx + 1) % IdxMod /\ vlock' = Nobody
      /\ vpc' = [vpc EXCEPT ![p] = "sleep_b"]
      /\ UNCHANGED <<driver, avail, elems, device, used_idx, idx, write, busy, contents, pend, intr>>
  BY Zenon DEF rw_notify
<1>2. /\ UNCHANGED free /\ UNCHANGED next /\ UNCHANGED addr /\ UNCHANGED info /\ UNCHANGED avail
      /\ UNCHANGED elems /\ UNCHANGED usedid /\ UNCHANGED seen /\ UNCHANGED inflight
      /\ UNCHANGED used_idx /\ UNCHANGED idx /\ UNCHANGED write /\ UNCHANGED busy
      /\ UNCHANGED bdata /\ UNCHANGED medium /\ UNCHANGED pend /\ UNCHANGED intr
  BY <1>1, Zenon DEF driver, device, contents
<1>3. /\ seen \in 0..(IdxMod - 1) /\ availidx \in 0..(IdxMod - 1)
      /\ availidx' = (IF availidx + 1 = IdxMod THEN 0 ELSE availidx + 1)
      /\ availidx' % NUM = Slot(availidx % NUM, 1)
  <2>1. seen \in 0..(IdxMod - 1) /\ availidx \in 0..(IdxMod - 1)
    BY <1>0, Zenon DEF VTypeOK
  <2> QED
    BY <1>1, <2>1, NextSlot, Zenon
<1>4. VTypeOK'
  <2>1. availidx' \in 0..(IdxMod - 1)
    BY <1>3, Sizes
  <2>2. vpc' \in [Proc -> {"idle", "start", "sleep_free", "notify", "sleep_b", "woken"}] /\ vlock' \in Proc \cup {Nobody, "intr"}
    BY <1>0, <1>1, Zenon DEF VTypeOK
  <2> QED
    BY <1>0, <1>2, <2>1, <2>2, Zenon DEF VTypeOK
<1>5. \A q \in Proc : q # p => vpc'[q] = vpc[q] /\ vpc[q] # "notify"
  BY <1>0, <1>1, Zenon DEF LockOK, VTypeOK
<1>6. vpc'[p] = "sleep_b" /\ vlock = p /\ idx[p] # NoDesc
  BY <1>0, <1>1, Zenon DEF LockOK, VTypeOK
<1>7. LockOK'
  BY <1>0, <1>1, <1>2, <1>5, <1>6, Zenon DEF LockOK, VirtioAssumption
<1>8. DescOK' /\ FreeDescs' = FreeDescs
  <2>1. UNCHANGED <<driver, idx>>
    BY <1>1, Zenon
  <2> QED
    BY <1>0, <2>1, SameDesc, Zenon
<1>9. \A i \in Desc : Head(i) => Keep(i)
  BY <1>2, <1>5, <1>6, Zenon DEF Head, Keep
<1>10. UsedOK'
  BY <1>0, <1>2, <1>9, UsedSame, Zenon
<1>11. NAvail \in Nat /\ NAvail + 1 \in Desc /\ NAvail' = NAvail + 1
  <2>1. NAvail + 1 \in Desc
    BY <1>1, AvailRoom, Zenon
  <2>2. NUM \in Nat \ {0} /\ seen % NUM \in Desc /\ availidx % NUM \in Desc /\ NAvail \in Desc
    BY <1>0, RingFacts, Zenon
  <2>3. Dist(seen % NUM, Slot(availidx % NUM, 1)) = NAvail + 1
    BY <2>1, <2>2, DistNext, Zenon DEF NAvail
  <2> QED
    BY <1>2, <1>3, <2>1, <2>2, <2>3 DEF NAvail, Desc
<1> DEFINE i == idx[p]
<1>12. AvailAt(NAvail) = i /\ i \in Desc /\ info[i] = p /\ busy[p] = 1 /\ Unserved(p)
  <2>1. Slot(seen % NUM, NAvail) = availidx % NUM
    BY <1>0, RingFacts, Zenon
  <2>2. p \in Waiting /\ i \in Desc
    BY <1>0, <1>6, Zenon DEF Waiting, VTypeOK
  <2>3. ChainOK(p)
    BY <1>0, <2>2, Zenon DEF DescOK
  <2> QED
    BY <1>0, <1>1, <2>1, <2>2, <2>3, Zenon DEF AvailAt, AvailOK, TransferOK, ChainOK
<1> HIDE DEF i
<1>13. \A d : AvailAt(d)' = AvailAt(d)
  BY <1>2, Zenon DEF AvailAt
<1>14. \A j : Head(j) => j # i
  BY <1>1, <1>12, Zenon DEF Head
<1>15. ASSUME NEW d \in 0..(NAvail' - 1)
       PROVE  \/ d \in 0..(NAvail - 1) /\ Head(AvailAt(d)) /\ AvailAt(d) # i /\ AvailAt(d) \notin inflight
              \/ d = NAvail /\ AvailAt(d) = i
  <2>1. d \in 0..(NAvail - 1) \/ d = NAvail
    BY <1>11
  <2> QED
    BY <1>0, <1>12, <1>14, <2>1, Zenon DEF AvailOK
<1>16. ASSUME NEW d \in 0..(NAvail' - 1)
       PROVE  Head(AvailAt(d))' /\ Unserved(info[AvailAt(d)])' /\ AvailAt(d)' \notin inflight'
  <2>1. CASE d \in 0..(NAvail - 1)
    <3>1. PICK j : j = AvailAt(d)
      BY Zenon
    <3>2. Head(j) /\ Unserved(info[j]) /\ AvailAt(d)' = j /\ j \notin inflight
      BY <1>0, <1>13, <2>1, <3>1, Zenon DEF AvailOK
    <3>3. Keep(j)
      BY <1>9, <3>2, Zenon DEF Head
    <3> QED
      BY <1>2, <3>2, <3>3, KeepHead, Zenon
  <2>2. CASE d = NAvail
    <3>1. PICK j : j = i
      BY Zenon
    <3>2. AvailAt(d)' = j /\ j \in Desc /\ info'[j] = p /\ busy'[p] = 1 /\ idx'[p] = j
      BY <1>2, <1>12, <1>13, <2>2, <3>1, Zenon DEF i
    <3>3. Head(j)' /\ Unserved(info[j])'
      BY <1>2, <1>6, <1>12, <3>2, Zenon DEF Head, Unserved
    <3>4. j \notin inflight
      BY <1>0, <1>14, <3>1, Zenon DEF AvailOK
    <3> QED
      BY <1>2, <3>2, <3>3, <3>4, Zenon
  <2> QED
    BY <1>15, <2>1, <2>2, Zenon
<1>17. ASSUME NEW d \in 0..(NAvail' - 1), NEW e \in 0..(NAvail' - 1), AvailAt(d)' = AvailAt(e)' PROVE d = e
  <2>1. AvailAt(d) = AvailAt(e)
    BY <1>13, <1>17, Zenon
  <2> QED
    BY <1>0, <1>15, <2>1, Zenon DEF AvailOK
<1>18. \A j \in inflight' : Head(j)' /\ Unserved(info[j])'
  <2> SUFFICES ASSUME NEW j \in inflight PROVE Head(j)' /\ Unserved(info[j])'
    BY <1>2, Zenon
  <2>1. Head(j) /\ Unserved(info[j]) /\ Keep(j)
    BY <1>0, <1>9, Zenon DEF AvailOK, Head
  <2> QED
    BY <2>1, KeepHead, Zenon
<1>19. (availidx \in {seen + NAvail, seen + NAvail - IdxMod})'
  <2>1. availidx \in {seen + NAvail, seen + NAvail - IdxMod}
    BY <1>0, Zenon DEF AvailOK
  <2>2. NUM <= IdxMod
    BY OneRound, Zenon
  <2> QED
    BY <1>2, <1>3, <1>11, <2>1, <2>2, Sizes DEF Desc
<1>20. AvailOK'
  <2>1. \A q \in Proc : vpc'[q] # "notify"
    BY <1>5, <1>6, Zenon
  <2> QED
    BY <1>16, <1>17, <1>18, <1>19, <2>1, Zenon DEF AvailOK
<1>21. TransferOK'
  BY <1>0, <1>2, <1>5, <1>6, Zenon DEF TransferOK, Unserved, Served
<1>22. VNoLostWakeup'
  BY <1>0, <1>2, <1>5, <1>6, <1>8, <1>12, Zenon DEF VNoLostWakeup
<1> QED
  BY <1>4, <1>7, <1>8, <1>10, <1>20, <1>21, <1>22, Zenon DEF VInv

\* The device takes the oldest entry of the avail ring.
LEMMA TakeVInv == ASSUME VirtioAssumption, VInv, dev_take PROVE VInv'
<1>0. VTypeOK /\ LockOK /\ DescOK /\ AvailOK /\ UsedOK /\ TransferOK /\ VNoLostWakeup
  BY Parts, Zenon
<1> DEFINE s == seen % NUM
           h == avail[s]
<1>1. /\ seen # availidx /\ inflight' = inflight \cup {h} /\ avail' = [avail EXCEPT ![s] = NoDesc]
      /\ seen' = (seen + 1) % IdxMod
      /\ UNCHANGED <<driver, availidx, elems, usedid, used_idx, vlock, vpc, idx, write,
                     busy, contents, pend, intr>>
  BY Zenon DEF dev_take
<1>2. /\ UNCHANGED free /\ UNCHANGED next /\ UNCHANGED addr /\ UNCHANGED info /\ UNCHANGED availidx
      /\ UNCHANGED elems /\ UNCHANGED usedid /\ UNCHANGED vlock /\ UNCHANGED vpc
      /\ UNCHANGED used_idx /\ UNCHANGED idx /\ UNCHANGED write /\ UNCHANGED busy
      /\ UNCHANGED bdata /\ UNCHANGED medium /\ UNCHANGED pend /\ UNCHANGED intr
  BY <1>1, Zenon DEF driver, contents
<1>3. /\ seen \in 0..(IdxMod - 1) /\ availidx \in 0..(IdxMod - 1)
      /\ seen' = (IF seen + 1 = IdxMod THEN 0 ELSE seen + 1)
      /\ seen' % NUM = Slot(s, 1)
  <2>1. seen \in 0..(IdxMod - 1) /\ availidx \in 0..(IdxMod - 1)
    BY <1>0, Zenon DEF VTypeOK
  <2> QED
    BY <1>1, <2>1, NextSlot, Zenon
<1>4. /\ NUM \in Nat \ {0} /\ IdxMod \in Nat \ {0} /\ s \in Desc /\ availidx % NUM \in Desc /\ NAvail \in Desc
      /\ Slot(s, NAvail) = availidx % NUM /\ NAvail = Dist(s, availidx % NUM)
  BY <1>0, RingFacts, Zenon DEF NAvail
<1> HIDE DEF s
<1>5. NAvail # 0
  BY <1>0, <1>1, <1>3, <1>4 DEF AvailOK, Desc
<1>6. 0 \in 0..(NAvail - 1) /\ AvailAt(0) = h
  <2>1. 0 \in Desc
    BY <1>4 DEF Desc
  <2>2. Slot(s, 0) = s
    BY <1>4, <2>1, Slots, Zenon
  <2> QED
    BY <1>4, <1>5, <2>2 DEF AvailAt, Desc, s
<1>7. Head(h) /\ Unserved(info[h]) /\ h \notin inflight
  BY <1>0, <1>6, Zenon DEF AvailOK
<1> HIDE DEF h
<1>8. NAvail' = NAvail - 1
  <2>0. Dist(s, availidx % NUM) # 0
    BY <1>4, <1>5, Zenon
  <2>a. PICK a \in Desc : a = availidx % NUM
    BY <1>4, Zenon
  <2>b. Dist(Slot(s, 1), a) = Dist(s, a) - 1
    BY <1>4, <2>0, <2>a DEF Slot, Dist, Desc
  <2>1. Dist(Slot(s, 1), availidx % NUM) = Dist(s, availidx % NUM) - 1
    BY <2>a, <2>b, Zenon
  <2>2. NAvail' = Dist(seen' % NUM, availidx' % NUM)
    BY Zenon DEF NAvail, Dist
  <2> QED
    BY <1>2, <1>3, <1>4, <2>1, <2>2, Zenon
<1>9. ASSUME NEW d \in 0..(NAvail' - 1)
      PROVE  d + 1 \in 0..(NAvail - 1) /\ AvailAt(d)' = AvailAt(d + 1) /\ AvailAt(d + 1) # h
  <2>1. d + 1 \in 0..(NAvail - 1) /\ d \in Desc /\ d + 1 \in Desc /\ 0 \in Desc /\ d + 1 # 0
    BY <1>4, <1>8 DEF Desc
  <2>2. Slot(Slot(s, 1), d) = Slot(s, d + 1) /\ Slot(s, d + 1) # Slot(s, 0) /\ Slot(s, 0) = s /\ Slot(s, d + 1) \in Desc
    BY <1>4, <2>1 DEF Slot, Desc
  <2>3. AvailAt(d)' = avail'[Slot(seen' % NUM, d)]
    BY Zenon DEF AvailAt, Slot
  <2>4. AvailAt(d)' = avail'[Slot(s, d + 1)]
    BY <1>3, <2>2, <2>3, Zenon
  <2>5. avail'[Slot(s, d + 1)] = avail[Slot(s, d + 1)]
    BY <1>0, <1>1, <2>2, Zenon DEF VTypeOK
  <2>6. avail[Slot(s, d + 1)] = AvailAt(d + 1)
    BY Zenon DEF AvailAt, s
  <2>7. AvailAt(d + 1) # AvailAt(0)
    BY <1>0, <1>6, <2>1, Zenon DEF AvailOK
  <2> QED
    BY <1>6, <2>1, <2>4, <2>5, <2>6, <2>7, Zenon
<1>10. VTypeOK'
  <2>1. seen' \in 0..(IdxMod - 1)
    BY <1>3, <1>4
  <2>2. inflight' \in SUBSET Desc /\ avail' \in [Desc -> Desc \cup {NoDesc}]
    BY <1>0, <1>1, <1>7, Zenon DEF VTypeOK, Head
  <2> QED
    BY <1>0, <1>2, <2>1, <2>2, Zenon DEF VTypeOK
<1>11. LockOK' /\ TransferOK'
  BY <1>0, <1>2, Zenon DEF LockOK, TransferOK, Unserved, Served
<1>12. DescOK' /\ FreeDescs' = FreeDescs
  <2>1. UNCHANGED <<driver, idx>>
    BY <1>1, Zenon
  <2> QED
    BY <1>0, <2>1, SameDesc, Zenon
<1>13. \A i \in Desc : Head(i) => Keep(i)
  BY <1>2, Zenon DEF Head, Keep
<1>14. UsedOK'
  BY <1>0, <1>2, <1>13, UsedSame, Zenon
<1>15. VNoLostWakeup'
  BY <1>0, <1>2, <1>12, Zenon DEF VNoLostWakeup
<1>16. \A j : Head(j) /\ Unserved(info[j]) => Head(j)' /\ Unserved(info[j])'
  BY <1>2, Zenon DEF Head, Unserved
<1>17. ASSUME NEW d \in 0..(NAvail' - 1)
       PROVE  Head(AvailAt(d))' /\ Unserved(info[AvailAt(d)])' /\ AvailAt(d)' \notin inflight'
  <2>1. PICK j : j = AvailAt(d + 1)
    BY Zenon
  <2>2. Head(j) /\ Unserved(info[j]) /\ j \notin inflight /\ j # h /\ AvailAt(d)' = j
    BY <1>0, <1>9, <2>1, Zenon DEF AvailOK
  <2>3. Head(j)' /\ Unserved(info[j])'
    BY <1>16, <2>2, Zenon
  <2> QED
    BY <1>1, <2>2, <2>3, Zenon
<1>18. ASSUME NEW d \in 0..(NAvail' - 1), NEW e \in 0..(NAvail' - 1), AvailAt(d)' = AvailAt(e)' PROVE d = e
  <2>1. AvailAt(d + 1) = AvailAt(e + 1) /\ d + 1 \in 0..(NAvail - 1) /\ e + 1 \in 0..(NAvail - 1)
    BY <1>9, <1>18, Zenon
  <2>2. d + 1 = e + 1
    BY <1>0, <2>1, Zenon DEF AvailOK
  <2> QED
    BY <2>2
<1>19. \A j \in inflight' : Head(j)' /\ Unserved(info[j])'
  BY <1>0, <1>1, <1>7, <1>16, Zenon DEF AvailOK
<1>20. (availidx \in {seen + NAvail, seen + NAvail - IdxMod})'
  BY <1>0, <1>2, <1>3, <1>4, <1>5, <1>8 DEF AvailOK, Desc
<1>21. (\A p \in Proc : vpc[p] = "notify" => avail[availidx % NUM] = idx[p])'
  <2>1. 0 \in Desc
    BY <1>4 DEF Desc
  <2>2. Slot(s, 0) = s /\ Slot(s, NAvail) # Slot(s, 0)
    BY <1>4, <1>5, <2>1 DEF Slot, Desc
  <2>3. avail'[availidx % NUM] = avail[availidx % NUM]
    BY <1>0, <1>1, <1>4, <2>2, Zenon DEF VTypeOK
  <2> QED
    BY <1>0, <1>2, <2>3, Zenon DEF AvailOK
<1>22. AvailOK'
  BY <1>17, <1>18, <1>19, <1>20, <1>21, Zenon DEF AvailOK
<1> QED
  BY <1>10, <1>11, <1>12, <1>14, <1>15, <1>22, Zenon DEF VInv

\* The device transfers the data and adds to the used ring: there is room.
LEMMA ServeVInv == ASSUME SetFacts, VirtioAssumption, VInv, NEW i \in Desc, dev_serve(i) PROVE VInv'
<1>0. VTypeOK /\ LockOK /\ DescOK /\ AvailOK /\ UsedOK /\ TransferOK /\ VNoLostWakeup
  BY Parts, Zenon
<1>1. i \in inflight /\ Head(i) /\ Unserved(info[i])
  BY <1>0, Zenon DEF AvailOK, dev_serve
<1>2. PICK p \in Proc : p = info[i]
  BY <1>1, Zenon DEF Head
<1>3. idx[p] = i /\ busy[p] = 1 /\ bdata[p] = 1 /\ medium[p] = 0 /\ vpc[p] \in {"sleep_b", "woken"}
  BY <1>1, <1>2, Zenon DEF Head, Unserved
<1>4. addr[next[i]] = p
  <2>1. p \in Waiting
    BY <1>0, <1>3, Zenon DEF Waiting, LockOK
  <2>2. ChainOK(p)
    BY <1>0, <2>1, Zenon DEF DescOK
  <2> QED
    BY <1>3, <2>2, Zenon DEF ChainOK
<1> DEFINE e == usedid % NUM
<1>5. /\ inflight' = inflight \ {i}
      /\ IF write[p] = 1
         THEN medium' = [medium EXCEPT ![p] = bdata[p]] /\ UNCHANGED bdata
         ELSE bdata' = [bdata EXCEPT ![p] = medium[p]] /\ UNCHANGED medium
      /\ elems' = [elems EXCEPT ![e] = i] /\ usedid' = (usedid + 1) % IdxMod /\ pend' = 1
      /\ UNCHANGED <<driver, ring, seen, used_idx, vlock, vpc, idx, write, busy, intr>>
  BY <1>4, Zenon DEF dev_serve
<1>6. /\ UNCHANGED free /\ UNCHANGED next /\ UNCHANGED addr /\ UNCHANGED info /\ UNCHANGED avail
      /\ UNCHANGED availidx /\ UNCHANGED seen /\ UNCHANGED vlock /\ UNCHANGED vpc
      /\ UNCHANGED used_idx /\ UNCHANGED idx /\ UNCHANGED write /\ UNCHANGED busy /\ UNCHANGED intr
  BY <1>5, Zenon DEF driver, ring
<1>7. /\ bdata' \in [Proc -> {0, 1}] /\ medium' \in [Proc -> {0, 1}]
      /\ bdata'[p] = write[p] /\ medium'[p] = write[p]
      /\ \A q \in Proc : q # p => bdata'[q] = bdata[q] /\ medium'[q] = medium[q]
  BY <1>0, <1>3, <1>5 DEF VTypeOK
<1>8. usedid \in 0..(IdxMod - 1) /\ usedid' = (IF usedid + 1 = IdxMod THEN 0 ELSE usedid + 1) /\ usedid' % NUM = Slot(e, 1)
  <2>1. usedid \in 0..(IdxMod - 1)
    BY <1>0, Zenon DEF VTypeOK
  <2> QED
    BY <1>5, <2>1, NextSlot, Zenon
<1>9. /\ NUM \in Nat \ {0} /\ IdxMod \in Nat \ {0} /\ used_idx \in Desc /\ e \in Desc /\ NUsed \in Desc
      /\ Slot(used_idx, NUsed) = e /\ NUsed = Dist(used_idx, e) /\ NUsed + 1 \in Desc
  BY <1>0, <1>1, RingFacts, UsedRoom, Zenon DEF NUsed
<1> HIDE DEF e
<1>10. VTypeOK'
  <2>1. usedid' \in 0..(IdxMod - 1)
    BY <1>8, <1>9
  <2>2. inflight' \in SUBSET Desc /\ elems' \in [Desc -> Desc \cup {NoDesc}] /\ pend' \in {0, 1}
    BY <1>0, <1>5, Zenon DEF VTypeOK
  <2> QED
    BY <1>0, <1>6, <1>7, <2>1, <2>2, Zenon DEF VTypeOK
<1>11. LockOK'
  BY <1>0, <1>6, Zenon DEF LockOK
<1>12. DescOK' /\ FreeDescs' = FreeDescs
  <2>1. UNCHANGED <<driver, idx>>
    BY <1>5, Zenon
  <2> QED
    BY <1>0, <2>1, SameDesc, Zenon
<1>13. VNoLostWakeup'
  BY <1>0, <1>6, <1>12, Zenon DEF VNoLostWakeup
<1>14. TransferOK'
  <2> SUFFICES ASSUME NEW q \in Proc
               PROVE  /\ vpc[q] = "idle" => bdata'[q] = 0 /\ medium'[q] = 0
                      /\ vpc[q] \in {"start", "sleep_free", "notify"} => bdata'[q] = 1 /\ medium'[q] = 0
                      /\ vpc[q] = "notify" => busy[q] = 1
                      /\ idx[q] # NoDesc /\ busy[q] = 0 => bdata'[q] = write[q] /\ medium'[q] = write[q]
    BY <1>6, Zenon DEF TransferOK, Unserved, Served
  <2>1. CASE q = p
    BY <1>3, <2>1
  <2>2. CASE q # p
    BY <1>0, <1>7, <2>2, Zenon DEF TransferOK, Unserved, Served
  <2> QED
    BY <2>1, <2>2, Zenon
<1>15. \A j : Head(j) /\ j # i => Keep(j)
  BY <1>3, <1>6, <1>7, Zenon DEF Head, Keep
<1>16. AvailOK'
  <2>1. \A d \in 0..(NAvail - 1) : AvailAt(d)' = AvailAt(d) /\ Keep(AvailAt(d))
    <3>1. \A d \in 0..(NAvail - 1) : Head(AvailAt(d)) /\ AvailAt(d) # i
      BY <1>0, <1>1, Zenon DEF AvailOK
    <3> QED
      BY <1>6, <1>15, <3>1, Zenon DEF AvailAt
  <2>2. inflight' \subseteq inflight /\ \A j \in inflight' : Keep(j)
    BY <1>0, <1>5, <1>15, Zenon DEF AvailOK
  <2>3. \A q \in Proc : vpc'[q] = "notify" => avail'[availidx % NUM] = idx'[q]
    BY <1>0, <1>6, Zenon DEF AvailOK
  <2> QED
    BY <1>0, <1>6, <2>1, <2>2, <2>3, AvailSame, Zenon
<1>17. NUsed' = NUsed + 1
  <2>1. Dist(used_idx, Slot(e, 1)) = Dist(used_idx, e) + 1
    BY <1>9 DEF Slot, Dist, Desc
  <2>2. NUsed' = Dist(used_idx', usedid' % NUM)
    BY Zenon DEF NUsed, Dist
  <2> QED
    BY <1>6, <1>8, <1>9, <2>1, <2>2, Zenon
<1>18. ASSUME NEW d \in 0..(NUsed' - 1)
       PROVE  \/ d \in 0..(NUsed - 1) /\ UsedAt(d)' = UsedAt(d) /\ Head(UsedAt(d)) /\ UsedAt(d) # i
              \/ d = NUsed /\ UsedAt(d)' = i
  <2>1. UsedAt(d)' = elems'[Slot(used_idx, d)]
    BY <1>6, Zenon DEF UsedAt
  <2>2. CASE d = NUsed
    BY <1>0, <1>5, <1>9, <2>1, <2>2, Zenon DEF VTypeOK
  <2>3. CASE d \in 0..(NUsed - 1)
    <3>1. Slot(used_idx, d) \in Desc /\ Slot(used_idx, d) # e
      BY <1>9, <2>3 DEF Slot, Desc
    <3>2. UsedAt(d)' = UsedAt(d)
      BY <1>0, <1>5, <2>1, <3>1, Zenon DEF VTypeOK, UsedAt
    <3>3. Head(UsedAt(d)) /\ Served(info[UsedAt(d)])
      BY <1>0, <2>3, Zenon DEF UsedOK
    <3>4. ~Served(info[i])
      BY <1>2, <1>3 DEF Served
    <3> QED
      BY <2>3, <3>2, <3>3, <3>4, Zenon
  <2> QED
    BY <1>9, <1>17, <2>2, <2>3 DEF Desc
<1>19. ASSUME NEW d \in 0..(NUsed' - 1) PROVE Head(UsedAt(d))' /\ Served(info[UsedAt(d)])'
  <2>1. CASE d \in 0..(NUsed - 1) /\ UsedAt(d)' = UsedAt(d) /\ Head(UsedAt(d)) /\ UsedAt(d) # i
    <3>1. PICK j : j = UsedAt(d)
      BY Zenon
    <3>2. Head(j) /\ Served(info[j]) /\ Keep(j) /\ UsedAt(d)' = j
      BY <1>0, <1>15, <2>1, <3>1, Zenon DEF UsedOK
    <3> QED
      BY <3>2, KeepHead, Zenon
  <2>2. CASE d = NUsed /\ UsedAt(d)' = i
    <3>1. Head(i)'
      BY <1>2, <1>3, <1>6, Zenon DEF Head
    <3>2. Served(info[i])'
      BY <1>2, <1>6, <1>7, Zenon DEF Served
    <3> QED
      BY <2>2, <3>1, <3>2, Zenon
  <2> QED
    BY <1>18, <2>1, <2>2, Zenon
<1>20. ASSUME NEW d \in 0..(NUsed' - 1), NEW c \in 0..(NUsed' - 1), UsedAt(d)' = UsedAt(c)' PROVE d = c
  BY <1>0, <1>18, <1>20, Zenon DEF UsedOK
<1>21. UsedOK'
  BY <1>19, <1>20, Zenon DEF UsedOK
<1> QED
  BY <1>10, <1>11, <1>12, <1>13, <1>14, <1>16, <1>21, Zenon DEF VInv

\* virtio_disk_intr takes the oldest entry of the used ring.
LEMMA StepVInv == ASSUME VirtioAssumption, VInv, intr_step PROVE VInv'
<1>0. VTypeOK /\ LockOK /\ DescOK /\ AvailOK /\ UsedOK /\ TransferOK /\ VNoLostWakeup
  BY Parts, Zenon
<1> DEFINE e == usedid % NUM
<1>1. /\ NUM \in Nat \ {0} /\ used_idx \in Desc /\ e \in Desc /\ NUsed \in Desc
      /\ Slot(used_idx, NUsed) = e /\ NUsed = Dist(used_idx, e) /\ (NUsed = 0 <=> used_idx = e)
  BY <1>0, RingFacts, Zenon DEF NUsed
<1>2. used_idx % NUM = used_idx /\ (used_idx + 1) % NUM = Slot(used_idx, 1)
  <2>1. PICK q \in Int, r \in 0..(NUM - 1) : used_idx = NUM * q + r /\ used_idx % NUM = r
    <3>1. used_idx \in Int
      BY <1>1 DEF Desc
    <3> QED
      BY <1>1, <3>1, Divided, Zenon
  <2>2. used_idx \in 0..(NUM - 1) /\ 0 \in Int /\ NUM * 0 + used_idx = NUM * q + r
    BY <1>1, <2>1 DEF Desc
  <2>3. used_idx = r
    BY <1>1, <2>2, OneRest, Zenon
  <2>4. used_idx + 1 \in Int
    BY <1>1 DEF Desc
  <2>5. PICK q2 \in Int, r2 \in 0..(NUM - 1) : used_idx + 1 = NUM * q2 + r2 /\ (used_idx + 1) % NUM = r2
    BY <1>1, <2>4, Divided, Zenon
  <2>6. CASE used_idx + 1 < NUM
    <3>1. used_idx + 1 \in 0..(NUM - 1) /\ NUM * 0 + (used_idx + 1) = NUM * q2 + r2
      BY <1>1, <2>5, <2>6 DEF Desc
    <3>2. used_idx + 1 = r2
      BY <1>1, <2>2, <3>1, OneRest, Zenon
    <3> QED
      BY <2>1, <2>3, <2>5, <2>6, <3>2, Zenon DEF Slot
  <2>7. CASE used_idx + 1 = NUM
    <3>1. 0 \in 0..(NUM - 1) /\ 1 \in Int /\ NUM * 1 + 0 = NUM * q2 + r2
      BY <1>1, <2>5, <2>7 DEF Desc
    <3>2. 0 = r2
      BY <1>1, <3>1, <2>5, OneRest, Zenon
    <3> QED
      BY <1>1, <2>1, <2>3, <2>5, <2>7, <3>2 DEF Slot
  <2> QED
    BY <1>1, <2>6, <2>7 DEF Desc
<1>3. NUsed # 0
  <2>1. used_idx % NUM # e
    BY Zenon DEF intr_step, More
  <2> QED
    BY <1>1, <1>2, <2>1, Zenon
<1> HIDE DEF e
<1>4. 0 \in 0..(NUsed - 1) /\ UsedAt(0) = elems[used_idx]
  BY <1>1, <1>3 DEF UsedAt, Slot, Desc
<1> DEFINE i == elems[used_idx]
<1>5. Head(i) /\ Served(info[i])
  BY <1>0, <1>4, Zenon DEF UsedOK
<1>6. PICK p \in Proc : p = info[i]
  BY <1>5, Zenon DEF Head
<1>7. idx[p] = i /\ i \in Desc /\ busy[p] = 1 /\ bdata[p] = write[p] /\ medium[p] = write[p] /\ vpc[p] \in {"sleep_b", "woken"}
  BY <1>5, <1>6, Zenon DEF Head, Served
<1>8. /\ busy' = [busy EXCEPT ![p] = 0]
      /\ vpc' = [vpc EXCEPT ![p] = IF vpc[p] = "sleep_b" THEN "woken" ELSE vpc[p]]
      /\ elems' = [elems EXCEPT ![used_idx] = NoDesc]
      /\ used_idx' = Slot(used_idx, 1)
      /\ UNCHANGED <<driver, ring, device, vlock, idx, write, contents, pend, intr>>
  BY <1>2, <1>6, Zenon DEF intr_step
<1>9. /\ UNCHANGED free /\ UNCHANGED next /\ UNCHANGED addr /\ UNCHANGED info /\ UNCHANGED avail
      /\ UNCHANGED availidx /\ UNCHANGED seen /\ UNCHANGED vlock /\ UNCHANGED inflight
      /\ UNCHANGED usedid /\ UNCHANGED idx /\ UNCHANGED write /\ UNCHANGED intr /\ UNCHANGED pend
      /\ UNCHANGED bdata /\ UNCHANGED medium
  BY <1>8, Zenon DEF driver, ring, device, contents
<1>10. /\ vpc' \in [Proc -> {"idle", "start", "sleep_free", "notify", "sleep_b", "woken"}]
       /\ busy' \in [Proc -> {0, 1}] /\ vpc'[p] = "woken" /\ busy'[p] = 0
       /\ \A q \in Proc : q # p => vpc'[q] = vpc[q] /\ busy'[q] = busy[q]
  BY <1>0, <1>7, <1>8, Zenon DEF VTypeOK
<1> HIDE DEF i
<1>11. VTypeOK'
  <2>1. used_idx' \in Desc
    BY <1>1, <1>8 DEF Slot, Desc
  <2>2. elems' \in [Desc -> Desc \cup {NoDesc}]
    BY <1>0, <1>8, Zenon DEF VTypeOK
  <2> QED
    BY <1>0, <1>9, <1>10, <2>1, <2>2, Zenon DEF VTypeOK
<1>12. LockOK'
  BY <1>0, <1>7, <1>9, <1>10, Zenon DEF LockOK
<1>13. DescOK' /\ FreeDescs' = FreeDescs
  <2>1. UNCHANGED <<driver, idx>>
    BY <1>8, Zenon
  <2> QED
    BY <1>0, <2>1, SameDesc, Zenon
<1>14. VNoLostWakeup'
  BY <1>0, <1>10, <1>13, Zenon DEF VNoLostWakeup
<1>15. TransferOK'
  BY <1>0, <1>7, <1>9, <1>10 DEF TransferOK, Unserved, Served
<1>16. \A j : Head(j) /\ j # i => Keep(j)
  BY <1>7, <1>9, <1>10, ZenonT(30) DEF Head, Keep
<1>17. ~Unserved(info[i])
  BY <1>6, <1>7 DEF Unserved
<1>18. AvailOK'
  <2>1. \A d \in 0..(NAvail - 1) : AvailAt(d)' = AvailAt(d) /\ Keep(AvailAt(d))
    <3>1. \A d \in 0..(NAvail - 1) : Head(AvailAt(d)) /\ AvailAt(d) # i
      BY <1>0, <1>17, Zenon DEF AvailOK
    <3> QED
      BY <1>9, <1>16, <3>1, Zenon DEF AvailAt
  <2>2. inflight' \subseteq inflight /\ \A j \in inflight' : Keep(j)
    BY <1>0, <1>9, <1>16, <1>17, Zenon DEF AvailOK
  <2>3. \A q \in Proc : vpc'[q] = "notify" => avail'[availidx % NUM] = idx'[q]
    BY <1>0, <1>9, <1>10, Zenon DEF AvailOK
  <2> QED
    BY <1>0, <1>9, <2>1, <2>2, <2>3, AvailSame, Zenon
<1>19. NUsed' = NUsed - 1
  <2>1. Dist(Slot(used_idx, 1), e) = Dist(used_idx, e) - 1
    BY <1>1, <1>3 DEF Slot, Dist, Desc
  <2>2. NUsed' = Dist(used_idx', usedid' % NUM)
    BY Zenon DEF NUsed, Dist
  <2> QED
    BY <1>1, <1>8, <1>9, <2>1, <2>2, Zenon DEF e
<1>20. ASSUME NEW d \in 0..(NUsed' - 1)
       PROVE  d + 1 \in 0..(NUsed - 1) /\ UsedAt(d)' = UsedAt(d + 1) /\ UsedAt(d + 1) # i
  <2>1. d + 1 \in 0..(NUsed - 1) /\ d + 1 # 0
    BY <1>1, <1>19 DEF Desc
  <2>2. Slot(Slot(used_idx, 1), d) = Slot(used_idx, d + 1) /\ Slot(used_idx, d + 1) # used_idx /\ Slot(used_idx, d + 1) \in Desc
    BY <1>1, <2>1 DEF Slot, Desc
  <2>3. UsedAt(d)' = elems'[Slot(used_idx', d)]
    BY Zenon DEF UsedAt, Slot
  <2>4. UsedAt(d)' = elems'[Slot(used_idx, d + 1)]
    BY <1>8, <2>2, <2>3, Zenon
  <2>5. elems'[Slot(used_idx, d + 1)] = elems[Slot(used_idx, d + 1)]
    BY <1>0, <1>8, <2>2, Zenon DEF VTypeOK
  <2>6. UsedAt(d + 1) # UsedAt(0)
    BY <1>0, <1>4, <2>1, Zenon DEF UsedOK
  <2> QED
    BY <1>4, <2>1, <2>4, <2>5, <2>6, Zenon DEF UsedAt, i
<1>21. ASSUME NEW d \in 0..(NUsed' - 1) PROVE Head(UsedAt(d))' /\ Served(info[UsedAt(d)])'
  <2>1. PICK j : j = UsedAt(d + 1)
    BY Zenon
  <2>2. Head(j) /\ Served(info[j]) /\ Keep(j) /\ UsedAt(d)' = j
    BY <1>0, <1>16, <1>20, <2>1, Zenon DEF UsedOK
  <2> QED
    BY <2>2, KeepHead, Zenon
<1>22. ASSUME NEW d \in 0..(NUsed' - 1), NEW c \in 0..(NUsed' - 1), UsedAt(d)' = UsedAt(c)' PROVE d = c
  <2>1. UsedAt(d + 1) = UsedAt(c + 1) /\ d + 1 \in 0..(NUsed - 1) /\ c + 1 \in 0..(NUsed - 1)
    BY <1>20, <1>22, Zenon
  <2>2. d + 1 = c + 1
    BY <1>0, <2>1, Zenon DEF UsedOK
  <2> QED
    BY <2>2
<1>23. UsedOK'
  BY <1>21, <1>22, Zenon DEF UsedOK
<1> QED
  BY <1>11, <1>12, <1>13, <1>14, <1>15, <1>18, <1>23, Zenon DEF VInv

\* A request that takes three descriptors.
LEMMA FormatVInv == ASSUME SetFacts, VirtioAssumption, VInv, NEW p \in Proc, rw_format(p) PROVE VInv'
<1>0. VTypeOK /\ LockOK /\ DescOK /\ AvailOK /\ UsedOK /\ TransferOK /\ VNoLostWakeup
  BY Parts, Zenon
<1>1. PICK i \in FreeDescs, j \in FreeDescs, k \in FreeDescs :
        /\ i # j /\ i # k /\ j # k
        /\ i = alloc_desc(0) /\ j = alloc_desc(1) /\ k = alloc_desc(2)
  <2>1. Cardinality(FreeDescs) >= 3
    BY Zenon DEF rw_format
  <2> QED
    BY <2>1, AllocDesc, Zenon
<1>2. /\ vpc[p] = "start" /\ vlock = Nobody
      /\ free' = [free EXCEPT ![i] = 0, ![j] = 0, ![k] = 0]
      /\ next' = [next EXCEPT ![i] = j, ![j] = k, ![k] = NoDesc]
      /\ addr' = [addr EXCEPT ![i] = p, ![j] = p, ![k] = p]
      /\ info' = [info EXCEPT ![i] = p] /\ idx' = [idx EXCEPT ![p] = i]
      /\ avail' = [avail EXCEPT ![availidx % NUM] = i]
      /\ busy' = [busy EXCEPT ![p] = 1] /\ vlock' = p /\ vpc' = [vpc EXCEPT ![p] = "notify"]
      /\ UNCHANGED <<availidx, elems, device, used_idx, write, contents, pend, intr>>
  BY <1>1, Zenon DEF rw_format
<1>3. /\ UNCHANGED availidx /\ UNCHANGED elems /\ UNCHANGED usedid /\ UNCHANGED seen /\ UNCHANGED inflight
      /\ UNCHANGED used_idx /\ UNCHANGED write /\ UNCHANGED bdata /\ UNCHANGED medium
      /\ UNCHANGED pend /\ UNCHANGED intr
  BY <1>2, Zenon DEF device, contents
<1>4. i \in Desc /\ j \in Desc /\ k \in Desc /\ free[i] = 1 /\ free[j] = 1 /\ free[k] = 1
  BY <1>1, Zenon DEF FreeDescs
<1>5. /\ free' \in [Desc -> {0, 1}] /\ free'[i] = 0 /\ free'[j] = 0 /\ free'[k] = 0
      /\ \A n \in Desc : n # i /\ n # j /\ n # k => free'[n] = free[n]
  BY <1>0, <1>1, <1>2, <1>4, Zenon DEF VTypeOK
<1>6. /\ next' \in [Desc -> Desc \cup {NoDesc}] /\ next'[i] = j /\ next'[j] = k
      /\ \A n \in Desc : n # i /\ n # j /\ n # k => next'[n] = next[n]
  BY <1>0, <1>1, <1>2, <1>4, Zenon DEF VTypeOK
<1>7. /\ addr' \in [Desc -> Proc \cup {Nobody}] /\ addr'[i] = p /\ addr'[j] = p /\ addr'[k] = p
      /\ \A n \in Desc : n # i /\ n # j /\ n # k => addr'[n] = addr[n]
  BY <1>0, <1>1, <1>2, <1>4, Zenon DEF VTypeOK
<1>8. /\ info' \in [Desc -> Proc \cup {Nobody}] /\ info'[i] = p
      /\ \A n \in Desc : n # i => info'[n] = info[n]
  BY <1>0, <1>2, <1>4, Zenon DEF VTypeOK
<1>9. /\ idx' \in [Proc -> Desc \cup {NoDesc}] /\ idx'[p] = i /\ idx[p] = NoDesc /\ i # NoDesc
      /\ \A q \in Proc : q # p => idx'[q] = idx[q]
  <2>1. i # NoDesc
    BY <1>4, Sizes DEF Desc, NoDesc
  <2>2. idx[p] = NoDesc
    BY <1>0, <1>2, Zenon DEF LockOK
  <2> QED
    BY <1>0, <1>2, <1>4, <2>1, <2>2, Zenon DEF VTypeOK
<1>10. /\ busy' \in [Proc -> {0, 1}] /\ busy'[p] = 1
       /\ vpc' \in [Proc -> {"idle", "start", "sleep_free", "notify", "sleep_b", "woken"}] /\ vpc'[p] = "notify"
       /\ \A q \in Proc : q # p => busy'[q] = busy[q] /\ vpc'[q] = vpc[q]
  BY <1>0, <1>2, Zenon DEF VTypeOK
<1>11. availidx % NUM \in Desc /\ avail' \in [Desc -> Desc \cup {NoDesc}] /\ avail'[availidx % NUM] = i
  <2>1. availidx % NUM \in Desc
    BY <1>0, RingFacts, Zenon
  <2> QED
    BY <1>0, <1>2, <1>4, <2>1, Zenon DEF VTypeOK
<1>12. VTypeOK'
  <2>1. vlock' \in Proc \cup {Nobody, "intr"}
    BY <1>2, Zenon
  <2> QED
    BY <1>0, <1>3, <1>5, <1>6, <1>7, <1>8, <1>9, <1>10, <1>11, <2>1, Zenon DEF VTypeOK
<1>13. LockOK'
  <2>1. \A q \in Proc : idx'[q] # NoDesc <=> vpc'[q] \in {"notify", "sleep_b", "woken"}
    BY <1>0, <1>9, <1>10 DEF LockOK
  <2>2. \A q \in Proc : vpc'[q] = "notify" <=> vlock' = q
    BY <1>0, <1>2, <1>10, Zenon DEF LockOK, VirtioAssumption
  <2>3. vlock' = "intr" <=> intr' = "loop"
    BY <1>0, <1>2, <1>3, Zenon DEF LockOK, VirtioAssumption
  <2> QED
    BY <2>1, <2>2, <2>3, Zenon DEF LockOK
<1>14. p \notin Waiting /\ Waiting' = Waiting \cup {p}
  BY <1>9, Zenon DEF Waiting
<1>15. FreeDescs' = ((FreeDescs \ {i}) \ {j}) \ {k}
  BY <1>1, <1>4, <1>5, Zenon DEF FreeDescs
<1>16. ASSUME NEW q \in Waiting PROVE ChainOK(q) /\ idx[q] \in Desc /\ q \in Proc /\ q # p
  BY <1>0, <1>9, <1>14, Zenon DEF DescOK, Waiting, VTypeOK
<1>17. ASSUME NEW q \in Waiting, NEW n \in Desc, free[n] = 0
       PROVE  /\ free'[n] = 0 /\ next'[n] = next[n] /\ addr'[n] = addr[n] /\ info'[n] = info[n]
  BY <1>4, <1>5, <1>6, <1>7, <1>8, <1>17
<1>18. ASSUME NEW q \in Waiting PROVE ChainOK(q)' /\ Chain(idx[q])' = Chain(idx[q])
  <2>1. PICK a \in Desc, b \in Desc, c \in Desc :
          /\ a = idx[q] /\ b = next[a] /\ c = next[b] /\ a # b /\ a # c /\ b # c
          /\ free[a] = 0 /\ free[b] = 0 /\ free[c] = 0
          /\ addr[a] = q /\ addr[b] = q /\ addr[c] = q /\ info[a] = q
    BY <1>0, Links, Zenon
  <2>2. idx'[q] = a
    BY <1>9, <1>16, <2>1, Zenon
  <2>3. next'[a] = b /\ next'[b] = c
    BY <1>17, <2>1, Zenon
  <2>4. free'[a] = 0 /\ free'[b] = 0 /\ free'[c] = 0 /\ addr'[a] = q /\ addr'[b] = q /\ addr'[c] = q /\ info'[a] = q
    BY <1>17, <2>1, Zenon
  <2> QED
    BY <2>1, <2>2, <2>3, <2>4, Zenon DEF ChainOK, Chain
<1>19. ChainOK(p)' /\ Chain(idx[p])' = {i, j, k}
  <2>1. idx'[p] = i /\ next'[i] = j /\ next'[j] = k
    BY <1>6, <1>9, Zenon
  <2>2. (Chain(idx[p]) = {i, j, k})'
    BY <2>1, Zenon DEF Chain
  <2>3. /\ i # j /\ i # k /\ j # k /\ j \in Desc /\ k \in Desc
        /\ free'[i] = 0 /\ free'[j] = 0 /\ free'[k] = 0
        /\ addr'[i] = p /\ addr'[j] = p /\ addr'[k] = p /\ info'[i] = p
    BY <1>1, <1>4, <1>5, <1>7, <1>8, Zenon
  <2>4. ChainOK(p)'
    BY <2>1, <2>3, Zenon DEF ChainOK
  <2> QED
    BY <2>2, <2>4, Zenon
<1>20. ASSUME NEW n \in Desc, free'[n] = 0 PROVE (addr[n] \in Waiting /\ n \in Chain(idx[addr[n]]))'
  <2>1. CASE n \in {i, j, k}
    <3>1. addr'[n] = p /\ p \in Waiting' /\ n \in Chain(idx[p])'
      BY <1>7, <1>14, <1>19, <2>1, Zenon
    <3> QED
      BY <3>1, Zenon
  <2>2. CASE n \notin {i, j, k}
    <3>1. free[n] = 0 /\ addr'[n] = addr[n]
      BY <1>5, <1>7, <1>20, <2>2, Zenon
    <3>2. addr[n] \in Waiting /\ n \in Chain(idx[addr[n]])
      BY <1>0, <3>1, Zenon DEF DescOK
    <3>3. PICK q \in Waiting : q = addr[n]
      BY <3>2, Zenon
    <3>4. n \in Chain(idx[q])'
      BY <1>18, <3>2, <3>3, Zenon
    <3> QED
      BY <1>14, <3>1, <3>3, <3>4, Zenon
  <2> QED
    BY <2>1, <2>2, Zenon
<1>21. IsFiniteSet(Waiting') /\ Cardinality(Waiting') = Cardinality(Waiting) + 1 /\ Cardinality(Waiting) \in Nat
  <2>1. IsFiniteSet(Waiting)
    BY <1>0, Zenon DEF DescOK
  <2> QED
    BY <1>14, <2>1, SetAddElement, SetCardinalityType, Zenon
<1>22. Cardinality(FreeDescs') = Cardinality(FreeDescs) - 3 /\ Cardinality(FreeDescs) \in Nat
  <2> DEFINE F == FreeDescs  F1 == F \ {i}  F2 == F1 \ {j}
  <2>0. IsFiniteSet(F) /\ Cardinality(F) \in Nat
    BY FreeFinite, Zenon
  <2>1. IsFiniteSet(F1) /\ Cardinality(F1) = Cardinality(F) - 1
    BY <1>1, <2>0, SetRemoveElement, Zenon
  <2>2. j \in F1
    BY <1>1, Zenon
  <2>3. IsFiniteSet(F2) /\ Cardinality(F2) = Cardinality(F1) - 1
    <3> HIDE DEF F1
    <3> QED
      BY <2>1, <2>2, SetRemoveElement, Zenon
  <2>4. k \in F2
    BY <1>1, Zenon
  <2>5. Cardinality(F2 \ {k}) = Cardinality(F2) - 1
    <3> HIDE DEF F2
    <3> QED
      BY <2>3, <2>4, SetRemoveElement, Zenon
  <2>6. FreeDescs' = F2 \ {k}
    BY <1>15, Zenon
  <2> HIDE DEF F, F1, F2
  <2> QED
    BY <2>0, <2>1, <2>3, <2>5, <2>6 DEF F
<1>23. DescOK'
  <2>1. \A q \in Waiting' : ChainOK(q)'
    BY <1>14, <1>18, <1>19, Zenon
  <2>2. Cardinality(FreeDescs') + 3 * Cardinality(Waiting') = NUM
    BY <1>0, <1>21, <1>22, Sizes DEF DescOK
  <2> QED
    BY <1>20, <1>21, <2>1, <2>2, Zenon DEF DescOK
<1>24. \A n \in Desc : Head(n) => Keep(n)
  <2> SUFFICES ASSUME NEW n \in Desc, Head(n) PROVE Keep(n)
    BY Zenon
  <2>1. PICK q \in Proc : q = info[n]
    BY Zenon DEF Head
  <2>2. idx[q] = n /\ busy[q] = 1 /\ vpc[q] \in {"sleep_b", "woken"}
    BY <2>1, Zenon DEF Head
  <2>3. q # p
    BY <1>2, <2>2, Zenon
  <2>4. n # i
    <3>1. q \in Waiting
      BY <1>0, <2>2, Zenon DEF LockOK, Waiting
    <3>2. free[n] = 0
      BY <1>16, <2>2, <3>1, Zenon DEF ChainOK
    <3> QED
      BY <1>4, <3>2
  <2> QED
    BY <1>3, <1>8, <1>9, <1>10, <2>1, <2>2, <2>3, <2>4, Zenon DEF Keep
<1>25. AvailOK' /\ UsedOK'
  <2>1. ASSUME NEW d \in 0..(NAvail - 1) PROVE AvailAt(d)' = AvailAt(d) /\ Keep(AvailAt(d))
    <3>1. /\ NUM \in Nat \ {0} /\ seen % NUM \in Desc /\ NAvail \in Desc /\ Slot(seen % NUM, NAvail) = availidx % NUM
      BY <1>0, RingFacts, Zenon
    <3>2. PICK s \in Desc : s = seen % NUM
      BY <3>1, Zenon
    <3>3. Slot(s, d) # Slot(s, NAvail) /\ Slot(s, d) \in Desc
      BY <3>1, <3>2 DEF Slot, Desc
    <3>4. AvailAt(d)' = avail'[Slot(s, d)] /\ AvailAt(d) = avail[Slot(s, d)]
      BY <1>3, <3>2, Zenon DEF AvailAt
    <3>5. Head(AvailAt(d))
      BY <1>0, Zenon DEF AvailOK
    <3>6. AvailAt(d) \in Desc
      BY <3>5, Zenon DEF Head
    <3>7. avail'[Slot(s, d)] = avail[Slot(s, d)]
      BY <1>0, <1>2, <3>1, <3>2, <3>3, Zenon DEF VTypeOK
    <3> QED
      BY <1>24, <3>4, <3>5, <3>6, <3>7, Zenon
  <2>2. \A q \in Proc : vpc'[q] = "notify" => avail'[availidx % NUM] = idx'[q]
    <3>1. \A q \in Proc : vpc'[q] = "notify" => q = p
      BY <1>0, <1>2, <1>10, Zenon DEF LockOK, VirtioAssumption
    <3> QED
      BY <1>9, <1>11, <3>1, Zenon
  <2>3. inflight' \subseteq inflight /\ \A n \in inflight' : Keep(n)
    BY <1>0, <1>3, <1>24, Zenon DEF AvailOK, Head
  <2>4. AvailOK'
    BY <1>0, <1>3, <2>1, <2>2, <2>3, AvailSame, Zenon
  <2> QED
    BY <1>0, <1>3, <1>24, <2>4, UsedSame, Zenon
<1>26. TransferOK'
  <2> SUFFICES ASSUME NEW q \in Proc
               PROVE  /\ vpc'[q] = "idle" => bdata'[q] = 0 /\ medium'[q] = 0
                      /\ vpc'[q] \in {"start", "sleep_free", "notify"} => bdata'[q] = 1 /\ medium'[q] = 0
                      /\ vpc'[q] = "notify" => busy'[q] = 1
                      /\ idx'[q] # NoDesc /\ busy'[q] = 0 => bdata'[q] = write'[q] /\ medium'[q] = write'[q]
    BY Zenon DEF TransferOK, Unserved, Served
  <2>1. /\ vpc[q] = "idle" => bdata[q] = 0 /\ medium[q] = 0
        /\ vpc[q] \in {"start", "sleep_free", "notify"} => bdata[q] = 1 /\ medium[q] = 0
        /\ vpc[q] = "notify" => busy[q] = 1
        /\ idx[q] # NoDesc /\ busy[q] = 0 => bdata[q] = write[q] /\ medium[q] = write[q]
    BY <1>0, Zenon DEF TransferOK, Unserved, Served
  <2>2. CASE q = p
    BY <1>2, <1>3, <1>9, <1>10, <2>1, <2>2
  <2>3. CASE q # p
    BY <1>3, <1>9, <1>10, <2>1, <2>3, Zenon
  <2> QED
    BY <2>2, <2>3, Zenon
<1>27. VNoLostWakeup'
  <2>1. Cardinality(FreeDescs)' < Cardinality(FreeDescs) /\ Cardinality(FreeDescs)' \in Int
    BY <1>22
  <2>2. ASSUME NEW q \in Proc, vpc'[q] = "sleep_free" PROVE Cardinality(FreeDescs)' < 3
    <3>1. q # p /\ vpc[q] = "sleep_free"
      BY <1>10, <2>2, Zenon
    <3>2. Cardinality(FreeDescs) < 3
      BY <1>0, <3>1, Zenon DEF VNoLostWakeup
    <3> QED
      BY <1>22, <2>1, <3>2
  <2>3. \A q \in Proc : vpc'[q] = "sleep_b" => busy'[q] = 1
    BY <1>0, <1>10, Zenon DEF VNoLostWakeup
  <2> QED
    BY <2>2, <2>3, Zenon DEF VNoLostWakeup
<1> QED
  BY <1>12, <1>13, <1>23, <1>25, <1>26, <1>27, Zenon DEF VInv

\* A request that gives its three descriptors back.
LEMMA ReturnVInv == ASSUME SetFacts, VirtioAssumption, VInv, NEW p \in Proc, rw_return(p) PROVE VInv'
<1>0. VTypeOK /\ LockOK /\ DescOK /\ AvailOK /\ UsedOK /\ TransferOK /\ VNoLostWakeup
  BY Parts, Zenon
<1>1. vpc[p] = "woken" /\ vlock = Nobody /\ busy[p] = 0
  BY Zenon DEF rw_return, Done
<1>2. p \in Waiting /\ idx[p] # NoDesc /\ idx[p] \in Desc /\ ChainOK(p)
  BY <1>0, <1>1, Zenon DEF LockOK, Waiting, DescOK, VTypeOK
<1>3. PICK i \in Desc, j \in Desc, k \in Desc :
        /\ i = idx[p] /\ j = next[i] /\ k = next[j] /\ i # j /\ i # k /\ j # k
        /\ free[i] = 0 /\ free[j] = 0 /\ free[k] = 0
        /\ addr[i] = p /\ addr[j] = p /\ addr[k] = p /\ info[i] = p
  BY <1>0, <1>2, Links, Zenon
<1>4. free_chain(idx[p]) = {i, j, k}
  BY <1>3, Zenon DEF free_chain, Chain
<1>5. {i, j, k} \cap FreeDescs = {}
  BY <1>3 DEF FreeDescs
<1> DEFINE f == WakeFree(vpc)
<1>6. /\ info' = [info EXCEPT ![i] = Nobody]
      /\ free' = [n \in Desc |-> IF n \in {i, j, k} THEN 1 ELSE free[n]]
      /\ addr' = [n \in Desc |-> IF n \in {i, j, k} THEN Nobody ELSE addr[n]]
      /\ next' = [n \in Desc |-> IF n \in {i, j, k} THEN NoDesc ELSE next[n]]
      /\ idx' = [idx EXCEPT ![p] = NoDesc]
      /\ write' = [write EXCEPT ![p] = 0] /\ bdata' = [bdata EXCEPT ![p] = 0] /\ medium' = [medium EXCEPT ![p] = 0]
      /\ vpc' = [f EXCEPT ![p] = "idle"]
      /\ UNCHANGED <<ring, elems, device, used_idx, vlock, busy, pend, intr>>
  BY <1>3, <1>4, <1>5, Zenon DEF rw_return, Forget
<1>7. /\ UNCHANGED avail /\ UNCHANGED availidx /\ UNCHANGED elems /\ UNCHANGED usedid /\ UNCHANGED seen
      /\ UNCHANGED inflight /\ UNCHANGED used_idx /\ UNCHANGED vlock /\ UNCHANGED busy
      /\ UNCHANGED pend /\ UNCHANGED intr
  BY <1>6, Zenon DEF ring, device
<1>8. /\ f \in [Proc -> {"idle", "start", "sleep_free", "notify", "sleep_b", "woken"}]
      /\ \A q \in Proc : IF vpc[q] = "sleep_free" THEN f[q] = "start" ELSE f[q] = vpc[q]
  BY <1>0, Zenon DEF WakeFree, VTypeOK
<1> HIDE DEF f
<1>9. /\ vpc' \in [Proc -> {"idle", "start", "sleep_free", "notify", "sleep_b", "woken"}] /\ vpc'[p] = "idle"
      /\ \A q \in Proc : q # p => IF vpc[q] = "sleep_free" THEN vpc'[q] = "start" ELSE vpc'[q] = vpc[q]
  BY <1>6, <1>8
<1>10. /\ write' \in [Proc -> {0, 1}] /\ bdata' \in [Proc -> {0, 1}] /\ medium' \in [Proc -> {0, 1}]
       /\ bdata'[p] = 0 /\ medium'[p] = 0
       /\ \A q \in Proc : q # p => write'[q] = write[q] /\ bdata'[q] = bdata[q] /\ medium'[q] = medium[q]
  BY <1>0, <1>6, Zenon DEF VTypeOK
<1>11. /\ idx' \in [Proc -> Desc \cup {NoDesc}] /\ idx'[p] = NoDesc
       /\ \A q \in Proc : q # p => idx'[q] = idx[q]
  BY <1>0, <1>6, Zenon DEF VTypeOK
<1>12. /\ free' \in [Desc -> {0, 1}] /\ free'[i] = 1 /\ free'[j] = 1 /\ free'[k] = 1
       /\ addr' \in [Desc -> Proc \cup {Nobody}] /\ next' \in [Desc -> Desc \cup {NoDesc}]
       /\ \A n \in Desc : n \notin {i, j, k} => free'[n] = free[n] /\ addr'[n] = addr[n] /\ next'[n] = next[n]
  BY <1>0, <1>6, Zenon DEF VTypeOK
<1>13. info' \in [Desc -> Proc \cup {Nobody}] /\ \A n \in Desc : n # i => info'[n] = info[n]
  BY <1>0, <1>6, Zenon DEF VTypeOK
<1>14. VTypeOK'
  BY <1>0, <1>7, <1>9, <1>10, <1>11, <1>12, <1>13, Zenon DEF VTypeOK
<1>15. LockOK'
  <2>1. \A q \in Proc : idx'[q] # NoDesc <=> vpc'[q] \in {"notify", "sleep_b", "woken"}
    BY <1>0, <1>9, <1>11, Zenon DEF LockOK
  <2>2. \A q \in Proc : vpc'[q] = "notify" <=> vlock' = q
    BY <1>0, <1>1, <1>7, <1>9, Zenon DEF LockOK, VirtioAssumption
  <2> QED
    BY <1>0, <1>7, <2>1, <2>2, Zenon DEF LockOK
<1>16. Waiting' = Waiting \ {p}
  BY <1>11, Zenon DEF Waiting
<1>17. FreeDescs' = ((FreeDescs \cup {i}) \cup {j}) \cup {k}
  <2>1. \A n \in Desc : free'[n] = 1 <=> free[n] = 1 \/ n = i \/ n = j \/ n = k
    BY <1>12, Zenon
  <2> QED
    BY <2>1, Zenon DEF FreeDescs
<1>18. ASSUME NEW q \in Waiting, q # p PROVE ChainOK(q)' /\ Chain(idx[q])' = Chain(idx[q])
  <2>1. ChainOK(q) /\ idx[q] \in Desc /\ q \in Proc
    <3>1. q \in Proc /\ idx[q] # NoDesc
      BY Zenon DEF Waiting
    <3> QED
      BY <1>0, <3>1, Zenon DEF DescOK, VTypeOK
  <2>2. PICK a \in Desc, b \in Desc, c \in Desc :
          /\ a = idx[q] /\ b = next[a] /\ c = next[b] /\ a # b /\ a # c /\ b # c
          /\ free[a] = 0 /\ free[b] = 0 /\ free[c] = 0
          /\ addr[a] = q /\ addr[b] = q /\ addr[c] = q /\ info[a] = q
    BY <1>0, Links, Zenon
  <2>3. a \notin {i, j, k} /\ b \notin {i, j, k} /\ c \notin {i, j, k} /\ a # i
    BY <1>3, <1>18, <2>2, Zenon
  <2>4. idx'[q] = a
    BY <1>11, <1>18, <2>1, <2>2, Zenon
  <2>5. next'[a] = b /\ next'[b] = c
    BY <1>12, <2>2, <2>3, Zenon
  <2>6. free'[a] = 0 /\ free'[b] = 0 /\ free'[c] = 0 /\ addr'[a] = q /\ addr'[b] = q /\ addr'[c] = q /\ info'[a] = q
    BY <1>12, <1>13, <2>2, <2>3, Zenon
  <2> QED
    BY <2>2, <2>4, <2>5, <2>6 DEF ChainOK, Chain
<1>19. ASSUME NEW n \in Desc, free'[n] = 0 PROVE (addr[n] \in Waiting /\ n \in Chain(idx[addr[n]]))'
  <2>1. n \notin {i, j, k}
    BY <1>12, <1>19
  <2>2. free[n] = 0 /\ addr'[n] = addr[n]
    BY <1>12, <1>19, <2>1, Zenon
  <2>3. addr[n] \in Waiting /\ n \in Chain(idx[addr[n]])
    BY <1>0, <2>2, Zenon DEF DescOK
  <2>4. PICK q \in Waiting : q = addr[n]
    BY <2>3, Zenon
  <2>5. q # p
    BY <1>3, <2>1, <2>3, <2>4, Zenon DEF Chain
  <2>6. n \in Chain(idx[q])' /\ q \in Waiting'
    BY <1>16, <1>18, <2>3, <2>4, <2>5, Zenon
  <2> QED
    BY <2>2, <2>4, <2>6, Zenon
<1>20. IsFiniteSet(Waiting') /\ Cardinality(Waiting') = Cardinality(Waiting) - 1 /\ Cardinality(Waiting) \in Nat
  <2>1. IsFiniteSet(Waiting)
    BY <1>0, Zenon DEF DescOK
  <2> QED
    BY <1>2, <1>16, <2>1, SetRemoveElement, SetCardinalityType, Zenon
<1>21. Cardinality(FreeDescs') = Cardinality(FreeDescs) + 3 /\ Cardinality(FreeDescs) \in Nat
  <2> DEFINE F == FreeDescs  F1 == F \cup {i}  F2 == F1 \cup {j}
  <2>0. IsFiniteSet(F) /\ Cardinality(F) \in Nat /\ i \notin F /\ j \notin F /\ k \notin F
    BY <1>5, FreeFinite, Zenon
  <2>1. IsFiniteSet(F1) /\ Cardinality(F1) = Cardinality(F) + 1
    BY <2>0, SetAddElement, Zenon
  <2>2. j \notin F1
    BY <1>3, <2>0, Zenon
  <2>3. IsFiniteSet(F2) /\ Cardinality(F2) = Cardinality(F1) + 1
    <3> HIDE DEF F1
    <3> QED
      BY <2>1, <2>2, SetAddElement, Zenon
  <2>4. k \notin F2
    BY <1>3, <2>0, Zenon
  <2>5. Cardinality(F2 \cup {k}) = Cardinality(F2) + 1
    <3> HIDE DEF F2
    <3> QED
      BY <2>3, <2>4, SetAddElement, Zenon
  <2>6. FreeDescs' = F2 \cup {k}
    BY <1>17, Zenon
  <2> HIDE DEF F, F1, F2
  <2> QED
    BY <2>0, <2>1, <2>3, <2>5, <2>6 DEF F
<1>22. DescOK'
  <2>1. \A q \in Waiting' : ChainOK(q)'
    BY <1>16, <1>18, Zenon
  <2>2. Cardinality(FreeDescs') + 3 * Cardinality(Waiting') = NUM
    BY <1>0, <1>20, <1>21, Sizes DEF DescOK
  <2> QED
    BY <1>19, <1>20, <2>1, <2>2, Zenon DEF DescOK
<1>23. \A n \in Desc : Head(n) => Keep(n)
  <2> SUFFICES ASSUME NEW n \in Desc, Head(n) PROVE Keep(n)
    BY Zenon
  <2>1. PICK q \in Proc : q = info[n]
    BY Zenon DEF Head
  <2>2. idx[q] = n /\ busy[q] = 1 /\ vpc[q] \in {"sleep_b", "woken"}
    BY <2>1, Zenon DEF Head
  <2>3. q # p
    BY <1>1, <2>2
  <2>4. n # i
    BY <1>3, <2>1, <2>3, Zenon
  <2> QED
    BY <1>7, <1>9, <1>10, <1>11, <1>13, <2>1, <2>2, <2>3, <2>4, Zenon DEF Keep
<1>24. AvailOK' /\ UsedOK'
  <2>1. \A d \in 0..(NAvail - 1) : AvailAt(d)' = AvailAt(d) /\ Keep(AvailAt(d))
    BY <1>0, <1>7, <1>23, Zenon DEF AvailAt, AvailOK, Head
  <2>2. \A q \in Proc : vpc'[q] = "notify" => avail'[availidx % NUM] = idx'[q]
    BY <1>0, <1>1, <1>9, Zenon DEF LockOK, VirtioAssumption
  <2>3. inflight' \subseteq inflight /\ \A n \in inflight' : Keep(n)
    BY <1>0, <1>7, <1>23, Zenon DEF AvailOK, Head
  <2>4. AvailOK'
    BY <1>0, <1>7, <2>1, <2>2, <2>3, AvailSame, Zenon
  <2> QED
    BY <1>0, <1>7, <1>23, <2>4, UsedSame, Zenon
<1>25. TransferOK'
  <2> SUFFICES ASSUME NEW q \in Proc
               PROVE  /\ vpc'[q] = "idle" => bdata'[q] = 0 /\ medium'[q] = 0
                      /\ vpc'[q] \in {"start", "sleep_free", "notify"} => bdata'[q] = 1 /\ medium'[q] = 0
                      /\ vpc'[q] = "notify" => busy'[q] = 1
                      /\ idx'[q] # NoDesc /\ busy'[q] = 0 => bdata'[q] = write'[q] /\ medium'[q] = write'[q]
    BY Zenon DEF TransferOK, Unserved, Served
  <2>1. /\ vpc[q] = "idle" => bdata[q] = 0 /\ medium[q] = 0
        /\ vpc[q] \in {"start", "sleep_free", "notify"} => bdata[q] = 1 /\ medium[q] = 0
        /\ vpc[q] = "notify" => busy[q] = 1
        /\ idx[q] # NoDesc /\ busy[q] = 0 => bdata[q] = write[q] /\ medium[q] = write[q]
    BY <1>0, Zenon DEF TransferOK, Unserved, Served
  <2>2. CASE q = p
    BY <1>9, <1>10, <1>11, <2>2, Zenon
  <2>3. CASE q # p
    BY <1>7, <1>9, <1>10, <1>11, <2>1, <2>3, Zenon
  <2> QED
    BY <2>2, <2>3, Zenon
<1>26. VNoLostWakeup'
  <2>1. \A q \in Proc : vpc'[q] # "sleep_free"
    BY <1>9, Zenon
  <2>2. \A q \in Proc : vpc'[q] = "sleep_b" => busy'[q] = 1
    BY <1>0, <1>7, <1>9, Zenon DEF VNoLostWakeup
  <2> QED
    BY <2>1, <2>2, Zenon DEF VNoLostWakeup
<1> QED
  BY <1>14, <1>15, <1>22, <1>24, <1>25, <1>26, Zenon DEF VInv

-----------------------------------------------------------------------------
(* The invariant, and what it implies.                                     *)

\* After virtio_disk_init.
LEMMA InitVInv == ASSUME SetFacts, VirtioAssumption, VInit PROVE VInv
<1>0. NUM \in Nat \ {0} /\ IdxMod \in Nat \ {0}
  BY Sizes, Zenon
<1>1. /\ free = [i \in Desc |-> 1] /\ next = [i \in Desc |-> NoDesc] /\ addr = [i \in Desc |-> Nobody]
      /\ avail = [i \in Desc |-> NoDesc] /\ availidx = 0 /\ elems = [i \in Desc |-> NoDesc] /\ usedid = 0
      /\ used_idx = 0 /\ info = [i \in Desc |-> Nobody]
  BY Zenon DEF VInit, virtio_disk_init
<1>2. /\ vlock = Nobody /\ vpc = [p \in Proc |-> "idle"] /\ idx = [p \in Proc |-> NoDesc]
      /\ write = [p \in Proc |-> 0] /\ busy = [p \in Proc |-> 0] /\ medium = [p \in Proc |-> 0]
      /\ bdata = [p \in Proc |-> 0] /\ seen = 0 /\ inflight = {} /\ pend = 0 /\ intr = "none"
  BY Zenon DEF VInit
<1>3. VTypeOK
  <2>1. 0 \in 0..(IdxMod - 1) /\ 0 \in Desc
    BY <1>0 DEF Desc
  <2> QED
    BY <1>1, <1>2, <2>1, Zenon DEF VTypeOK
<1>4. LockOK
  BY <1>2, Zenon DEF LockOK, VirtioAssumption
<1>5. Waiting = {} /\ FreeDescs = Desc
  BY <1>1, <1>2, Zenon DEF Waiting, FreeDescs
<1>6. DescOK
  <2>1. IsFiniteSet(Waiting) /\ Cardinality(Waiting) = 0
    BY <1>5, SetEmptySet, Zenon
  <2>2. Cardinality(FreeDescs) = NUM
    BY <1>0, <1>5, SetInterval DEF Desc
  <2>3. Cardinality(FreeDescs) + 3 * Cardinality(Waiting) = NUM
    BY <1>0, <2>1, <2>2
  <2>4. \A i \in Desc : free[i] # 0
    BY <1>1
  <2> QED
    BY <1>5, <2>1, <2>3, <2>4, Zenon DEF DescOK
<1>7. NAvail = 0 /\ NUsed = 0
  <2>1. 0 % NUM = 0
    BY <1>0
  <2> QED
    BY <1>0, <1>1, <1>2, <2>1 DEF NAvail, NUsed, Dist
<1>8. AvailOK
  <2>1. \A d : d \notin 0..(NAvail - 1)
    BY <1>7
  <2>2. availidx \in {seen + NAvail, seen + NAvail - IdxMod}
    BY <1>1, <1>2, <1>7
  <2>3. \A p \in Proc : vpc[p] # "notify"
    BY <1>2, Zenon
  <2> QED
    BY <1>2, <2>1, <2>2, <2>3, Zenon DEF AvailOK
<1>9. UsedOK
  <2>1. \A d : d \notin 0..(NUsed - 1)
    BY <1>7
  <2> QED
    BY <2>1, Zenon DEF UsedOK
<1>10. TransferOK /\ VNoLostWakeup
  BY <1>2, Zenon DEF TransferOK, VNoLostWakeup
<1> QED
  BY <1>3, <1>4, <1>6, <1>8, <1>9, <1>10, Zenon DEF VInv

\* A step that changes nothing.
LEMMA StutterVInv == ASSUME VInv, UNCHANGED vvars PROVE VInv'
<1>0. VTypeOK /\ LockOK /\ VNoLostWakeup
  BY Parts, Zenon
<1>1. UNCHANGED <<driver, ring, elems, device, used_idx, idx, busy, medium>>
  BY Zenon DEF vvars, contents
<1>2. VTypeOK'
  BY <1>0, Zenon DEF VTypeOK, vvars, driver, ring, device, contents
<1>3. LockOK'
  BY <1>0, Zenon DEF LockOK, vvars
<1>4. \A q \in Proc : Quiet(q)
  <2>1. UNCHANGED vpc /\ UNCHANGED bdata /\ UNCHANGED write
    BY Zenon DEF vvars, contents
  <2> QED
    BY <1>0, <2>1, Zenon DEF VNoLostWakeup, Quiet
<1> QED
  BY <1>1, <1>2, <1>3, <1>4, QuietStep, Zenon

\* Every step keeps the invariant.
LEMMA NextVInv == ASSUME SetFacts, VirtioAssumption, VInv, [VNext]_vvars PROVE VInv'
<1>1. CASE \E p \in Proc : Rw(p) \/ kill_sleeper(p)
  BY <1>1, SleepVInv, FormatVInv, NotifyVInv, AgainVInv, ReturnVInv, KillVInv, Zenon DEF Rw
<1>2. CASE \E p \in Proc, w \in {0, 1} : virtio_disk_rw(p, w)
  BY <1>2, CallVInv, Zenon
<1>3. CASE dev_take \/ \E i \in Desc : dev_serve(i)
  BY <1>3, TakeVInv, ServeVInv, Zenon
<1>4. CASE Intr
  BY <1>4, IntrVInv, StepVInv, Zenon DEF Intr
<1>5. CASE UNCHANGED vvars
  BY <1>5, StutterVInv, Zenon
<1> QED
  BY <1>1, <1>2, <1>3, <1>4, <1>5, Zenon DEF VNext

\* The invariant is enough.
LEMMA VInvSafe == ASSUME SetFacts, VirtioAssumption, VInv PROVE TransfersSafe
<1>0. VTypeOK /\ LockOK /\ DescOK /\ AvailOK /\ UsedOK /\ TransferOK /\ VNoLostWakeup
  BY Parts, Zenon
<1>1. DescsAccounted
  <2>1. ASSUME NEW p \in Waiting PROVE Chain(idx[p]) \subseteq Desc
    <3>1. p \in Proc /\ idx[p] # NoDesc
      BY Zenon DEF Waiting
    <3>2. idx[p] \in Desc /\ ChainOK(p)
      BY <1>0, <3>1, Zenon DEF VTypeOK, DescOK
    <3> QED
      BY <3>2, Zenon DEF ChainOK, Chain
  <2>2. \A i \in Desc : i \in FreeDescs \/ \E p \in Waiting : i \in Chain(idx[p])
    <3> SUFFICES ASSUME NEW i \in Desc, i \notin FreeDescs PROVE \E p \in Waiting : i \in Chain(idx[p])
      BY Zenon
    <3>1. free[i] = 0
      BY <1>0, Zenon DEF FreeDescs, VTypeOK
    <3> QED
      BY <1>0, <3>1, Zenon DEF DescOK
  <2>3. FreeDescs \subseteq Desc
    BY FreeFinite, Zenon
  <2>4. FreeDescs \cup UNION {Chain(idx[p]) : p \in Waiting} = Desc
    BY <2>1, <2>2, <2>3, Zenon
  <2> QED
    BY <1>0, <2>4, Zenon DEF DescsAccounted, DescOK
<1>2. DmaWhileBusy
  <2> SUFFICES ASSUME NEW i \in inflight PROVE \E p \in Waiting : idx[p] = i /\ busy[p] = 1 /\ info[i] = p
    BY Zenon DEF DmaWhileBusy
  <2>1. Head(i)
    BY <1>0, Zenon DEF AvailOK
  <2>2. info[i] \in Waiting
    BY <1>0, <2>1, Zenon DEF Head, LockOK, Waiting
  <2> QED
    BY <2>1, <2>2, Zenon DEF Head
<1>3. DoneMeansTransferred
  BY <1>0, Zenon DEF DoneMeansTransferred, TransferOK, Served, Waiting
<1> QED
  BY <1>0, <1>1, <1>2, <1>3, Zenon DEF TransfersSafe



-----------------------------------------------------------------------------
(* The theorems.                                                           *)

INSTANCE FiniteSetTheorems

INSTANCE WellFoundedInduction

\* A finite set of numbers has a least one.
LEMMA LeastExists ==
  ASSUME NEW S \in SUBSET Int, IsFiniteSet(S), S # {}
  PROVE  \E x \in S : \A y \in S : x <= y
<1> DEFINE Below(x) == {y \in S : y < x}
           Bs == {Below(x) : x \in S}
<1>1. IsWellFoundedOn(StrictSubsetOrdering(S), SUBSET S)
  BY FS_FiniteSubsetsOfFinite, FS_StrictSubsetOrderingWellFounded, Zenon
<1>2. Bs \in SUBSET (SUBSET S) /\ Bs # {}
  <2>1. \A x \in S : Below(x) \in SUBSET S
    BY Zenon
  <2> HIDE DEF Below
  <2> QED
    BY <2>1, Zenon
<1>3. PICK A \in Bs : \A B \in Bs : ~(<<B, A>> \in StrictSubsetOrdering(S))
  BY <1>1, <1>2, WFMin, Zenon
<1>4. PICK x \in S : A = Below(x)
  BY <1>3, Zenon
<1>5. ASSUME NEW y \in S, y < x PROVE FALSE
  <2>0. x \in Int /\ y \in Int /\ \A z \in S : z \in Int
    BY Zenon
  <2>1. Below(y) \subseteq Below(x) /\ y \in Below(x) /\ y \notin Below(y)
    <3>1. ASSUME NEW z \in Below(y) PROVE z \in Below(x)
      BY <1>5, <2>0
    <3>2. y \in Below(x) /\ y \notin Below(y)
      BY <1>5, <2>0
    <3> QED
      BY <3>1, <3>2, Zenon
  <2>2. <<Below(y), Below(x)>> \in StrictSubsetOrdering(S)
    BY <2>1, Zenon DEF StrictSubsetOrdering
  <2> QED
    BY <2>2, <1>3, <1>4, Zenon
<1> QED
  BY <1>5

\* SetFacts is true.
LEMMA SetsCount == SetFacts
<1>1. /\ IsFiniteSet({}) /\ Cardinality({}) = 0
      /\ \A S : IsFiniteSet(S) => (Cardinality(S) = 0 <=> S = {})
  BY FS_EmptySet, Zenon
<1>2. \A S : IsFiniteSet(S) => Cardinality(S) \in Nat
  BY FS_CardinalityType, Zenon
<1>3. \A x : IsFiniteSet({x}) /\ Cardinality({x}) = 1
  BY FS_Singleton, Zenon
<1>4. \A S : \A T \in SUBSET S : IsFiniteSet(S) =>
          /\ IsFiniteSet(T) /\ Cardinality(T) <= Cardinality(S)
          /\ Cardinality(S) = Cardinality(T) => S = T
  BY FS_Subset, Zenon
<1>5. \A i, j \in Int :
          IsFiniteSet(i..j) /\ Cardinality(i..j) = IF i > j THEN 0 ELSE j - i + 1
  BY FS_Interval, Zenon
<1>6. \A S, x : IsFiniteSet(S) =>
          /\ IsFiniteSet(S \cup {x})
          /\ Cardinality(S \cup {x}) = IF x \in S THEN Cardinality(S) ELSE Cardinality(S) + 1
  BY FS_AddElement, Zenon
<1>7. \A S, x : IsFiniteSet(S) =>
          /\ IsFiniteSet(S \ {x})
          /\ Cardinality(S \ {x}) = IF x \in S THEN Cardinality(S) - 1 ELSE Cardinality(S)
  BY FS_RemoveElement, Zenon
<1>8. \A S, T : \A f \in [S -> T] :
          IsFiniteSet(T) /\ (\A x, y \in S : f[x] = f[y] => x = y) => Cardinality(S) <= Cardinality(T)
  BY FS_Injection, Zenon DEF Injection, IsInjective
<1>9. \A S \in SUBSET Int : IsFiniteSet(S) /\ S # {} => \E x \in S : \A y \in S : x <= y
  BY LeastExists, Zenon
<1> QED
  BY <1>1, <1>2, <1>3, <1>4, <1>5, <1>6, <1>7, <1>8, <1>9, Zenon DEF SetFacts

\* For any number of processes, descriptors and index values: whatever the
\* device's order and the interleaving of virtio_disk_rw, virtio_disk_intr and
\* kill, no descriptor is lost or used twice, the device only works on buffers
\* whose caller waits, b->disk is cleared only after the transfer, and nobody
\* sleeps for what is already there.
THEOREM DiskTransfers == ASSUME VirtioAssumption PROVE VSpec => []TransfersSafe
<1>1. VInit => VInv
  BY SetsCount, InitVInv, Zenon
<1>2. VInv /\ [VNext]_vvars => VInv'
  BY SetsCount, NextVInv, Zenon
<1>3. VInv => TransfersSafe
  BY SetsCount, VInvSafe, Zenon
<1> QED
  BY <1>1, <1>2, <1>3, PTL DEF VSpec

=============================================================================
