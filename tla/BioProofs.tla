----------------------------- MODULE BioProofs -----------------------------
(***************************************************************************)
(* Proofs about the buffer cache of Bio.tla, for any numbers of buffers,   *)
(* blocks and processes.                                                   *)
(*                                                                         *)
(* BufferIsMine and RefcntExact depend on each other: a buffer keeps its   *)
(* label because its count is not 0, and the count says that only as long  *)
(* as it is exact.  ReadsLatest adds where the current contents of a block *)
(* are (WhereInv): bget may forget a buffer whose count is 0 because the   *)
(* block is then not pinned and the disk has it.                           *)
(***************************************************************************)
EXTENDS Bio, TLAPS

InUse == {"acquire", "read", "use", "installed", "release"}

\* b->lock is held by the process that uses the buffer.
LockInv ==
  \A s \in Slot : lock[s] # Nobody => Holds(lock[s]) /\ buf[lock[s]] = s

\* Only a block number from a caller gets into a buffer that is used.
LabelInv ==
  /\ \A p \in Proc : pc[p] \in InUse => want[p] \in Block
  /\ \A s \in Slot : valid[s] = 1 => blockno[s] \in Block
  /\ \A p \in Proc : pc[p] \in {"use", "installed"} => valid[buf[p]] = 1

\* A block is where it can be found: a pinned one in the cache, any other on
\* the disk too.
WhereInv ==
  /\ \A s \in Slot : valid[s] = 1 => data[s] = latest[blockno[s]]
  /\ \A b \in pins : \E s \in Slot : blockno[s] = b /\ valid[s] = 1
  /\ \A b \in Block \ pins : disk[b] = latest[b]

BInv ==
  /\ TypeOK /\ BufferIsMine /\ RefcntExact
  /\ LockInv /\ LabelInv /\ WhereInv

-----------------------------------------------------------------------------
(* Arithmetic of a uint, and counting.                                     *)

LEMMA Multiple ==
  ASSUME NEW M \in Nat \ {0}, NEW q \in Int, q > 0
  PROVE  M * q >= M
  <1>1. PICK d \in Nat : q = 1 + d
    BY q - 1 \in Nat, q = 1 + (q - 1)
  <1>2. M * q = M + M * d /\ M * d \in Nat
    BY <1>1
  <1>3. QED
    BY <1>2

\* A count that has not reached RefMod is itself.
LEMMA InRange ==
  ASSUME NEW M \in Nat \ {0}, NEW n \in 0..(M - 1)
  PROVE  n % M = n
  <1>1. PICK q \in Int, r \in 0..(M - 1) : n = M * q + r /\ n % M = r
    <2>1. n \div M \in Int /\ n % M \in 0..(M - 1) /\ n = M * (n \div M) + (n % M)
      OBVIOUS
    <2>2. QED
      BY <2>1
  <1>2. ~(q > 0)
    BY <1>1, Multiple
  <1>3. ~(q < 0)
    <2>1. SUFFICES ASSUME q < 0 PROVE FALSE
      OBVIOUS
    <2>2. -q \in Int /\ -q > 0 /\ M * q = -(M * (-q))
      BY <2>1
    <2>3. M * (-q) >= M
      BY <2>2, Multiple
    <2>4. QED
      BY <1>1, <2>2, <2>3
  <1>4. q = 0
    BY <1>2, <1>3
  <1>5. QED
    BY <1>1, <1>4

\* What the proofs use of finite sets.  FiniteSetTheorems proves it at the end
\* of this module: it is a large library to have in every context.
SetFacts ==
  /\ IsFiniteSet({}) /\ Cardinality({}) = 0
  /\ \A S : IsFiniteSet(S) => (Cardinality(S) = 0 <=> S = {})
  /\ \A S : IsFiniteSet(S) => Cardinality(S) \in Nat
  /\ \A x : IsFiniteSet({x}) /\ Cardinality({x}) = 1
  /\ \A S : \A T \in SUBSET S : IsFiniteSet(S) =>
       /\ IsFiniteSet(T) /\ Cardinality(T) <= Cardinality(S)
       /\ Cardinality(S) = Cardinality(T) => S = T
  /\ \A S, x : IsFiniteSet(S) =>
       /\ IsFiniteSet(S \cup {x})
       /\ Cardinality(S \cup {x}) = IF x \in S THEN Cardinality(S) ELSE Cardinality(S) + 1
  /\ \A S, x : IsFiniteSet(S) =>
       /\ IsFiniteSet(S \ {x})
       /\ Cardinality(S \ {x}) = IF x \in S THEN Cardinality(S) - 1 ELSE Cardinality(S)

\* The empty set has no element, and no other finite set has none.
LEMMA SetEmptySet ==
  ASSUME SetFacts
  PROVE  /\ IsFiniteSet({}) /\ Cardinality({}) = 0
         /\ \A S : IsFiniteSet(S) => (Cardinality(S) = 0 <=> S = {})
BY Zenon DEF SetFacts

\* A finite set can be counted.
LEMMA SetCardinalityType ==
  ASSUME SetFacts, NEW S, IsFiniteSet(S)
  PROVE  Cardinality(S) \in Nat
BY Zenon DEF SetFacts

\* A set of one.
LEMMA SetSingleton ==
  ASSUME SetFacts, NEW x
  PROVE  IsFiniteSet({x}) /\ Cardinality({x}) = 1
BY Zenon DEF SetFacts

\* A subset is no larger.
LEMMA SetSubset ==
  ASSUME SetFacts, NEW S, IsFiniteSet(S), NEW T \in SUBSET S
  PROVE  /\ IsFiniteSet(T) /\ Cardinality(T) <= Cardinality(S)
         /\ Cardinality(S) = Cardinality(T) => S = T
BY Zenon DEF SetFacts

\* An element more.
LEMMA SetAddElement ==
  ASSUME SetFacts
  PROVE  \A S, x : IsFiniteSet(S) =>
           /\ IsFiniteSet(S \cup {x})
           /\ Cardinality(S \cup {x}) = IF x \in S THEN Cardinality(S) ELSE Cardinality(S) + 1
BY Zenon DEF SetFacts

\* An element less.
LEMMA SetRemoveElement ==
  ASSUME SetFacts
  PROVE  \A S, x : IsFiniteSet(S) =>
           /\ IsFiniteSet(S \ {x})
           /\ Cardinality(S \ {x}) = IF x \in S THEN Cardinality(S) - 1 ELSE Cardinality(S)
BY Zenon DEF SetFacts

\* The users of a buffer are processes, and refcnt is wide enough for all of
\* them and a pin.
LEMMA Few ==
  ASSUME SetFacts, NEW S \in SUBSET Proc
  PROVE  /\ IsFiniteSet(S)
         /\ Cardinality(S) \in Nat /\ RefMod \in Nat \ {0} /\ Cardinality(S) + 1 < RefMod
  <1>1. IsFiniteSet(S) /\ Cardinality(S) <= Cardinality(Proc)
    BY BioAssumption, SetSubset
  <1>2. Cardinality(S) \in Nat /\ Cardinality(Proc) \in Nat
    BY <1>1, BioAssumption, SetCardinalityType
  <1>3. QED
    BY <1>1, <1>2, BioAssumption

LEMMA OneMore ==
  ASSUME SetFacts, NEW S \in SUBSET Proc, NEW p \in Proc, p \notin S
  PROVE  Cardinality(S \cup {p}) = Cardinality(S) + 1 /\ Cardinality(S) + 2 < RefMod
  <1>1. Cardinality(S \cup {p}) = Cardinality(S) + 1
    BY Few, SetAddElement
  <1>2. S \cup {p} \in SUBSET Proc
    OBVIOUS
  <1>3. Cardinality(S \cup {p}) + 1 < RefMod /\ Cardinality(S) \in Nat /\ RefMod \in Nat
    BY <1>2, Few
  <1>4. QED
    BY <1>1, <1>3

LEMMA OneLess ==
  ASSUME SetFacts, NEW S \in SUBSET Proc, NEW p \in S
  PROVE  Cardinality(S \ {p}) = Cardinality(S) - 1 /\ Cardinality(S) > 0
  <1>1. Cardinality(S \ {p}) = Cardinality(S) - 1
    BY Few, SetRemoveElement
  <1>2. S \ {p} \in SUBSET Proc
    OBVIOUS
  <1>3. Cardinality(S \ {p}) \in Nat /\ Cardinality(S) \in Nat
    BY <1>2, Few
  <1>4. QED
    BY <1>1, <1>3

-----------------------------------------------------------------------------
(* Facts about a state.                                                    *)

Pin(s) == IF blockno[s] \in pins THEN 1 ELSE 0

LEMMA RefIs ==
  ASSUME SetFacts, BInv, NEW s \in Slot
  PROVE  /\ refcnt[s] = Cardinality(Users(s)) + Pin(s)
         /\ Pin(s) \in {0, 1} /\ Cardinality(Users(s)) \in Nat
         /\ refcnt[s] < RefMod /\ refcnt[s] \in Nat /\ RefMod \in Nat \ {0}
  <1>1. Users(s) \in SUBSET Proc
    BY DEF Users
  <1>2. refcnt[s] = Cardinality(Users(s)) + Pin(s) /\ Pin(s) \in {0, 1}
    BY DEF BInv, RefcntExact, Pin
  <1>3. QED
    BY <1>1, <1>2, Few

\* A buffer with no references can be taken.
LEMMA Idle ==
  ASSUME SetFacts, BInv, NEW s \in Slot, refcnt[s] = 0
  PROVE  Users(s) = {} /\ blockno[s] \notin pins /\ lock[s] = Nobody
  <1>1. Cardinality(Users(s)) = 0 /\ Pin(s) = 0
    BY RefIs
  <1>2. Users(s) \in SUBSET Proc
    BY DEF Users
  <1>3. Users(s) = {}
    BY <1>1, <1>2, Few, SetEmptySet
  <1>4. lock[s] = Nobody
    <2>1. SUFFICES ASSUME lock[s] # Nobody PROVE FALSE
      OBVIOUS
    <2>2. lock[s] \in Proc /\ Holds(lock[s]) /\ buf[lock[s]] = s
      BY <2>1 DEF BInv, TypeOK, LockInv
    <2>3. lock[s] \in Users(s)
      BY <2>2 DEF Users, Holds
    <2>4. QED
      BY <1>3, <2>3
  <1>5. QED
    BY <1>1, <1>3, <1>4 DEF Pin

\* Whoever uses a buffer uses the one of the block it asked for.
LEMMA Using ==
  ASSUME BInv, NEW p \in Proc, pc[p] \in InUse
  PROVE  buf[p] \in Slot /\ blockno[buf[p]] = want[p] /\ want[p] \in Block /\ p \in Users(buf[p])
  BY DEF BInv, TypeOK, BufferIsMine, LabelInv, Users, InUse

\* The reference counts stay exact when nothing they count changes.
LEMMA RefKept ==
  ASSUME BInv, UNCHANGED <<refcnt, blockno, pins, buf>>,
         \A q \in Proc : pc'[q] \in InUse <=> pc[q] \in InUse
  PROVE  RefcntExact'
  <1>1. \A s \in Slot : Users(s)' = Users(s)
    BY DEF Users, InUse
  <1>2. QED
    BY <1>1 DEF BInv, RefcntExact

-----------------------------------------------------------------------------
(* bget.                                                                   *)

LEMMA HitStep ==
  ASSUME SetFacts, BInv, NEW p \in Proc, NEW b \in Block, NEW s \in Slot, pc[p] = "idle",
         Hit(s, b),
         refcnt' = [refcnt EXCEPT ![s] = (@ + 1) % RefMod],
         buf' = [buf EXCEPT ![p] = s], pc' = [pc EXCEPT ![p] = "acquire"],
         want' = [want EXCEPT ![p] = b],
         UNCHANGED <<lru, blockno, valid, data, lock, disk, pins, latest>>
  PROVE  BInv'
  <1>1. blockno[s] = b
    BY DEF Hit
  <1>2. /\ Users(s)' = Users(s) \cup {p} /\ p \notin Users(s)
        /\ \A t \in Slot \ {s} : Users(t)' = Users(t)
    BY DEF BInv, TypeOK, Users
  <1>3. Cardinality(Users(s)') = Cardinality(Users(s)) + 1 /\ Cardinality(Users(s)) + 2 < RefMod
    <2>1. Users(s) \in SUBSET Proc
      BY DEF Users
    <2>2. QED
      BY <1>2, <2>1, OneMore
  <1>4. refcnt'[s] = refcnt[s] + 1 /\ refcnt'[s] \in 0..(RefMod - 1)
    <2>1. PICK n \in Nat : n = refcnt[s] + 1
      BY RefIs
    <2>2. n \in 0..(RefMod - 1) /\ RefMod \in Nat \ {0}
      BY <1>3, <2>1, RefIs
    <2>3. n % RefMod = n
      BY <2>2, InRange
    <2>4. refcnt'[s] = (refcnt[s] + 1) % RefMod
      BY DEF BInv, TypeOK
    <2>5. QED
      BY <2>1, <2>2, <2>3, <2>4
  <1>5. TypeOK'
    BY <1>4 DEF BInv, TypeOK
  <1>6. RefcntExact'
    <2>1. SUFFICES ASSUME NEW t \in Slot
                   PROVE  refcnt'[t] = Cardinality(Users(t)') + Pin(t)
      BY DEF RefcntExact, Pin
    <2>2. CASE t = s
      BY <1>3, <1>4, <2>2, RefIs
    <2>3. CASE t # s
      BY <1>2, <2>3, RefIs DEF BInv, TypeOK
    <2>4. QED
      BY <2>2, <2>3
  <1>7. BufferIsMine'
    BY <1>1 DEF BInv, TypeOK, BufferIsMine, Users, Holds
  <1>8. LockInv'
    BY BioAssumption DEF BInv, TypeOK, LockInv, Holds
  <1>9. LabelInv' /\ WhereInv'
    BY DEF BInv, TypeOK, LabelInv, WhereInv, InUse
  <1>10. QED
    BY <1>5, <1>6, <1>7, <1>8, <1>9 DEF BInv

LEMMA RecycleStep ==
  ASSUME SetFacts, BInv, NEW p \in Proc, NEW b \in Block, NEW s \in Slot, pc[p] = "idle",
         \A t \in Slot : blockno[t] # b, Recycle(s, b),
         buf' = [buf EXCEPT ![p] = s], pc' = [pc EXCEPT ![p] = "acquire"],
         want' = [want EXCEPT ![p] = b],
         UNCHANGED <<lru, data, lock, disk, pins, latest>>
  PROVE  BInv'
  <1> USE DEF Recycle
  <1>1. refcnt[s] = 0
    BY DEF Unused
  <1>2. Users(s) = {} /\ blockno[s] \notin pins /\ lock[s] = Nobody
    BY <1>1, Idle
  <1>3. b \notin pins
    BY DEF BInv, WhereInv
  <1>4. Users(s)' = {p} /\ \A t \in Slot \ {s} : Users(t)' = Users(t)
    BY <1>2 DEF BInv, TypeOK, Users
  <1>5. TypeOK'
    <2>1. Cardinality({}) \in Nat /\ RefMod \in Nat /\ Cardinality({}) + 1 < RefMod
      BY Few, {} \in SUBSET Proc
    <2>2. 1 \in 0..(RefMod - 1)
      BY <2>1
    <2>3. QED
      BY <2>2 DEF BInv, TypeOK
  <1>6. RefcntExact'
    <2>1. SUFFICES ASSUME NEW t \in Slot
                   PROVE  refcnt'[t] = Cardinality(Users(t)') + (IF blockno'[t] \in pins THEN 1 ELSE 0)
      BY DEF RefcntExact
    <2>2. CASE t = s
      <3>1. Cardinality({p}) = 1
        BY SetSingleton, Zenon
      <3>2. refcnt'[t] = 1 /\ blockno'[t] = b
        BY <2>2 DEF BInv, TypeOK
      <3>3. Users(t)' = {p}
        BY <1>4, <2>2
      <3>4. QED
        BY <1>3, <3>1, <3>2, <3>3
    <2>3. CASE t # s
      BY <1>4, <2>3, RefIs DEF BInv, TypeOK, Pin
    <2>4. QED
      BY <2>2, <2>3
  <1>7. BufferIsMine'
    <2>1. ASSUME NEW q \in Proc, q # p, q \in Users(buf[q])
          PROVE  buf[q] # s
      BY <1>2, <2>1
    <2>2. QED
      BY <2>1 DEF BInv, TypeOK, BufferIsMine, Users, Holds
  <1>8. LockInv'
    BY BioAssumption DEF BInv, TypeOK, LockInv, Holds
  <1>9. LabelInv'
    BY <1>2 DEF BInv, TypeOK, LabelInv, InUse, Users
  <1>10. WhereInv'
    BY <1>2 DEF BInv, TypeOK, WhereInv
  <1>11. QED
    BY <1>5, <1>6, <1>7, <1>8, <1>9, <1>10 DEF BInv

LEMMA BgetStep ==
  ASSUME SetFacts, BInv, NEW p \in Proc, NEW b \in Block, bget(p, b)
  PROVE  BInv'
  <1>1. CASE pc' = [pc EXCEPT ![p] = "panic"] /\ UNCHANGED <<blockno, valid, refcnt, buf>>
    <2> USE <1>1 DEF bget
    <2>1. TypeOK'
      BY DEF BInv, TypeOK
    <2>2. RefcntExact'
      BY RefKept DEF BInv, TypeOK, InUse
    <2>3. BufferIsMine' /\ LockInv'
      BY BioAssumption DEF BInv, TypeOK, BufferIsMine, LockInv, Users, Holds
    <2>4. LabelInv' /\ WhereInv'
      BY DEF BInv, TypeOK, LabelInv, WhereInv, InUse
    <2>5. QED
      BY <2>1, <2>2, <2>3, <2>4 DEF BInv
  <1>2. QED
    BY <1>1, HitStep, RecycleStep, Zenon DEF bget
-----------------------------------------------------------------------------
(* From acquiresleep to brelse.                                            *)

LEMMA AcquireStep ==
  ASSUME BInv, NEW p \in Proc, acquiresleep(p)
  PROVE  BInv'
  <1> USE DEF acquiresleep
  <1>1. TypeOK'
    BY DEF BInv, TypeOK
  <1>2. RefcntExact'
    BY RefKept DEF BInv, TypeOK, InUse
  <1>3. BufferIsMine'
    <2>1. ASSUME NEW q \in Proc, Holds(q)
          PROVE  buf[q] # buf[p] /\ q # p
      BY <2>1, BioAssumption DEF BInv, BufferIsMine, Holds
    <2>2. QED
      BY <2>1 DEF BInv, TypeOK, BufferIsMine, Users, Holds
  <1>4. LockInv'
    BY BioAssumption DEF BInv, TypeOK, LockInv, Holds
  <1>5. LabelInv' /\ WhereInv'
    BY DEF BInv, TypeOK, LabelInv, WhereInv, InUse
  <1>6. QED
    BY <1>1, <1>2, <1>3, <1>4, <1>5 DEF BInv

LEMMA BreadStep ==
  ASSUME BInv, NEW p \in Proc, bread(p)
  PROVE  BInv'
  <1> USE DEF bread
  <1> DEFINE s == buf[p]
             b == want[p]
  <1>1. s \in Slot /\ blockno[s] = b /\ b \in Block
    BY Using DEF InUse
  <1>2. valid[s] = 0 => b \notin pins
    <2>1. SUFFICES ASSUME valid[s] = 0, b \in pins PROVE FALSE
      OBVIOUS
    <2>2. PICK t \in Slot : blockno[t] = b /\ valid[t] = 1
      BY <2>1 DEF BInv, WhereInv
    <2>3. t = s
      BY <1>1, <2>2, BioAssumption DEF BInv, BufferIsMine
    <2>4. QED
      BY <2>1, <2>2, <2>3
  <1>3. valid' = [valid EXCEPT ![s] = 1] /\ data' = [data EXCEPT ![s] = latest[b]]
    <2>1. CASE valid[s] = 0
      BY <1>1, <1>2, <2>1 DEF BInv, WhereInv
    <2>2. CASE valid[s] = 1
      <3>1. data[s] = latest[b]
        BY <1>1, <2>2 DEF BInv, WhereInv
      <3>2. QED
        BY <1>1, <2>2, <3>1, SMTT(30) DEF BInv, TypeOK
    <2>3. QED
      BY <1>1, <2>1, <2>2, SMTT(30) DEF BInv, TypeOK
  <1>4. /\ pc[p] = "read" /\ pc' = [pc EXCEPT ![p] = "use"]
        /\ UNCHANGED <<lru, blockno, refcnt, lock, disk, want, buf, pins, latest>>
    OBVIOUS
  <1> USE <1>1, <1>3, <1>4
  <1> HIDE DEF bread, s, b
  <1>5. TypeOK'
    BY DEF BInv, TypeOK
  <1>6. RefcntExact'
    BY RefKept DEF BInv, TypeOK, InUse
  <1>7. BufferIsMine' /\ LockInv'
    BY BioAssumption DEF BInv, TypeOK, BufferIsMine, LockInv, Users, Holds
  <1>8. LabelInv'
    BY DEF BInv, TypeOK, LabelInv, InUse, s
  <1>9. WhereInv'
    BY DEF BInv, TypeOK, WhereInv
  <1>10. QED
    BY <1>5, <1>6, <1>7, <1>8, <1>9 DEF BInv

\* A process with the lock of a buffer changes it, and no other buffer is
\* for the same block.
LEMMA ChangeStep ==
  ASSUME BInv, NEW p \in Proc, NEW v \in Value, pc[p] = "use",
         data' = [data EXCEPT ![buf[p]] = v],
         latest' = [latest EXCEPT ![want[p]] = v],
         UNCHANGED <<lru, blockno, valid, lock, callers>>
  PROVE  /\ BufferIsMine' /\ LockInv' /\ LabelInv'
         /\ \A s \in Slot : valid'[s] = 1 => data'[s] = latest'[blockno'[s]]
         /\ data' \in [Slot -> Value] /\ latest' \in [Block -> Value]
  <1> USE DEF callers
  <1>1. buf[p] \in Slot /\ blockno[buf[p]] = want[p] /\ want[p] \in Block
    BY Using DEF InUse
  <1>2. BufferIsMine' /\ LockInv'
    BY DEF BInv, BufferIsMine, LockInv, Users, Holds
  <1>3. LabelInv'
    BY DEF BInv, LabelInv
  <1>4. ASSUME NEW s \in Slot, valid[s] = 1
        PROVE  data'[s] = latest'[blockno[s]]
    <2>1. CASE s = buf[p]
      BY <1>1, <2>1 DEF BInv, TypeOK
    <2>2. CASE s # buf[p]
      <3>1. blockno[s] # want[p]
        BY <1>1, <2>2, BioAssumption DEF BInv, BufferIsMine
      <3>2. QED
        BY <1>1, <1>4, <2>2, <3>1 DEF BInv, TypeOK, LabelInv, WhereInv
    <2>3. QED
      BY <2>1, <2>2
  <1>5. QED
    BY <1>1, <1>2, <1>3, <1>4 DEF BInv, TypeOK

LEMMA BpinStep ==
  ASSUME SetFacts, BInv, NEW p \in Proc, NEW v \in Value, bpin(p, v)
  PROVE  BInv'
  <1> USE DEF bpin, callers
  <1> DEFINE s == buf[p]
             b == want[p]
  <1>1. s \in Slot /\ blockno[s] = b /\ b \in Block
    BY Using DEF InUse
  <1>2. /\ BufferIsMine' /\ LockInv' /\ LabelInv'
        /\ \A t \in Slot : valid'[t] = 1 => data'[t] = latest'[blockno'[t]]
        /\ data' \in [Slot -> Value] /\ latest' \in [Block -> Value]
    BY ChangeStep, Zenon
  <1>3. /\ pins' = pins \cup {b} /\ valid[s] = 1
        /\ refcnt' = [refcnt EXCEPT ![s] = IF b \in pins THEN @ ELSE (@ + 1) % RefMod]
        /\ latest' = [latest EXCEPT ![b] = v]
        /\ UNCHANGED <<lru, blockno, valid, lock, disk, pc, want, buf>>
    BY <1>1 DEF BInv, LabelInv
  <1>4. WhereInv'
    BY <1>1, <1>2, <1>3 DEF BInv, TypeOK, WhereInv
  <1>5. refcnt'[s] = Cardinality(Users(s)) + 1 /\ refcnt'[s] \in 0..(RefMod - 1)
    <2>1. CASE b \in pins
      BY <1>1, <1>3, <2>1, RefIs DEF BInv, TypeOK, Pin
    <2>2. CASE b \notin pins
      <3>1. Users(s) \in SUBSET Proc
        BY DEF Users
      <3>2. refcnt[s] = Cardinality(Users(s)) /\ refcnt[s] \in Nat
        BY <1>1, <2>2, RefIs DEF Pin
      <3>3. PICK n \in Nat : n = refcnt[s] + 1
        BY <3>2
      <3>4. n \in 0..(RefMod - 1) /\ RefMod \in Nat \ {0}
        BY <3>1, <3>2, <3>3, Few
      <3>5. n % RefMod = n
        BY <3>4, InRange
      <3>6. refcnt'[s] = (refcnt[s] + 1) % RefMod
        BY <1>1, <1>3, <2>2, SMTT(30) DEF BInv, TypeOK
      <3>7. QED
        BY <3>2, <3>3, <3>4, <3>5, <3>6
    <2>3. QED
      BY <2>1, <2>2, SMTT(30)
  <1>6. TypeOK'
    BY <1>1, <1>2, <1>3, <1>5 DEF BInv, TypeOK
  <1>7. RefcntExact'
    <2>1. SUFFICES ASSUME NEW t \in Slot
                   PROVE  refcnt'[t] = Cardinality(Users(t)') + (IF blockno[t] \in pins' THEN 1 ELSE 0)
      BY <1>3 DEF RefcntExact
    <2>2. Users(t)' = Users(t)
      BY <1>3 DEF Users
    <2>3. CASE t = s
      BY <1>1, <1>3, <1>5, <2>2, <2>3
    <2>4. CASE t # s
      <3>1. blockno[t] # b
        BY <1>1, <2>4, BioAssumption DEF BInv, BufferIsMine
      <3>2. blockno[t] \in pins' <=> blockno[t] \in pins
        BY <1>3, <3>1
      <3>3. refcnt'[t] = refcnt[t]
        BY <1>1, <1>3, <2>4, SMTT(30) DEF BInv, TypeOK
      <3>4. QED
        BY <2>2, <3>2, <3>3 DEF BInv, RefcntExact
    <2>5. QED
      BY <2>3, <2>4
  <1>8. QED
    BY <1>2, <1>4, <1>6, <1>7 DEF BInv

LEMMA BwriteStep ==
  ASSUME BInv, NEW p \in Proc, NEW v \in Value, bwrite(p, v)
  PROVE  BInv'
  <1> USE DEF bwrite
  <1>1. buf[p] \in Slot /\ blockno[buf[p]] = want[p] /\ want[p] \in Block
    BY Using DEF InUse
  <1>2. lock[buf[p]] = p
    BY DEF BInv, BufferIsMine, Holds
  <1>3. /\ pc[p] = "use" /\ data' = [data EXCEPT ![buf[p]] = v]
        /\ disk' = [disk EXCEPT ![want[p]] = v] /\ latest' = [latest EXCEPT ![want[p]] = v]
        /\ UNCHANGED <<lru, blockno, valid, refcnt, lock, callers, pins>>
    BY <1>1, <1>2 DEF callers
  <1> HIDE DEF bwrite
  <1>4. /\ BufferIsMine' /\ LockInv' /\ LabelInv'
        /\ \A t \in Slot : valid'[t] = 1 => data'[t] = latest'[blockno'[t]]
        /\ data' \in [Slot -> Value] /\ latest' \in [Block -> Value]
    BY <1>3, ChangeStep, Zenon
  <1>5. TypeOK'
    BY <1>1, <1>3, <1>4 DEF BInv, TypeOK, callers
  <1>6. RefcntExact'
    BY <1>3, RefKept DEF callers
  <1>7. WhereInv'
    BY <1>1, <1>3, <1>4 DEF BInv, TypeOK, WhereInv
  <1>8. QED
    BY <1>4, <1>5, <1>6, <1>7 DEF BInv

\* bunpin, with the write to the home location before it.
LEMMA BunpinStep ==
  ASSUME SetFacts, BInv, NEW p \in Proc, bunpin(p)
  PROVE  BInv'
  <1> USE DEF bunpin
  <1> DEFINE s == buf[p]
             b == want[p]
  <1>1. s \in Slot /\ blockno[s] = b /\ b \in Block
    BY Using DEF InUse
  <1>2. /\ pc[p] = "use" /\ b \in pins /\ disk' = [disk EXCEPT ![b] = data[s]]
        /\ refcnt' = [refcnt EXCEPT ![s] = (@ - 1) % RefMod]
        /\ pins' = pins \ {b} /\ pc' = [pc EXCEPT ![p] = "installed"]
        /\ UNCHANGED <<lru, blockno, valid, data, lock, want, buf, latest>>
    BY <1>1
  <1> HIDE DEF bunpin
  <1>3. data[s] = latest[b] /\ data[s] \in Value
    BY <1>1, <1>2 DEF BInv, TypeOK, LabelInv, WhereInv
  <1>4. refcnt'[s] = Cardinality(Users(s)) /\ refcnt'[s] \in 0..(RefMod - 1)
    <2>1. refcnt[s] = Cardinality(Users(s)) + 1 /\ Cardinality(Users(s)) \in Nat
          /\ refcnt[s] < RefMod /\ RefMod \in Nat \ {0}
      BY <1>1, <1>2, RefIs DEF Pin
    <2>2. PICK n \in Nat : n = refcnt[s] - 1
      BY <2>1
    <2>3. n \in 0..(RefMod - 1)
      BY <2>1, <2>2
    <2>4. n % RefMod = n
      BY <2>1, <2>3, InRange
    <2>5. refcnt'[s] = (refcnt[s] - 1) % RefMod
      BY <1>1, <1>2 DEF BInv, TypeOK
    <2>6. QED
      BY <2>1, <2>2, <2>3, <2>4, <2>5, SMTT(30)
  <1>5. TypeOK'
    BY <1>1, <1>2, <1>3, <1>4 DEF BInv, TypeOK
  <1>6. RefcntExact'
    <2>1. SUFFICES ASSUME NEW t \in Slot
                   PROVE  refcnt'[t] = Cardinality(Users(t)') + (IF blockno[t] \in pins' THEN 1 ELSE 0)
      BY <1>2 DEF RefcntExact
    <2>2. Users(t)' = Users(t)
      BY <1>2 DEF Users, BInv, TypeOK
    <2>3. CASE t = s
      <3>1. Cardinality(Users(s)) \in Nat
        BY <1>1, RefIs
      <3>2. QED
        BY <1>1, <1>2, <1>4, <2>2, <2>3, <3>1
    <2>4. CASE t # s
      <3>1. blockno[t] # b
        BY <1>1, <2>4, BioAssumption DEF BInv, BufferIsMine
      <3>2. blockno[t] \in pins' <=> blockno[t] \in pins
        BY <1>2, <3>1
      <3>3. refcnt'[t] = refcnt[t]
        BY <1>1, <1>2, <2>4, SMTT(30) DEF BInv, TypeOK
      <3>4. QED
        BY <2>2, <3>2, <3>3 DEF BInv, RefcntExact
    <2>5. QED
      BY <2>3, <2>4
  <1>7. BufferIsMine' /\ LockInv'
    BY <1>2, BioAssumption DEF BInv, TypeOK, BufferIsMine, LockInv, Users, Holds
  <1>8. LabelInv'
    BY <1>2 DEF BInv, TypeOK, LabelInv, InUse
  <1>9. WhereInv'
    BY <1>1, <1>2, <1>3 DEF BInv, TypeOK, WhereInv
  <1>10. QED
    BY <1>5, <1>6, <1>7, <1>8, <1>9 DEF BInv

LEMMA ReleaseStep ==
  ASSUME BInv, NEW p \in Proc, releasesleep(p)
  PROVE  BInv' /\ lock[buf[p]] = p
  <1> USE DEF releasesleep
  <1>1. lock[buf[p]] = p /\ buf[p] \in Slot
    BY DEF BInv, TypeOK, BufferIsMine, Holds
  <1>2. /\ pc[p] \in {"use", "installed"}
        /\ lock' = [lock EXCEPT ![buf[p]] = Nobody] /\ pc' = [pc EXCEPT ![p] = "release"]
        /\ UNCHANGED <<lru, blockno, valid, refcnt, data, disk, want, buf, pins, latest>>
    BY <1>1
  <1> HIDE DEF releasesleep
  <1>3. TypeOK'
    BY <1>1, <1>2 DEF BInv, TypeOK
  <1>4. RefcntExact'
    BY <1>2, RefKept DEF BInv, TypeOK, InUse
  <1>5. BufferIsMine'
    BY <1>1, <1>2 DEF BInv, TypeOK, BufferIsMine, Users, Holds
  <1>6. LockInv'
    <2>1. ASSUME NEW t \in Slot, t # buf[p], lock[t] # Nobody
          PROVE  lock[t] \in Proc /\ lock[t] # p /\ Holds(lock[t]) /\ buf[lock[t]] = t
      BY <2>1 DEF BInv, TypeOK, LockInv
    <2>2. QED
      BY <1>1, <1>2, <2>1, BioAssumption DEF BInv, TypeOK, LockInv, Holds
  <1>7. LabelInv' /\ WhereInv'
    BY <1>2 DEF BInv, TypeOK, LabelInv, WhereInv, InUse
  <1>8. QED
    BY <1>1, <1>3, <1>4, <1>5, <1>6, <1>7 DEF BInv

\* The list links every buffer once, before and after.
LEMMA ListKept ==
  ASSUME BInv, NEW s \in Slot
  PROVE  /\ ToFront(s) \in [Slot -> Slot]
         /\ \A i, j \in Slot : ToFront(s)[i] = ToFront(s)[j] => i = j
  <1> DEFINE before(i) == \E j \in i..NBUF : lru[j] = s
  <1>1. NBUF \in Nat \ {0} /\ lru \in [Slot -> Slot] /\ \A i, j \in Slot : lru[i] = lru[j] => i = j
    BY BioAssumption DEF BInv, TypeOK
  <1>2. ASSUME NEW i \in Slot
        PROVE  ToFront(s)[i] = IF i = 1 THEN s ELSE IF before(i) THEN lru[i - 1] ELSE lru[i]
    BY <1>2 DEF ToFront
  <1>3. ASSUME NEW i \in Slot, i # 1
        PROVE  /\ i - 1 \in Slot
               /\ before(i) => lru[i - 1] # s
               /\ ~before(i) => lru[i] # s
    <2>1. i - 1 \in Slot /\ i \in i..NBUF /\ i - 1 \notin i..NBUF
      BY <1>1, <1>3 DEF Slot
    <2>2. \A j \in i..NBUF : j \in Slot
      BY <1>1, <1>3 DEF Slot
    <2>3. QED
      BY <1>1, <2>1, <2>2
  <1>4. ASSUME NEW i \in Slot, NEW j \in Slot, i < j, before(j)
        PROVE  before(i)
    <2>1. \A k \in j..NBUF : k \in i..NBUF
      BY <1>1, <1>4 DEF Slot
    <2>2. QED
      BY <1>4, <2>1
  <1>5. ToFront(s) \in [Slot -> Slot]
    BY <1>1, <1>3 DEF ToFront
  <1>6. ASSUME NEW i \in Slot, NEW j \in Slot, i < j
        PROVE  ToFront(s)[i] # ToFront(s)[j]
    <2>1. j # 1 /\ i \in Int /\ j \in Int /\ i - 1 # j - 1 /\ i # j
      BY <1>1, <1>6 DEF Slot
    <2>2. CASE i = 1
      BY <1>2, <1>3, <2>1, <2>2
    <2>3. CASE i # 1
      <3>1. i - 1 \in Slot /\ j - 1 \in Slot /\ i - 1 # j
        BY <1>3, <1>6, <2>1, <2>3
      <3>2. ToFront(s)[i] = IF before(i) THEN lru[i - 1] ELSE lru[i]
        BY <1>2, <2>3
      <3>3. ToFront(s)[j] = IF before(j) THEN lru[j - 1] ELSE lru[j]
        BY <1>2, <2>1
      <3>4. before(j) => before(i)
        BY <1>4, <1>6
      <3> HIDE DEF before
      <3>5. QED
        BY <1>1, <2>1, <3>1, <3>2, <3>3, <3>4
    <2>4. QED
      BY <2>2, <2>3
  <1>7. \A i, j \in Slot : i < j \/ j < i \/ i = j
    BY <1>1 DEF Slot
  <1>8. QED
    BY <1>5, <1>6, <1>7

LEMMA BrelseStep ==
  ASSUME SetFacts, BInv, NEW p \in Proc, brelse(p)
  PROVE  BInv'
  <1> USE DEF brelse
  <1> DEFINE s == buf[p]
  <1>1. s \in Slot /\ p \in Users(s)
    BY Using DEF InUse
  <1>2. /\ pc[p] = "release" /\ refcnt' = [refcnt EXCEPT ![s] = (refcnt[s] - 1) % RefMod]
        /\ lru' = lru \/ lru' = ToFront(s)
        /\ pc' = [pc EXCEPT ![p] = "idle"]
        /\ UNCHANGED <<blockno, valid, data, lock, disk, want, buf, pins, latest>>
    OBVIOUS
  <1> HIDE DEF brelse
  <1>3. Users(s)' = Users(s) \ {p} /\ \A t \in Slot \ {s} : Users(t)' = Users(t)
    BY <1>1, <1>2 DEF BInv, TypeOK, Users
  <1>4. Cardinality(Users(s)') = Cardinality(Users(s)) - 1 /\ Cardinality(Users(s)) > 0
    <2>1. Users(s) \in SUBSET Proc
      BY DEF Users
    <2>2. QED
      BY <1>1, <1>3, <2>1, OneLess
  <1>5. refcnt'[s] = refcnt[s] - 1 /\ refcnt'[s] \in 0..(RefMod - 1)
    <2>1. /\ refcnt[s] \in Nat /\ refcnt[s] > 0
          /\ refcnt[s] < RefMod /\ RefMod \in Nat \ {0}
      BY <1>1, <1>4, RefIs
    <2>2. PICK n \in Nat : n = refcnt[s] - 1
      BY <2>1
    <2>3. n \in 0..(RefMod - 1)
      BY <2>1, <2>2
    <2>4. n % RefMod = n
      BY <2>1, <2>3, InRange
    <2>5. refcnt'[s] = (refcnt[s] - 1) % RefMod
      BY <1>1, <1>2 DEF BInv, TypeOK
    <2>6. QED
      BY <2>1, <2>2, <2>3, <2>4, <2>5
  <1>6. TypeOK'
    <2>1. lru' \in [Slot -> Slot] /\ \A i, j \in Slot : lru'[i] = lru'[j] => i = j
      <3>1. CASE lru' = lru
        BY <3>1 DEF BInv, TypeOK
      <3>2. CASE lru' = ToFront(s)
        <4>1. /\ ToFront(s) \in [Slot -> Slot]
              /\ \A i, j \in Slot : ToFront(s)[i] = ToFront(s)[j] => i = j
          BY <1>1, ListKept, Zenon
        <4>2. QED
          BY <3>2, <4>1
      <3>3. QED
        BY <1>2, <3>1, <3>2
    <2>2. QED
      BY <1>1, <1>2, <1>5, <2>1, Zenon DEF BInv, TypeOK
  <1>7. RefcntExact'
    <2>1. SUFFICES ASSUME NEW t \in Slot
                   PROVE  refcnt'[t] = Cardinality(Users(t)') + Pin(t)
      BY <1>2 DEF RefcntExact, Pin
    <2>2. CASE t = s
      <3>1. /\ refcnt[s] = Cardinality(Users(s)) + Pin(s)
            /\ Pin(s) \in {0, 1} /\ Cardinality(Users(s)) \in Nat
        BY <1>1, RefIs
      <3>2. refcnt'[s] = Cardinality(Users(s)') + Pin(s)
        BY <1>4, <1>5, <3>1, SMTT(30)
      <3>3. QED
        BY <1>2, <2>2, <3>2
    <2>3. CASE t # s
      BY <1>1, <1>2, <1>3, <2>3, RefIs, SMTT(30) DEF BInv, TypeOK
    <2>4. QED
      BY <2>2, <2>3
  <1>8. BufferIsMine' /\ LockInv'
    BY <1>2, BioAssumption, SMTT(30) DEF BInv, TypeOK, BufferIsMine, LockInv, Users, Holds
  <1>9. LabelInv' /\ WhereInv'
    BY <1>2 DEF BInv, TypeOK, LabelInv, WhereInv, InUse
  <1>10. QED
    BY <1>6, <1>7, <1>8, <1>9 DEF BInv

-----------------------------------------------------------------------------
(* The invariant and what follows from it.                                 *)

LEMMA InitBInv ==
  ASSUME SetFacts, Init
  PROVE  BInv
  <1> USE DEF Init
  <1>1. NBUF \in Nat \ {0} /\ Nobody \notin Proc /\ NoBlock \notin Block
    BY BioAssumption
  <1>2. \A s \in Slot : Users(s) = {}
    BY DEF Users
  <1>3. Cardinality({}) = 0 /\ RefMod \in Nat \ {0}
    BY SetEmptySet, Few, {} \in SUBSET Proc
  <1>4. TypeOK
    <2>1. lru \in [Slot -> Slot] /\ \A i, j \in Slot : lru[i] = lru[j] => i = j
      BY <1>1 DEF Slot
    <2>2. 1 \in Slot /\ 0 \in 0..(RefMod - 1)
      BY <1>1, <1>3 DEF Slot
    <2>3. QED
      BY <2>1, <2>2 DEF TypeOK
  <1>5. RefcntExact
    BY <1>2, <1>3, SMTT(30) DEF RefcntExact
  <1>6. BufferIsMine /\ LockInv
    BY DEF BufferIsMine, LockInv, Users, Holds
  <1>7. LabelInv /\ WhereInv
    BY DEF LabelInv, WhereInv, InUse
  <1>8. QED
    BY <1>4, <1>5, <1>6, <1>7 DEF BInv

LEMMA NextBInv ==
  ASSUME SetFacts, BInv, [Next]_vars
  PROVE  BInv'
  <1>1. CASE UNCHANGED vars
    BY <1>1, SMTT(30) DEF vars, bufs, callers, BInv, TypeOK, BufferIsMine, RefcntExact, LockInv, LabelInv,
       WhereInv, Users, Holds
  <1>2. CASE Next
    BY <1>2, BgetStep, AcquireStep, BreadStep, BpinStep, BwriteStep, BunpinStep, ReleaseStep,
       BrelseStep DEF Next, Step
  <1>3. QED
    BY <1>1, <1>2, SMTT(30)

-----------------------------------------------------------------------------
(* The cache implements BufAbs.                                            *)

\* Seen through the cache, a block has what was last written to it, and its
\* owner is the process that holds it.
AbsIs ==
  /\ \A b \in Block : Contents(b) = latest[b]
  /\ \A b \in Block : /\ Owner(b) \in Proc \cup {Nobody}
                      /\ \A p \in Proc : Owner(b) = p <=> Holds(p) /\ want[p] = b

LEMMA AbsFacts ==
  ASSUME BInv
  PROVE  AbsIs
  <1>1. ASSUME NEW b \in Block
        PROVE  Contents(b) = latest[b]
    <2>1. CASE \E s \in Slot : blockno[s] = b /\ valid[s] = 1
      <3> DEFINE t == CHOOSE s \in Slot : blockno[s] = b /\ valid[s] = 1
      <3>1. t \in Slot /\ blockno[t] = b /\ valid[t] = 1
        BY <2>1
      <3>2. Contents(b) = data[t]
        BY <2>1 DEF Contents
      <3> HIDE DEF t
      <3>3. QED
        BY <3>1, <3>2 DEF BInv, WhereInv
    <2>2. CASE ~\E s \in Slot : blockno[s] = b /\ valid[s] = 1
      BY <2>2 DEF Contents, BInv, WhereInv
    <2>3. QED
      BY <2>1, <2>2
  <1>2. ASSUME NEW b \in Block, NEW p \in Proc, NEW q \in Proc,
               Holds(p), Holds(q), want[p] = b, want[q] = b
        PROVE  p = q
    <2>1. /\ buf[p] \in Slot /\ blockno[buf[p]] = b
          /\ buf[q] \in Slot /\ blockno[buf[q]] = b
      BY <1>2, Using DEF Holds, InUse
    <2>2. buf[p] = buf[q]
      BY <2>1, BioAssumption DEF BInv, BufferIsMine
    <2>3. QED
      BY <1>2, <2>2 DEF BInv, BufferIsMine
  <1>3. ASSUME NEW b \in Block
        PROVE  /\ Owner(b) \in Proc \cup {Nobody}
               /\ \A p \in Proc : Owner(b) = p <=> Holds(p) /\ want[p] = b
    <2>1. CASE \E p \in Proc : Holds(p) /\ want[p] = b
      <3> DEFINE o == CHOOSE p \in Proc : Holds(p) /\ want[p] = b
      <3>1. o \in Proc /\ Holds(o) /\ want[o] = b
        BY <2>1
      <3>2. Owner(b) = o
        BY <2>1 DEF Owner
      <3> HIDE DEF o
      <3>3. QED
        BY <1>2, <3>1, <3>2
    <2>2. CASE ~\E p \in Proc : Holds(p) /\ want[p] = b
      BY <2>2, BioAssumption DEF Owner
    <2>3. QED
      BY <2>1, <2>2
  <1>4. QED
    BY <1>1, <1>3 DEF AbsIs

LEMMA AbsStep ==
  ASSUME BInv, BInv', AbsIs, AbsIs', [Next]_vars
  PROVE  [Abs!Next]_(Abs!vars)
  <1> DEFINE contents == [b \in Block |-> Contents(b)]
             owner == [b \in Block |-> Owner(b)]
  <1>1. contents = latest /\ contents' = latest'
    BY DEF AbsIs, BInv, TypeOK
  <1>o. /\ \A b \in Block : Owner(b) \in Proc \cup {Nobody}
        /\ \A b \in Block : Owner(b)' \in Proc \cup {Nobody}
    BY Zenon DEF AbsIs
  <1>u. \A s, t \in Slot : blockno[s] = blockno[t] /\ blockno[s] # NoBlock => s = t
    BY Zenon DEF BInv, BufferIsMine
  <1>2. ASSUME \A p \in Proc : Holds(p)' = Holds(p) /\ (Holds(p) => want'[p] = want[p])
        PROVE  owner' = owner
    <2>1. ASSUME NEW b \in Block
          PROVE  Owner(b)' = Owner(b)
      BY <1>2 DEF AbsIs
    <2>2. QED
      BY <2>1
  <1>3. ASSUME latest' = latest,
               \A p \in Proc : Holds(p)' = Holds(p) /\ (Holds(p) => want'[p] = want[p])
        PROVE  UNCHANGED Abs!vars
    BY <1>1, <1>2, <1>3 DEF Abs!vars
  <1>4. CASE UNCHANGED vars
    BY <1>3, <1>4, SMTT(30) DEF vars, bufs, callers, Holds
  <1>5. ASSUME NEW p \in Proc, NEW b \in Block, bget(p, b)
        PROVE  UNCHANGED Abs!vars
    BY <1>3, <1>5, SMTT(30) DEF bget, Holds, BInv, TypeOK
  <1>6. ASSUME NEW p \in Proc, acquiresleep(p)
        PROVE  Abs!Acquire(p, want[p]) /\ want[p] \in Block
    <2> DEFINE b == want[p]
    <2>0. /\ pc[p] = "acquire" /\ lock[buf[p]] = Nobody
          /\ pc' = [pc EXCEPT ![p] = "read"] /\ UNCHANGED <<want, latest>>
      BY <1>6, Zenon DEF acquiresleep
    <2>1. buf[p] \in Slot /\ blockno[buf[p]] = b /\ b \in Block
      BY <2>0, Using, SMTT(30) DEF InUse
    <2>2. Holds(p)' /\ ~Holds(p) /\ want' = want
      BY <2>0, SMTT(30) DEF Holds, BInv, TypeOK
    <2>3. \A q \in Proc \ {p} : Holds(q)' = Holds(q)
      BY <2>0 DEF Holds, BInv, TypeOK
    <2>4. Owner(b) = Nobody
      <3>1. ASSUME NEW q \in Proc, Owner(b) = q
            PROVE  FALSE
        <4>1. Holds(q) /\ want[q] = b
          BY <2>1, <3>1 DEF AbsIs
        <4>2. buf[q] \in Slot /\ blockno[buf[q]] = b /\ lock[buf[q]] = q
          BY <4>1, Using, Zenon DEF Holds, InUse, BInv, BufferIsMine
        <4>3. b # NoBlock
          BY <2>1, BioAssumption, Zenon
        <4>4. buf[q] = buf[p]
          BY <1>u, <2>1, <4>2, <4>3, Zenon
        <4>5. QED
          BY <2>0, <4>2, <4>4, BioAssumption, Zenon
      <3>2. QED
        BY <1>o, <2>1, <3>1, Zenon
    <2>5. \A c \in Block : Owner(c) # p
      BY <2>2, Zenon DEF AbsIs
    <2>6. owner' = [owner EXCEPT ![b] = p]
      <3>1. Owner(b)' = p
        BY <2>1, <2>2, ZenonT(30) DEF AbsIs
      <3>2. ASSUME NEW c \in Block, c # b
            PROVE  Owner(c)' = Owner(c)
        <4>1. \A q \in Proc : Owner(c)' = q <=> Owner(c) = q
          BY <2>2, <2>3, <3>2, SMTT(30) DEF AbsIs
        <4>2. QED
          BY <1>o, <4>1, Zenon
      <3>3. QED
        BY <2>0, <2>1, <3>1, <3>2, ZenonT(30)
    <2>7. QED
      BY <1>1, <2>0, <2>1, <2>4, <2>5, <2>6 DEF Abs!Acquire
  <1>7. ASSUME NEW p \in Proc, bread(p)
        PROVE  UNCHANGED Abs!vars
    BY <1>3, <1>7 DEF bread, Holds, BInv, TypeOK
  <1>8. ASSUME NEW p \in Proc, NEW v \in Value, bpin(p, v) \/ bwrite(p, v)
        PROVE  Abs!Write(p, want[p], v) /\ want[p] \in Block
    <2> DEFINE b == want[p]
    <2>1. pc[p] = "use" /\ Holds(p)
      BY <1>8, SMTT(30) DEF bpin, bwrite, Holds
    <2>2. b \in Block /\ lock[buf[p]] = p
      <3>1. pc[p] \in InUse
        BY <2>1, Zenon DEF InUse
      <3> QED BY <2>1, <3>1, Using, Zenon DEF BInv, BufferIsMine, Holds
    <2>3. latest' = [latest EXCEPT ![b] = v] /\ UNCHANGED <<pc, want>>
      BY <1>8, <2>2, SMTT(30) DEF bpin, bwrite, callers
    <2>4. owner' = owner
      BY <1>2, <2>3 DEF Holds
    <2>5. Owner(b) = p
      BY <2>1, <2>2, ZenonT(30) DEF AbsIs
    <2>6. QED
      BY <1>1, <2>2, <2>3, <2>4, <2>5 DEF Abs!Write
  <1>9. ASSUME NEW p \in Proc, bunpin(p)
        PROVE  UNCHANGED Abs!vars
    BY <1>3, <1>9 DEF bunpin, Holds, BInv, TypeOK
  <1>10. ASSUME NEW p \in Proc, releasesleep(p)
         PROVE  Abs!Release(p, want[p]) /\ want[p] \in Block
    <2> DEFINE b == want[p]
    <2>1. pc[p] \in {"use", "installed"} /\ Holds(p)
      BY <1>10, Zenon DEF releasesleep, Holds
    <2>2. b \in Block /\ lock[buf[p]] = p
      BY <2>1, Using, SMTT(30) DEF InUse, BInv, BufferIsMine, Holds
    <2>3. pc' = [pc EXCEPT ![p] = "release"] /\ UNCHANGED <<want, latest>>
      BY <1>10, <2>2, SMTT(30) DEF releasesleep
    <2>4. ~Holds(p)' /\ \A q \in Proc \ {p} : Holds(q)' = Holds(q)
      BY <2>3, SMTT(30) DEF Holds, BInv, TypeOK
    <2>5. Owner(b) = p
      BY <2>1, <2>2 DEF AbsIs
    <2>6. owner' = [owner EXCEPT ![b] = Nobody]
      <3>1. Owner(b)' = Nobody
        <4>1. \A q \in Proc : Owner(b)' = q => Owner(b) = q /\ q # p
          BY <2>2, <2>3, <2>4, SMTT(30) DEF AbsIs
        <4>2. QED
          BY <1>o, <2>2, <2>3, <2>5, <4>1, Zenon
      <3>2. ASSUME NEW c \in Block, c # b
            PROVE  Owner(c)' = Owner(c)
        <4>1. \A q \in Proc : Owner(c)' = q <=> Owner(c) = q
          BY <2>1, <2>3, <2>4, <3>2, SMTT(30) DEF AbsIs
        <4>2. QED
          BY <1>o, <4>1, Zenon
      <3>3. QED
        BY <2>2, <2>3, <3>1, <3>2, ZenonT(30)
    <2>7. QED
      BY <1>1, <2>2, <2>3, <2>5, <2>6, Zenon DEF Abs!Release
  <1>11. ASSUME NEW p \in Proc, brelse(p)
         PROVE  UNCHANGED Abs!vars
    BY <1>3, <1>11 DEF brelse, Holds, BInv, TypeOK
  <1>12. CASE Next
    BY <1>5, <1>6, <1>7, <1>8, <1>9, <1>10, <1>11, <1>12 DEF Next, Step, Abs!Next
  <1>13. QED
    BY <1>4, <1>12



-----------------------------------------------------------------------------
(* The theorems.                                                           *)

INSTANCE FiniteSetTheorems

\* SetFacts is true.
LEMMA SetsCount == SetFacts
BY FS_EmptySet, FS_CardinalityType, FS_Singleton, FS_Subset, FS_AddElement, FS_RemoveElement, Zenon DEF SetFacts

\* The invariant of bio.c holds in every reachable state.
THEOREM BioInvariant == Spec => []BInv
  BY SetsCount, InitBInv, NextBInv, PTL DEF Spec

\* From bget to brelse a process has the one buffer of the block it asked for,
\* and it alone holds that buffer's sleep lock.
THEOREM BuffersOwned == Spec => []BufferIsMine
  <1>1. BInv => BufferIsMine
    BY DEF BInv
  <1>2. QED
    BY <1>1, BioInvariant, PTL

\* b->refcnt is the number of processes between bget and brelse, and the pin,
\* and never wraps.
THEOREM ReferencesCounted == Spec => []RefcntExact
  <1>1. BInv => RefcntExact
    BY SMTT(30) DEF BInv
  <1>2. QED
    BY <1>1, BioInvariant, PTL

\* What bread returns is what was last written, wherever the block has been
\* since.
THEOREM NothingStale == Spec => []ReadsLatest
  <1>1. BInv => ReadsLatest
    <2>1. SUFFICES ASSUME BInv, NEW p \in Proc, pc[p] = "use"
                   PROVE  data[buf[p]] = latest[want[p]]
      BY DEF ReadsLatest
    <2>2. buf[p] \in Slot /\ blockno[buf[p]] = want[p]
      BY <2>1, Using DEF InUse
    <2>3. QED
      BY <2>1, <2>2, SMTT(30) DEF BInv, LabelInv, WhereInv
  <1>2. QED
    BY <1>1, BioInvariant, PTL

\* bio.c gives its callers one set of contents per block, and each block to
\* one process at a time: recycling, the two-step brelse, the log's pins and
\* reads from the disk cannot be told apart from a cache without limits.
THEOREM CacheIsTransparent == Spec => ImplementsAbs
  <1>1. BInv => AbsIs
    BY SetsCount, AbsFacts
  <1>2. Init => Abs!Init
    <2>1. SUFFICES ASSUME Init PROVE Abs!Init
      OBVIOUS
    <2>2. AbsIs
      BY <2>1, SetsCount, InitBInv, AbsFacts
    <2>3. \A b \in Block : Contents(b) \in Value
      BY <2>1, <2>2 DEF AbsIs, Init
    <2>4. \A b \in Block : Owner(b) = Nobody
      BY <2>1 DEF Owner, Init, Holds
    <2>5. QED
      BY <2>3, <2>4 DEF Abs!Init
  <1>3. BInv /\ BInv' /\ AbsIs /\ AbsIs' /\ [Next]_vars => [Abs!Next]_(Abs!vars)
    BY AbsStep
  <1>4. QED
    BY <1>1, <1>2, <1>3, BioInvariant, PTL DEF Spec, ImplementsAbs, Abs!Spec

=============================================================================
