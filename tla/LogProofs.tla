----------------------------- MODULE LogProofs ------------------------------
(***************************************************************************)
(* For every number of processes, blocks, contents and crashes: the types  *)
(* of Log, that commits exclude operations, that begin_op's reservation    *)
(* bounds the log, that no update is lost, that what a crash leaves        *)
(* changes only at the commit point, and, where the cache has room, that   *)
(* the log implements LogAbs.                                              *)
(***************************************************************************)
EXTENDS Log, TLAPS

Dirty(b) == \E p \in Proc : hold[p] = b /\ pc[p] \in {"dirty", "checked", "panic"}
Held(b) == \E p \in Proc : hold[p] = b

\* Home locations that the current install_trans has already overwritten.
Installing == \E p \in Proc : pc[p] = "install"
Installed(i) == \/ \E p \in Proc : pc[p] = "clear"
                \/ Installing /\ i <= tail

Pinned(b) == boot = "done" /\ \E i \in 1..Len(lh) : lh[i] = b /\ ~Installed(i)

Distinct(s) == \A i, j \in 1..Len(s) : s[i] = s[j] => i = j

\* The counts that keep a buffer from being recycled can be relied on: recovery
\* called bunpin on no block, or nothing is ever recycled.
Trusted == unpinned = {} \/ ~CachePressure

\* Who holds which buffer.
LockInv ==
  /\ \A p \in Proc : pc[p] \in {"hold", "dirty", "checked", "logged", "read", "panic"}
                       <=> hold[p] # NoBlock
  /\ \A p, q \in Proc : hold[p] = hold[q] /\ hold[p] # NoBlock => p = q
  /\ \A p \in Proc : pc[p] \in {"dirty", "checked", "panic"} => nwrites[p] > 0

\* Recovery runs before anything else does.
BootInv ==
  boot # "done" =>
    /\ \A p \in Proc : pc[p] = "idle"
    /\ lh = <<>> \/ boot # "read_head"
    /\ committing = 0
    /\ latest = Recovered
    /\ \A b \in Block : cache[b] \in {NoVal, home[b]}

CountInv ==
  /\ outstanding = Cardinality({p \in Proc : InOp(p)})
  /\ committing = 1 => \A p \in Proc : ~InOp(p)
  /\ \A p \in Proc : InCommit(p) => committing = 1
  /\ \A p, q \in Proc : InCommit(p) /\ InCommit(q) => p = q

\* The header on the disk is the one in memory from the commit point until it
\* is cleared, and empty otherwise.
HeadInv ==
  /\ Distinct(lh) /\ Distinct(dhead)
  /\ Len(lh) <= LOGSIZE /\ Len(dhead) <= LOGSIZE
  /\ boot \in {"install", "clear"} => lh = dhead
  /\ boot = "done" =>
       dhead = IF \E p \in Proc : pc[p] \in {"install", "clear"} THEN lh ELSE <<>>
  /\ (\E p \in Proc : pc[p] = "finish") => lh = <<>>

\* How far write_log and install_trans have come.
TailInv ==
  /\ \A p \in Proc : pc[p] \in {"write_log", "install"} => tail < Len(lh)
  /\ \A p \in Proc : pc[p] = "write_head" => 0 < Len(lh)
  /\ boot = "install" => tail < Len(lh)
  /\ Trusted => \A p \in Proc, i \in 1..Len(lh) :
       pc[p] \in {"write_head", "install", "clear"} \/ (pc[p] = "write_log" /\ i <= tail)
         => dlog[i] = latest[lh[i]]
  /\ boot = "done" => \A i \in 1..Len(lh) : Installed(i) => home[lh[i]] = dlog[i]
  /\ boot = "install" => \A i \in 1..Len(lh) : i <= tail => home[lh[i]] = dlog[i]
  /\ boot = "clear" => \A i \in 1..Len(lh) : home[lh[i]] = dlog[i]

\* bread returns what was last written, and a cached block differs from its
\* home only while it is pinned or held.
CacheInv ==
  boot = "done" /\ Trusted => \A b \in Block :
    /\ Contents(b) = latest[b]
    /\ cache[b] \in {NoVal, home[b]} \/ Pinned(b) \/ Dirty(b)

\* The reference counts are exact if recovery has left them alone.
RefInv ==
  unpinned = {} => \A b \in Block :
    refcnt[b] = (IF Held(b) THEN 1 ELSE 0) + (IF Pinned(b) THEN 1 ELSE 0)

IInv == /\ TypeOK /\ LockInv /\ BootInv /\ CountInv /\ HeadInv /\ TailInv
        /\ CacheInv /\ RefInv /\ SpaceReserved

\* What the proofs use of finite sets.  FiniteSetTheorems proves it at the end
\* of this module: it is a large library to have in every context.
SetFacts ==
  /\ IsFiniteSet({}) /\ Cardinality({}) = 0
  /\ \A S : IsFiniteSet(S) => (Cardinality(S) = 0 <=> S = {})
  /\ \A S : IsFiniteSet(S) => Cardinality(S) \in Nat
  /\ \A S : \A T \in SUBSET S : IsFiniteSet(S) =>
       /\ IsFiniteSet(T) /\ Cardinality(T) <= Cardinality(S)
       /\ Cardinality(S) = Cardinality(T) => S = T
  /\ \A i, j \in Int :
       IsFiniteSet(i..j) /\ Cardinality(i..j) = IF i > j THEN 0 ELSE j - i + 1
  /\ \A S, T : IsFiniteSet(S) /\ IsFiniteSet(T) =>
       IsFiniteSet(S \X T) /\ Cardinality(S \X T) = Cardinality(S) * Cardinality(T)
  /\ \A S, x : IsFiniteSet(S) =>
       /\ IsFiniteSet(S \cup {x})
       /\ Cardinality(S \cup {x}) = IF x \in S THEN Cardinality(S) ELSE Cardinality(S) + 1
  /\ \A S, x : IsFiniteSet(S) =>
       /\ IsFiniteSet(S \ {x})
       /\ Cardinality(S \ {x}) = IF x \in S THEN Cardinality(S) - 1 ELSE Cardinality(S)

\* The empty set has no element, and no other finite set has none.
LEMMA SetEmptySet ==
  ASSUME SetFacts
  PROVE  /\ IsFiniteSet({}) /\ Cardinality({}) = 0
         /\ \A S : IsFiniteSet(S) => (Cardinality(S) = 0 <=> S = {})
BY Zenon DEF SetFacts

\* A finite set can be counted.
LEMMA SetCardinalityType ==
  ASSUME SetFacts, NEW S, IsFiniteSet(S)
  PROVE  Cardinality(S) \in Nat
BY Zenon DEF SetFacts

\* A subset is no larger.
LEMMA SetSubset ==
  ASSUME SetFacts, NEW S, IsFiniteSet(S), NEW T \in SUBSET S
  PROVE  /\ IsFiniteSet(T) /\ Cardinality(T) <= Cardinality(S)
         /\ Cardinality(S) = Cardinality(T) => S = T
BY Zenon DEF SetFacts

\* An interval.
LEMMA SetInterval ==
  ASSUME SetFacts, NEW i \in Int, NEW j \in Int
  PROVE  IsFiniteSet(i..j) /\ Cardinality(i..j) = IF i > j THEN 0 ELSE j - i + 1
BY Zenon DEF SetFacts

\* A set of pairs.
LEMMA SetProduct ==
  ASSUME SetFacts, NEW S, IsFiniteSet(S), NEW T, IsFiniteSet(T)
  PROVE  IsFiniteSet(S \X T) /\ Cardinality(S \X T) = Cardinality(S) * Cardinality(T)
BY Zenon DEF SetFacts

\* An element more.
LEMMA SetAddElement ==
  ASSUME SetFacts
  PROVE  \A S, x : IsFiniteSet(S) =>
           /\ IsFiniteSet(S \cup {x})
           /\ Cardinality(S \cup {x}) = IF x \in S THEN Cardinality(S) ELSE Cardinality(S) + 1
BY Zenon DEF SetFacts

\* An element less.
LEMMA SetRemoveElement ==
  ASSUME SetFacts
  PROVE  \A S, x : IsFiniteSet(S) =>
           /\ IsFiniteSet(S \ {x})
           /\ Cardinality(S \ {x}) = IF x \in S THEN Cardinality(S) - 1 ELSE Cardinality(S)
BY Zenon DEF SetFacts

-----------------------------------------------------------------------------
\* The invariant holds when the system boots: empty caches, no process in a
\* call, recovery about to read the header.
LEMMA InitIInv == ASSUME SetFacts PROVE Init => IInv
<1> SUFFICES ASSUME Init PROVE IInv
  OBVIOUS
<1> USE LogAssumption
<1>1. TypeOK
  BY DEF Init, TypeOK, PC
<1>2. LockInv
  BY Zenon DEF Init, LockInv
<1>3. BootInv
  BY DEF Init, BootInv, Recovered, Entries
<1>4. CountInv
  <2>1. {p \in Proc : InOp(p)} = {}
    BY Zenon DEF Init, InOp
  <2>2. QED
    BY <2>1, SetEmptySet, Zenon DEF Init, CountInv, InCommit
<1>5. HeadInv
  BY DEF Init, HeadInv, Distinct
<1>6. TailInv
  BY Zenon DEF Init, TailInv, Trusted
<1>7. CacheInv
  BY Zenon DEF Init, CacheInv, Trusted
<1>8. RefInv
  BY DEF Init, RefInv, Held, Pinned
<1>9. SpaceReserved
  <2>1. Unused = {}
    BY Zenon DEF Init, Unused, InOp
  <2>2. QED
    BY <2>1, SetEmptySet DEF Init, SpaceReserved
<1> QED
  BY <1>1, <1>2, <1>3, <1>4, <1>5, <1>6, <1>7, <1>8, <1>9, Zenon DEF IInv

(* Facts the steps share.  What a predicate over all processes says does   *)
(* not change when each process satisfies it exactly as before.            *)

DirtyPC == {"dirty", "checked", "panic"}
Ops == {p \in Proc : InOp(p)}

\* A step that leaves install_trans where it is leaves the pinned blocks
\* as they are.
LEMMA SamePins ==
  ASSUME \A q \in Proc : /\ pc'[q] = "install" <=> pc[q] = "install"
                         /\ pc'[q] = "clear" <=> pc[q] = "clear",
         UNCHANGED <<lh, tail, boot>>
  PROVE  /\ \A i : Installed(i)' <=> Installed(i)
         /\ \A b : Pinned(b)' <=> Pinned(b)
<1>1. \A i : Installed(i)' <=> Installed(i)
  BY Zenon DEF Installed, Installing
<1> QED
  BY <1>1, Zenon DEF Pinned

\* The held and the dirty buffers change only with hold and with the
\* processes between a change of b->data and log_write.
LEMMA SameDirty ==
  ASSUME \A q \in Proc : pc'[q] \in DirtyPC <=> pc[q] \in DirtyPC,
         UNCHANGED hold
  PROVE  \A b : (Dirty(b)' <=> Dirty(b)) /\ (Held(b)' <=> Held(b))
BY Zenon DEF Dirty, Held, DirtyPC

\* The headers stay consistent while nothing they are compared with changes.
LEMMA SameHead ==
  ASSUME HeadInv, UNCHANGED <<lh, dhead, boot, pc>>
  PROVE  HeadInv'
<1>1. lh' = lh /\ dhead' = dhead /\ boot' = boot /\ pc' = pc
  BY Zenon
<1>2. (Distinct(lh)' <=> Distinct(lh)) /\ (Distinct(dhead)' <=> Distinct(dhead))
  BY <1>1 DEF Distinct
<1> QED
  BY <1>1, <1>2, Zenon DEF HeadInv

\* log.outstanding stays exact when no process enters or leaves an
\* operation or a commit.
LEMMA SameCount ==
  ASSUME CountInv, UNCHANGED <<outstanding, committing>>,
         \A q \in Proc : /\ InOp(q)' <=> InOp(q)
                         /\ InCommit(q)' <=> InCommit(q)
  PROVE  CountInv'
<1>1. {q \in Proc : InOp(q)}' = {q \in Proc : InOp(q)}
  OBVIOUS
<1> QED
  BY <1>1, Zenon DEF CountInv

\* There are finitely many operations under way, so log.outstanding can
\* count them.
LEMMA ProcsFinite ==
  ASSUME SetFacts, NEW S \in SUBSET Proc
  PROVE  IsFiniteSet(S) /\ Cardinality(S) \in Nat
BY LogAssumption, SetSubset, SetCardinalityType, Zenon

\* The log_write calls an operation may make are finitely many.
LEMMA CallsFinite ==
  ASSUME SetFacts, NEW S \in SUBSET Proc, NEW T \in SUBSET (S \X (1..MAXOPBLOCKS))
  PROVE  /\ IsFiniteSet(T) /\ Cardinality(T) \in Nat
         /\ Cardinality(T) <= Cardinality(S) * MAXOPBLOCKS
<1>1. IsFiniteSet(1..MAXOPBLOCKS) /\ Cardinality(1..MAXOPBLOCKS) = MAXOPBLOCKS
  BY LogAssumption, SetInterval
<1>2. /\ IsFiniteSet(S \X (1..MAXOPBLOCKS))
      /\ Cardinality(S \X (1..MAXOPBLOCKS)) = Cardinality(S) * MAXOPBLOCKS
  BY <1>1, ProcsFinite, SetProduct, Zenon
<1> QED
  BY <1>2, SetSubset, SetCardinalityType, Zenon

\* The calls still to come can be counted, which begin_op's reservation
\* relies on.
LEMMA UnusedFinite == ASSUME SetFacts PROVE IsFiniteSet(Unused) /\ Cardinality(Unused) \in Nat
<1>1. Unused \in SUBSET (Proc \X (1..MAXOPBLOCKS))
  BY Zenon DEF Unused
<1> QED
  BY <1>1, CallsFinite, Zenon

\* Fewer calls to come and no longer a log: the reservation still holds.
LEMMA FewerUnused ==
  ASSUME SetFacts, SpaceReserved, lh \in Seq(Block), Unused' \subseteq Unused, UNCHANGED lh
  PROVE  SpaceReserved'
<1>1. Cardinality(Unused') <= Cardinality(Unused) /\ Cardinality(Unused') \in Nat
  BY UnusedFinite, SetSubset, SetCardinalityType, Zenon
<1> QED
  BY <1>1, UnusedFinite, LogAssumption DEF SpaceReserved

\* A uint stays in its range.
LEMMA ModRange == ASSUME NEW x \in Int PROVE x % RefMod \in 0..(RefMod - 1)
BY LogAssumption

\* Reducing a number in range changes nothing.
LEMMA ModId == ASSUME NEW x \in 0..(RefMod - 1) PROVE x % RefMod = x
BY LogAssumption

\* refcnt is a uint: counting up and down is exact short of its limits.
LEMMA RefInc ==
  ASSUME NEW b \in Block, refcnt \in [Block -> 0..(RefMod - 1)],
         refcnt' = [refcnt EXCEPT ![b] = (@ + 1) % RefMod]
  PROVE  /\ refcnt' \in [Block -> 0..(RefMod - 1)]
         /\ \A c \in Block \ {b} : refcnt'[c] = refcnt[c]
         /\ refcnt[b] + 1 < RefMod => refcnt'[b] = refcnt[b] + 1
<1> USE LogAssumption
<1> DEFINE r == (refcnt[b] + 1) % RefMod
<1>1. r \in 0..(RefMod - 1)
  BY ModRange
<1>2. ASSUME refcnt[b] + 1 < RefMod PROVE r = refcnt[b] + 1
  <2>1. refcnt[b] + 1 \in 0..(RefMod - 1)
    BY <1>2
  <2> QED
    BY <2>1, ModId, Zenon
<1>3. refcnt' = [refcnt EXCEPT ![b] = r]
  OBVIOUS
<1> HIDE DEF r
<1> QED
  BY <1>1, <1>2, <1>3, Zenon

\* brelse and bunpin on a buffer with a reference take one away: no
\* wrap-around below 0.
LEMMA RefDec ==
  ASSUME NEW b \in Block, refcnt \in [Block -> 0..(RefMod - 1)],
         refcnt' = [refcnt EXCEPT ![b] = (@ - 1) % RefMod]
  PROVE  /\ refcnt' \in [Block -> 0..(RefMod - 1)]
         /\ \A c \in Block \ {b} : refcnt'[c] = refcnt[c]
         /\ refcnt[b] > 0 => refcnt'[b] = refcnt[b] - 1
<1> USE LogAssumption
<1> DEFINE r == (refcnt[b] - 1) % RefMod
<1>1. r \in 0..(RefMod - 1)
  BY ModRange
<1>2. ASSUME refcnt[b] > 0 PROVE r = refcnt[b] - 1
  <2>1. refcnt[b] - 1 \in 0..(RefMod - 1)
    BY <1>2
  <2> QED
    BY <2>1, ModId, Zenon
<1>3. refcnt' = [refcnt EXCEPT ![b] = r]
  OBVIOUS
<1> HIDE DEF r
<1> QED
  BY <1>1, <1>2, <1>3, Zenon

-----------------------------------------------------------------------------
(* begin_op, bread, a change of b->data, log_write, brelse and end_op.     *)

\* begin_op preserves the invariant: what it reserves covers the calls of
\* the operation it admits.
LEMMA BeginOpIInv ==
  ASSUME SetFacts, IInv, NEW p \in Proc, begin_op(p) PROVE IInv'
<1> USE LogAssumption
<1>0. TypeOK /\ LockInv /\ BootInv /\ CountInv /\ HeadInv /\ TailInv /\ CacheInv /\ RefInv /\ SpaceReserved
  BY Zenon DEF IInv
<1> DEFINE need == Len(lh) + (outstanding + 1) * MAXOPBLOCKS
<1>a. /\ boot = "done" /\ pc[p] \in {"idle", "begin"}
      /\ UNCHANGED <<home, dlog, dhead, lh, committing, cache, refcnt, hold, tail, boot, crashes, latest, unpinned>>
      /\ \/ /\ pc' = [pc EXCEPT ![p] = "sleep"]
            /\ UNCHANGED <<outstanding, nwrites>>
         \/ /\ pc' = [pc EXCEPT ![p] = "op"]
            /\ outstanding' = outstanding + 1
            /\ committing = 0
            /\ nwrites' = [nwrites EXCEPT ![p] = 0]
            /\ need <= LOGSIZE
  <2>1. need \in Int
    BY <1>0 DEF TypeOK
  <2>2. /\ boot = "done" /\ pc[p] \in {"idle", "begin"}
        /\ IF committing = 1 \/ need > LOGSIZE
           THEN pc' = [pc EXCEPT ![p] = "sleep"] /\ UNCHANGED <<outstanding, nwrites>>
           ELSE /\ outstanding' = outstanding + 1
                /\ pc' = [pc EXCEPT ![p] = "op"]
                /\ nwrites' = [nwrites EXCEPT ![p] = 0]
        /\ UNCHANGED <<disk, lh, committing, bufs, hold, tail, boot, crashes, hist>>
    BY Zenon DEF begin_op
  <2> HIDE DEF need
  <2>3. \/ pc' = [pc EXCEPT ![p] = "sleep"] /\ UNCHANGED <<outstanding, nwrites>>
        \/ /\ pc' = [pc EXCEPT ![p] = "op"] /\ outstanding' = outstanding + 1
           /\ committing = 0 /\ nwrites' = [nwrites EXCEPT ![p] = 0] /\ need <= LOGSIZE
    BY <1>0, <2>1, <2>2 DEF TypeOK
  <2> QED
    BY <2>2, <2>3, Zenon DEF disk, bufs, hist
<1> HIDE DEF need
<1>b. \A q \in Proc : q # p => pc'[q] = pc[q]
  BY <1>0, <1>a, Zenon DEF TypeOK
<1>c. pc'[p] \in {"sleep", "op"}
  BY <1>0, <1>a, Zenon DEF TypeOK
<1>d. /\ \A i : Installed(i)' <=> Installed(i)
      /\ \A b : Pinned(b)' <=> Pinned(b)
  <2>1. \A q \in Proc : /\ pc'[q] = "install" <=> pc[q] = "install"
                        /\ pc'[q] = "clear" <=> pc[q] = "clear"
    BY <1>a, <1>b, <1>c, Zenon
  <2> QED
    BY <2>1, <1>a, SamePins, Zenon
<1>e. \A b : (Dirty(b)' <=> Dirty(b)) /\ (Held(b)' <=> Held(b))
  <2>1. \A q \in Proc : pc'[q] \in DirtyPC <=> pc[q] \in DirtyPC
    BY <1>a, <1>b, <1>c, Zenon DEF DirtyPC
  <2> QED
    BY <2>1, <1>a, SameDirty, Zenon
<1>1. TypeOK'
  <2>1. pc' \in [Proc -> PC]
    BY <1>0, <1>a, Zenon DEF TypeOK, PC
  <2>2. nwrites' \in [Proc -> 0..MAXOPBLOCKS]
    <3>1. CASE nwrites' = nwrites
      BY <3>1, <1>0, Zenon DEF TypeOK
    <3>2. CASE nwrites' = [nwrites EXCEPT ![p] = 0]
      BY <3>2, <1>0 DEF TypeOK
    <3> QED
      BY <3>1, <3>2, <1>a, Zenon
  <2>3. outstanding' \in Int
    <3>1. outstanding' = outstanding \/ outstanding' = outstanding + 1
      BY <1>a, Zenon
    <3> QED
      BY <3>1, <1>0 DEF TypeOK
  <2> QED
    BY <1>0, <1>a, <2>1, <2>2, <2>3, Zenon DEF TypeOK
<1>2. LockInv'
  <2>1. \A q \in Proc : pc'[q] \in {"dirty", "checked", "panic"} => q # p /\ nwrites'[q] = nwrites[q]
    <3>1. CASE nwrites' = nwrites
      BY <3>1, <1>b, <1>c, Zenon
    <3>2. CASE nwrites' = [nwrites EXCEPT ![p] = 0]
      BY <3>2, <1>0, <1>b, <1>c, Zenon DEF TypeOK
    <3> QED
      BY <3>1, <3>2, <1>a, Zenon
  <2> QED
    BY <2>1, <1>0, <1>a, <1>b, <1>c, Zenon DEF LockInv
<1>3. BootInv'
  BY <1>0, <1>a, Zenon DEF BootInv
<1>4. CountInv' /\ SpaceReserved'
  <2>1. CASE pc' = [pc EXCEPT ![p] = "sleep"] /\ UNCHANGED <<outstanding, nwrites>>
    <3>1. \A q \in Proc : (InOp(q)' <=> InOp(q)) /\ (InCommit(q)' <=> InCommit(q))
      BY <1>0, <1>a, <2>1, Zenon DEF InOp, InCommit, TypeOK
    <3>2. CountInv'
      BY <1>0, <1>a, <2>1, <3>1, SameCount, Zenon
    <3>3. Unused' \subseteq Unused
      BY <1>0, <1>a, <2>1, <3>1, Zenon DEF Unused, Done, TypeOK
    <3> QED
      BY <3>2, <3>3, <1>0, <1>a, FewerUnused, Zenon DEF TypeOK
  <2>2. CASE /\ pc' = [pc EXCEPT ![p] = "op"]
             /\ outstanding' = outstanding + 1
             /\ committing = 0
             /\ need <= LOGSIZE
    <3>1. \A q \in Proc : (InOp(q)' <=> InOp(q) \/ q = p) /\ (InCommit(q)' <=> InCommit(q))
      BY <1>0, <1>a, <2>2, Zenon DEF InOp, InCommit, TypeOK
    <3>2. Ops' = Ops \cup {p} /\ p \notin Ops
      BY <3>1, <1>a, Zenon DEF Ops, InOp
    <3>3. Cardinality(Ops') = Cardinality(Ops) + 1
      BY <3>2, ProcsFinite, SetAddElement, Zenon DEF Ops
    <3>4. CountInv'
      BY <1>0, <1>a, <2>2, <3>1, <3>3 DEF CountInv, Ops
    <3>5. /\ Cardinality(Unused') \in Nat
          /\ Cardinality(Unused') <= Cardinality(Ops') * MAXOPBLOCKS
      <4>1. Ops' \in SUBSET Proc /\ Unused' \in SUBSET (Ops' \X (1..MAXOPBLOCKS))
        BY Zenon DEF Ops, Unused
      <4> QED
        BY <4>1, CallsFinite, Zenon
    <3>6. Cardinality(Ops') = outstanding'
      BY <3>4, Zenon DEF CountInv, Ops
    <3>7. SpaceReserved'
      <4>1. Len(lh') + outstanding' * MAXOPBLOCKS <= LOGSIZE
        BY <2>2, <1>a, Zenon DEF need
      <4> QED
        BY <4>1, <3>5, <3>6, <2>2, <1>0, <1>a DEF SpaceReserved, TypeOK
    <3> QED
      BY <3>4, <3>7, Zenon
  <2> QED
    BY <2>1, <2>2, <1>a, Zenon
<1>5. HeadInv'
  BY <1>0, <1>a, SMTT(30) DEF HeadInv, TypeOK, Distinct
<1>6. TailInv'
  BY <1>0, <1>a, <1>d, SMTT(30) DEF TailInv, Trusted, TypeOK
<1>7. CacheInv'
  BY <1>0, <1>a, <1>d, <1>e, Zenon DEF CacheInv, Trusted, Contents
<1>8. RefInv'
  BY <1>0, <1>a, <1>d, <1>e, Zenon DEF RefInv
<1> QED
  BY <1>1, <1>2, <1>3, <1>4, <1>5, <1>6, <1>7, <1>8, Zenon DEF IInv

\* bread preserves the invariant: it adds one reference and one holder.
LEMMA BreadIInv ==
  ASSUME SetFacts, IInv, NEW p \in Proc, NEW b \in Block, bread(p, b) PROVE IInv'
<1> USE LogAssumption
<1>0. TypeOK /\ LockInv /\ BootInv /\ CountInv /\ HeadInv /\ TailInv /\ CacheInv /\ RefInv /\ SpaceReserved
  BY Zenon DEF IInv
<1> DEFINE x == IF pc[p] = "op" THEN "hold" ELSE "read"
<1>a. /\ boot = "done" /\ pc[p] \in {"idle", "op"} /\ BufFree(b)
      /\ refcnt' = [refcnt EXCEPT ![b] = (@ + 1) % RefMod]
      /\ cache' = [cache EXCEPT ![b] = Contents(b)]
      /\ hold' = [hold EXCEPT ![p] = b]
      /\ pc' = [pc EXCEPT ![p] = x]
      /\ UNCHANGED <<home, dlog, dhead, lh, outstanding, committing, tail, nwrites, boot, crashes, latest, unpinned>>
  BY Zenon DEF bread, disk, logvars, hist
<1>r. /\ refcnt' \in [Block -> 0..(RefMod - 1)]
      /\ \A c \in Block \ {b} : refcnt'[c] = refcnt[c]
      /\ refcnt[b] + 1 < RefMod => refcnt'[b] = refcnt[b] + 1
  BY <1>0, <1>a, RefInc, Zenon DEF TypeOK
<1>x. x \in {"hold", "read"} /\ (pc[p] = "op" <=> x = "hold")
  OBVIOUS
<1> HIDE DEF x
<1>b. /\ \A q \in Proc : q # p => pc'[q] = pc[q] /\ hold'[q] = hold[q]
      /\ pc'[p] = x /\ hold'[p] = b /\ hold[p] = NoBlock
  BY <1>0, <1>a, Zenon DEF TypeOK, LockInv
<1>c. /\ \A c \in Block : Contents(c)' = Contents(c) /\ (cache[c] # NoVal => cache'[c] # NoVal)
      /\ cache'[b] # NoVal
      /\ \A c \in Block : cache'[c] \in {NoVal, home[c], cache[c]}
  BY <1>0, <1>a DEF Contents, TypeOK
<1>d. /\ \A i : Installed(i)' <=> Installed(i)
      /\ \A c : Pinned(c)' <=> Pinned(c)
  <2>1. \A q \in Proc : /\ pc'[q] = "install" <=> pc[q] = "install"
                        /\ pc'[q] = "clear" <=> pc[q] = "clear"
    BY <1>a, <1>b, <1>x, Zenon
  <2> QED
    BY <2>1, <1>a, SamePins, Zenon
<1>e. \A c \in Block : Dirty(c)' <=> Dirty(c)
  BY <1>a, <1>b, <1>x, Zenon DEF Dirty
<1>f. \A c \in Block : Held(c)' <=> Held(c) \/ c = b
  BY <1>b, Zenon DEF Held
<1>g. ~Held(b)
  BY <1>a, Zenon DEF Held, BufFree
<1>1. TypeOK'
  <2>1. pc' \in [Proc -> PC]
    BY <1>0, <1>a, <1>x, Zenon DEF TypeOK, PC
  <2>2. cache' \in [Block -> Value \cup {NoVal}]
    BY <1>0, <1>a, Zenon DEF TypeOK, Contents
  <2> QED
    BY <1>0, <1>a, <1>r, <2>1, <2>2, Zenon DEF TypeOK
<1>2. LockInv'
  <2>1. \A q \in Proc : pc'[q] \in {"hold", "dirty", "checked", "logged", "read", "panic"}
                          <=> hold'[q] # NoBlock
    BY <1>0, <1>b, <1>x, Zenon DEF LockInv
  <2>2. \A q1, q2 \in Proc : hold'[q1] = hold'[q2] /\ hold'[q1] # NoBlock => q1 = q2
    BY <1>0, <1>b, <1>g DEF LockInv, Held
  <2>3.. \A q \in Proc : pc'[q] \in {"dirty", "checked", "panic"} => nwrites'[q] > 0
    BY <1>0, <1>a, <1>b, <1>x, Zenon DEF LockInv
  <2> QED
    BY <2>1, <2>2, <2>3, Zenon DEF LockInv
<1>3. BootInv'
  BY <1>a, Zenon DEF BootInv
<1>4. CountInv' /\ SpaceReserved'
  <2>1. \A q \in Proc : (InOp(q)' <=> InOp(q)) /\ (InCommit(q)' <=> InCommit(q))
    BY <1>a, <1>b, <1>x, Zenon DEF InOp, InCommit
  <2>2. CountInv'
    BY <1>0, <1>a, <2>1, SameCount, Zenon
  <2>3. \A q \in Proc : Done(q)' = Done(q)
    BY <1>a, <1>b, <1>x, Zenon DEF Done
  <2>4. Unused' \subseteq Unused
    BY <2>1, <2>3, Zenon DEF Unused
  <2> QED
    BY <2>2, <2>4, <1>0, <1>a, FewerUnused, Zenon DEF TypeOK
<1>5. HeadInv'
  <2>1. \A q \in Proc : (pc'[q] \in {"install", "clear"} <=> pc[q] \in {"install", "clear"})
                        /\ (pc'[q] = "finish" <=> pc[q] = "finish")
    BY <1>a, <1>b, <1>x, Zenon
  <2> QED
    BY <1>0, <1>a, <2>1, SMTT(20) DEF HeadInv, Distinct
<1>6. TailInv'
  BY <1>0, <1>a, <1>b, <1>x, <1>d DEF TailInv, Trusted
<1>7. CacheInv'
  <2> SUFFICES ASSUME Trusted, NEW c \in Block
               PROVE  /\ Contents(c)' = latest'[c]
                      /\ cache'[c] \in {NoVal, home'[c]} \/ Pinned(c)' \/ Dirty(c)'
    BY <1>a, Zenon DEF CacheInv, Trusted
  <2> QED
    BY <1>0, <1>a, <1>c, <1>d, <1>e, Zenon DEF CacheInv, Trusted
<1>8. RefInv'
  <2>1. RefInv /\ unpinned' = unpinned
    BY <1>0, <1>a, Zenon
  <2> QED
    BY <2>1, <1>r, <1>d, <1>f, <1>g DEF RefInv
<1> QED
  BY <1>1, <1>2, <1>3, <1>4, <1>5, <1>6, <1>7, <1>8, Zenon DEF IInv

\* A change of b->data preserves the invariant: the buffer is held, so it
\* is dirty until log_write has pinned it.
LEMMA ModifyIInv ==
  ASSUME SetFacts, IInv, NEW p \in Proc, NEW v \in Value, modify(p, v) PROVE IInv'
<1> USE LogAssumption
<1>0. TypeOK /\ LockInv /\ BootInv /\ CountInv /\ HeadInv /\ TailInv /\ CacheInv /\ RefInv /\ SpaceReserved
  BY Zenon DEF IInv
<1>h. PICK b \in Block : hold[p] = b
  BY <1>0, Zenon DEF modify, LockInv, TypeOK
<1>a. /\ pc[p] = "hold" /\ nwrites[p] < MAXOPBLOCKS
      /\ cache' = [cache EXCEPT ![b] = v]
      /\ latest' = [latest EXCEPT ![b] = v]
      /\ nwrites' = [nwrites EXCEPT ![p] = @ + 1]
      /\ pc' = [pc EXCEPT ![p] = "dirty"]
      /\ UNCHANGED <<home, dlog, dhead, lh, outstanding, committing, refcnt, hold, tail, boot, crashes, unpinned>>
  BY <1>h, Zenon DEF modify, disk, logvars
<1>o. boot = "done" /\ committing = 0 /\ InOp(p) /\ \A q \in Proc : ~InCommit(q)
  BY <1>0, <1>a, Zenon DEF InOp, CountInv, BootInv, TypeOK
<1>b. /\ \A q \in Proc : q # p => pc'[q] = pc[q] /\ nwrites'[q] = nwrites[q]
      /\ pc'[p] = "dirty" /\ nwrites'[p] = nwrites[p] + 1
  BY <1>0, <1>a, Zenon DEF TypeOK
<1>c. /\ \A c \in Block \ {b} : cache'[c] = cache[c] /\ latest'[c] = latest[c] /\ Contents(c)' = Contents(c)
      /\ cache'[b] = v /\ latest'[b] = v /\ Contents(b)' = v
  BY <1>0, <1>a, Zenon DEF Contents, TypeOK
<1>d. /\ \A i : Installed(i)' <=> Installed(i)
      /\ \A c : Pinned(c)' <=> Pinned(c)
  <2>1. \A q \in Proc : /\ pc'[q] = "install" <=> pc[q] = "install"
                        /\ pc'[q] = "clear" <=> pc[q] = "clear"
    BY <1>a, <1>b, Zenon
  <2> QED
    BY <2>1, <1>a, SamePins, Zenon
<1>e. /\ \A c \in Block \ {b} : Dirty(c)' <=> Dirty(c)
      /\ Dirty(b)'
      /\ \A c : Held(c)' <=> Held(c)
  BY <1>h, <1>a, <1>b, Zenon DEF Dirty, Held
<1>1. TypeOK'
  <2>1. pc' \in [Proc -> PC]
    BY <1>0, <1>a, Zenon DEF TypeOK, PC
  <2>2. nwrites' \in [Proc -> 0..MAXOPBLOCKS]
    BY <1>0, <1>a DEF TypeOK
  <2> QED
    BY <1>0, <1>a, <2>1, <2>2, Zenon DEF TypeOK
<1>2. LockInv'
  BY <1>0, <1>a, <1>b, <1>c DEF LockInv, TypeOK
<1>3. BootInv'
  BY <1>o, <1>a, Zenon DEF BootInv
<1>4. CountInv' /\ SpaceReserved'
  <2>1. \A q \in Proc : (InOp(q)' <=> InOp(q)) /\ (InCommit(q)' <=> InCommit(q))
    BY <1>a, <1>b, Zenon DEF InOp, InCommit
  <2>2. CountInv'
    BY <1>0, <1>a, <2>1, SameCount, Zenon
  <2>3. \A q \in Proc : Done(q)' = Done(q)
    BY <1>0, <1>a, <1>b, SMTT(30) DEF Done, TypeOK
  <2>4. Unused' \subseteq Unused
    BY <2>1, <2>3, Zenon DEF Unused
  <2> QED
    BY <2>2, <2>4, <1>0, <1>a, FewerUnused, Zenon DEF TypeOK
<1>5. HeadInv'
  <2>1. \A q \in Proc : (pc'[q] \in {"install", "clear"} <=> pc[q] \in {"install", "clear"})
                        /\ (pc'[q] = "finish" <=> pc[q] = "finish")
    BY <1>a, <1>b, Zenon
  <2> QED
    BY <1>0, <1>a, <2>1, SMTT(20) DEF HeadInv, Distinct
<1>6. TailInv'
  <2>1. \A q \in Proc : pc'[q] \notin {"write_log", "write_head", "install", "clear"}
    BY <1>o, <1>b, Zenon DEF InCommit
  <2> QED
    BY <1>0, <1>a, <1>o, <1>d, <2>1, Zenon DEF TailInv, Trusted
<1>7. CacheInv'
  <2> SUFFICES ASSUME Trusted, NEW c \in Block
               PROVE  /\ Contents(c)' = latest'[c]
                      /\ cache'[c] \in {NoVal, home'[c]} \/ Pinned(c)' \/ Dirty(c)'
    BY <1>a, Zenon DEF CacheInv, Trusted
  <2> QED
    BY <1>0, <1>a, <1>o, <1>c, <1>d, <1>e, Zenon DEF CacheInv, Trusted
<1>8. RefInv'
  BY <1>0, <1>a, <1>d, <1>e, Zenon DEF RefInv
<1> QED
  BY <1>1, <1>2, <1>3, <1>4, <1>5, <1>6, <1>7, <1>8, Zenon DEF IInv

\* The tests at the head of log_write preserve the invariant.
LEMMA LogWriteCheckIInv ==
  ASSUME SetFacts, IInv, NEW p \in Proc, log_write_check(p) PROVE IInv'
<1> USE LogAssumption
<1>0. TypeOK /\ LockInv /\ BootInv /\ CountInv /\ HeadInv /\ TailInv /\ CacheInv /\ RefInv /\ SpaceReserved
  BY DEF IInv
<1>x. PICK x \in {"checked", "panic"} : pc' = [pc EXCEPT ![p] = x]
  BY Zenon DEF log_write_check
<1>a. /\ pc[p] = "dirty"
      /\ UNCHANGED <<home, dlog, dhead, lh, outstanding, committing, cache, refcnt, hold, tail, nwrites, boot, crashes, latest, unpinned>>
  BY Zenon DEF log_write_check, disk, logvars, bufs, hist
<1>b. (\A q \in Proc : q # p => pc'[q] = pc[q]) /\ pc'[p] = x
  BY <1>0, <1>x, Zenon DEF TypeOK
<1>o. boot = "done"
  BY <1>0, <1>a, Zenon DEF BootInv
<1>d. /\ \A i : Installed(i)' <=> Installed(i)
      /\ \A c : Pinned(c)' <=> Pinned(c)
  <2>1. \A q \in Proc : /\ pc'[q] = "install" <=> pc[q] = "install"
                        /\ pc'[q] = "clear" <=> pc[q] = "clear"
    BY <1>a, <1>b, Zenon
  <2> QED
    BY <2>1, <1>a, SamePins, Zenon
<1>e. \A c : (Dirty(c)' <=> Dirty(c)) /\ (Held(c)' <=> Held(c))
  <2>1. \A q \in Proc : pc'[q] \in DirtyPC <=> pc[q] \in DirtyPC
    BY <1>a, <1>b, Zenon DEF DirtyPC
  <2> QED
    BY <2>1, <1>a, SameDirty, Zenon
<1>1. TypeOK'
  <2>1. pc' \in [Proc -> PC]
    BY <1>0, <1>x, Zenon DEF TypeOK, PC
  <2> QED
    BY <1>0, <1>a, <2>1, Zenon DEF TypeOK
<1>2. LockInv'
  BY <1>0, <1>a, <1>b, Zenon DEF LockInv
<1>3. BootInv'
  BY <1>o, <1>a, Zenon DEF BootInv
<1>4. CountInv' /\ SpaceReserved'
  <2>1. \A q \in Proc : (InOp(q)' <=> InOp(q)) /\ (InCommit(q)' <=> InCommit(q))
    BY <1>a, <1>b, Zenon DEF InOp, InCommit
  <2>2. CountInv'
    BY <1>0, <1>a, <2>1, SameCount, Zenon
  <2>3. \A q \in Proc : Done(q)' = Done(q)
    BY <1>a, <1>b, Zenon DEF Done
  <2>4. Unused' \subseteq Unused
    BY <2>1, <2>3, Zenon DEF Unused
  <2> QED
    BY <2>2, <2>4, <1>0, <1>a, FewerUnused, Zenon DEF TypeOK
<1>5. HeadInv'
  BY <1>0, <1>a, <1>b DEF HeadInv, Distinct
<1>6. TailInv'
  BY <1>0, <1>a, <1>b, <1>d DEF TailInv, Trusted
<1>7. CacheInv'
  BY <1>0, <1>a, <1>d, <1>e, Zenon DEF CacheInv, Trusted, Contents
<1>8. RefInv'
  BY <1>0, <1>a, <1>d, <1>e, Zenon DEF RefInv
<1> QED
  BY <1>1, <1>2, <1>3, <1>4, <1>5, <1>6, <1>7, <1>8, Zenon DEF IInv

\* log_write preserves the invariant: the block is pinned once, and its
\* entry was reserved.
LEMMA LogWriteIInv ==
  ASSUME SetFacts, IInv, NEW p \in Proc, log_write(p) PROVE IInv'
<1> USE LogAssumption
<1>0. TypeOK /\ LockInv /\ BootInv /\ CountInv /\ HeadInv /\ TailInv /\ CacheInv /\ RefInv /\ SpaceReserved
  BY DEF IInv
<1>h. PICK b \in Block : hold[p] = b
  BY <1>0, Zenon DEF log_write, LockInv, TypeOK
<1>a. /\ pc[p] = "checked"
      /\ pc' = [pc EXCEPT ![p] = "logged"]
      /\ UNCHANGED <<home, dlog, dhead, outstanding, committing, cache, hold, tail, nwrites, boot, crashes, latest, unpinned>>
  BY Zenon DEF log_write, disk, hist
<1>o. boot = "done" /\ committing = 0 /\ InOp(p) /\ \A q \in Proc : ~InCommit(q)
  BY <1>0, <1>a, Zenon DEF InOp, CountInv, BootInv, TypeOK
<1>b. (\A q \in Proc : q # p => pc'[q] = pc[q]) /\ pc'[p] = "logged"
  BY <1>0, <1>a, Zenon DEF TypeOK
<1>t. pc' \in [Proc -> PC]
  BY <1>0, <1>a, Zenon DEF TypeOK, PC
<1>n. /\ \A i : ~Installed(i) /\ ~Installed(i)'
      /\ \A q \in Proc : pc'[q] \notin {"write_log", "write_head", "install", "clear", "finish"}
  BY <1>o, <1>b, Zenon DEF Installed, Installing, InCommit
<1>p. /\ \A c : Pinned(c) <=> \E i \in 1..Len(lh) : lh[i] = c
      /\ \A c : Pinned(c)' <=> \E i \in 1..Len(lh') : lh'[i] = c
  BY <1>n, <1>o, <1>a, Zenon DEF Pinned
<1>e. /\ \A c \in Block : Held(c)' <=> Held(c)
      /\ \A c \in Block \ {b} : Dirty(c)' <=> Dirty(c)
      /\ Held(b)
  BY <1>h, <1>a, <1>b, Zenon DEF Dirty, Held
<1>c. \A q \in Proc : (InOp(q)' <=> InOp(q)) /\ (InCommit(q)' <=> InCommit(q))
  BY <1>a, <1>b, Zenon DEF InOp, InCommit
<1>4. CountInv'
  BY <1>0, <1>a, <1>c, SameCount, Zenon
<1>2. LockInv'
  BY <1>0, <1>a, <1>b, Zenon DEF LockInv
<1>3. BootInv'
  BY <1>o, <1>a, Zenon DEF BootInv
<1>u. /\ \A q \in Proc \ {p} : Done(q)' = Done(q)
      /\ Done(p) = nwrites[p] - 1 /\ Done(p)' = nwrites[p]
      /\ Unused' \subseteq Unused
  <2>1. /\ \A q \in Proc \ {p} : Done(q)' = Done(q)
        /\ Done(p) = nwrites[p] - 1 /\ Done(p)' = nwrites[p]
    BY <1>0, <1>a, <1>b DEF Done, TypeOK
  <2>2. ASSUME NEW t \in Unused' PROVE t \in Unused
    <3>1. t \in Proc \X (1..MAXOPBLOCKS) /\ t[1] \in Proc /\ t[2] \in Int
          /\ InOp(t[1]) /\ t[2] > Done(t[1])'
      BY <2>2, <1>c DEF Unused
    <3>2. nwrites[p] \in Int
      BY <1>0 DEF TypeOK
    <3>3. t[2] > Done(t[1])
      BY <3>1, <3>2, <2>1
    <3> QED
      BY <3>1, <3>3, Zenon DEF Unused
  <2> QED
    BY <2>1, <2>2, Zenon
<1>A. CASE b \in Entries(lh)
  <2>1. UNCHANGED <<lh, refcnt>>
    BY <1>A, <1>h, Zenon DEF log_write
  <2>2. Pinned(b)
    BY <1>A, <1>p, <1>0 DEF Entries, TypeOK
  <2>3. TypeOK'
    BY <1>0, <1>a, <1>t, <2>1, Zenon DEF TypeOK
  <2>4. SpaceReserved'
    BY <1>0, <1>u, <2>1, FewerUnused, Zenon DEF TypeOK
  <2>5. HeadInv'
    BY <1>0, <1>a, <1>n, <1>o, <2>1 DEF HeadInv, Distinct, InCommit
  <2>6. TailInv'
    BY <1>n, <1>o, <1>a, <2>1, Zenon DEF TailInv, Trusted
  <2>7. \A c : Pinned(c)' <=> Pinned(c)
    BY <1>p, <2>1, Zenon
  <2>8. CacheInv'
    <3>1. ASSUME Trusted, NEW c \in Block
          PROVE  /\ Contents(c)' = latest'[c]
                 /\ cache'[c] \in {NoVal, home'[c]} \/ Pinned(c)' \/ Dirty(c)'
      BY <3>1, <1>0, <1>a, <1>o, <1>e, <2>2, <2>7, Zenon DEF CacheInv, Trusted, Contents
    <3> QED
      BY <3>1, <1>a, Zenon DEF CacheInv, Trusted
  <2>9. RefInv'
    BY <1>0, <1>a, <1>e, <2>1, <2>7, Zenon DEF RefInv
  <2> QED
    BY <2>3, <1>2, <1>3, <1>4, <2>4, <2>5, <2>6, <2>8, <2>9, Zenon DEF IInv
<1>B. CASE b \notin Entries(lh)
  <2>1. lh' = Append(lh, b) /\ refcnt' = [refcnt EXCEPT ![b] = (@ + 1) % RefMod]
    BY <1>B, <1>h, Zenon DEF log_write
  <2>2. ~Pinned(b)
    <3>1. DOMAIN lh = 1..Len(lh)
      BY <1>0 DEF TypeOK
    <3> QED
      BY <1>B, <1>p, <3>1, Zenon DEF Entries
  <2>l. /\ lh' \in Seq(Block) /\ Len(lh') = Len(lh) + 1 /\ lh'[Len(lh) + 1] = b
        /\ \A i \in 1..Len(lh) : lh'[i] = lh[i] /\ lh[i] # b
        /\ Len(lh) \in Nat
    BY <1>0, <2>1, <2>2, <1>p, SMTT(30) DEF TypeOK
  <2>r. /\ refcnt' \in [Block -> 0..(RefMod - 1)]
        /\ \A c \in Block \ {b} : refcnt'[c] = refcnt[c]
        /\ refcnt[b] + 1 < RefMod => refcnt'[b] = refcnt[b] + 1
    BY <1>0, <2>1, RefInc, Zenon DEF TypeOK
  <2>3. TypeOK'
    BY <1>0, <1>a, <1>t, <2>l, <2>r, Zenon DEF TypeOK
  <2>4. SpaceReserved'
    <3> DEFINE t == <<p, nwrites[p]>>
    <3>1. t \in Unused /\ t \notin Unused'
      <4>1. nwrites[p] \in 1..MAXOPBLOCKS
        BY <1>0, <1>a DEF TypeOK, LockInv
      <4> QED
        BY <4>1, <1>o, <1>u DEF Unused
    <3>2. Unused' \subseteq Unused \ {t}
      BY <1>u, <3>1, Zenon
    <3>3. /\ IsFiniteSet(Unused \ {t})
          /\ Cardinality(Unused \ {t}) = Cardinality(Unused) - 1
      BY <3>1, UnusedFinite, SetRemoveElement, Zenon
    <3> HIDE DEF t
    <3>4. Cardinality(Unused') <= Cardinality(Unused) - 1 /\ Cardinality(Unused') \in Nat
      BY <3>2, <3>3, SetSubset, SetCardinalityType
    <3> QED
      BY <3>4, <2>l, <1>0, UnusedFinite DEF SpaceReserved
  <2>5. HeadInv'
    <3>1. Len(lh') <= LOGSIZE
      <4>1. Cardinality(Unused') \in Nat
        BY <1>u, UnusedFinite, SetSubset, SetCardinalityType, Zenon
      <4> QED
        BY <2>4, <2>l, <4>1 DEF SpaceReserved
    <3>2. Distinct(lh')
      BY <1>0, <2>l DEF HeadInv, Distinct
    <3>3. dhead' = <<>>
      BY <1>0, <1>a, <1>o, Zenon DEF HeadInv, InCommit
    <3> QED
      BY <3>1, <3>2, <3>3, <1>0, <1>a, <1>n, <1>o DEF HeadInv, Distinct
  <2>6. TailInv'
    BY <1>n, <1>o, <1>a, Zenon DEF TailInv, Trusted
  <2>7. (\A c \in Block \ {b} : Pinned(c)' <=> Pinned(c)) /\ Pinned(b)'
    BY <1>p, <2>l
  <2>8. CacheInv'
    <3>1. ASSUME Trusted, NEW c \in Block
          PROVE  /\ Contents(c)' = latest'[c]
                 /\ cache'[c] \in {NoVal, home'[c]} \/ Pinned(c)' \/ Dirty(c)'
      BY <3>1, <1>0, <1>a, <1>o, <1>e, <2>7, Zenon DEF CacheInv, Trusted, Contents
    <3> QED
      BY <3>1, <1>a, Zenon DEF CacheInv, Trusted
  <2>9. RefInv'
    BY <1>0, <1>a, <1>e, <2>2, <2>7, <2>r DEF RefInv
  <2> QED
    BY <2>3, <1>2, <1>3, <1>4, <2>4, <2>5, <2>6, <2>8, <2>9 DEF IInv
<1> QED
  BY <1>A, <1>B, Zenon

\* brelse preserves the invariant: a buffer that is given up is clean or
\* pinned.
LEMMA BrelseIInv ==
  ASSUME SetFacts, IInv, NEW p \in Proc, brelse(p) PROVE IInv'
<1> USE LogAssumption
<1>0. TypeOK /\ LockInv /\ BootInv /\ CountInv /\ HeadInv /\ TailInv /\ CacheInv /\ RefInv /\ SpaceReserved
  BY DEF IInv
<1>h. PICK b \in Block : hold[p] = b
  BY <1>0, Zenon DEF brelse, LockInv, TypeOK
<1> DEFINE x == IF pc[p] = "read" THEN "idle" ELSE "op"
<1>a. /\ pc[p] \in {"hold", "logged", "read"}
      /\ refcnt' = [refcnt EXCEPT ![b] = (@ - 1) % RefMod]
      /\ hold' = [hold EXCEPT ![p] = NoBlock]
      /\ pc' = [pc EXCEPT ![p] = x]
      /\ UNCHANGED <<home, dlog, dhead, lh, outstanding, committing, cache, tail, nwrites, boot, crashes, latest, unpinned>>
  BY <1>h, Zenon DEF brelse, disk, logvars, hist
<1>r. /\ refcnt' \in [Block -> 0..(RefMod - 1)]
      /\ \A c \in Block \ {b} : refcnt'[c] = refcnt[c]
      /\ refcnt[b] > 0 => refcnt'[b] = refcnt[b] - 1
  BY <1>0, <1>a, RefDec, Zenon DEF TypeOK
<1>x. x \in {"idle", "op"} /\ (x = "idle" <=> pc[p] = "read")
  OBVIOUS
<1> HIDE DEF x
<1>b. /\ \A q \in Proc : q # p => pc'[q] = pc[q] /\ hold'[q] = hold[q]
      /\ pc'[p] = x /\ hold'[p] = NoBlock
  BY <1>0, <1>a, Zenon DEF TypeOK
<1>o. boot = "done"
  BY <1>0, <1>a, Zenon DEF BootInv
<1>d. /\ \A i : Installed(i)' <=> Installed(i)
      /\ \A c : Pinned(c)' <=> Pinned(c)
  <2>1. \A q \in Proc : /\ pc'[q] = "install" <=> pc[q] = "install"
                        /\ pc'[q] = "clear" <=> pc[q] = "clear"
    BY <1>a, <1>b, <1>x, Zenon
  <2> QED
    BY <2>1, <1>a, SamePins, Zenon
<1>e. /\ \A c \in Block : Dirty(c)' <=> Dirty(c)
      /\ \A c \in Block \ {b} : Held(c)' <=> Held(c)
      /\ Held(b)
      /\ ~Held(b)'
  <2>1. \A q \in Proc : q # p => hold[q] # b
    BY <1>0, <1>h, Zenon DEF LockInv, TypeOK
  <2> QED
    BY <2>1, <1>h, <1>a, <1>b, <1>x, Zenon DEF Dirty, Held
<1>1. TypeOK'
  <2>1. pc' \in [Proc -> PC]
    BY <1>0, <1>a, <1>x, Zenon DEF TypeOK, PC
  <2> QED
    BY <1>0, <1>a, <1>r, <2>1, Zenon DEF TypeOK
<1>2. LockInv'
  <2>1. \A q \in Proc : /\ hold'[q] # NoBlock => q # p /\ hold'[q] = hold[q]
                        /\ pc'[q] \in {"hold", "dirty", "checked", "logged", "read", "panic"}
                              <=> hold'[q] # NoBlock
                        /\ pc'[q] \in {"dirty", "checked", "panic"} => q # p
    BY <1>0, <1>b, <1>x, Zenon DEF LockInv
  <2> QED
    BY <2>1, <1>0, <1>a, <1>b DEF LockInv
<1>3. BootInv'
  BY <1>o, <1>a, Zenon DEF BootInv
<1>4. CountInv' /\ SpaceReserved'
  <2>1. \A q \in Proc : (InOp(q)' <=> InOp(q)) /\ (InCommit(q)' <=> InCommit(q))
    BY <1>a, <1>b, <1>x, Zenon DEF InOp, InCommit
  <2>2. CountInv'
    BY <1>0, <1>a, <2>1, SameCount, Zenon
  <2>3. \A q \in Proc : Done(q)' = Done(q)
    BY <1>a, <1>b, <1>x, Zenon DEF Done
  <2>4. Unused' \subseteq Unused
    BY <2>1, <2>3, Zenon DEF Unused
  <2> QED
    BY <2>2, <2>4, <1>0, <1>a, FewerUnused, Zenon DEF TypeOK
<1>5. HeadInv'
  <2>1. \A q \in Proc : (pc'[q] \in {"install", "clear"} <=> pc[q] \in {"install", "clear"})
                        /\ (pc'[q] = "finish" <=> pc[q] = "finish")
    BY <1>a, <1>b, <1>x, Zenon
  <2> QED
    BY <1>0, <1>a, <2>1, SMTT(30) DEF HeadInv, Distinct
<1>6. TailInv'
  BY <1>0, <1>a, <1>b, <1>x, <1>d DEF TailInv, Trusted
<1>7. CacheInv'
  BY <1>0, <1>a, <1>d, <1>e, Zenon DEF CacheInv, Trusted, Contents
<1>8. RefInv'
  <2>1. RefInv /\ unpinned' = unpinned
    BY <1>0, <1>a, Zenon
  <2> QED
    BY <2>1, <1>r, <1>d, <1>e DEF RefInv
<1> QED
  BY <1>1, <1>2, <1>3, <1>4, <1>5, <1>6, <1>7, <1>8, Zenon DEF IInv

\* end_op and its tail wake the sleepers, who were neither in an operation
\* nor in commit.
LEMMA EndOpIInv ==
  ASSUME SetFacts, IInv, NEW p \in Proc, end_op(p) PROVE IInv'
<1> USE LogAssumption
<1>0. TypeOK /\ LockInv /\ BootInv /\ CountInv /\ HeadInv /\ TailInv /\ CacheInv /\ RefInv /\ SpaceReserved
  BY DEF IInv
<1>a. /\ pc[p] = "op" /\ outstanding' = outstanding - 1
      /\ UNCHANGED <<home, dlog, dhead, lh, cache, refcnt, hold, nwrites, boot, crashes, latest, unpinned>>
  BY Zenon DEF end_op, disk, bufs, hist
<1>o. boot = "done" /\ committing = 0 /\ InOp(p) /\ \A q \in Proc : ~InCommit(q)
  BY <1>0, <1>a, Zenon DEF InOp, CountInv, BootInv, TypeOK
<1> DEFINE x == IF lh = <<>> THEN "finish" ELSE "write_log"
<1>s. \/ /\ outstanding = 1 /\ committing' = 1 /\ tail' = 0
         /\ pc' = [pc EXCEPT ![p] = x]
      \/ /\ outstanding # 1 /\ committing' = 0 /\ tail' = tail
         /\ pc' = Wake([pc EXCEPT ![p] = "idle"])
  BY <1>o DEF end_op
<1>x. x \in {"finish", "write_log"} /\ (x = "finish" <=> lh = <<>>)
  OBVIOUS
<1> HIDE DEF x
<1>b. /\ \A q \in Proc : q # p => pc'[q] = pc[q] \/ (pc[q] = "sleep" /\ pc'[q] = "begin")
      /\ \/ outstanding = 1 /\ committing' = 1 /\ tail' = 0 /\ pc'[p] = x
         \/ outstanding # 1 /\ committing' = 0 /\ tail' = tail /\ pc'[p] = "idle"
      /\ pc' \in [Proc -> PC]
  <2>1. CASE pc' = [pc EXCEPT ![p] = x]
    <3>1. pc' \in [Proc -> PC]
      BY <2>1, <1>0, <1>x, Zenon DEF TypeOK, PC
    <3>2. \A q \in Proc : q # p => pc'[q] = pc[q]
      BY <2>1, <1>0, Zenon DEF TypeOK
    <3>3. pc'[p] = x
      BY <2>1, <1>0, Zenon DEF TypeOK
    <3>4. x # "idle"
      BY <1>x, Zenon
    <3>5. CASE outstanding = 1
      BY <3>1, <3>2, <3>3, <3>5, <1>s, Zenon
    <3>6. CASE outstanding # 1
      <4>1. pc'[p] = "idle"
        BY <3>6, <1>s, <1>0, Zenon DEF Wake, TypeOK
      <4> QED
        BY <4>1, <3>3, <3>4, Zenon
    <3> QED
      BY <3>5, <3>6, Zenon
  <2>2. CASE pc' = Wake([pc EXCEPT ![p] = "idle"])
    <3>1. pc' \in [Proc -> PC]
      BY <2>2, <1>0, Zenon DEF TypeOK, PC, Wake
    <3>2. \A q \in Proc : q # p => pc'[q] = pc[q] \/ (pc[q] = "sleep" /\ pc'[q] = "begin")
      BY <2>2, <1>0, Zenon DEF TypeOK, Wake
    <3>3. pc'[p] = "idle"
      BY <2>2, <1>0, Zenon DEF TypeOK, Wake
    <3>4. CASE outstanding # 1
      BY <3>1, <3>2, <3>3, <3>4, <1>s, Zenon
    <3>5. CASE outstanding = 1
      <4>1. pc'[p] = x
        BY <3>5, <1>s, <1>0, Zenon DEF TypeOK
      <4> QED
        BY <4>1, <3>3, <1>x, Zenon
    <3> QED
      BY <3>4, <3>5, Zenon
  <2> QED
    BY <2>1, <2>2, <1>s, Zenon
<1>n. /\ \A i : ~Installed(i) /\ ~Installed(i)'
      /\ \A q \in Proc : pc[q] \notin {"write_log", "write_head", "install", "clear", "finish"}
      /\ \A q \in Proc : pc'[q] \notin {"write_head", "install", "clear"}
      /\ \A q \in Proc : pc'[q] \in {"write_log", "finish"} => q = p /\ pc'[p] = x
  <2>1. \A q \in Proc : pc[q] \notin {"write_log", "write_head", "install", "clear", "finish"}
    BY <1>o, Zenon DEF InCommit
  <2>2. /\ \A q \in Proc : pc'[q] \notin {"write_head", "install", "clear"}
        /\ \A q \in Proc : pc'[q] \in {"write_log", "finish"} => q = p /\ pc'[p] = x
    BY <2>1, <1>b, <1>x, Zenon
  <2> QED
    BY <2>1, <2>2, Zenon DEF Installed, Installing
<1>d. \A c : Pinned(c)' <=> Pinned(c)
  BY <1>n, <1>a, Zenon DEF Pinned
<1>e. \A c : (Dirty(c)' <=> Dirty(c)) /\ (Held(c)' <=> Held(c))
  <2>1. \A q \in Proc : pc'[q] \in DirtyPC <=> pc[q] \in DirtyPC
    BY <1>a, <1>b, <1>x, Zenon DEF DirtyPC
  <2> QED
    BY <2>1, <1>a, SameDirty, Zenon
<1>1. TypeOK'
  <2>1. outstanding' \in Int /\ committing' \in {0, 1} /\ tail' \in Nat
    <3>1. tail \in Nat /\ outstanding \in Int
      BY <1>0, Zenon DEF TypeOK
    <3> QED
      BY <3>1, <1>a, <1>b
  <2> QED
    BY <1>0, <1>a, <1>b, <2>1, Zenon DEF TypeOK
<1>2. LockInv'
  <2>1. \A q \in Proc : /\ pc'[q] \in {"hold", "dirty", "checked", "logged", "read", "panic"}
                             <=> pc[q] \in {"hold", "dirty", "checked", "logged", "read", "panic"}
                        /\ pc'[q] \in {"dirty", "checked", "panic"} => pc'[q] = pc[q]
    BY <1>a, <1>b, <1>x, Zenon
  <2> QED
    BY <2>1, <1>0, <1>a, Zenon DEF LockInv
<1>3. BootInv'
  BY <1>o, <1>a, Zenon DEF BootInv
<1>4. CountInv' /\ SpaceReserved'
  <2>1. \A q \in Proc : InOp(q)' <=> InOp(q) /\ q # p
    BY <1>a, <1>b, <1>x, Zenon DEF InOp
  <2>2. Ops' = Ops \ {p} /\ p \in Ops
    BY <2>1, <1>o, Zenon DEF Ops
  <2>3. Cardinality(Ops') = Cardinality(Ops) - 1 /\ Cardinality(Ops') \in Nat
    <3>1. Ops \in SUBSET Proc /\ Ops' \in SUBSET Proc
      BY Zenon DEF Ops
    <3>2. IsFiniteSet(Ops) /\ Cardinality(Ops') \in Nat
      BY <3>1, ProcsFinite, Zenon
    <3> QED
      BY <2>2, <3>2, SetRemoveElement, Zenon
  <2>4. outstanding' = Cardinality(Ops')
    BY <2>3, <1>0, <1>a, Zenon DEF CountInv, Ops
  <2>5. committing' = 1 => \A q \in Proc : ~InOp(q)'
    <3>1. ASSUME committing' = 1 PROVE Ops' = {}
      <4>1. Cardinality(Ops') = 0
        BY <3>1, <1>b, <1>a, <2>4
      <4> QED
        BY <4>1, ProcsFinite, SetEmptySet, Zenon DEF Ops
    <3> QED
      BY <3>1, Zenon DEF Ops
  <2>6. \A q \in Proc : InCommit(q)' => q = p /\ committing' = 1
    BY <1>n, <1>b, <1>x, Zenon DEF InCommit
  <2>7. CountInv'
    BY <2>4, <2>5, <2>6, Zenon DEF CountInv, Ops
  <2>8. \A q \in Proc : InOp(q)' => Done(q)' = Done(q)
    BY <2>1, <1>a, <1>b, Zenon DEF Done, InOp
  <2>9. Unused' \subseteq Unused
    BY <2>1, <2>8, Zenon DEF Unused
  <2> QED
    BY <2>7, <2>9, <1>0, <1>a, FewerUnused, Zenon DEF TypeOK
<1>5. HeadInv'
  BY <1>0, <1>a, <1>n, <1>x, Zenon DEF HeadInv, Distinct
<1>6. TailInv'
  <2>1. \A q \in Proc : pc'[q] = "write_log" => tail' = 0 /\ Len(lh) > 0
    BY <1>n, <1>b, <1>x, <1>0 DEF TypeOK
  <2> QED
    BY <1>0, <1>a, <1>n, <1>o, <2>1 DEF TailInv, Trusted
<1>7. CacheInv'
  BY <1>0, <1>a, <1>d, <1>e, Zenon DEF CacheInv, Trusted, Contents
<1>8. RefInv'
  BY <1>0, <1>a, <1>d, <1>e, Zenon DEF RefInv
<1> QED
  BY <1>1, <1>2, <1>3, <1>4, <1>5, <1>6, <1>7, <1>8 DEF IInv

-----------------------------------------------------------------------------
(* commit: one process, no operation, and nobody else changes lh.          *)

\* A round of write_log preserves the invariant: the log block gets what
\* the calls last wrote.
LEMMA WriteLogIInv ==
  ASSUME SetFacts, IInv, NEW p \in Proc, write_log(p) PROVE IInv'
<1> USE LogAssumption
<1>0. TypeOK /\ LockInv /\ BootInv /\ CountInv /\ HeadInv /\ TailInv /\ CacheInv /\ RefInv /\ SpaceReserved
  BY DEF IInv
<1>l. Len(lh) \in Nat /\ tail \in Nat /\ tail < Len(lh) /\ Len(lh) <= LOGSIZE /\ lh[tail + 1] \in Block
  BY <1>0 DEF write_log, TypeOK, HeadInv
<1>h. PICK b \in Block : lh[tail + 1] = b
  BY <1>l, Zenon
<1> DEFINE x == IF tail + 1 = Len(lh) THEN "write_head" ELSE "write_log"
<1>a. /\ pc[p] = "write_log"
      /\ cache' = [cache EXCEPT ![b] = Contents(b)]
      /\ dlog' = [dlog EXCEPT ![tail + 1] = Contents(b)]
      /\ tail' = tail + 1
      /\ pc' = [pc EXCEPT ![p] = x]
      /\ UNCHANGED <<home, dhead, lh, outstanding, committing, refcnt, hold, nwrites, boot, crashes, latest, unpinned>>
  BY <1>h, Zenon DEF write_log, logvars, hist
<1>o. /\ boot = "done" /\ committing = 1
      /\ \A q \in Proc : ~InOp(q) /\ (q # p => ~InCommit(q))
  BY <1>0, <1>a, Zenon DEF InCommit, CountInv, BootInv
<1>x. x \in {"write_head", "write_log"} /\ (x = "write_head" <=> tail + 1 = Len(lh))
  OBVIOUS
<1> HIDE DEF x
<1>b. (\A q \in Proc : q # p => pc'[q] = pc[q]) /\ pc'[p] = x
  BY <1>0, <1>a, Zenon DEF TypeOK
<1>n. /\ \A i : ~Installed(i) /\ ~Installed(i)'
      /\ \A q \in Proc : pc[q] \in {"write_log", "write_head", "install", "clear", "finish"} => q = p
      /\ \A q \in Proc : pc'[q] \in {"write_log", "write_head", "install", "clear", "finish"} => q = p
      /\ pc'[p] \in {"write_head", "write_log"}
  <2>1. \A q \in Proc : q # p => pc[q] \notin {"write_log", "write_head", "install", "clear", "finish"}
    BY <1>o, Zenon DEF InCommit
  <2>2. /\ \A q \in Proc : pc[q] \notin {"install", "clear"}
        /\ \A q \in Proc : pc'[q] \notin {"install", "clear"}
    BY <2>1, <1>a, <1>b, <1>x, Zenon
  <2> QED
    BY <2>1, <2>2, <1>a, <1>b, <1>x, Zenon DEF Installed, Installing
<1>d. \A c : Pinned(c)' <=> Pinned(c)
  BY <1>n, <1>a, Zenon DEF Pinned
<1>e. \A c : (Dirty(c)' <=> Dirty(c)) /\ (Held(c)' <=> Held(c))
  <2>1. \A q \in Proc : pc'[q] \in DirtyPC <=> pc[q] \in DirtyPC
    BY <1>a, <1>b, <1>x, Zenon DEF DirtyPC
  <2> QED
    BY <2>1, <1>a, SameDirty, Zenon
<1>c. /\ \A c \in Block : Contents(c)' = Contents(c) /\ (cache[c] # NoVal => cache'[c] # NoVal)
      /\ \A c \in Block : cache'[c] \in {NoVal, home[c], cache[c]}
  BY <1>0, <1>a, Zenon DEF Contents, TypeOK
<1>g. /\ dlog'[tail + 1] = Contents(b)
      /\ \A i \in 1..Len(lh) : i # tail + 1 => dlog'[i] = dlog[i]
  BY <1>0, <1>a, <1>l DEF TypeOK
<1>1. TypeOK'
  <2>1. pc' \in [Proc -> PC]
    BY <1>0, <1>a, <1>x, Zenon DEF TypeOK, PC
  <2>2. Contents(b) \in Value
    BY <1>0, Zenon DEF TypeOK, Contents
  <2>3. cache' \in [Block -> Value \cup {NoVal}]
    BY <1>0, <1>a, <2>2, Zenon DEF TypeOK
  <2>4. dlog' \in [1..LOGSIZE -> Value]
    BY <1>0, <1>a, <2>2, Zenon DEF TypeOK
  <2> QED
    BY <1>0, <1>a, <1>l, <2>1, <2>3, <2>4, SMTT(30) DEF TypeOK
<1>2. LockInv'
  BY <1>0, <1>a, <1>b, <1>x, Zenon DEF LockInv
<1>3. BootInv'
  BY <1>o, <1>a, Zenon DEF BootInv
<1>4. CountInv' /\ SpaceReserved'
  <2>1. \A q \in Proc : (InOp(q)' <=> InOp(q)) /\ (InCommit(q)' <=> InCommit(q))
    BY <1>a, <1>b, <1>x, Zenon DEF InOp, InCommit
  <2>2. CountInv'
    BY <1>0, <1>a, <2>1, SameCount, Zenon
  <2>3. Unused' \subseteq Unused
    BY <2>1, <1>o, Zenon DEF Unused
  <2> QED
    BY <2>2, <2>3, <1>0, <1>a, FewerUnused, Zenon DEF TypeOK
<1>5. HeadInv'
  BY <1>0, <1>a, <1>n, <1>b, <1>x, SMTT(20) DEF HeadInv, Distinct
<1>6. TailInv'
  <2>1. pc'[p] = "write_log" => tail' < Len(lh')
    BY <1>a, <1>b, <1>x, <1>l
  <2>2. 0 < Len(lh')
    BY <1>a, <1>l
  <2>3. ASSUME Trusted, NEW i \in 1..Len(lh), i <= tail'
        PROVE  dlog'[i] = latest[lh[i]]
    <3>1. CASE i = tail + 1
      BY <2>3, <3>1, <1>0, <1>g, <1>h, <1>o, Zenon DEF CacheInv, Trusted
    <3>2. CASE i # tail + 1
      <4>1. i <= tail /\ dlog'[i] = dlog[i]
        BY <3>2, <2>3, <1>a, <1>l, <1>g
      <4> QED
        BY <2>3, <4>1, <1>0, <1>a, Zenon DEF TailInv, Trusted
    <3> QED
      BY <3>1, <3>2, Zenon
  <2>4. \A i \in 1..Len(lh) : pc'[p] = "write_head" => i <= tail'
    BY <1>a, <1>b, <1>x, <1>l
  <2> QED
    BY <2>1, <2>2, <2>3, <2>4, <1>a, <1>n, <1>o, Zenon DEF TailInv, Trusted
<1>7. CacheInv'
  BY <1>0, <1>a, <1>c, <1>d, <1>e, Zenon DEF CacheInv, Trusted
<1>8. RefInv'
  BY <1>0, <1>a, <1>d, <1>e, Zenon DEF RefInv
<1> QED
  BY <1>1, <1>2, <1>3, <1>4, <1>5, <1>6, <1>7, <1>8 DEF IInv

\* The commit point preserves the invariant: the whole log was written
\* before the header.
LEMMA WriteHeadIInv ==
  ASSUME SetFacts, IInv, NEW p \in Proc, write_head(p) PROVE IInv'
<1> USE LogAssumption
<1>0. TypeOK /\ LockInv /\ BootInv /\ CountInv /\ HeadInv /\ TailInv /\ CacheInv /\ RefInv /\ SpaceReserved
  BY DEF IInv
<1>l. Len(lh) \in Nat
  BY <1>0 DEF TypeOK
<1>a. /\ pc[p] = "write_head"
      /\ dhead' = lh /\ tail' = 0
      /\ pc' = [pc EXCEPT ![p] = "install"]
      /\ UNCHANGED <<home, dlog, lh, outstanding, committing, cache, refcnt, hold, nwrites, boot, crashes, latest, unpinned>>
  BY Zenon DEF write_head, logvars, bufs, hist
<1>o. /\ boot = "done" /\ committing = 1
      /\ \A q \in Proc : ~InOp(q) /\ (q # p => ~InCommit(q))
  BY <1>0, <1>a, Zenon DEF InCommit, CountInv, BootInv
<1>b. (\A q \in Proc : q # p => pc'[q] = pc[q]) /\ pc'[p] = "install"
  BY <1>0, <1>a, Zenon DEF TypeOK
<1>n. /\ \A i : ~Installed(i)
      /\ \A i \in 1..Len(lh) : ~Installed(i)'
      /\ \A q \in Proc : pc[q] \in {"write_log", "write_head", "install", "clear", "finish"} => q = p
      /\ \A q \in Proc : pc'[q] \in {"write_log", "write_head", "install", "clear", "finish"} => q = p
  <2>1. \A q \in Proc : q # p => pc[q] \notin {"write_log", "write_head", "install", "clear", "finish"}
    BY <1>o, Zenon DEF InCommit
  <2>2. /\ \A q \in Proc : pc[q] \notin {"install", "clear"}
        /\ \A q \in Proc : pc'[q] # "clear"
    BY <2>1, <1>a, <1>b, Zenon
  <2> QED
    BY <2>1, <2>2, <1>a, <1>b, <1>l DEF Installed, Installing
<1>d. \A c : Pinned(c)' <=> Pinned(c)
  BY <1>n, <1>a, Zenon DEF Pinned
<1>e. \A c : (Dirty(c)' <=> Dirty(c)) /\ (Held(c)' <=> Held(c))
  <2>1. \A q \in Proc : pc'[q] \in DirtyPC <=> pc[q] \in DirtyPC
    BY <1>a, <1>b, Zenon DEF DirtyPC
  <2> QED
    BY <2>1, <1>a, SameDirty, Zenon
<1>1. TypeOK'
  <2>1. pc' \in [Proc -> PC]
    BY <1>0, <1>a, Zenon DEF TypeOK, PC
  <2> QED
    BY <1>0, <1>a, <2>1, Zenon DEF TypeOK
<1>2. LockInv'
  BY <1>0, <1>a, <1>b, Zenon DEF LockInv
<1>3. BootInv'
  BY <1>o, <1>a, Zenon DEF BootInv
<1>4. CountInv' /\ SpaceReserved'
  <2>1. \A q \in Proc : (InOp(q)' <=> InOp(q)) /\ (InCommit(q)' <=> InCommit(q))
    BY <1>a, <1>b, Zenon DEF InOp, InCommit
  <2>2. CountInv'
    BY <1>0, <1>a, <2>1, SameCount, Zenon
  <2>3. Unused' \subseteq Unused
    BY <2>1, <1>o, Zenon DEF Unused
  <2> QED
    BY <2>2, <2>3, <1>0, <1>a, FewerUnused, Zenon DEF TypeOK
<1>5. HeadInv'
  BY <1>0, <1>a, <1>n, <1>b, <1>o, SMTT(20) DEF HeadInv, Distinct
<1>6. TailInv'
  BY <1>0, <1>a, <1>n, <1>b, <1>o DEF TailInv, Trusted
<1>7. CacheInv'
  BY <1>0, <1>a, <1>d, <1>e, Zenon DEF CacheInv, Trusted, Contents
<1>8. RefInv'
  BY <1>0, <1>a, <1>d, <1>e, Zenon DEF RefInv
<1> QED
  BY <1>1, <1>2, <1>3, <1>4, <1>5, <1>6, <1>7, <1>8 DEF IInv

\* A round of install_trans preserves the invariant: the block is home
\* before it is unpinned.
LEMMA InstallTransIInv ==
  ASSUME SetFacts, IInv, NEW p \in Proc, install_trans(p) PROVE IInv'
<1> USE LogAssumption
<1>0. TypeOK /\ LockInv /\ BootInv /\ CountInv /\ HeadInv /\ TailInv /\ CacheInv /\ RefInv /\ SpaceReserved
  BY DEF IInv
<1>l. Len(lh) \in Nat /\ tail \in Nat /\ tail < Len(lh) /\ Len(lh) <= LOGSIZE /\ lh[tail + 1] \in Block
  BY <1>0 DEF install_trans, TypeOK, HeadInv, TailInv, Trusted
<1>h. PICK b \in Block : lh[tail + 1] = b
  BY <1>l
<1>v. PICK v \in Value : dlog[tail + 1] = v
  BY <1>l, <1>0 DEF TypeOK
<1> DEFINE x == IF tail + 1 = Len(lh) THEN "clear" ELSE "install"
<1>a. /\ pc[p] = "install" /\ BufFree(b)
      /\ home' = [home EXCEPT ![b] = v]
      /\ cache' = [cache EXCEPT ![b] = v]
      /\ refcnt' = [refcnt EXCEPT ![b] = (@ - 1) % RefMod]
      /\ tail' = tail + 1
      /\ pc' = [pc EXCEPT ![p] = x]
      /\ UNCHANGED <<dlog, dhead, lh, outstanding, committing, hold, nwrites, boot, crashes, latest, unpinned>>
  BY <1>h, <1>v, Zenon DEF install_trans, InstallBlock, logvars, hist
<1>r. /\ refcnt' \in [Block -> 0..(RefMod - 1)]
      /\ \A c \in Block \ {b} : refcnt'[c] = refcnt[c]
      /\ refcnt[b] > 0 => refcnt'[b] = refcnt[b] - 1
  BY <1>0, <1>a, RefDec, Zenon DEF TypeOK
<1>o. /\ boot = "done" /\ committing = 1
      /\ \A q \in Proc : ~InOp(q) /\ (q # p => ~InCommit(q))
  BY <1>0, <1>a, Zenon DEF InCommit, CountInv, BootInv
<1>x. x \in {"install", "clear"} /\ (x = "clear" <=> tail + 1 = Len(lh))
  OBVIOUS
<1> HIDE DEF x
<1>b. (\A q \in Proc : q # p => pc'[q] = pc[q]) /\ pc'[p] = x
  BY <1>0, <1>a, Zenon DEF TypeOK
<1>n. /\ \A q \in Proc : pc[q] \in {"write_log", "write_head", "install", "clear", "finish"} => q = p
      /\ \A q \in Proc : pc'[q] \in {"write_log", "write_head", "install", "clear", "finish"} => q = p
      /\ \A i \in 1..Len(lh) : Installed(i) <=> i <= tail
      /\ \A i \in 1..Len(lh) : Installed(i)' <=> i <= tail + 1
  <2>1. \A q \in Proc : q # p => pc[q] \notin {"write_log", "write_head", "install", "clear", "finish"}
    BY <1>o, Zenon DEF InCommit
  <2>2. \A q \in Proc : pc'[q] \in {"write_log", "write_head", "install", "clear", "finish"} => q = p
    BY <2>1, <1>b, Zenon
  <2>3. \A i \in 1..Len(lh) : Installed(i) <=> i <= tail
    BY <2>1, <1>a, Zenon DEF Installed, Installing
  <2>4. \A i \in 1..Len(lh) : Installed(i)' <=> i <= tail + 1
    <3>1. CASE x = "clear"
      BY <3>1, <1>b, <1>x, <1>l DEF Installed
    <3>2. CASE x = "install"
      BY <3>2, <2>2, <1>a, <1>b, Zenon DEF Installed, Installing
    <3> QED
      BY <3>1, <3>2, <1>x, Zenon
  <2> QED
    BY <2>1, <2>2, <2>3, <2>4, Zenon
<1>u. \A i \in 1..Len(lh) : lh[i] = b <=> i = tail + 1
  BY <1>0, <1>h, <1>l DEF HeadInv, Distinct
<1>d. /\ \A c \in Block \ {b} : Pinned(c)' <=> Pinned(c)
      /\ Pinned(b) /\ ~Pinned(b)'
  <2>1. \A c \in Block : Pinned(c) <=> \E i \in 1..Len(lh) : lh[i] = c /\ ~(i <= tail)
    BY <1>n, <1>o, Zenon DEF Pinned
  <2>2. \A c \in Block : Pinned(c)' <=> \E i \in 1..Len(lh) : lh[i] = c /\ ~(i <= tail + 1)
    BY <1>n, <1>o, <1>a, Zenon DEF Pinned
  <2>3. \A c \in Block \ {b} : Pinned(c)' <=> Pinned(c)
    BY <2>1, <2>2, <1>u, <1>l
  <2>4. Pinned(b)
    BY <2>1, <1>u, <1>l
  <2>5. ~Pinned(b)'
    BY <2>2, <1>u, <1>l
  <2> QED
    BY <2>3, <2>4, <2>5, Zenon
<1>e. \A c : (Dirty(c)' <=> Dirty(c)) /\ (Held(c)' <=> Held(c))
  <2>1. \A q \in Proc : pc'[q] \in DirtyPC <=> pc[q] \in DirtyPC
    BY <1>a, <1>b, <1>x, Zenon DEF DirtyPC
  <2> QED
    BY <2>1, <1>a, SameDirty, Zenon
<1>c. /\ home'[b] = v /\ cache'[b] = v /\ Contents(b)' = v /\ v # NoVal
      /\ \A c \in Block \ {b} : /\ home'[c] = home[c] /\ cache'[c] = cache[c]
                                /\ Contents(c)' = Contents(c)
  BY <1>0, <1>a, Zenon DEF Contents, TypeOK
<1>g. Trusted => v = latest[b]
  BY <1>0, <1>a, <1>h, <1>v, <1>l DEF TailInv, Trusted
<1>1. TypeOK'
  <2>1. pc' \in [Proc -> PC]
    BY <1>0, <1>a, <1>x, Zenon DEF TypeOK, PC
  <2>2. home' \in [Block -> Value] /\ cache' \in [Block -> Value \cup {NoVal}]
    BY <1>0, <1>a, Zenon DEF TypeOK
  <2>3. /\ tail' \in Nat
        /\ UNCHANGED <<dlog, dhead, lh, outstanding, committing, hold, nwrites, boot, crashes, latest, unpinned>>
    BY <1>a, <1>l
  <2> QED
    BY <1>0, <1>r, <2>1, <2>2, <2>3, Zenon DEF TypeOK
<1>2. LockInv'
  BY <1>0, <1>a, <1>b, <1>x, Zenon DEF LockInv
<1>3. BootInv'
  BY <1>o, <1>a, Zenon DEF BootInv
<1>4. CountInv' /\ SpaceReserved'
  <2>1. \A q \in Proc : (InOp(q)' <=> InOp(q)) /\ (InCommit(q)' <=> InCommit(q))
    BY <1>a, <1>b, <1>x, Zenon DEF InOp, InCommit
  <2>2. CountInv'
    BY <1>0, <1>a, <2>1, SameCount, Zenon
  <2>3. Unused' \subseteq Unused
    BY <2>1, <1>o, Zenon DEF Unused
  <2> QED
    BY <2>2, <2>3, <1>0, <1>a, FewerUnused, Zenon DEF TypeOK
<1>5. HeadInv'
  BY <1>0, <1>a, <1>n, <1>b, <1>x, SMTT(20) DEF HeadInv, Distinct
<1>6. TailInv'
  <2>1. pc'[p] = "install" => tail' < Len(lh')
    BY <1>a, <1>b, <1>x, <1>l
  <2>2. ASSUME Trusted, NEW i \in 1..Len(lh)
        PROVE  dlog[i] = latest[lh[i]]
    <3>1. CASE i = tail + 1
      BY <2>2, <3>1, <1>g, <1>h, <1>v, <1>c, Zenon
    <3>2. CASE i # tail + 1
      <4>1. lh[i] \in Block \ {b}
        BY <3>2, <1>u, <1>0 DEF TypeOK
      <4> QED
        BY <2>2, <4>1, <1>c, <1>0, <1>a, Zenon DEF TailInv, Trusted
    <3> QED
      BY <3>1, <3>2, Zenon
  <2>3. ASSUME NEW i \in 1..Len(lh), Installed(i)'
        PROVE  home'[lh[i]] = dlog[i]
    <3>1. CASE i = tail + 1
      BY <3>1, <1>h, <1>v, <1>c, Zenon
    <3>2. CASE i # tail + 1
      <4>1. lh[i] \in Block \ {b} /\ Installed(i)
        BY <3>2, <2>3, <1>n, <1>u, <1>l, <1>0, SMTT(30) DEF TypeOK
      <4> QED
        BY <4>1, <1>c, <1>0, <1>o, Zenon DEF TailInv, Trusted
    <3> QED
      BY <3>1, <3>2, Zenon
  <2> QED
    BY <2>1, <2>2, <2>3, <1>a, <1>n, <1>o, <1>b, <1>x DEF TailInv, Trusted
<1>7. CacheInv'
  <2>1. ASSUME Trusted, NEW c \in Block
        PROVE  /\ Contents(c)' = latest'[c]
               /\ cache'[c] \in {NoVal, home'[c]} \/ Pinned(c)' \/ Dirty(c)'
    <3>1. CASE c = b
      BY <2>1, <3>1, <1>a, <1>c, <1>g, Zenon
    <3>2. CASE c # b
      BY <2>1, <3>2, <1>0, <1>a, <1>o, <1>c, <1>d, <1>e, Zenon DEF CacheInv, Trusted
    <3> QED
      BY <3>1, <3>2, Zenon
  <2> QED
    BY <2>1, <1>a, Zenon DEF CacheInv, Trusted
<1>8. RefInv'
  <2>1. RefInv /\ unpinned' = unpinned
    BY <1>0, <1>a, Zenon
  <2> QED
    BY <2>1, <1>r, <1>d, <1>e DEF RefInv
<1> QED
  BY <1>1, <1>2, <1>3, <1>4, <1>5, <1>6, <1>7, <1>8, Zenon DEF IInv

\* Clearing the header preserves the invariant: every block is home.
LEMMA ClearHeadIInv ==
  ASSUME SetFacts, IInv, NEW p \in Proc, clear_head(p) PROVE IInv'
<1> USE LogAssumption
<1>0. TypeOK /\ LockInv /\ BootInv /\ CountInv /\ HeadInv /\ TailInv /\ CacheInv /\ RefInv /\ SpaceReserved
  BY DEF IInv
<1>a. /\ pc[p] = "clear" /\ lh' = <<>> /\ dhead' = <<>>
      /\ pc' = [pc EXCEPT ![p] = "finish"]
      /\ UNCHANGED <<home, dlog, outstanding, committing, cache, refcnt, hold, tail, nwrites, boot, crashes, latest, unpinned>>
  BY Zenon DEF clear_head, bufs, hist
<1>o. /\ boot = "done" /\ committing = 1
      /\ \A q \in Proc : ~InOp(q) /\ (q # p => ~InCommit(q))
  BY <1>0, <1>a, Zenon DEF InCommit, CountInv, BootInv
<1>b. (\A q \in Proc : q # p => pc'[q] = pc[q]) /\ pc'[p] = "finish"
  BY <1>0, <1>a, Zenon DEF TypeOK
<1>n. \A q \in Proc : pc'[q] \notin {"write_log", "write_head", "install", "clear"}
  BY <1>o, <1>b, Zenon DEF InCommit
<1>d. \A c : ~Pinned(c) /\ ~Pinned(c)'
  <2>1. \A i : Installed(i)
    BY <1>a, Zenon DEF Installed
  <2> QED
    BY <2>1, <1>a DEF Pinned
<1>e. \A c : (Dirty(c)' <=> Dirty(c)) /\ (Held(c)' <=> Held(c))
  <2>1. \A q \in Proc : pc'[q] \in DirtyPC <=> pc[q] \in DirtyPC
    BY <1>a, <1>b, Zenon DEF DirtyPC
  <2> QED
    BY <2>1, <1>a, SameDirty, Zenon
<1>1. TypeOK'
  <2>1. pc' \in [Proc -> PC]
    BY <1>0, <1>a, Zenon DEF TypeOK, PC
  <2> QED
    BY <1>0, <1>a, <2>1 DEF TypeOK
<1>2. LockInv'
  BY <1>0, <1>a, <1>b, Zenon DEF LockInv
<1>3. BootInv'
  BY <1>o, <1>a, Zenon DEF BootInv
<1>4. CountInv' /\ SpaceReserved'
  <2>1. \A q \in Proc : (InOp(q)' <=> InOp(q)) /\ (InCommit(q)' <=> InCommit(q))
    BY <1>a, <1>b, Zenon DEF InOp, InCommit
  <2>2. CountInv'
    BY <1>0, <1>a, <2>1, SameCount, Zenon
  <2>3. Unused' = {}
    BY <2>1, <1>o, Zenon DEF Unused
  <2>4. SpaceReserved'
    BY <2>3, <1>a, SetEmptySet DEF SpaceReserved
  <2> QED
    BY <2>2, <2>4
<1>5. HeadInv'
  BY <1>0, <1>a, <1>n, <1>o, SMTT(20) DEF HeadInv, Distinct
<1>6. TailInv'
  BY <1>a, <1>n, <1>o DEF TailInv, Trusted
<1>7. CacheInv'
  BY <1>0, <1>a, <1>d, <1>e, Zenon DEF CacheInv, Trusted, Contents
<1>8. RefInv'
  BY <1>0, <1>a, <1>d, <1>e, Zenon DEF RefInv
<1> QED
  BY <1>1, <1>2, <1>3, <1>4, <1>5, <1>6, <1>7, <1>8 DEF IInv

\* The end of end_op preserves the invariant: the log is empty and nobody
\* is in an operation.
LEMMA EndOpFinishIInv ==
  ASSUME SetFacts, IInv, NEW p \in Proc, end_op_finish(p) PROVE IInv'
<1> USE LogAssumption
<1>0. TypeOK /\ LockInv /\ BootInv /\ CountInv /\ HeadInv /\ TailInv /\ CacheInv /\ RefInv /\ SpaceReserved
  BY DEF IInv
<1>a. /\ pc[p] = "finish" /\ committing' = 0
      /\ pc' = Wake([pc EXCEPT ![p] = "idle"])
      /\ UNCHANGED <<home, dlog, dhead, lh, outstanding, cache, refcnt, hold, tail, nwrites, boot, crashes, latest, unpinned>>
  BY Zenon DEF end_op_finish, disk, bufs, hist
<1>o. /\ boot = "done" /\ lh = <<>>
      /\ \A q \in Proc : ~InOp(q) /\ (q # p => ~InCommit(q))
  BY <1>0, <1>a, Zenon DEF InCommit, CountInv, BootInv, HeadInv
<1>b. /\ \A q \in Proc : q # p => pc'[q] = pc[q] \/ (pc[q] = "sleep" /\ pc'[q] = "begin")
      /\ pc'[p] = "idle"
      /\ pc' \in [Proc -> PC]
  <2>1. pc' \in [Proc -> PC]
    BY <1>a, <1>0, Zenon DEF TypeOK, PC, Wake
  <2>2. \A q \in Proc : q # p => pc'[q] = pc[q] \/ (pc[q] = "sleep" /\ pc'[q] = "begin")
    BY <1>a, <1>0, Zenon DEF TypeOK, Wake
  <2>3. pc'[p] = "idle"
    BY <1>a, <1>0, Zenon DEF TypeOK, Wake
  <2> QED
    BY <2>1, <2>2, <2>3, Zenon
<1>n. /\ \A q \in Proc : pc'[q] \notin {"write_log", "write_head", "install", "clear", "finish"}
      /\ \A q \in Proc : pc[q] \notin {"write_log", "write_head", "install", "clear"}
  BY <1>o, <1>a, <1>b, Zenon DEF InCommit
<1>d. \A c : ~Pinned(c) /\ ~Pinned(c)'
  BY <1>a, <1>o DEF Pinned
<1>e. \A c : (Dirty(c)' <=> Dirty(c)) /\ (Held(c)' <=> Held(c))
  <2>1. \A q \in Proc : pc'[q] \in DirtyPC <=> pc[q] \in DirtyPC
    BY <1>a, <1>b, Zenon DEF DirtyPC
  <2> QED
    BY <2>1, <1>a, SameDirty, Zenon
<1>1. TypeOK'
  BY <1>0, <1>a, <1>b, Zenon DEF TypeOK
<1>2. LockInv'
  <2>1. \A q \in Proc : /\ pc'[q] \in {"hold", "dirty", "checked", "logged", "read", "panic"}
                             <=> pc[q] \in {"hold", "dirty", "checked", "logged", "read", "panic"}
                        /\ pc'[q] \in {"dirty", "checked", "panic"} => pc'[q] = pc[q]
    BY <1>a, <1>b, Zenon
  <2> QED
    BY <2>1, <1>0, <1>a, Zenon DEF LockInv
<1>3. BootInv'
  BY <1>o, <1>a, Zenon DEF BootInv
<1>4. CountInv' /\ SpaceReserved'
  <2>1. \A q \in Proc : ~InOp(q)' /\ ~InCommit(q)'
    BY <1>o, <1>a, <1>b, <1>n, Zenon DEF InOp, InCommit
  <2>2. {q \in Proc : InOp(q)}' = {q \in Proc : InOp(q)}
    BY <2>1, <1>o, Zenon
  <2>3. CountInv'
    BY <1>0, <1>a, <2>1, <2>2, Zenon DEF CountInv
  <2>4. Unused' \subseteq Unused
    BY <2>1, Zenon DEF Unused
  <2> QED
    BY <2>3, <2>4, <1>0, <1>a, FewerUnused, Zenon DEF TypeOK
<1>5. HeadInv'
  BY <1>0, <1>a, <1>n, <1>o, SMTT(20) DEF HeadInv, Distinct
<1>6. TailInv'
  <2>1. lh' = <<>> /\ boot' = "done"
    BY <1>a, <1>o, Zenon
  <2>2. 1..Len(lh') = {}
    BY <2>1
  <2> QED
    BY <2>1, <2>2, <1>n, Zenon DEF TailInv, Trusted
<1>7. CacheInv'
  BY <1>0, <1>a, <1>d, <1>e, Zenon DEF CacheInv, Trusted, Contents
<1>8. RefInv'
  BY <1>0, <1>a, <1>d, <1>e, Zenon DEF RefInv
<1> QED
  BY <1>1, <1>2, <1>3, <1>4, <1>5, <1>6, <1>7, <1>8 DEF IInv

-----------------------------------------------------------------------------
(* Recovery and crashes.                                                   *)

\* Recovered, as a function of the header h, the log blocks d and the home
\* blocks m.
Rec(h, d, m) == [b \in Block |-> IF b \in Entries(h)
                                 THEN d[CHOOSE i \in DOMAIN h : h[i] = b]
                                 ELSE m[b]]

\* What it says of a block that the header lists, and of one it does not.
LEMMA RecoveredEntries ==
  ASSUME NEW h \in Seq(Block), NEW d, NEW m, Distinct(h)
  PROVE  /\ \A i \in 1..Len(h) : Rec(h, d, m)[h[i]] = d[i]
         /\ \A b \in Block : (\A i \in 1..Len(h) : h[i] # b) => Rec(h, d, m)[b] = m[b]
<1>0. DOMAIN h = 1..Len(h) /\ \A i \in 1..Len(h) : h[i] \in Block
  OBVIOUS
<1>1. ASSUME NEW i \in 1..Len(h) PROVE Rec(h, d, m)[h[i]] = d[i]
  <2> DEFINE b == h[i]
             k == CHOOSE j \in DOMAIN h : h[j] = b
  <2>1. k \in 1..Len(h) /\ h[k] = b
    BY <1>0, Zenon
  <2>2. k = i
    BY <2>1, Zenon DEF Distinct
  <2>3. Rec(h, d, m)[b] = d[k]
    BY <1>0, Zenon DEF Entries, Rec
  <2> QED
    BY <2>2, <2>3, Zenon
<1>2. ASSUME NEW b \in Block, \A i \in 1..Len(h) : h[i] # b PROVE Rec(h, d, m)[b] = m[b]
  BY <1>0, <1>2, Zenon DEF Entries, Rec
<1> QED
  BY <1>1, <1>2, Zenon

\* Recovered is Rec of the disk.
LEMMA RecoveredIsRec ==
  Recovered = Rec(dhead, dlog, home) /\ Recovered' = Rec(dhead', dlog', home')
BY Zenon DEF Recovered, Rec

\* A recovered disk holds block contents.
LEMMA RecoveredType ==
  ASSUME TypeOK, Len(dhead) <= LOGSIZE
  PROVE  Recovered \in [Block -> Value]
<1> SUFFICES ASSUME NEW b \in Block
             PROVE  (IF b \in Entries(dhead)
                     THEN dlog[CHOOSE i \in DOMAIN dhead : dhead[i] = b]
                     ELSE home[b]) \in Value
  BY Zenon DEF Recovered
<1> DEFINE k == CHOOSE i \in DOMAIN dhead : dhead[i] = b
<1>1. CASE b \in Entries(dhead)
  <2>1. k \in DOMAIN dhead
    BY <1>1, Zenon DEF Entries
  <2>2. k \in 1..LOGSIZE
    BY <2>1, LogAssumption DEF TypeOK
  <2> HIDE DEF k
  <2>3. dlog[k] \in Value
    BY <2>2, Zenon DEF TypeOK
  <2> QED
    BY <2>3, <1>1, Zenon DEF k
<1>2. CASE b \notin Entries(dhead)
  BY <1>2, Zenon DEF TypeOK
<1> QED
  BY <1>1, <1>2, Zenon

\* read_head preserves the invariant: recovery starts from the committed
\* header.
LEMMA ReadHeadIInv ==
  ASSUME SetFacts, IInv, read_head PROVE IInv'
<1> USE LogAssumption
<1>0. TypeOK /\ LockInv /\ BootInv /\ CountInv /\ HeadInv /\ TailInv /\ CacheInv /\ RefInv /\ SpaceReserved
  BY Zenon DEF IInv
<1>x. PICK x \in {"clear", "install"} : boot' = x /\ (x = "clear" <=> dhead = <<>>)
  BY Zenon DEF read_head
<1>a. /\ boot = "read_head" /\ lh' = dhead /\ tail' = 0
      /\ UNCHANGED <<home, dlog, dhead, outstanding, committing, cache, refcnt, pc, hold, nwrites, crashes, latest, unpinned>>
  BY Zenon DEF read_head, disk, bufs, hist
<1>o. \A q \in Proc : pc[q] = "idle"
  BY <1>0, <1>a, Zenon DEF BootInv
<1>l. Len(dhead) \in Nat /\ (x = "install" => 0 < Len(dhead)) /\ (x = "clear" => Len(dhead) = 0)
  BY <1>0, <1>x DEF TypeOK
<1>1. TypeOK'
  BY <1>0, <1>a, <1>x, Zenon DEF TypeOK
<1>2. LockInv'
  BY <1>0, <1>a, Zenon DEF LockInv
<1>3. BootInv'
  <2>1. Recovered' = Recovered
    BY <1>a DEF Recovered, Entries
  <2> QED
    BY <2>1, <1>0, <1>a, <1>x, Zenon DEF BootInv
<1>4. CountInv' /\ SpaceReserved'
  <2>1. \A q \in Proc : ~InOp(q)' /\ ~InCommit(q)' /\ ~InOp(q) /\ ~InCommit(q)
    BY <1>o, <1>a, Zenon DEF InOp, InCommit
  <2>2. CountInv'
    BY <2>1, <1>0, <1>a, SameCount, Zenon
  <2>3. Unused' = {}
    BY <2>1, Zenon DEF Unused
  <2>4. SpaceReserved'
    BY <2>3, <1>0, <1>a, <1>l, SetEmptySet DEF SpaceReserved, HeadInv
  <2> QED
    BY <2>2, <2>4, Zenon
<1>5. HeadInv'
  BY <1>0, <1>a, <1>o, <1>x DEF HeadInv, Distinct
<1>6. TailInv'
  BY <1>a, <1>o, <1>x, <1>l DEF TailInv, Trusted
<1>7. CacheInv'
  BY <1>x, Zenon DEF CacheInv, Trusted
<1>8. RefInv'
  <2>1. \A c : ~Pinned(c) /\ ~Pinned(c)'
    BY <1>a, <1>x, Zenon DEF Pinned
  <2>2. \A c : Held(c)' <=> Held(c)
    BY <1>a, Zenon DEF Held
  <2> QED
    BY <2>1, <2>2, <1>0, <1>a, Zenon DEF RefInv
<1> QED
  BY <1>1, <1>2, <1>3, <1>4, <1>5, <1>6, <1>7, <1>8, Zenon DEF IInv

\* A round of install_trans in recovery preserves the invariant; the
\* block joins those whose count is no longer exact.
LEMMA RecoverInstallIInv ==
  ASSUME SetFacts, IInv, recover_install PROVE IInv'
<1> USE LogAssumption
<1>0. TypeOK /\ LockInv /\ BootInv /\ CountInv /\ HeadInv /\ TailInv /\ CacheInv /\ RefInv /\ SpaceReserved
  BY DEF IInv
<1>l. Len(lh) \in Nat /\ tail \in Nat /\ tail < Len(lh) /\ Len(lh) <= LOGSIZE /\ lh[tail + 1] \in Block
  BY <1>0 DEF recover_install, TypeOK, HeadInv, TailInv, Trusted
<1>h. PICK b \in Block : lh[tail + 1] = b
  BY <1>l, Zenon
<1>v. PICK v \in Value : dlog[tail + 1] = v
  BY <1>l, <1>0 DEF TypeOK
<1>x. PICK x \in {"clear", "install"} : boot' = x /\ (x = "clear" <=> tail + 1 = Len(lh))
  BY Zenon DEF recover_install
<1>a. /\ boot = "install" /\ BufFree(b)
      /\ home' = [home EXCEPT ![b] = v]
      /\ cache' = [cache EXCEPT ![b] = v]
      /\ refcnt' = [refcnt EXCEPT ![b] = (@ - 1) % RefMod]
      /\ tail' = tail + 1
      /\ unpinned' = unpinned \cup {b}
      /\ UNCHANGED <<dlog, dhead, lh, outstanding, committing, pc, hold, nwrites, crashes, latest>>
  BY <1>h, <1>v, Zenon DEF recover_install, InstallBlock, logvars
<1>r. /\ refcnt' \in [Block -> 0..(RefMod - 1)]
      /\ \A c \in Block \ {b} : refcnt'[c] = refcnt[c]
  BY <1>0, <1>a, RefDec, Zenon DEF TypeOK
<1>o. (\A q \in Proc : pc[q] = "idle") /\ lh = dhead
  BY <1>0, <1>a, Zenon DEF BootInv, HeadInv
<1>u. \A i \in 1..Len(lh) : lh[i] = b <=> i = tail + 1
  BY <1>0, <1>h, <1>l DEF HeadInv, Distinct
<1>c. /\ home'[b] = v /\ cache'[b] = v
      /\ \A c \in Block \ {b} : home'[c] = home[c] /\ cache'[c] = cache[c]
  BY <1>0, <1>a, Zenon DEF TypeOK
<1>1. TypeOK'
  <2>1. home' \in [Block -> Value] /\ cache' \in [Block -> Value \cup {NoVal}]
    BY <1>0, <1>a, Zenon DEF TypeOK
  <2>2. /\ tail' \in Nat /\ unpinned' \in SUBSET Block
        /\ UNCHANGED <<dlog, dhead, lh, outstanding, committing, pc, hold, nwrites, crashes, latest>>
    BY <1>0, <1>a, <1>l DEF TypeOK
  <2> QED
    BY <1>0, <1>r, <1>x, <2>1, <2>2, Zenon DEF TypeOK
<1>2. LockInv'
  BY <1>0, <1>a, Zenon DEF LockInv
<1>3. BootInv'
  <2>1. Recovered' = Recovered
    <3>1. b \in Entries(dhead)
      BY <1>h, <1>o, <1>l, <1>0 DEF Entries, TypeOK
    <3>2. Entries(dhead)' = Entries(dhead)
      BY <1>a, Zenon DEF Entries
    <3>3. \A c \in Block : c \notin Entries(dhead) => home'[c] = home[c]
      BY <3>1, <1>c, Zenon
    <3> QED
      BY <3>2, <3>3, <1>a DEF Recovered
  <2>2. \A c \in Block : cache'[c] \in {NoVal, home'[c]}
    BY <1>0, <1>a, <1>c, Zenon DEF BootInv
  <2>3. latest = Recovered /\ committing = 0
    BY <1>0, <1>a, Zenon DEF BootInv
  <2> QED
    BY <2>1, <2>2, <2>3, <1>a, <1>o, <1>x, Zenon DEF BootInv
<1>4. CountInv' /\ SpaceReserved'
  <2>1. \A q \in Proc : ~InOp(q)' /\ ~InCommit(q)' /\ ~InOp(q) /\ ~InCommit(q)
    BY <1>o, <1>a, Zenon DEF InOp, InCommit
  <2>2. CountInv'
    BY <2>1, <1>0, <1>a, SameCount, Zenon
  <2>3. Unused' \subseteq Unused
    BY <2>1, Zenon DEF Unused
  <2> QED
    BY <2>2, <2>3, <1>0, <1>a, FewerUnused, Zenon DEF TypeOK
<1>5. HeadInv'
  BY <1>0, <1>a, <1>o, <1>x DEF HeadInv, Distinct
<1>6. TailInv'
  <2>1. ASSUME NEW i \in 1..Len(lh), i <= tail + 1 PROVE home'[lh[i]] = dlog[i]
    <3>1. CASE i = tail + 1
      BY <3>1, <1>h, <1>v, <1>c, Zenon
    <3>2. CASE i # tail + 1
      <4>1. lh[i] \in Block \ {b} /\ i <= tail
        BY <3>2, <2>1, <1>u, <1>l, <1>0 DEF TypeOK
      <4> QED
        BY <4>1, <1>c, <1>0, <1>a, Zenon DEF TailInv, Trusted
    <3> QED
      BY <3>1, <3>2, Zenon
  <2>2. boot' = "clear" => \A i \in 1..Len(lh) : i <= tail + 1
    BY <1>x, <1>l
  <2>3. boot' = "install" => tail + 1 < Len(lh)
    BY <1>x, <1>l
  <2>4. tail' = tail + 1 /\ UNCHANGED <<lh, dlog, pc>> /\ boot' # "done"
    BY <1>a, <1>x, Zenon
  <2> QED
    BY <2>1, <2>2, <2>3, <2>4, <1>o, Zenon DEF TailInv, Trusted
<1>7. CacheInv'
  BY <1>x, Zenon DEF CacheInv, Trusted
<1>8. RefInv'
  <2>1. \A c : ~Pinned(c) /\ ~Pinned(c)'
    BY <1>a, <1>x, Zenon DEF Pinned
  <2>2. \A c : Held(c)' <=> Held(c)
    BY <1>a, Zenon DEF Held
  <2>3. RefInv /\ unpinned' = unpinned \cup {b}
    BY <1>0, <1>a, Zenon
  <2> QED
    BY <2>1, <2>2, <2>3, <1>r, Zenon DEF RefInv
<1> QED
  BY <1>1, <1>2, <1>3, <1>4, <1>5, <1>6, <1>7, <1>8, Zenon DEF IInv

\* The end of recovery preserves the invariant: home is what a crash
\* would leave.
LEMMA RecoverClearIInv ==
  ASSUME SetFacts, IInv, recover_clear PROVE IInv'
<1> USE LogAssumption
<1>0. TypeOK /\ LockInv /\ BootInv /\ CountInv /\ HeadInv /\ TailInv /\ CacheInv /\ RefInv /\ SpaceReserved
  BY DEF IInv
<1>a. /\ boot = "clear" /\ boot' = "done" /\ lh' = <<>> /\ dhead' = <<>>
      /\ UNCHANGED <<home, dlog, outstanding, committing, cache, refcnt, pc, hold, tail, nwrites, crashes, latest, unpinned>>
  BY Zenon DEF recover_clear, bufs, procs, hist
<1>o. (\A q \in Proc : pc[q] = "idle") /\ lh = dhead /\ latest = Recovered
  BY <1>0, <1>a, Zenon DEF BootInv, HeadInv
<1>c. \A b \in Block : latest[b] = home[b]
  <2>0. dhead \in Seq(Block) /\ Distinct(dhead)
    BY <1>0, Zenon DEF TypeOK, HeadInv
  <2>1. /\ \A i \in 1..Len(dhead) : Recovered[dhead[i]] = dlog[i]
        /\ \A b \in Block : (\A i \in 1..Len(dhead) : dhead[i] # b) => Recovered[b] = home[b]
    BY <2>0, RecoveredEntries, RecoveredIsRec
  <2>2. \A i \in 1..Len(dhead) : home[dhead[i]] = dlog[i]
    BY <1>0, <1>a, <1>o, Zenon DEF TailInv, Trusted
  <2> QED
    BY <2>1, <2>2, <1>o
<1>1. TypeOK'
  BY <1>0, <1>a DEF TypeOK
<1>2. LockInv'
  BY <1>0, <1>a, Zenon DEF LockInv
<1>3. BootInv'
  BY <1>a, Zenon DEF BootInv
<1>4. CountInv' /\ SpaceReserved'
  <2>1. \A q \in Proc : ~InOp(q)' /\ ~InCommit(q)' /\ ~InOp(q) /\ ~InCommit(q)
    BY <1>o, <1>a, Zenon DEF InOp, InCommit
  <2>2. CountInv'
    BY <2>1, <1>0, <1>a, SameCount, Zenon
  <2>3. Unused' = {}
    BY <2>1, Zenon DEF Unused
  <2>4. SpaceReserved'
    BY <2>3, <1>a, SetEmptySet DEF SpaceReserved
  <2> QED
    BY <2>2, <2>4, Zenon
<1>5. HeadInv'
  BY <1>a, <1>o DEF HeadInv, Distinct
<1>6. TailInv'
  BY <1>a, <1>o DEF TailInv, Trusted
<1>7. CacheInv'
  <2>1. \A b \in Block : cache[b] \in {NoVal, home[b]}
    BY <1>0, <1>a, Zenon DEF BootInv
  <2> QED
    BY <2>1, <1>a, <1>c, Zenon DEF CacheInv, Trusted, Contents
<1>8. RefInv'
  <2>1. \A c : ~Pinned(c) /\ ~Pinned(c)'
    BY <1>a DEF Pinned
  <2>2. \A c : Held(c)' <=> Held(c)
    BY <1>a, Zenon DEF Held
  <2> QED
    BY <2>1, <2>2, <1>0, <1>a, Zenon DEF RefInv
<1> QED
  BY <1>1, <1>2, <1>3, <1>4, <1>5, <1>6, <1>7, <1>8, Zenon DEF IInv

\* A crash preserves the invariant: only the disk survives.
LEMMA CrashIInv ==
  ASSUME SetFacts, IInv, crash PROVE IInv'
<1> USE LogAssumption
<1>0. TypeOK /\ HeadInv
  BY Zenon DEF IInv
<1>a. /\ crashes < MaxCrash /\ crashes' = crashes + 1
      /\ lh' = <<>> /\ outstanding' = 0 /\ committing' = 0
      /\ cache' = [b \in Block |-> NoVal] /\ refcnt' = [b \in Block |-> 0]
      /\ pc' = [q \in Proc |-> "idle"] /\ hold' = [q \in Proc |-> NoBlock]
      /\ tail' = 0 /\ nwrites' = [q \in Proc |-> 0] /\ boot' = "read_head"
      /\ latest' = Recovered /\ unpinned' = {}
      /\ UNCHANGED <<home, dlog, dhead>>
  BY Zenon DEF crash, disk
<1>1. TypeOK'
  <2>1. Recovered \in [Block -> Value]
    BY <1>0, RecoveredType, Zenon DEF HeadInv
  <2>2. /\ cache' \in [Block -> Value \cup {NoVal}] /\ refcnt' \in [Block -> 0..(RefMod - 1)]
        /\ pc' \in [Proc -> PC] /\ hold' \in [Proc -> Block \cup {NoBlock}]
        /\ nwrites' \in [Proc -> 0..MAXOPBLOCKS] /\ crashes' \in 0..MaxCrash
    BY <1>0, <1>a DEF TypeOK, PC
  <2> QED
    BY <1>0, <1>a, <2>1, <2>2 DEF TypeOK
<1>2. LockInv'
  BY <1>a, Zenon DEF LockInv
<1>3. BootInv'
  <2>1. Recovered' = Recovered
    BY <1>a DEF Recovered, Entries
  <2> QED
    BY <2>1, <1>a, Zenon DEF BootInv
<1>4. CountInv' /\ SpaceReserved'
  <2>1. \A q \in Proc : ~InOp(q)' /\ ~InCommit(q)'
    BY <1>a, Zenon DEF InOp, InCommit
  <2>2. {q \in Proc : InOp(q)}' = {} /\ Unused' = {}
    BY <2>1, Zenon DEF Unused
  <2>3. CountInv'
    BY <2>1, <2>2, <1>a, SetEmptySet, Zenon DEF CountInv
  <2>4. SpaceReserved'
    BY <2>2, <1>a, SetEmptySet DEF SpaceReserved
  <2> QED
    BY <2>3, <2>4
<1>5. HeadInv'
  BY <1>0, <1>a DEF HeadInv, Distinct
<1>6. TailInv'
  BY <1>a, Zenon DEF TailInv, Trusted
<1>7. CacheInv'
  BY <1>a, Zenon DEF CacheInv, Trusted
<1>8. RefInv'
  <2>1. \A c \in Block : ~Pinned(c)' /\ ~Held(c)'
    BY <1>a, Zenon DEF Pinned, Held
  <2> QED
    BY <2>1, <1>a DEF RefInv
<1> QED
  BY <1>1, <1>2, <1>3, <1>4, <1>5, <1>6, <1>7, <1>8 DEF IInv

\* Recycling a buffer preserves the invariant: where the counts are exact, one
\* without references is neither held nor changed.
LEMMA RecycleIInv ==
  ASSUME SetFacts, IInv, NEW b \in Block, recycle(b) PROVE IInv'
<1> USE LogAssumption
<1>0. TypeOK /\ LockInv /\ BootInv /\ CountInv /\ HeadInv /\ TailInv /\ CacheInv /\ RefInv /\ SpaceReserved
  BY Zenon DEF IInv
<1>a. /\ refcnt[b] = 0 /\ CachePressure
      /\ cache' = [cache EXCEPT ![b] = NoVal]
      /\ UNCHANGED <<home, dlog, dhead, lh, outstanding, committing, refcnt, pc, hold, tail, nwrites, boot, crashes, latest, unpinned>>
  BY Zenon DEF recycle, disk, logvars, procs, hist
<1>d. /\ \A i : Installed(i)' <=> Installed(i)
      /\ \A c : Pinned(c)' <=> Pinned(c)
  BY <1>a, SamePins, Zenon
<1>e. \A c : (Dirty(c)' <=> Dirty(c)) /\ (Held(c)' <=> Held(c))
  BY <1>a, SameDirty, Zenon
<1>c. /\ \A c \in Block \ {b} : cache'[c] = cache[c] /\ Contents(c)' = Contents(c)
      /\ cache'[b] = NoVal /\ Contents(b)' = home[b]
  BY <1>0, <1>a, Zenon DEF TypeOK, Contents
<1>f. Trusted => ~Dirty(b) /\ ~Pinned(b)
  <2>1. SUFFICES ASSUME unpinned = {} PROVE ~Dirty(b) /\ ~Pinned(b)
    BY <1>a, Zenon DEF Trusted
  <2>2. 0 = (IF Held(b) THEN 1 ELSE 0) + (IF Pinned(b) THEN 1 ELSE 0)
    BY <2>1, <1>0, <1>a, Zenon DEF RefInv
  <2>3. ~Held(b) /\ ~Pinned(b)
    BY <2>2
  <2> QED
    BY <2>3, Zenon DEF Held, Dirty
<1>1. TypeOK'
  <2>1. cache' \in [Block -> Value \cup {NoVal}]
    BY <1>0, <1>a, Zenon DEF TypeOK
  <2> QED
    BY <2>1, <1>0, <1>a, Zenon DEF TypeOK
<1>2. LockInv'
  BY <1>0, <1>a, Zenon DEF LockInv
<1>3. BootInv'
  <2>1. Recovered' = Recovered
    <3>1. dhead' = dhead /\ dlog' = dlog /\ home' = home
      BY <1>a, Zenon
    <3> QED
      BY <3>1, RecoveredIsRec, Zenon
  <2> QED
    BY <2>1, <1>0, <1>a, <1>c, Zenon DEF BootInv
<1>4. CountInv' /\ SpaceReserved'
  <2>1. \A q \in Proc : (InOp(q)' <=> InOp(q)) /\ (InCommit(q)' <=> InCommit(q)) /\ Done(q)' = Done(q)
    BY <1>a, Zenon DEF InOp, InCommit, Done
  <2>2. CountInv'
    BY <2>1, <1>0, <1>a, SameCount, Zenon
  <2>3. Unused' \subseteq Unused
    BY <2>1, Zenon DEF Unused
  <2> QED
    BY <2>2, <2>3, <1>0, <1>a, FewerUnused, Zenon DEF TypeOK
<1>5. HeadInv'
  BY <1>0, <1>a, SameHead, Zenon
<1>6. TailInv'
  <2>1. boot = "done" => \A i \in 1..Len(lh) : Installed(i)' => home[lh[i]] = dlog[i]
    BY <1>0, <1>d, Zenon DEF TailInv, Trusted
  <2> QED
    BY <2>1, <1>0, <1>a DEF TailInv, Trusted
<1>7. CacheInv'
  <2>1. ASSUME Trusted, NEW c \in Block, boot = "done"
        PROVE  /\ Contents(c)' = latest'[c]
               /\ cache'[c] \in {NoVal, home'[c]} \/ Pinned(c)' \/ Dirty(c)'
    <3>1. CASE c = b
      BY <3>1, <2>1, <1>0, <1>a, <1>c, <1>f, Zenon DEF CacheInv, Trusted, Contents
    <3>2. CASE c # b
      BY <3>2, <2>1, <1>0, <1>a, <1>c, <1>d, <1>e, Zenon DEF CacheInv, Trusted
    <3> QED
      BY <3>1, <3>2, Zenon
  <2> QED
    BY <2>1, <1>a, Zenon DEF CacheInv, Trusted
<1>8. RefInv'
  BY <1>0, <1>a, <1>d, <1>e, ZenonT(30) DEF RefInv
<1> QED
  BY <1>1, <1>2, <1>3, <1>4, <1>5, <1>6, <1>7, <1>8, Zenon DEF IInv

\* A step that changes nothing preserves the invariant.
LEMMA StutterIInv == ASSUME SetFacts, IInv, UNCHANGED vars PROVE IInv'
<1>0. TypeOK /\ LockInv /\ BootInv /\ CountInv /\ HeadInv /\ TailInv /\ CacheInv /\ RefInv /\ SpaceReserved
  BY Zenon DEF IInv
<1>a. /\ UNCHANGED <<home, dlog, dhead, lh, outstanding, committing, cache, refcnt>>
      /\ UNCHANGED <<pc, hold, tail, nwrites, boot, crashes, latest, unpinned>>
  BY Zenon DEF vars, disk, logvars, bufs, procs, hist
<1>b. /\ \A i : Installed(i)' <=> Installed(i)
      /\ \A c : Pinned(c)' <=> Pinned(c)
  BY <1>a, SamePins, Zenon
<1>c. \A c : (Dirty(c)' <=> Dirty(c)) /\ (Held(c)' <=> Held(c))
  BY <1>a, SameDirty, Zenon
<1>d. Recovered' = Recovered /\ \A c : Contents(c)' = Contents(c)
  <2>1. Recovered' = Recovered
    BY <1>a DEF Recovered, Entries
  <2>2. \A c : Contents(c)' = Contents(c)
    BY <1>a, Zenon DEF Contents
  <2> QED
    BY <2>1, <2>2, Zenon
<1>1. TypeOK' /\ LockInv'
  BY <1>0, <1>a, Zenon DEF TypeOK, LockInv
<1>2. BootInv'
  BY <1>0, <1>a, <1>d, Zenon DEF BootInv
<1>3. CountInv' /\ SpaceReserved'
  <2>1. \A q \in Proc : (InOp(q)' <=> InOp(q)) /\ (InCommit(q)' <=> InCommit(q)) /\ Done(q)' = Done(q)
    BY <1>a, Zenon DEF InOp, InCommit, Done
  <2>2. Unused' \subseteq Unused
    BY <2>1, Zenon DEF Unused
  <2> QED
    BY <2>1, <2>2, <1>0, <1>a, SameCount, FewerUnused, Zenon DEF TypeOK
<1>4. HeadInv'
  BY <1>0, <1>a, SameHead, Zenon
<1>5. TailInv'
  BY <1>0, <1>a, <1>b, Zenon DEF TailInv, Trusted
<1>6. CacheInv' /\ RefInv'
  BY <1>0, <1>a, <1>b, <1>c, <1>d, Zenon DEF CacheInv, Trusted, RefInv
<1> QED
  BY <1>1, <1>2, <1>3, <1>4, <1>5, <1>6, Zenon DEF IInv

\* Every step preserves the invariant.
LEMMA NextIInv == ASSUME SetFacts, IInv, [Next]_vars PROVE IInv'
<1>1. ASSUME NEW p \in Proc, Step(p) PROVE IInv'
  BY Zenon, <1>1, BeginOpIInv, BreadIInv, ModifyIInv, LogWriteCheckIInv, LogWriteIInv, BrelseIInv,
     EndOpIInv, WriteLogIInv, WriteHeadIInv, InstallTransIInv, ClearHeadIInv, EndOpFinishIInv
     DEF Step, commit
<1>2. ASSUME recover_from_log PROVE IInv'
  BY <1>2, ReadHeadIInv, RecoverInstallIInv, RecoverClearIInv, Zenon DEF recover_from_log
<1> QED
  BY <1>1, <1>2, RecycleIInv, CrashIInv, StutterIInv, Zenon DEF Next

-----------------------------------------------------------------------------
(* Panics, and what a crash leaves.                                         *)

\* A process about to test for space in log_write has a reservation, so the
\* header array has room and log.outstanding counts the process.
LEMMA DirtyHasRoom ==
  ASSUME SetFacts, IInv, NEW p \in Proc, pc[p] = "dirty"
  PROVE  Len(lh) < LOGSIZE /\ outstanding >= 1
<1> USE LogAssumption
<1>0. TypeOK /\ LockInv /\ CountInv /\ SpaceReserved
  BY Zenon DEF IInv
<1>1. InOp(p)
  BY Zenon DEF InOp
<1>2. <<p, nwrites[p]>> \in Unused
  BY <1>0, <1>1 DEF Unused, Done, LockInv, TypeOK
<1>3. Cardinality(Unused) >= 1
  BY <1>2, UnusedFinite, SetEmptySet
<1>4. Cardinality(Ops) >= 1
  BY <1>1, ProcsFinite, SetEmptySet DEF Ops
<1>5. outstanding = Cardinality(Ops)
  BY <1>0, Zenon DEF CountInv, Ops
<1>6. Len(lh) \in Nat
  BY <1>0 DEF TypeOK
<1> QED
  BY <1>0, <1>3, <1>4, <1>5, <1>6, UnusedFinite DEF SpaceReserved

\* A step that starts no panic and does not shorten the log under one keeps
\* PanicsOnlyIfFull.
LEMMA SamePanics ==
  ASSUME PanicsOnlyIfFull, \A q \in Proc : pc'[q] = "panic" => pc[q] = "panic", UNCHANGED lh
  PROVE  PanicsOnlyIfFull'
BY Zenon DEF PanicsOnlyIfFull

\* No step lets log_write or end_op panic for another reason, or empties the
\* log while a process is stuck in a panic.
LEMMA NextPanics ==
  ASSUME SetFacts, IInv, PanicsOnlyIfFull, [Next]_vars
  PROVE  PanicsOnlyIfFull'
<1> USE LogAssumption
<1>0. TypeOK /\ BootInv /\ CountInv
  BY Zenon DEF IInv
<1>t. pc \in [Proc -> PC] /\ lh \in Seq(Block)
  BY <1>0, Zenon DEF TypeOK
<1>1. ASSUME NEW p \in Proc, log_write_check(p) PROVE PanicsOnlyIfFull'
  <2>1. pc[p] = "dirty" /\ lh' = lh
    BY <1>1, Zenon DEF log_write_check, logvars
  <2>2. Len(lh) < LOGSIZE /\ outstanding >= 1
    BY <2>1, DirtyHasRoom, Zenon
  <2>3. outstanding \in Int /\ Len(lh) \in Nat
    BY <1>0 DEF TypeOK
  <2>4. pc'[p] = "panic" => Len(lh) >= NLOG - 1
    BY <1>1, <1>t, <2>2, <2>3 DEF log_write_check
  <2>5. \A q \in Proc \ {p} : pc'[q] = pc[q]
    BY <1>1, <1>t, Zenon DEF log_write_check
  <2> QED
    BY <2>1, <2>4, <2>5, Zenon DEF PanicsOnlyIfFull
<1>2. ASSUME NEW p \in Proc, log_write(p) PROVE PanicsOnlyIfFull'
  <2>1. lh' = lh \/ lh' = Append(lh, hold[p])
    BY <1>2, Zenon DEF log_write
  <2>2. hold[p] \in Block
    BY <1>2, <1>0, Zenon DEF IInv, LockInv, TypeOK, log_write
  <2>3. Len(lh') \in Nat /\ Len(lh) \in Nat /\ Len(lh') >= Len(lh)
    BY <2>1, <2>2, <1>t
  <2>4. \A q \in Proc : pc'[q] = "panic" => pc[q] = "panic"
    BY <1>2, <1>t, Zenon DEF log_write
  <2> QED
    BY <2>3, <2>4 DEF PanicsOnlyIfFull
<1>3. ASSUME NEW p \in Proc, end_op(p) PROVE PanicsOnlyIfFull'
  <2>1. committing # 1
    BY <1>3, <1>0, Zenon DEF end_op, CountInv, InOp
  <2> QED
    BY <1>3, <2>1, <1>t, SamePanics, Zenon DEF end_op, Wake
<1>4. ASSUME NEW p \in Proc, clear_head(p) PROVE PanicsOnlyIfFull'
  <2>1. \A q \in Proc : pc[q] # "panic"
    BY <1>4, <1>0, Zenon DEF clear_head, CountInv, InCommit, InOp
  <2> QED
    BY <1>4, <2>1, <1>t, Zenon DEF clear_head, PanicsOnlyIfFull
<1>5. ASSUME NEW p \in Proc, Step(p), ~log_write_check(p), ~log_write(p), ~end_op(p),
             ~clear_head(p)
      PROVE  PanicsOnlyIfFull'
  <2>1. UNCHANGED lh /\ \A q \in Proc : pc'[q] = "panic" => pc[q] = "panic"
    BY <1>5, <1>t, Zenon
       DEF Step, commit, begin_op, bread, modify, brelse, write_log, write_head,
           install_trans, end_op_finish, Wake, logvars
  <2> QED
    BY <2>1, SamePanics, Zenon
<1>6. ASSUME recover_from_log \/ crash PROVE PanicsOnlyIfFull'
  BY Zenon, <1>6, <1>0
     DEF recover_from_log, read_head, recover_install, recover_clear, crash, BootInv,
         procs, PanicsOnlyIfFull
<1>7. ASSUME (\E b \in Block : recycle(b)) \/ UNCHANGED vars PROVE PanicsOnlyIfFull'
  BY <1>7, SamePanics, Zenon DEF recycle, vars, logvars, procs
<1> QED
  BY <1>1, <1>2, <1>3, <1>4, <1>5, <1>6, <1>7, Zenon DEF Next

\* The commit point: write_head replaces the recovered disk by what the
\* calls wrote, where the counts can be trusted.
LEMMA WriteHeadCommits ==
  ASSUME IInv, NEW p \in Proc, write_head(p)
  PROVE  /\ \A q \in Proc : ~InOp(q)
         /\ Trusted => Recovered' = latest
<1>0. TypeOK /\ BootInv /\ HeadInv /\ CountInv /\ TailInv /\ CacheInv
  BY Zenon DEF IInv
<1>1. pc[p] = "write_head" /\ dhead' = lh /\ dlog' = dlog /\ home' = home
  BY Zenon DEF write_head
<1>2. boot = "done" /\ \A q \in Proc : ~InOp(q)
  BY <1>0, <1>1, Zenon DEF InCommit, CountInv, BootInv
<1>3. lh \in Seq(Block) /\ Distinct(lh)
  BY <1>0, Zenon DEF TypeOK, HeadInv
<1>4. /\ \A i \in 1..Len(lh) : Recovered'[lh[i]] = dlog[i]
      /\ \A b \in Block : (\A i \in 1..Len(lh) : lh[i] # b) => Recovered'[b] = home[b]
  BY <1>1, <1>3, RecoveredEntries, RecoveredIsRec
<1>k. SUFFICES ASSUME Trusted PROVE Recovered' = latest
  BY <1>2, Zenon
<1>5. \A i \in 1..Len(lh) : dlog[i] = latest[lh[i]]
  BY <1>0, <1>1, <1>k, Zenon DEF TailInv
<1>6. ASSUME NEW b \in Block, \A i \in 1..Len(lh) : lh[i] # b PROVE home[b] = latest[b]
  <2>1. ~Pinned(b) /\ ~Dirty(b)
    BY <1>2, <1>6, Zenon DEF Pinned, Dirty, InOp
  <2>2. cache[b] \in {NoVal, home[b]} /\ Contents(b) = latest[b]
    BY <2>1, <1>0, <1>2, <1>k, Zenon DEF CacheInv
  <2> QED
    BY <2>2, Zenon DEF Contents
<1>7. \A b \in Block : Recovered'[b] = latest[b]
  <2> TAKE b \in Block
  <2>1. CASE \A i \in 1..Len(lh) : lh[i] # b
    BY <1>4, <1>6, <2>1, Zenon
  <2>2. ASSUME NEW i \in 1..Len(lh), lh[i] = b PROVE Recovered'[b] = latest[b]
    BY <1>4, <1>5, <2>2, Zenon
  <2> QED
    BY <2>1, <2>2, Zenon
<1>8. latest = [b \in Block |-> latest[b]]
  BY <1>0, Zenon DEF TypeOK
<1>9. Recovered' = [b \in Block |-> Recovered'[b]]
  <2>1. Rec(dhead', dlog', home') = [b \in Block |-> Rec(dhead', dlog', home')[b]]
    BY SMT DEF Rec
  <2> QED
    BY <2>1, RecoveredIsRec, Zenon
<1> QED
  BY <1>7, <1>8, <1>9, Zenon

\* No other step changes what a crash would leave.
LEMMA OthersKeepRecovered ==
  ASSUME IInv, [Next]_vars, ~ \E p \in Proc : write_head(p)
  PROVE  Recovered' = Recovered
<1> USE LogAssumption
<1>0. TypeOK /\ BootInv /\ CountInv /\ HeadInv /\ TailInv
  BY Zenon DEF IInv
<1>d. dhead \in Seq(Block) /\ Distinct(dhead)
  BY <1>0, Zenon DEF TypeOK, HeadInv
<1>1. ASSUME UNCHANGED <<home, dlog, dhead>> PROVE Recovered' = Recovered
  BY <1>1 DEF Recovered, Entries
<1>2. ASSUME NEW p \in Proc, write_log(p) PROVE Recovered' = Recovered
  <2>1. pc[p] = "write_log" /\ home' = home /\ dhead' = dhead
    BY <1>2, Zenon DEF write_log
  <2>2. boot = "done" /\ \A q \in Proc : pc[q] \notin {"install", "clear"}
    BY <2>1, <1>0, Zenon DEF BootInv, CountInv, InCommit
  <2>3. dhead = <<>>
    BY <2>2, <1>0, Zenon DEF HeadInv
  <2> QED
    BY <2>1, <2>3 DEF Recovered, Entries
<1>3. ASSUME NEW b, NEW v, b \in Entries(dhead), InstallBlock(b, v), UNCHANGED <<dlog, dhead>>
      PROVE  Recovered' = Recovered
  <2>1. \A c \in Block : c \notin Entries(dhead) => home'[c] = home[c]
    BY <1>3, <1>0, Zenon DEF InstallBlock, TypeOK
  <2>2. Entries(dhead)' = Entries(dhead)
    BY <1>3, Zenon DEF Entries
  <2> QED
    BY <2>1, <2>2, <1>3 DEF Recovered
<1>4. ASSUME NEW p \in Proc, install_trans(p) PROVE Recovered' = Recovered
  <2>1. /\ pc[p] = "install" /\ InstallBlock(lh[tail + 1], dlog[tail + 1])
        /\ UNCHANGED <<dlog, dhead>>
    BY <1>4, Zenon DEF install_trans
  <2>2. boot = "done" /\ dhead = lh /\ tail + 1 \in 1..Len(dhead)
    BY <2>1, <1>0 DEF BootInv, HeadInv, TailInv, Trusted, TypeOK
  <2>3. lh[tail + 1] \in Entries(dhead)
    BY <2>2, <1>0 DEF Entries, TypeOK
  <2> QED
    BY <2>1, <2>3, <1>3, Zenon
<1>5. ASSUME recover_install PROVE Recovered' = Recovered
  <2>1. /\ boot = "install" /\ InstallBlock(lh[tail + 1], dlog[tail + 1])
        /\ UNCHANGED <<dlog, dhead>>
    BY <1>5, Zenon DEF recover_install
  <2>2. dhead = lh /\ tail + 1 \in 1..Len(dhead)
    BY <2>1, <1>0 DEF HeadInv, TailInv, Trusted, TypeOK
  <2>3. lh[tail + 1] \in Entries(dhead)
    BY <2>2, <1>0 DEF Entries, TypeOK
  <2> QED
    BY <2>1, <2>3, <1>3, Zenon
<1>6. ASSUME home' = home, dlog' = dlog, dhead' = <<>>,
             \A i \in 1..Len(dhead) : home[dhead[i]] = dlog[i]
      PROVE  Recovered' = Recovered
  <2>1. /\ \A i \in 1..Len(dhead) : Recovered[dhead[i]] = dlog[i]
        /\ \A b \in Block : (\A i \in 1..Len(dhead) : dhead[i] # b) => Recovered[b] = home[b]
    BY <1>d, RecoveredEntries, RecoveredIsRec
  <2>2. \A b \in Block : Recovered[b] = home[b]
    BY <2>1, <1>6
  <2>3. \A b \in Block : Recovered'[b] = home[b]
    BY <1>6 DEF Recovered, Entries
  <2>4. \A b \in Block : Recovered'[b] = Recovered[b]
    BY <2>2, <2>3, Zenon
  <2>5. /\ Recovered = [b \in Block |-> Recovered[b]]
        /\ Recovered' = [b \in Block |-> Recovered'[b]]
    BY DEF Recovered
  <2> QED
    BY <2>4, <2>5, Zenon
<1>7. ASSUME NEW p \in Proc, clear_head(p) PROVE Recovered' = Recovered
  <2>1. pc[p] = "clear" /\ home' = home /\ dlog' = dlog /\ dhead' = <<>>
    BY <1>7, Zenon DEF clear_head
  <2>2. boot = "done" /\ dhead = lh /\ \A i : Installed(i)
    BY <2>1, <1>0, Zenon DEF BootInv, HeadInv, Installed
  <2>3. \A i \in 1..Len(dhead) : home[dhead[i]] = dlog[i]
    BY <2>2, <1>0, Zenon DEF TailInv, Trusted
  <2> QED
    BY <2>1, <2>3, <1>6, Zenon
<1>8. ASSUME recover_clear PROVE Recovered' = Recovered
  <2>1. boot = "clear" /\ home' = home /\ dlog' = dlog /\ dhead' = <<>>
    BY <1>8, Zenon DEF recover_clear
  <2>2. \A i \in 1..Len(dhead) : home[dhead[i]] = dlog[i]
    BY <2>1, <1>0, Zenon DEF HeadInv, TailInv, Trusted
  <2> QED
    BY <2>1, <2>2, <1>6, Zenon
<1>9. ASSUME NEW p \in Proc, Step(p), ~write_head(p) PROVE Recovered' = Recovered
  BY Zenon, <1>9, <1>1, <1>2, <1>4, <1>7
     DEF Step, commit, begin_op, bread, modify, log_write_check, log_write, brelse, end_op,
         end_op_finish, disk
<1>10. ASSUME recover_from_log PROVE Recovered' = Recovered
  BY <1>10, <1>1, <1>5, <1>8, Zenon DEF recover_from_log, read_head, disk
<1>11. ASSUME NEW b \in Block, recycle(b) PROVE Recovered' = Recovered
  BY <1>11, <1>1, Zenon DEF recycle, disk
<1>12. ASSUME crash PROVE Recovered' = Recovered
  BY <1>12, <1>1, Zenon DEF crash, disk
<1>13. ASSUME UNCHANGED vars PROVE Recovered' = Recovered
  BY <1>13, <1>1, Zenon DEF vars, disk
<1> QED
  BY <1>9, <1>10, <1>11, <1>12, <1>13, Zenon DEF Next

-----------------------------------------------------------------------------
(* The log implements LogAbs where bget never has to recycle a buffer.     *)
(* (Where it has, a block that recovery unpinned can lose its update:      *)
(* LoggedBlocksStayCached.)                                                *)

\* What the calls see is what they last wrote.
SeenIsLatest ==
  (IF boot = "done" THEN [b \in Block |-> Contents(b)] ELSE Recovered) = latest

\* So it is while the counts can be trusted.
LEMMA MemIsLatest == ASSUME IInv, Trusted PROVE SeenIsLatest
<1>1. CASE boot = "done"
  <2>1. latest = [b \in Block |-> latest[b]]
    BY Zenon DEF IInv, TypeOK
  <2> QED
    BY <1>1, <2>1, Zenon DEF IInv, CacheInv, SeenIsLatest
<1>2. CASE boot # "done"
  BY <1>2, Zenon DEF IInv, BootInv, SeenIsLatest
<1> QED
  BY <1>1, <1>2

\* Every step is a step of the abstract log, or leaves it as it was.
LEMMA AbsStep ==
  ASSUME IInv, SeenIsLatest, SeenIsLatest', [Next]_vars, ~CachePressure
  PROVE  [Abs!Next]_(Abs!vars)
<1> DEFINE m == IF boot = "done" THEN [b \in Block |-> Contents(b)] ELSE Recovered
           o == {p \in Proc : InOp(p)}
<1>0. TypeOK /\ LockInv /\ CountInv
  BY Zenon DEF IInv
<1>t. pc \in [Proc -> PC] /\ latest \in [Block -> Value]
  BY <1>0, Zenon DEF TypeOK
<1>m. m = latest /\ m' = latest'
  BY Zenon DEF SeenIsLatest
<1>r. (~ \E p \in Proc : write_head(p)) => Recovered' = Recovered
  BY OthersKeepRecovered, Zenon
<1>q. ASSUME m' = m, Recovered' = Recovered, o' = o PROVE UNCHANGED Abs!vars
  BY <1>q, Zenon DEF Abs!vars
<1>s. ASSUME Recovered' = Recovered, latest' = latest, \A q \in Proc : InOp(q)' <=> InOp(q)
      PROVE  UNCHANGED Abs!vars
  <2>1. o' = o
    BY <1>s, Zenon
  <2> QED
    BY <1>q, <1>s, <1>m, <2>1, Zenon
<1>1. ASSUME NEW p \in Proc, begin_op(p), Recovered' = Recovered PROVE [Abs!Next]_(Abs!vars)
  <2>1. latest' = latest /\ Recovered' = Recovered
    BY <1>1, Zenon DEF begin_op, hist
  <2>2. CASE pc'[p] = "op"
    <3>1. ~InOp(p) /\ InOp(p)' /\ \A q \in Proc : q # p => (InOp(q)' <=> InOp(q))
      BY <1>1, <2>2, <1>t DEF begin_op, InOp
    <3>2. p \notin o /\ o' = o \cup {p}
      BY <3>1, Zenon
    <3> QED
      BY <1>m, <2>1, <3>2, Zenon DEF Abs!Next, Abs!Begin
  <2>3. CASE pc'[p] # "op"
    <3>1. \A q \in Proc : InOp(q)' <=> InOp(q)
      BY <1>1, <2>3, <1>t DEF begin_op, InOp
    <3> QED
      BY <1>s, <2>1, <3>1, Zenon
  <2> QED
    BY <2>2, <2>3
<1>2. ASSUME NEW p \in Proc, NEW v \in Value, modify(p, v), Recovered' = Recovered
      PROVE  [Abs!Next]_(Abs!vars)
  <2>1. /\ InOp(p) /\ hold[p] \in Block /\ latest' = [latest EXCEPT ![hold[p]] = v]
        /\ Recovered' = Recovered
    BY <1>2, <1>0, Zenon DEF modify, LockInv, InOp, TypeOK
  <2>2. \A q \in Proc : InOp(q)' <=> InOp(q)
    BY <1>2, <1>t DEF modify, InOp
  <2>3. p \in o /\ o' = o
    BY <2>1, <2>2, Zenon
  <2>4. Abs!Write(p, hold[p], v)
    BY <1>m, <2>1, <2>3, Zenon DEF Abs!Write
  <2> QED
    BY <2>1, <2>4, Zenon DEF Abs!Next
<1>3. ASSUME NEW p \in Proc, end_op(p), Recovered' = Recovered PROVE [Abs!Next]_(Abs!vars)
  <2>1. latest' = latest /\ Recovered' = Recovered
    BY <1>3, Zenon DEF end_op, hist
  <2>2. committing # 1 /\ InOp(p)
    BY <1>3, <1>0, Zenon DEF end_op, CountInv, InOp
  <2>3. ~InOp(p)' /\ \A q \in Proc : q # p => (InOp(q)' <=> InOp(q))
    BY <1>3, <2>2, <1>t DEF end_op, InOp, Wake
  <2>4. p \in o /\ o' = o \ {p}
    BY <2>2, <2>3, Zenon
  <2> QED
    BY <1>m, <2>1, <2>4, Zenon DEF Abs!Next, Abs!End
<1>4. ASSUME NEW p \in Proc, write_head(p) PROVE [Abs!Next]_(Abs!vars)
  <2>1. Recovered' = latest /\ latest' = latest /\ \A q \in Proc : ~InOp(q)
    BY <1>4, WriteHeadCommits, Zenon DEF write_head, hist, Trusted
  <2>2. \A q \in Proc : ~InOp(q)'
    BY <1>4, <2>1, <1>t DEF write_head, InOp
  <2>3. o = {} /\ o' = {}
    BY <2>1, <2>2, Zenon
  <2> QED
    BY <1>m, <2>1, <2>3, Zenon DEF Abs!Next, Abs!Commit
<1>5. ASSUME crash, Recovered' = Recovered PROVE [Abs!Next]_(Abs!vars)
  <2>1. latest' = Recovered /\ Recovered' = Recovered /\ \A q \in Proc : ~InOp(q)'
    BY <1>5 DEF crash, InOp
  <2>2. o' = {}
    BY <2>1, Zenon
  <2> QED
    BY <1>m, <2>1, <2>2, Zenon DEF Abs!Next, Abs!Crash
<1>6. ASSUME NEW p \in Proc, Step(p), ~begin_op(p), ~end_op(p), ~write_head(p),
             \A v \in Value : ~modify(p, v), Recovered' = Recovered
      PROVE  UNCHANGED Abs!vars
  <2>0. \/ \E b \in Block : bread(p, b)
        \/ log_write_check(p) \/ log_write(p) \/ brelse(p)
        \/ write_log(p) \/ install_trans(p) \/ clear_head(p) \/ end_op_finish(p)
    BY <1>6, Zenon DEF Step, commit
  <2>1. latest' = latest
    BY <2>0, Zenon
       DEF bread, log_write_check, log_write, brelse, write_log, install_trans,
           clear_head, end_op_finish, hist
  <2>2. \A q \in Proc : InOp(q)' <=> InOp(q)
    BY <2>0, <1>t, Zenon
       DEF bread, log_write_check, log_write, brelse, write_log, install_trans,
           clear_head, end_op_finish, InOp, Wake
  <2> QED
    BY <1>6, <1>s, <2>1, <2>2, Zenon
<1>7. ASSUME recover_from_log \/ UNCHANGED vars, Recovered' = Recovered
      PROVE  UNCHANGED Abs!vars
  <2>1. UNCHANGED <<pc, latest>>
    BY <1>7, Zenon
       DEF recover_from_log, read_head, recover_install, recover_clear, procs, hist, vars
  <2> QED
    BY <1>7, <1>s, <2>1, Zenon DEF InOp
<1>8. ~ \E b \in Block : recycle(b)
  BY Zenon DEF recycle
<1> HIDE DEF m, o
<1>9. CASE \E p \in Proc : write_head(p)
  BY <1>4, <1>9, Zenon
<1>10. CASE ~ \E p \in Proc : write_head(p)
  BY <1>r, <1>10, <1>1, <1>2, <1>3, <1>5, <1>6, <1>7, <1>8, Zenon DEF Next
<1> QED
  BY <1>9, <1>10

-----------------------------------------------------------------------------
(* The theorems.                                                           *)

INSTANCE FiniteSetTheorems

\* SetFacts is true.
LEMMA SetsCount == SetFacts
<1>1. \A S : \A T \in SUBSET S : IsFiniteSet(S) =>
        /\ IsFiniteSet(T) /\ Cardinality(T) <= Cardinality(S)
        /\ Cardinality(S) = Cardinality(T) => S = T
  BY FS_Subset, Zenon
<1>2. \A S, T : IsFiniteSet(S) /\ IsFiniteSet(T) =>
        IsFiniteSet(S \X T) /\ Cardinality(S \X T) = Cardinality(S) * Cardinality(T)
  BY FS_Product, Zenon
<1>3. \A S, x : IsFiniteSet(S) =>
        /\ IsFiniteSet(S \cup {x})
        /\ Cardinality(S \cup {x}) = IF x \in S THEN Cardinality(S) ELSE Cardinality(S) + 1
  BY FS_AddElement, Zenon
<1>4. \A S, x : IsFiniteSet(S) =>
        /\ IsFiniteSet(S \ {x})
        /\ Cardinality(S \ {x}) = IF x \in S THEN Cardinality(S) - 1 ELSE Cardinality(S)
  BY FS_RemoveElement, Zenon
<1> QED
  BY <1>1, <1>2, <1>3, <1>4, FS_EmptySet, FS_CardinalityType, FS_Interval, Zenon DEF SetFacts

\* The inductive invariant holds in every reachable state of the log,
\* whatever the number of processes, blocks and crashes.
THEOREM InductiveInv == Spec => []IInv
BY SetsCount, InitIInv, NextIInv, PTL DEF Spec

\* log.c keeps its state within its types: refcnt is a uint, the header's
\* block numbers are block numbers, no process counts more log_write calls
\* than MAXOPBLOCKS.
THEOREM TypeCorrect == Spec => []TypeOK
<1>1. IInv => TypeOK
  BY Zenon DEF IInv
<1> QED
  BY <1>1, InductiveInv, PTL

\* commit() runs in one process at a time and never while an operation is
\* open, whatever number of processes call begin_op and end_op.
THEOREM CommitsExcludeOps == Spec => []CommitAlone
<1>1. IInv => CommitAlone
  BY Zenon DEF IInv, CountInv, CommitAlone
<1> QED
  BY <1>1, InductiveInv, PTL

\* begin_op's test reserves enough room: lh.block is never overrun, for every
\* LOGSIZE and MAXOPBLOCKS.
THEOREM ReservationSuffices == Spec => []SpaceReserved
<1>1. IInv => SpaceReserved
  BY Zenon DEF IInv
<1> QED
  BY <1>1, InductiveInv, PTL

\* bread returns what the system calls last wrote, in every boot whose
\* recovery found an empty log.
THEOREM UpdatesKept == Spec => []NoLostUpdate
<1>1. IInv => NoLostUpdate
  BY Zenon DEF IInv, CacheInv, Trusted, NoLostUpdate
<1> QED
  BY <1>1, InductiveInv, PTL

\* An admitted call panics in log_write only when the log on the disk is
\* full; the header array is never the reason, nor is a missing begin_op, and
\* end_op never finds a commit under way.
THEOREM PanicMeansFull == Spec => []PanicsOnlyIfFull
<1>1. Init => PanicsOnlyIfFull
  BY Zenon DEF Init, PanicsOnlyIfFull
<1>2. IInv /\ PanicsOnlyIfFull /\ [Next]_vars => PanicsOnlyIfFull'
  BY SetsCount, NextPanics, Zenon
<1> QED
  BY <1>1, <1>2, InductiveInv, PTL DEF Spec

\* What a crash would leave changes at the commit point only, and then, in a
\* boot whose recovery found an empty log, to all that the operations wrote:
\* commit() is atomic, and so are installation, crash and recovery.
THEOREM AtomicCommit == Spec => CommitIsAtomic
<1> DEFINE A == Recovered' # Recovered =>
                  /\ \A p \in Proc : ~InOp(p)
                  /\ unpinned = {} => Recovered' = latest
<1>1. ASSUME IInv, [Next]_vars PROVE A
  <2>1. CASE \E p \in Proc : write_head(p)
    BY <1>1, <2>1, WriteHeadCommits, Zenon DEF Trusted
  <2>2. CASE ~ \E p \in Proc : write_head(p)
    BY <1>1, <2>2, OthersKeepRecovered, Zenon
  <2> QED
    BY <2>1, <2>2, Zenon
<1>2. IInv /\ [Next]_vars => [A]_vars
  BY <1>1, Zenon
<1>3. CommitIsAtomic <=> [][A]_vars
  BY Zenon DEF CommitIsAtomic
<1> HIDE DEF A
<1> QED
  BY <1>2, <1>3, InductiveInv, PTL DEF Spec

\* As long as bget finds a buffer without recycling one, the file system's
\* calls see the abstract log: their writes take effect when they are made,
\* become durable all at once when no call is in progress, and a crash at any
\* point, during recovery too, takes them back to the last such instant.
THEOREM LogIsAtomic == ~CachePressure => (Spec => ImplementsAbs)
<1> SUFFICES ASSUME ~CachePressure PROVE Spec => ImplementsAbs
  OBVIOUS
<1>3. Init => Abs!Init
  <2> SUFFICES ASSUME Init PROVE Abs!Init
    OBVIOUS
  <2>1. Recovered = home /\ home \in [Block -> Value]
    BY DEF Init, Recovered, Entries
  <2>2. {p \in Proc : InOp(p)} = {}
    BY DEF Init, InOp
  <2> QED
    BY <2>1, <2>2, Zenon DEF Init, Abs!Init
<1>4. IInv => SeenIsLatest
  BY MemIsLatest, Zenon DEF Trusted
<1>5. IInv /\ SeenIsLatest /\ SeenIsLatest' /\ [Next]_vars
        => [Abs!Next]_(Abs!vars)
  BY AbsStep
<1> QED
  BY <1>3, <1>4, <1>5, InductiveInv, PTL DEF Spec, ImplementsAbs, Abs!Spec

=============================================================================
