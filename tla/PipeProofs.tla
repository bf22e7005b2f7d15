----------------------------- MODULE PipeProofs -----------------------------
(***************************************************************************)
(* The properties of Pipe for any number of processes, any PIPESIZE and    *)
(* any width of the counters.                                              *)
(*                                                                         *)
(* PInv adds to them who may be inside the pipe: a process in piperead or  *)
(* pipewrite has a descriptor for that end, the one in pipeclose is the    *)
(* only one and follows the last descriptor, and the holder of pi->lock is *)
(* where the code has taken it.  With the bound on the count (CountInv) it *)
(* is also enough for the steps of PipeAbs: the slots nread % PIPESIZE,    *)
(* ..., (nwrite - 1) % PIPESIZE are the queue.                             *)
(***************************************************************************)
EXTENDS Pipe, Sequences, TLAPS

InRead == {"r_wait", "r_loop", "r_sleep", "r_asleep", "r_woken"}
InWrite == {"w_loop", "w_sleep", "w_asleep", "w_woken"}
Holding == {"w_loop", "w_sleep", "r_wait", "r_loop", "r_sleep"}
Users(e) == {p \in Proc : e \in ends[p]}

\* Who closes an end is alone in doing so, and the descriptors are gone.
CloseInv ==
  \A p \in Proc :
    /\ pc[p] = "close_r" => ref["r"] = 0 /\ \A q \in Proc : pc[q] = "close_r" => q = p
    /\ pc[p] = "close_w" => ref["w"] = 0 /\ \A q \in Proc : pc[q] = "close_w" => q = p

AliveInv == alive = 0 <=> readopen = 0 /\ writeopen = 0

UseInv ==
  \A p \in Proc : /\ pc[p] \in InRead => "r" \in ends[p]
                  /\ pc[p] \in InWrite => "w" \in ends[p]

LockInv == \A p \in Proc : lock = p <=> pc[p] \in Holding

\* SleepsOnlyIfBlocked while pi->lock is held: whoever has changed the count
\* has still to call wakeup.
SleepInv ==
  \A p \in Proc :
    /\ pc[p] = "r_sleep" => Empty /\ writeopen = 1
    /\ pc[p] = "r_asleep" =>
         writeopen = 1 /\ (Empty \/ cut = 1 \/ \E q \in Proc : pc[q] = "w_loop")
    /\ pc[p] = "w_sleep" => Full /\ readopen = 1
    /\ pc[p] = "w_asleep" => readopen = 1 /\ (Full \/ \E q \in Proc : pc[q] = "r_loop")

PInv ==
  /\ TypeOK /\ OpenUntilLastClose /\ CloseInv /\ AliveInv
  /\ UseInv /\ LockInv /\ SleepInv /\ EofIsFinal

-----------------------------------------------------------------------------
(* Facts about a state.                                                    *)

\* What the proofs use of finite sets.  FiniteSetTheorems proves it at the end
\* of this module: it is a large library to have in every context.
SetFacts ==
  /\ IsFiniteSet({}) /\ Cardinality({}) = 0
  /\ \A S : IsFiniteSet(S) => (Cardinality(S) = 0 <=> S = {})
  /\ \A S : IsFiniteSet(S) => Cardinality(S) \in Nat
  /\ \A x : IsFiniteSet({x}) /\ Cardinality({x}) = 1
  /\ \A S : \A T \in SUBSET S : IsFiniteSet(S) =>
       /\ IsFiniteSet(T) /\ Cardinality(T) <= Cardinality(S)
       /\ Cardinality(S) = Cardinality(T) => S = T
  /\ \A S, x : IsFiniteSet(S) =>
       /\ IsFiniteSet(S \cup {x})
       /\ Cardinality(S \cup {x}) = IF x \in S THEN Cardinality(S) ELSE Cardinality(S) + 1
  /\ \A S, x : IsFiniteSet(S) =>
       /\ IsFiniteSet(S \ {x})
       /\ Cardinality(S \ {x}) = IF x \in S THEN Cardinality(S) - 1 ELSE Cardinality(S)

\* The empty set has no element, and no other finite set has none.
LEMMA SetEmptySet ==
  ASSUME SetFacts
  PROVE  /\ IsFiniteSet({}) /\ Cardinality({}) = 0
         /\ \A S : IsFiniteSet(S) => (Cardinality(S) = 0 <=> S = {})
BY Zenon DEF SetFacts

\* A finite set can be counted.
LEMMA SetCardinalityType ==
  ASSUME SetFacts, NEW S, IsFiniteSet(S)
  PROVE  Cardinality(S) \in Nat
BY Zenon DEF SetFacts

\* A set of one.
LEMMA SetSingleton ==
  ASSUME SetFacts, NEW x
  PROVE  IsFiniteSet({x}) /\ Cardinality({x}) = 1
BY Zenon DEF SetFacts

\* A subset is no larger.
LEMMA SetSubset ==
  ASSUME SetFacts, NEW S, IsFiniteSet(S), NEW T \in SUBSET S
  PROVE  /\ IsFiniteSet(T) /\ Cardinality(T) <= Cardinality(S)
         /\ Cardinality(S) = Cardinality(T) => S = T
BY Zenon DEF SetFacts

\* An element more.
LEMMA SetAddElement ==
  ASSUME SetFacts
  PROVE  \A S, x : IsFiniteSet(S) =>
           /\ IsFiniteSet(S \cup {x})
           /\ Cardinality(S \cup {x}) = IF x \in S THEN Cardinality(S) ELSE Cardinality(S) + 1
BY Zenon DEF SetFacts

\* An element less.
LEMMA SetRemoveElement ==
  ASSUME SetFacts
  PROVE  \A S, x : IsFiniteSet(S) =>
           /\ IsFiniteSet(S \ {x})
           /\ Cardinality(S \ {x}) = IF x \in S THEN Cardinality(S) - 1 ELSE Cardinality(S)
BY Zenon DEF SetFacts

\* A descriptor counts: f->ref of its end is not 0, so the end is open.
LEMMA HasEnd ==
  ASSUME SetFacts, PInv, NEW p \in Proc, NEW e \in End, e \in ends[p]
  PROVE  /\ ref[e] \in Nat /\ ref[e] > 0
         /\ e = "r" => readopen = 1
         /\ e = "w" => writeopen = 1
  <1>1. IsFiniteSet(Users(e)) /\ Users(e) # {}
    BY PipeAssumption, SetSubset DEF Users
  <1>2. ref[e] = Cardinality(Users(e))
    BY DEF PInv, OpenUntilLastClose, Users
  <1>3. ref[e] \in Nat /\ ref[e] # 0
    BY <1>1, <1>2, SetEmptySet, SetCardinalityType
  <1>4. QED
    BY <1>3 DEF PInv, TypeOK, OpenUntilLastClose, End

\* Whoever is between acquire and release of pi->lock is alone there.
LEMMA Alone ==
  ASSUME PInv, NEW p \in Proc, NEW q \in Proc, pc[p] \in Holding, pc[q] \in Holding
  PROVE  p = q
  BY DEF PInv, LockInv

LEMMA NobodyHolds ==
  ASSUME PInv, lock = Nobody, NEW p \in Proc
  PROVE  pc[p] \notin Holding
  BY PipeAssumption DEF PInv, LockInv

\* Both ends closed: nobody is inside the pipe or can come back to it.
LEMMA FreedUnused ==
  ASSUME SetFacts, PInv
  PROVE  NotFreedInUse
  <1>1. SUFFICES ASSUME alive = 0, NEW p \in Proc
                 PROVE  pc[p] = "user" /\ ends[p] = {}
    BY DEF NotFreedInUse
  <1>2. readopen = 0 /\ writeopen = 0
    BY <1>1 DEF PInv, AliveInv
  <1>3. \A e \in End : e \notin ends[p]
    BY <1>2, HasEnd DEF PInv, TypeOK, End
  <1>4. ends[p] = {}
    BY <1>3 DEF PInv, TypeOK
  <1>5. pc[p] # "close_r" /\ pc[p] # "close_w"
    BY <1>2 DEF PInv, OpenUntilLastClose
  <1>6. pc[p] \notin InRead /\ pc[p] \notin InWrite
    BY <1>4 DEF PInv, UseInv
  <1>7. QED
    BY <1>4, <1>5, <1>6 DEF PInv, TypeOK, InRead, InWrite

\* When pi->lock is free nobody has a wakeup still to do.
LEMMA SleepersBlocked ==
  ASSUME PInv
  PROVE  SleepsOnlyIfBlocked
  BY NobodyHolds DEF PInv, SleepInv, SleepsOnlyIfBlocked, Holding

-----------------------------------------------------------------------------
(* A step inside piperead, pipewrite or kill leaves the ends as they are.  *)

LEMMA EndsKept ==
  ASSUME PInv, UNCHANGED <<alive, readopen, writeopen, ref, ends>>,
         \A q \in Proc : /\ pc'[q] = "close_r" <=> pc[q] = "close_r"
                         /\ pc'[q] = "close_w" <=> pc[q] = "close_w"
  PROVE  OpenUntilLastClose' /\ CloseInv' /\ AliveInv'
  <1>1. OpenUntilLastClose'
    BY DEF PInv, OpenUntilLastClose
  <1>2. CloseInv'
    BY DEF PInv, CloseInv
  <1>3. AliveInv'
    BY DEF PInv, AliveInv
  <1>4. QED
    BY <1>1, <1>2, <1>3

LEMMA KillStep ==
  ASSUME PInv, NEW p \in Proc, kill(p)
  PROVE  PInv'
  <1> USE DEF kill, pipe, files, hist
  <1>1. TypeOK'
    BY DEF PInv, TypeOK, WakeReaders, WakeWriters, Wake
  <1>2. /\ \A q \in Proc \ {p} : pc'[q] = pc[q]
        /\ \/ pc'[p] = pc[p]
           \/ pc[p] = "r_asleep" /\ pc'[p] = "r_woken"
           \/ pc[p] = "w_asleep" /\ pc'[p] = "w_woken"
    BY DEF PInv, TypeOK, WakeReaders, WakeWriters, Wake
  <1>3. OpenUntilLastClose' /\ CloseInv' /\ AliveInv'
    <2>1. \A q \in Proc : /\ pc'[q] = "close_r" <=> pc[q] = "close_r"
                          /\ pc'[q] = "close_w" <=> pc[q] = "close_w"
      BY <1>2
    <2>2. QED
      BY <2>1, EndsKept
  <1>4. UseInv'
    BY <1>2 DEF PInv, UseInv, InRead, InWrite
  <1>5. LockInv'
    BY <1>2 DEF PInv, LockInv, Holding
  <1>6. SleepInv'
    BY <1>2 DEF PInv, SleepInv, Empty, Full
  <1>7. EofIsFinal'
    BY DEF PInv, EofIsFinal, Empty
  <1>8. QED
    BY <1>1, <1>3, <1>4, <1>5, <1>6, <1>7 DEF PInv

-----------------------------------------------------------------------------
(* The steps of piperead and pipewrite.                                    *)

\* A step of p, who may call wakeup.
StepOf(p) ==
  \A q \in Proc \ {p} : \/ pc'[q] = pc[q]
                        \/ pc[q] = "r_asleep" /\ pc'[q] = "r_woken"
                        \/ pc[q] = "w_asleep" /\ pc'[q] = "w_woken"

\* What is left to show of a step of p inside a call.
LEMMA CallStep ==
  ASSUME PInv, NEW p \in Proc, StepOf(p),
         UNCHANGED <<alive, readopen, writeopen, ref, ends>>,
         pc[p] \notin {"close_r", "close_w"}, pc'[p] \notin {"close_r", "close_w"},
         pc'[p] \in InRead => "r" \in ends[p],
         pc'[p] \in InWrite => "w" \in ends[p],
         lock \in {p, Nobody},
         lock' = IF pc'[p] \in Holding THEN p ELSE Nobody,
         TypeOK', SleepInv', EofIsFinal'
  PROVE  PInv'
  <1>1. OpenUntilLastClose' /\ CloseInv' /\ AliveInv'
    <2>1. \A q \in Proc : /\ pc'[q] = "close_r" <=> pc[q] = "close_r"
                          /\ pc'[q] = "close_w" <=> pc[q] = "close_w"
      BY DEF StepOf
    <2>2. QED
      BY <2>1, EndsKept
  <1>2. UseInv'
    BY DEF PInv, UseInv, InRead, InWrite, StepOf
  <1>3. LockInv'
    <2>1. SUFFICES ASSUME NEW q \in Proc PROVE lock' = q <=> pc'[q] \in Holding
      BY DEF LockInv
    <2>2. CASE q = p
      BY <2>2, PipeAssumption
    <2>3. CASE q # p
      BY <2>3, PipeAssumption DEF PInv, LockInv, StepOf, Holding
    <2>4. QED
      BY <2>2, <2>3
  <1>4. QED
    BY <1>1, <1>2, <1>3 DEF PInv

LEMMA EnterStep ==
  ASSUME PInv, NEW p \in Proc, NEW n \in 0..MaxN, pipewrite(p, n) \/ piperead(p, n)
  PROVE  PInv'
  <1> USE DEF pipewrite, piperead, Calls, Goto, pipe, files, hist
  <1>1. TypeOK'
    <2>1. CASE pipewrite(p, n)
      BY <2>1 DEF PInv, TypeOK
    <2>2. CASE piperead(p, n)
      BY <2>2 DEF PInv, TypeOK
    <2>3. QED
      BY <2>1, <2>2
  <1>2. /\ pc[p] = "user" /\ \A q \in Proc \ {p} : pc'[q] = pc[q]
        /\ \/ pc'[p] = "w_loop" /\ "w" \in ends[p]
           \/ pc'[p] = "r_wait" /\ "r" \in ends[p]
    BY DEF PInv, TypeOK
  <1>3. \A q \in Proc : pc[q] \notin Holding
    BY NobodyHolds
  <1>4. SleepInv'
    BY <1>2, <1>3 DEF PInv, SleepInv, Empty, Full, Holding
  <1>5. EofIsFinal'
    BY DEF PInv, EofIsFinal, Empty
  <1>6. lock' = p /\ pc'[p] \in Holding
    BY <1>2 DEF Holding
  <1>7. QED
    BY <1>1, <1>2, <1>4, <1>5, <1>6, CallStep DEF StepOf, InRead, InWrite

LEMMA SleepStep ==
  ASSUME PInv, NEW p \in Proc, sleep(p)
  PROVE  PInv'
  <1> USE DEF sleep, Goto, pipe, files, hist
  <1>1. TypeOK'
    BY DEF PInv, TypeOK
  <1>2. /\ \A q \in Proc \ {p} : pc'[q] = pc[q]
        /\ \/ pc[p] = "r_sleep" /\ pc'[p] = "r_asleep"
           \/ pc[p] = "w_sleep" /\ pc'[p] = "w_asleep"
    BY DEF PInv, TypeOK
  <1>3. SleepInv'
    BY <1>2 DEF PInv, SleepInv, Empty, Full
  <1>4. EofIsFinal'
    BY DEF PInv, EofIsFinal, Empty
  <1>5. lock = p /\ lock' = Nobody /\ pc'[p] \notin Holding
    BY <1>2 DEF PInv, LockInv, Holding
  <1>6. /\ pc'[p] \in InRead => "r" \in ends[p]
        /\ pc'[p] \in InWrite => "w" \in ends[p]
    BY <1>2 DEF PInv, UseInv, InRead, InWrite
  <1>7. QED
    BY <1>1, <1>2, <1>3, <1>4, <1>5, <1>6, CallStep DEF StepOf

LEMMA SleepReturnStep ==
  ASSUME PInv, NEW p \in Proc, sleep_return(p)
  PROVE  PInv'
  <1> USE DEF sleep_return, Goto, pipe, files, hist
  <1>1. TypeOK'
    BY DEF PInv, TypeOK
  <1>2. /\ \A q \in Proc \ {p} : pc'[q] = pc[q]
        /\ \/ pc[p] = "r_woken" /\ pc'[p] = "r_wait"
           \/ pc[p] = "w_woken" /\ pc'[p] = "w_loop"
    BY DEF PInv, TypeOK
  <1>3. SleepInv'
    BY <1>2 DEF PInv, SleepInv, Empty, Full
  <1>4. EofIsFinal'
    BY DEF PInv, EofIsFinal, Empty
  <1>5. lock = Nobody /\ lock' = p /\ pc'[p] \in Holding
    BY <1>2 DEF Holding
  <1>6. /\ pc'[p] \in InRead => "r" \in ends[p]
        /\ pc'[p] \in InWrite => "w" \in ends[p]
    BY <1>2 DEF PInv, UseInv, InRead, InWrite
  <1>7. QED
    BY <1>1, <1>2, <1>3, <1>4, <1>5, <1>6, CallStep DEF StepOf

LEMMA WriteFullStep ==
  ASSUME SetFacts, PInv, NEW p \in Proc, pipewrite_full(p)
  PROVE  PInv'
  <1> USE DEF pipewrite_full, Return, pipe, files, hist
  <1>1. TypeOK'
    <2>1. CASE readopen = 0 \/ killed[p] = 1
      <3>1. pc' = [pc EXCEPT ![p] = "user"] /\ left' = [left EXCEPT ![p] = 0] /\ lock' = Nobody
        BY <2>1
      <3>2. cut' \in {0, 1}
        BY <2>1 DEF PInv, TypeOK
      <3>3. QED
        BY <3>1, <3>2, PipeAssumption DEF PInv, TypeOK
    <2>2. CASE ~(readopen = 0 \/ killed[p] = 1)
      BY <2>2, Zenon DEF PInv, TypeOK, WakeReaders, Wake
    <2>3. QED
      BY <2>1, <2>2
  <1>2. pc[p] = "w_loop" /\ lock = p /\ "w" \in ends[p]
    BY DEF PInv, LockInv, UseInv, Holding, InWrite
  <1>3. \A q \in Proc \ {p} : pc[q] \notin Holding
    BY <1>2, Alone DEF Holding
  <1>4. \A q \in Proc : pc[q] = "r_asleep" => readopen = 1
    BY HasEnd DEF PInv, UseInv, InRead, End
  <1>5. EofIsFinal'
    BY DEF PInv, EofIsFinal, Empty
  <1>6. CASE readopen = 0 \/ killed[p] = 1
    <2>1. pc'[p] = "user" /\ lock' = Nobody /\ \A q \in Proc \ {p} : pc'[q] = pc[q]
      BY <1>6 DEF PInv, TypeOK
    <2>2. readopen = 1 => cut' = 1
      BY <1>6
    <2>3. SleepInv'
      BY <1>3, <1>4, <2>1, <2>2, SMTT(30) DEF PInv, SleepInv, Empty, Full, Holding
    <2>4. QED
      BY <1>1, <1>2, <1>5, <2>1, <2>3, CallStep DEF StepOf, InRead, InWrite, Holding
  <1>7. CASE ~(readopen = 0 \/ killed[p] = 1)
    <2>1. /\ pc'[p] = "w_sleep" /\ lock' = p /\ StepOf(p)
          /\ \A q \in Proc : pc'[q] # "r_asleep"
      BY <1>2, <1>7, Zenon DEF PInv, TypeOK, StepOf, WakeReaders, Wake
    <2>2. readopen = 1
      BY <1>7 DEF PInv, TypeOK
    <2>3. SleepInv'
      BY <1>2, <1>3, <1>7, <2>1, <2>2, SMTT(30) DEF PInv, SleepInv, Empty, Full, Holding, StepOf
    <2>4. QED
      BY <1>1, <1>2, <1>5, <2>1, <2>3, CallStep DEF InRead, InWrite, Holding
  <1>8. QED
    BY <1>6, <1>7

LEMMA WriteByteStep ==
  ASSUME SetFacts, PInv, NEW p \in Proc, NEW ch \in Byte, pipewrite_byte(p, ch)
  PROVE  PInv'
  <1> USE DEF pipewrite_byte, pipe, files, hist
  <1>1. TypeOK'
    <2>1. nwrite' \in 0..(CountMod - 1)
      BY PipeAssumption DEF PInv, TypeOK
    <2>2. nwrite % PIPESIZE \in 0..(PIPESIZE - 1)
      BY PipeAssumption DEF PInv, TypeOK
    <2>3. left' \in [Proc -> 0..MaxN]
      BY PipeAssumption DEF PInv, TypeOK
    <2>4. QED
      BY <2>1, <2>2, <2>3 DEF PInv, TypeOK
  <1>2. pc[p] = "w_loop" /\ lock = p /\ "w" \in ends[p] /\ pc' = pc
    BY DEF PInv, LockInv, UseInv, Holding, InWrite
  <1>3. \A q \in Proc \ {p} : pc[q] \notin Holding
    BY <1>2, Alone DEF Holding
  <1>4. \A q \in Proc : pc[q] # "w_asleep"
    BY <1>2, <1>3 DEF PInv, SleepInv, Holding
  <1>5. SleepInv'
    BY <1>2, <1>3, <1>4 DEF PInv, SleepInv, Holding
  <1>6. writeopen = 1
    BY <1>2, HasEnd DEF End
  <1>7. EofIsFinal'
    BY <1>6 DEF PInv, EofIsFinal
  <1>8. QED
    BY <1>1, <1>2, <1>5, <1>7, CallStep DEF StepOf, InRead, InWrite, Holding

LEMMA WriteDoneStep ==
  ASSUME PInv, NEW p \in Proc, pipewrite_done(p)
  PROVE  PInv'
  <1> USE DEF pipewrite_done, Return, pipe, files, hist
  <1>1. TypeOK'
    BY PipeAssumption DEF PInv, TypeOK, WakeReaders, Wake
  <1>2. pc[p] = "w_loop" /\ lock = p
    BY DEF PInv, LockInv, Holding
  <1>3. \A q \in Proc \ {p} : pc[q] \notin Holding
    BY <1>2, Alone DEF Holding
  <1>4. /\ pc'[p] = "user" /\ StepOf(p)
        /\ \A q \in Proc : pc'[q] # "r_asleep"
    BY <1>2 DEF PInv, TypeOK, StepOf, WakeReaders, Wake
  <1>5. SleepInv'
    BY <1>2, <1>3, <1>4 DEF PInv, SleepInv, Empty, Full, Holding, StepOf
  <1>6. EofIsFinal'
    BY DEF PInv, EofIsFinal, Empty
  <1>7. QED
    BY <1>1, <1>2, <1>4, <1>5, <1>6, CallStep, SMTT(30) DEF InRead, InWrite, Holding

LEMMA ReadWaitStep ==
  ASSUME PInv, NEW p \in Proc, piperead_wait(p)
  PROVE  PInv'
  <1> USE DEF piperead_wait, Return, Goto, pipe, files, hist
  <1>1. TypeOK'
    <2>1. eof' \in {0, 1}
      BY DEF PInv, TypeOK
    <2>2. CASE Empty /\ writeopen = 1 /\ killed[p] = 1
      <3>1. pc' = [pc EXCEPT ![p] = "user"] /\ left' = [left EXCEPT ![p] = 0] /\ lock' = Nobody
        BY <2>2
      <3>2. QED
        BY <2>1, <3>1, PipeAssumption DEF PInv, TypeOK
    <2>3. CASE ~(Empty /\ writeopen = 1 /\ killed[p] = 1)
      BY <2>1, <2>3, SMTT(30) DEF PInv, TypeOK
    <2>4. QED
      BY <2>2, <2>3
  <1>2. pc[p] = "r_wait" /\ lock = p /\ "r" \in ends[p]
    BY DEF PInv, LockInv, UseInv, Holding, InRead
  <1>3. \A q \in Proc \ {p} : pc[q] \notin Holding
    BY <1>2, Alone DEF Holding
  <1>4. /\ \A q \in Proc \ {p} : pc'[q] = pc[q]
        /\ \/ pc'[p] = "user" /\ lock' = Nobody
           \/ pc'[p] = "r_sleep" /\ lock' = lock /\ Empty /\ writeopen = 1
           \/ pc'[p] = "r_loop" /\ lock' = lock
    BY DEF PInv, TypeOK
  <1>5. SleepInv'
    BY <1>2, <1>3, <1>4 DEF PInv, SleepInv, Empty, Full, Holding
  <1>6. EofIsFinal'
    BY DEF PInv, EofIsFinal, Empty
  <1>7. lock' = IF pc'[p] \in Holding THEN p ELSE Nobody
    BY <1>2, <1>4 DEF Holding
  <1>8. QED
    BY <1>1, <1>2, <1>4, <1>5, <1>6, <1>7, CallStep, SMTT(30) DEF StepOf, InRead, InWrite

LEMMA ReadByteStep ==
  ASSUME PInv, NEW p \in Proc, piperead_byte(p)
  PROVE  PInv'
  <1> USE DEF piperead_byte, pipe, files, hist
  <1>1. TypeOK'
    <2>1. nread' \in 0..(CountMod - 1)
      BY PipeAssumption DEF PInv, TypeOK
    <2>2. left' \in [Proc -> 0..MaxN]
      BY PipeAssumption DEF PInv, TypeOK
    <2>3. QED
      BY <2>1, <2>2 DEF PInv, TypeOK
  <1>2. pc[p] = "r_loop" /\ lock = p /\ "r" \in ends[p] /\ pc' = pc
    BY DEF PInv, LockInv, UseInv, Holding, InRead
  <1>3. \A q \in Proc \ {p} : pc[q] \notin Holding
    BY <1>2, Alone DEF Holding
  <1>4. SleepInv'
    BY <1>2, <1>3 DEF PInv, SleepInv, Holding
  <1>5. EofIsFinal'
    BY DEF PInv, EofIsFinal
  <1>6. QED
    BY <1>1, <1>2, <1>4, <1>5, CallStep, SMTT(30) DEF StepOf, InRead, InWrite, Holding

LEMMA ReadDoneStep ==
  ASSUME PInv, NEW p \in Proc, piperead_done(p)
  PROVE  PInv'
  <1> USE DEF piperead_done, Return, pipe, files, hist
  <1>1. TypeOK'
    BY PipeAssumption DEF PInv, TypeOK, WakeWriters, Wake
  <1>2. pc[p] = "r_loop" /\ lock = p
    BY DEF PInv, LockInv, Holding
  <1>3. \A q \in Proc \ {p} : pc[q] \notin Holding
    BY <1>2, Alone DEF Holding
  <1>4. /\ pc'[p] = "user" /\ StepOf(p)
        /\ \A q \in Proc : pc'[q] # "w_asleep"
    BY <1>2 DEF PInv, TypeOK, StepOf, WakeWriters, Wake
  <1>5. SleepInv'
    BY <1>2, <1>3, <1>4 DEF PInv, SleepInv, Empty, Full, Holding, StepOf
  <1>6. EofIsFinal'
    BY DEF PInv, EofIsFinal, Empty
  <1>7. QED
    BY <1>1, <1>2, <1>4, <1>5, <1>6, CallStep, SMTT(30) DEF InRead, InWrite, Holding

-----------------------------------------------------------------------------
(* The steps that change descriptors.                                      *)

\* A number of processes is one that f->ref may have.
LEMMA Counted ==
  ASSUME SetFacts, NEW S, S \subseteq Proc
  PROVE  IsFiniteSet(S) /\ Cardinality(S) \in 0..Cardinality(Proc)
  <1>1. IsFiniteSet(S) /\ Cardinality(S) <= Cardinality(Proc)
    BY PipeAssumption, SetSubset
  <1>2. Cardinality(S) \in Nat /\ Cardinality(Proc) \in Nat
    BY <1>1, PipeAssumption, SetCardinalityType
  <1>3. QED
    BY <1>1, <1>2

LEMMA AllocStep ==
  ASSUME SetFacts, PInv, NEW p \in Proc, pipealloc(p)
  PROVE  PInv'
  <1> USE DEF pipealloc, Calls
  <1>1. \A q \in Proc : pc[q] = "user" /\ ends[q] = {}
    BY FreedUnused DEF NotFreedInUse
  <1>2. /\ pc' = pc /\ ends' = [ends EXCEPT ![p] = End] /\ ref' = [e \in End |-> 1]
        /\ ends'[p] = End /\ \A q \in Proc \ {p} : ends'[q] = {}
    BY <1>1 DEF PInv, TypeOK
  <1>3. \A e \in End : {q \in Proc : e \in ends'[q]} = {p}
    BY <1>2
  <1>4. \A e \in End : ref'[e] = Cardinality({q \in Proc : e \in ends'[q]})
    BY <1>2, <1>3, SetSingleton, Zenon
  <1>5. TypeOK'
    <2>1. \A e \in End : ref'[e] \in 0..Cardinality(Proc)
      BY <1>4, Counted, Zenon
    <2>2. ref' \in [End -> 0..Cardinality(Proc)]
      BY <1>2, <2>1
    <2>3. 0 \in 0..(CountMod - 1)
      BY PipeAssumption
    <2>4. QED
      BY <1>2, <2>2, <2>3 DEF PInv, TypeOK
  <1>6. OpenUntilLastClose'
    BY <1>2, <1>4, SMTT(30) DEF OpenUntilLastClose, End
  <1>7. CloseInv' /\ AliveInv' /\ UseInv' /\ SleepInv' /\ EofIsFinal'
    BY <1>1, <1>2 DEF CloseInv, AliveInv, UseInv, SleepInv, EofIsFinal, InRead, InWrite
  <1>8. LockInv'
    BY <1>1, <1>2, PipeAssumption DEF LockInv, Holding
  <1>9. QED
    BY <1>5, <1>6, <1>7, <1>8 DEF PInv

LEMMA ForkStep ==
  ASSUME SetFacts, PInv, NEW p \in Proc, NEW q \in Proc, fork(p, q)
  PROVE  PInv'
  <1> USE DEF fork, Calls, pipe, hist
  <1>1. /\ pc' = pc /\ ends' = [ends EXCEPT ![q] = ends[p]]
        /\ ends'[q] = ends[p] /\ \A x \in Proc \ {q} : ends'[x] = ends[x]
        /\ ends[q] = {} /\ pc[q] = "user"
    BY DEF PInv, TypeOK
  <1>2. \A e \in End : ref'[e] = Cardinality({x \in Proc : e \in ends'[x]})
    <2>1. SUFFICES ASSUME NEW e \in End
                   PROVE  ref'[e] = Cardinality({x \in Proc : e \in ends'[x]})
      OBVIOUS
    <2>2. ref[e] = Cardinality(Users(e)) /\ IsFiniteSet(Users(e))
      BY Counted, Zenon DEF PInv, OpenUntilLastClose, Users
    <2>3. CASE e \in ends[p]
      <3>1. {x \in Proc : e \in ends'[x]} = Users(e) \cup {q} /\ q \notin Users(e)
        BY <1>1, <2>3 DEF Users
      <3>2. ref'[e] = ref[e] + 1
        BY <2>3 DEF filedup
      <3>3. Cardinality(Users(e) \cup {q}) = Cardinality(Users(e)) + 1
        BY <2>2, <3>1, SetAddElement, Zenon
      <3>4. QED
        BY <2>2, <3>1, <3>2, <3>3, Zenon
    <2>4. CASE e \notin ends[p]
      <3>1. {x \in Proc : e \in ends'[x]} = Users(e)
        BY <1>1, <2>4 DEF Users
      <3>2. ref'[e] = ref[e]
        BY <2>4 DEF filedup
      <3>3. QED
        BY <2>2, <3>1, <3>2, Zenon
    <2>5. QED
      BY <2>3, <2>4
  <1>3. TypeOK'
    <2>1. \A e \in End : ref'[e] \in 0..Cardinality(Proc)
      BY <1>2, Counted, Zenon
    <2>2. ref' \in [End -> 0..Cardinality(Proc)]
      BY <2>1 DEF filedup
    <2>3. QED
      BY <1>1, <2>2 DEF PInv, TypeOK
  <1>4. \A e \in End : ref[e] = 0 <=> ref'[e] = 0
    <2>1. SUFFICES ASSUME NEW e \in End PROVE ref[e] = 0 <=> ref'[e] = 0
      OBVIOUS
    <2>2. CASE e \in ends[p]
      <3>1. ref'[e] = ref[e] + 1 /\ ref[e] \in Nat /\ ref[e] > 0
        BY <2>2, HasEnd DEF filedup
      <3>2. QED
        BY <3>1
    <2>3. CASE e \notin ends[p]
      BY <2>3 DEF filedup
    <2>4. QED
      BY <2>2, <2>3
  <1>5. OpenUntilLastClose'
    BY <1>1, <1>2, <1>4 DEF PInv, OpenUntilLastClose, End
  <1>6. CloseInv'
    BY <1>1, <1>4 DEF PInv, CloseInv, End
  <1>7. UseInv'
    BY <1>1 DEF PInv, UseInv, InRead, InWrite
  <1>8. AliveInv' /\ LockInv' /\ SleepInv' /\ EofIsFinal'
    BY <1>1 DEF PInv, AliveInv, LockInv, SleepInv, EofIsFinal, Empty, Full
  <1>9. QED
    BY <1>3, <1>5, <1>6, <1>7, <1>8, SMTT(30) DEF PInv

LEMMA FilecloseStep ==
  ASSUME SetFacts, PInv, NEW p \in Proc, NEW e \in End, fileclose(p, e)
  PROVE  PInv'
  <1> USE DEF fileclose, Goto, pipe, hist
  <1>1. /\ ends' = [ends EXCEPT ![p] = @ \ {e}] /\ ref' = [ref EXCEPT ![e] = @ - 1]
        /\ ends'[p] = ends[p] \ {e} /\ \A x \in Proc \ {p} : ends'[x] = ends[x]
        /\ ref'[e] = ref[e] - 1 /\ \A d \in End \ {e} : ref'[d] = ref[d]
        /\ pc[p] = "user" /\ \A x \in Proc \ {p} : pc'[x] = pc[x]
    BY DEF PInv, TypeOK
  <1>2. /\ ref[e] \in Nat /\ ref[e] > 0
        /\ e = "r" => readopen = 1
        /\ e = "w" => writeopen = 1
    BY HasEnd
  <1>3. \A d \in End : ref'[d] = Cardinality({x \in Proc : d \in ends'[x]})
    <2>1. SUFFICES ASSUME NEW d \in End
                   PROVE  ref'[d] = Cardinality({x \in Proc : d \in ends'[x]})
      OBVIOUS
    <2>2. ref[d] = Cardinality(Users(d)) /\ IsFiniteSet(Users(d))
      BY Counted, Zenon DEF PInv, OpenUntilLastClose, Users
    <2>3. CASE d = e
      <3>1. {x \in Proc : d \in ends'[x]} = Users(d) \ {p} /\ p \in Users(d)
        BY <1>1, <2>3 DEF Users
      <3>2. Cardinality(Users(d) \ {p}) = Cardinality(Users(d)) - 1
        BY <2>2, <3>1, SetRemoveElement, Zenon
      <3>3. QED
        BY <1>1, <2>2, <2>3, <3>1, <3>2, Zenon
    <2>4. CASE d # e
      <3>1. {x \in Proc : d \in ends'[x]} = Users(d)
        BY <1>1, <2>4 DEF Users
      <3>2. QED
        BY <1>1, <2>2, <2>4, <3>1, Zenon
    <2>5. QED
      BY <2>3, <2>4
  <1>4. TypeOK'
    <2>1. \A d \in End : ref'[d] \in 0..Cardinality(Proc)
      BY <1>3, Counted, Zenon
    <2>2. ref' \in [End -> 0..Cardinality(Proc)]
      BY <1>1, <2>1 DEF PInv, TypeOK
    <2>3. QED
      BY <1>1, <2>2, ZenonT(30) DEF PInv, TypeOK
  <1>5. UseInv'
    <2>1. pc'[p] \notin InRead /\ pc'[p] \notin InWrite
      BY <1>1 DEF PInv, TypeOK, InRead, InWrite
    <2>2. QED
      BY <1>1, <2>1 DEF PInv, UseInv
  <1>6. AliveInv' /\ EofIsFinal'
    BY DEF PInv, AliveInv, EofIsFinal, Empty
  <1>7. pc'[p] \in {"user", "close_r", "close_w"}
    BY <1>1 DEF PInv, TypeOK
  <1>8. LockInv'
    BY <1>1, <1>7 DEF PInv, LockInv, Holding
  <1>9. SleepInv'
    BY <1>1, <1>7 DEF PInv, SleepInv, Empty, Full
  <1>10. OpenUntilLastClose' /\ CloseInv'
    <2>1. CASE ref[e] > 1
      <3>1. pc' = pc /\ ref'[e] # 0 /\ ref[e] # 0
        BY <1>1, <1>2, <2>1
      <3>2. QED
        BY <1>1, <1>3, <3>1, SMTT(30) DEF PInv, OpenUntilLastClose, CloseInv, End
    <2>2. CASE ~(ref[e] > 1)
      <3>1. ref'[e] = 0 /\ ref[e] # 0
        BY <1>1, <1>2, <2>2
      <3>2. /\ pc'[p] = IF e = "w" THEN "close_w" ELSE "close_r"
        BY <2>2, SMTT(30) DEF PInv, TypeOK
      <3>3. CASE e = "r"
        BY <1>1, <1>2, <1>3, <3>1, <3>2, <3>3, SMTT(30) DEF PInv, OpenUntilLastClose, CloseInv, End
      <3>4. CASE e = "w"
        BY <1>1, <1>2, <1>3, <3>1, <3>2, <3>4, SMTT(30) DEF PInv, OpenUntilLastClose, CloseInv, End
      <3>5. QED
        BY <3>3, <3>4 DEF End
    <2>3. QED
      BY <2>1, <2>2, SMTT(30)
  <1>11. QED
    BY <1>4, <1>5, <1>6, <1>8, <1>9, <1>10 DEF PInv

LEMMA PipecloseStep ==
  ASSUME PInv, NEW p \in Proc, pipeclose(p)
  PROVE  PInv'
  <1> USE DEF pipeclose, files, hist
  <1>1. TypeOK'
    BY DEF PInv, TypeOK, WakeReaders, WakeWriters, Wake
  <1>2. pc'[p] = "user" /\ StepOf(p)
    BY DEF PInv, TypeOK, StepOf, WakeReaders, WakeWriters, Wake
  <1>3. \A q \in Proc : pc[q] \notin Holding
    BY NobodyHolds
  <1>4. UseInv'
    BY <1>2, Zenon DEF PInv, UseInv, InRead, InWrite, StepOf
  <1>5. LockInv'
    BY <1>2, <1>3, Zenon DEF PInv, LockInv, Holding, StepOf
  <1>6. CloseInv'
    <2>1. \A q \in Proc : pc'[q] \in {"close_r", "close_w"} => pc[q] = pc'[q]
      BY <1>2, Zenon DEF StepOf
    <2>2. ref' = ref
      OBVIOUS
    <2>3. CloseInv
      BY DEF PInv
    <2> HIDE DEF pipeclose
    <2>4. QED
      BY <2>1, <2>2, <2>3 DEF CloseInv
  <1>7. CASE pc[p] = "close_w"
    <2>1. /\ writeopen' = 0 /\ readopen' = readopen
          /\ ref["w"] = 0 /\ writeopen = 1
          /\ \A q \in Proc : pc[q] = "close_w" => q = p
      BY <1>7 DEF PInv, CloseInv, OpenUntilLastClose, TypeOK
    <2>2. OpenUntilLastClose'
      BY <1>2, <1>7, <2>1, ZenonT(30) DEF PInv, OpenUntilLastClose, StepOf
    <2>3. AliveInv' /\ EofIsFinal'
      BY <1>7, <2>1 DEF PInv, AliveInv, TypeOK, EofIsFinal, Empty
    <2>4. \A q \in Proc : pc'[q] # "r_asleep"
      BY <1>7 DEF PInv, TypeOK, WakeReaders, Wake
    <2>5. SleepInv'
      BY <1>2, <1>3, <2>1, <2>4, ZenonT(30) DEF PInv, SleepInv, Empty, Full, Holding, StepOf
    <2>6. QED
      BY <1>1, <1>4, <1>5, <1>6, <2>2, <2>3, <2>5, Zenon DEF PInv
  <1>8. CASE pc[p] = "close_r"
    <2>1. /\ readopen' = 0 /\ writeopen' = writeopen
          /\ ref["r"] = 0 /\ readopen = 1
          /\ \A q \in Proc : pc[q] = "close_r" => q = p
      BY <1>8 DEF PInv, CloseInv, OpenUntilLastClose, TypeOK
    <2>2. OpenUntilLastClose'
      BY <1>2, <1>8, <2>1, Zenon DEF PInv, OpenUntilLastClose, StepOf
    <2>3. AliveInv' /\ EofIsFinal'
      BY <1>8, <2>1 DEF PInv, AliveInv, TypeOK, EofIsFinal, Empty
    <2>4. \A q \in Proc : pc'[q] # "w_asleep"
      BY <1>8 DEF PInv, TypeOK, WakeWriters, Wake
    <2>5. SleepInv'
      BY <1>2, <1>3, <2>1, <2>4, ZenonT(30) DEF PInv, SleepInv, Empty, Full, Holding, StepOf
    <2>6. QED
      BY <1>1, <1>4, <1>5, <1>6, <2>2, <2>3, <2>5, Zenon DEF PInv
  <1>9. QED
    BY <1>7, <1>8

-----------------------------------------------------------------------------
(* The invariant and what follows from it.                                 *)

LEMMA InitPInv ==
  ASSUME SetFacts, Init
  PROVE  PInv
  <1> USE DEF Init
  <1>1. \A e \in End : {p \in Proc : e \in ends[p]} = {}
    OBVIOUS
  <1>2. TypeOK
    BY PipeAssumption, SetCardinalityType DEF TypeOK
  <1>3. OpenUntilLastClose
    BY <1>1, SetEmptySet, Zenon DEF OpenUntilLastClose, End
  <1>4. CloseInv /\ AliveInv /\ UseInv /\ SleepInv /\ EofIsFinal
    BY DEF CloseInv, AliveInv, UseInv, SleepInv, EofIsFinal, InRead, InWrite
  <1>5. LockInv
    BY PipeAssumption DEF LockInv, Holding
  <1>6. QED
    BY <1>2, <1>3, <1>4, <1>5 DEF PInv

LEMMA NextPInv ==
  ASSUME SetFacts, PInv, [Next]_vars
  PROVE  PInv'
  <1>1. CASE UNCHANGED vars
    BY <1>1 DEF vars, pipe, files, hist, PInv, TypeOK, OpenUntilLastClose, CloseInv,
       AliveInv, UseInv, LockInv, SleepInv, EofIsFinal, Empty, Full
  <1>2. CASE Next
    <2>1. PICK p \in Proc : InKernel(p) \/ Call(p) \/ kill(p)
      BY <1>2 DEF Next
    <2>2. CASE InKernel(p)
      BY <2>2, PipecloseStep, WriteFullStep, WriteByteStep, WriteDoneStep, ReadWaitStep,
         ReadByteStep, ReadDoneStep, SleepStep, SleepReturnStep, SMTT(30) DEF InKernel
    <2>3. CASE Call(p)
      BY <2>3, AllocStep, ForkStep, FilecloseStep, EnterStep DEF Call
    <2>4. QED
      BY <2>1, <2>2, <2>3, KillStep
  <1>3. QED
    BY <1>1, <1>2, SMTT(30)

-----------------------------------------------------------------------------
(* Remainders.                                                             *)

LEMMA Divide ==
  ASSUME NEW M \in Nat \ {0}, NEW x \in Int
  PROVE  /\ x \div M \in Int /\ x % M \in 0..(M - 1)
         /\ x = M * (x \div M) + (x % M)
  OBVIOUS

LEMMA Quotient ==
  ASSUME NEW M \in Nat \ {0}, NEW x \in Int
  PROVE  \E q \in Int, r \in 0..(M - 1) : x = M * q + r /\ x % M = r
  <1>1. WITNESS x \div M \in Int, x % M \in 0..(M - 1)
  <1>2. QED
    OBVIOUS

LEMMA Multiple ==
  ASSUME NEW M \in Nat \ {0}, NEW q \in Int, q > 0
  PROVE  M * q >= M
  <1>1. PICK d \in Nat : q = 1 + d
    <2>1. q - 1 \in Nat /\ q = 1 + (q - 1)
      OBVIOUS
    <2>2. QED
      BY <2>1
  <1>2. M * q = M + M * d /\ M * d \in Nat
    BY <1>1
  <1>3. QED
    BY <1>2

LEMMA Unique ==
  ASSUME NEW M \in Nat \ {0}, NEW q1 \in Int, NEW q2 \in Int,
         NEW r1 \in 0..(M - 1), NEW r2 \in 0..(M - 1),
         M * q1 + r1 = M * q2 + r2
  PROVE  r1 = r2
  <1>1. CASE q1 < q2
    <2>1. M * (q2 - q1) >= M /\ M * (q2 - q1) = M * q2 - M * q1
      BY <1>1, Multiple
    <2>2. QED
      BY <2>1
  <1>2. CASE q2 < q1
    <2>1. M * (q1 - q2) >= M /\ M * (q1 - q2) = M * q1 - M * q2
      BY <1>2, Multiple
    <2>2. QED
      BY <2>1
  <1>3. QED
    BY <1>1, <1>2

LEMMA IsRest ==
  ASSUME NEW M \in Nat \ {0}, NEW x \in Int, NEW q \in Int, NEW r \in 0..(M - 1),
         x = M * q + r
  PROVE  x % M = r
  <1>1. PICK c \in Int, s \in 0..(M - 1) : x = M * c + s /\ x % M = s
    BY Quotient, Zenon
  <1>2. r = s
    BY <1>1, Unique, Zenon
  <1>3. QED
    BY <1>1, <1>2

LEMMA Wrap ==
  ASSUME NEW M \in Nat \ {0}, NEW x \in (-M)..(2 * M - 1)
  PROVE  x % M = IF x < 0 THEN x + M ELSE IF x < M THEN x ELSE x - M
  <1>1. CASE x < 0
    BY <1>1, IsRest, x = M * (-1) + (x + M), x + M \in 0..(M - 1)
  <1>2. CASE x >= 0 /\ x < M
    BY <1>2, IsRest, x = M * 0 + x
  <1>3. CASE x >= M
    BY <1>3, IsRest, x = M * 1 + (x - M), x - M \in 0..(M - 1)
  <1>4. QED
    BY <1>1, <1>2, <1>3

\* Adding a multiple changes nothing.
LEMMA Shift ==
  ASSUME NEW M \in Nat \ {0}, NEW x \in Int, NEW q \in Int
  PROVE  (M * q + x) % M = x % M
  <1>1. PICK c \in Int, r \in 0..(M - 1) : x = M * c + r /\ x % M = r
    BY Quotient
  <1>2. M * q + x = M * (q + c) + r
    BY <1>1
  <1>3. q + c \in Int /\ M * q + x \in Int
    OBVIOUS
  <1>4. QED
    BY <1>1, <1>2, <1>3, IsRest, Zenon

LEMMA SameRest ==
  ASSUME NEW P \in Nat \ {0}, NEW M \in Nat \ {0}, M % P = 0, NEW x \in Int, NEW y \in Int
  PROVE  ((x % M) + y) % P = (x + y) % P
  <1>1. PICK k \in Int : M = P * k
    BY Quotient
  <1>2. PICK q \in Int, r \in 0..(M - 1) : x = M * q + r /\ x % M = r
    BY Quotient
  <1>3. PICK j \in Int : M * q = P * j
    BY <1>1, M * q = P * (k * q), k * q \in Int
  <1>4. x + y = P * j + (r + y) /\ r + y \in Int
    BY <1>2, <1>3
  <1>5. (P * j + (r + y)) % P = (r + y) % P
    BY <1>4, Shift, Zenon
  <1>6. QED
    BY <1>2, <1>4, <1>5

LEMMA Apart ==
  ASSUME NEW P \in Nat \ {0}, NEW x \in Int, NEW d \in 1..(P - 1)
  PROVE  (x + d) % P # x % P
  <1>1. SUFFICES ASSUME (x + d) % P = x % P PROVE FALSE
    OBVIOUS
  <1>2. PICK a \in Int, r \in 0..(P - 1) : x = P * a + r /\ x % P = r
    BY Quotient, Zenon
  <1>3. PICK b \in Int, s \in 0..(P - 1) : x + d = P * b + s /\ (x + d) % P = s
    BY Quotient
  <1>4. d = P * (b - a) /\ b - a \in Int
    BY <1>1, <1>2, <1>3
  <1>5. d = 0
    BY <1>4, Unique, P * 0 + d = P * (b - a) + 0, d \in 0..(P - 1), 0 \in 0..(P - 1)
  <1>6. QED
    BY <1>5
\* pi->nread % PIPESIZE sees nothing of the counters' own wrap-around.
LEMMA SameSlot ==
  ASSUME NEW x \in Int, NEW y \in Int
  PROVE  ((x % CountMod) + y) % PIPESIZE = (x + y) % PIPESIZE
  <1>1. PIPESIZE \in Nat \ {0} /\ CountMod \in Nat \ {0} /\ CountMod % PIPESIZE = 0
    BY PipeAssumption
  <1>2. QED
    BY <1>1, SameRest, ZenonT(30)

-----------------------------------------------------------------------------
(* The counters and the bytes between them.                                *)

Counter == 0..(CountMod - 1)
Between(r, w) == (w - r) % CountMod
Bytes(d, r, n) == [i \in 1..n |-> d[(r + i - 1) % PIPESIZE]]

LEMMA Sizes ==
  /\ PIPESIZE \in Nat \ {0} /\ CountMod \in Nat \ {0} /\ CountMod > PIPESIZE
  /\ CountMod % PIPESIZE = 0
  BY PipeAssumption

LEMMA BetweenIs ==
  ASSUME NEW r \in Counter, NEW w \in Counter
  PROVE  Between(r, w) = IF w < r THEN w - r + CountMod ELSE w - r
  <1>1. w - r \in (-CountMod)..(2 * CountMod - 1) /\ w - r < CountMod
    BY Sizes DEF Counter
  <1>2. CountMod \in Nat \ {0}
    BY Sizes
  <1>3. (w - r) % CountMod = IF w - r < 0 THEN w - r + CountMod
                             ELSE IF w - r < CountMod THEN w - r ELSE w - r - CountMod
    BY <1>1, <1>2, Wrap
  <1>4. QED
    BY <1>1, <1>2, <1>3 DEF Between, Counter

LEMMA Advance ==
  ASSUME NEW x \in 0..(2 * CountMod - 1)
  PROVE  x % CountMod = IF x < CountMod THEN x ELSE x - CountMod
  <1>1. x \in (-CountMod)..(2 * CountMod - 1) /\ x >= 0
    BY Sizes
  <1>2. CountMod \in Nat \ {0}
    BY Sizes
  <1>3. x % CountMod = IF x < 0 THEN x + CountMod ELSE IF x < CountMod THEN x ELSE x - CountMod
    BY <1>1, <1>2, Wrap, Zenon
  <1>4. QED
    BY <1>1, <1>2, <1>3

\* The tests of pipewrite and piperead say how many bytes there are.
LEMMA Limits ==
  ASSUME NEW r \in Counter, NEW w \in Counter
  PROVE  /\ Between(r, w) \in Counter
         /\ w = r <=> Between(r, w) = 0
         /\ w = (r + PIPESIZE) % CountMod <=> Between(r, w) = PIPESIZE
         /\ r + Between(r, w) \in {w, w + CountMod}
  <1>1. (r + PIPESIZE) % CountMod = IF r + PIPESIZE < CountMod THEN r + PIPESIZE
                                    ELSE r + PIPESIZE - CountMod
    <2>1. PICK x \in Int : x = r + PIPESIZE
      BY Sizes DEF Counter
    <2>2. x \in 0..(2 * CountMod - 1)
      BY <2>1, Sizes DEF Counter
    <2>3. x % CountMod = IF x < CountMod THEN x ELSE x - CountMod
      BY <2>2, Advance
    <2>4. QED
      BY <2>1, <2>3, Sizes DEF Counter
  <1>2. Between(r, w) = IF w < r THEN w - r + CountMod ELSE w - r
    BY BetweenIs
  <1>3. QED
    BY <1>1, <1>2, Sizes DEF Counter

\* nwrite++ and nread++, past the wrap-around too.
LEMMA Bumped ==
  ASSUME NEW r \in Counter, NEW w \in Counter
  PROVE  /\ (r + 1) % CountMod \in Counter
         /\ Between(r, w) < PIPESIZE => Between(r, (w + 1) % CountMod) = Between(r, w) + 1
         /\ Between(r, w) > 0 => Between((r + 1) % CountMod, w) = Between(r, w) - 1
  <1> DEFINE up(n) == IF n + 1 < CountMod THEN n + 1 ELSE n + 1 - CountMod
  <1>1. (r + 1) % CountMod = up(r) /\ (w + 1) % CountMod = up(w)
    <2>1. PICK x \in Int, y \in Int : x = r + 1 /\ y = w + 1
      BY Sizes DEF Counter
    <2>2. x \in 0..(2 * CountMod - 1) /\ y \in 0..(2 * CountMod - 1)
      BY <2>1, Sizes DEF Counter
    <2>3. /\ x % CountMod = IF x < CountMod THEN x ELSE x - CountMod
          /\ y % CountMod = IF y < CountMod THEN y ELSE y - CountMod
      BY <2>2, Advance
    <2>4. QED
      BY <2>1, <2>3, Sizes DEF Counter
  <1>2. up(r) \in Counter /\ up(w) \in Counter
    BY Sizes DEF Counter
  <1>3. Between(r, w) = IF w < r THEN w - r + CountMod ELSE w - r
    BY BetweenIs
  <1>4. Between(r, up(w)) = IF up(w) < r THEN up(w) - r + CountMod ELSE up(w) - r
    BY <1>2, BetweenIs
  <1>5. Between(up(r), w) = IF w < up(r) THEN w - up(r) + CountMod ELSE w - up(r)
    BY <1>2, BetweenIs
  <1>6. Between(r, w) < PIPESIZE => Between(r, up(w)) = Between(r, w) + 1
    BY <1>3, <1>4, Sizes, SMTT(30) DEF Counter
  <1>7. Between(r, w) > 0 => Between(up(r), w) = Between(r, w) - 1
    BY <1>3, <1>5, Sizes DEF Counter
  <1> HIDE DEF up
  <1>8. QED
    BY <1>1, <1>2, <1>6, <1>7

\* The byte at nwrite is the one behind those in use.
LEMMA WriteSlot ==
  ASSUME NEW r \in Counter, NEW w \in Counter
  PROVE  (r + Between(r, w)) % PIPESIZE = w % PIPESIZE
  <1> DEFINE n == r + Between(r, w)
  <1>1. n \in {w, w + CountMod}
    BY Limits
  <1> HIDE DEF n
  <1>2. w \in Int /\ CountMod \in Int
    BY Sizes DEF Counter
  <1>3. (w + CountMod) % CountMod = w
    <2>1. w + CountMod \in (-CountMod)..(2 * CountMod - 1) /\ w + CountMod >= CountMod
      BY Sizes DEF Counter
    <2>2. CountMod \in Nat \ {0}
      BY Sizes
    <2> DEFINE x == w + CountMod
    <2>3. x \in (-CountMod)..(2 * CountMod - 1)
      BY <2>1
    <2> HIDE DEF x
    <2>4. x % CountMod = IF x < 0 THEN x + CountMod ELSE IF x < CountMod THEN x ELSE x - CountMod
      BY <2>2, <2>3, Wrap, Zenon
    <2>5. QED
      BY <1>2, <2>1, <2>4 DEF x
  <1>4. \A x \in Int : ((x % CountMod) + 0) % PIPESIZE = (x + 0) % PIPESIZE
    BY SameSlot
  <1>5. w + 0 = w /\ (w + CountMod) + 0 = w + CountMod
    BY <1>2
  <1>6. w % PIPESIZE = (w + CountMod) % PIPESIZE
    BY <1>2, <1>3, <1>4, <1>5
  <1>7. n % PIPESIZE = w % PIPESIZE
    BY <1>1, <1>6
  <1>8. QED
    BY <1>7 DEF n

LEMMA BytesAre ==
  ASSUME NEW d \in [0..(PIPESIZE - 1) -> Byte], NEW r \in Counter, NEW n \in Nat
  PROVE  /\ Bytes(d, r, n) \in Seq(Byte) /\ Len(Bytes(d, r, n)) = n
         /\ \A i \in 1..n : Bytes(d, r, n)[i] = d[(r + i - 1) % PIPESIZE]
  <1>1. ASSUME NEW i \in 1..n
        PROVE  (r + i - 1) % PIPESIZE \in 0..(PIPESIZE - 1)
    <2>1. r + i - 1 \in Int /\ PIPESIZE \in Nat \ {0}
      BY Sizes DEF Counter
    <2>2. QED
      BY <2>1, Divide, Zenon
  <1> DEFINE s == Bytes(d, r, n)
  <1>2. s = [i \in 1..n |-> d[(r + i - 1) % PIPESIZE]]
    BY DEF Bytes
  <1>3. s \in [1..n -> Byte]
    BY <1>1, <1>2
  <1> HIDE DEF s
  <1>4. s \in Seq(Byte) /\ Len(s) = n
    BY <1>3
  <1>5. \A i \in 1..n : s[i] = d[(r + i - 1) % PIPESIZE]
    BY <1>2
  <1>6. QED
    BY <1>4, <1>5 DEF s

-----------------------------------------------------------------------------
(* A pipe implements PipeAbs.                                              *)

CountInv == Count <= PIPESIZE

LEMMA CountIs == Count = Between(nread, nwrite)
  BY DEF Count, Between

INSTANCE SequenceTheorems

\* pipewrite_byte is Put.
LEMMA PutStep ==
  ASSUME SetFacts, PInv, CountInv, NEW p \in Proc, NEW ch \in Byte, pipewrite_byte(p, ch)
  PROVE  CountInv' /\ Abs!Put(ch)
  <1> USE DEF pipewrite_byte, pipe, files, hist
  <1> DEFINE n == Between(nread, nwrite)
             s == Bytes(data, nread, n)
             t == Bytes(data', nread, n + 1)
  <1>1. alive = 1 /\ writeopen = 1
    BY HasEnd, SMTT(30) DEF PInv, UseInv, InWrite, AliveInv, TypeOK, End
  <1>2. nread \in Counter /\ nwrite \in Counter /\ data \in [0..(PIPESIZE - 1) -> Byte]
    BY DEF PInv, TypeOK, Counter
  <1>3. n \in Nat /\ n < PIPESIZE
    <2>1. n \in Counter /\ n # PIPESIZE
      BY <1>2, Limits DEF Full
    <2>2. n <= PIPESIZE
      BY CountIs DEF CountInv
    <2>3. QED
      BY <2>1, <2>2, Sizes, SMTT(30) DEF Counter
  <1>4. Between(nread', nwrite') = n + 1
    BY <1>2, <1>3, Bumped, SMTT(30)
  <1>5. nwrite % PIPESIZE = (nread + n) % PIPESIZE /\ nwrite % PIPESIZE \in 0..(PIPESIZE - 1)
    <2>1. nwrite \in Int /\ PIPESIZE \in Nat \ {0}
      BY <1>2, Sizes DEF Counter
    <2>2. nwrite % PIPESIZE \in 0..(PIPESIZE - 1)
      BY <2>1, Divide
    <2>3. QED
      BY <1>2, <2>2, WriteSlot, SMTT(30)
  <1>6. Queue = s /\ Queue' = t
    BY <1>1, <1>4 DEF Queue, Count, Bytes, Between
  <1> HIDE DEF n
  <1>7. /\ s \in Seq(Byte) /\ Len(s) = n
        /\ \A i \in 1..n : s[i] = data[(nread + i - 1) % PIPESIZE]
    BY <1>2, <1>3, BytesAre, Zenon
  <1>8. data' \in [0..(PIPESIZE - 1) -> Byte]
    BY <1>2, Zenon
  <1>9. /\ t \in Seq(Byte) /\ Len(t) = n + 1
        /\ \A i \in 1..(n + 1) : t[i] = data'[(nread + i - 1) % PIPESIZE]
    <2>1. PICK m \in Nat : m = n + 1
      BY <1>3
    <2>2. /\ Bytes(data', nread, m) \in Seq(Byte) /\ Len(Bytes(data', nread, m)) = m
          /\ \A i \in 1..m : Bytes(data', nread, m)[i] = data'[(nread + i - 1) % PIPESIZE]
      BY <1>2, <1>8, BytesAre, ZenonT(30)
    <2>3. QED
      BY <2>1, <2>2, Zenon
  <1> HIDE DEF s, t
  <1>10. ASSUME NEW i \in 1..n
         PROVE  t[i] = s[i]
    <2> DEFINE x == nread + i - 1
               d == n - i + 1
    <2>1. x \in Int /\ d \in 1..(PIPESIZE - 1) /\ x + d = nread + n
      BY <1>2, <1>3, Sizes DEF Counter
    <2>2. PIPESIZE \in Nat \ {0}
      BY Sizes
    <2> HIDE DEF x, d
    <2>3. (x + d) % PIPESIZE # x % PIPESIZE
      BY <2>1, <2>2, Apart, Zenon
    <2>4. x % PIPESIZE # nwrite % PIPESIZE /\ x % PIPESIZE \in 0..(PIPESIZE - 1)
      BY <1>5, <2>1, <2>2, <2>3, Divide, Zenon
    <2>5. data'[x % PIPESIZE] = data[x % PIPESIZE]
      BY <1>2, <2>4
    <2>6. i \in 1..(n + 1)
      BY <1>3
    <2>7. QED
      BY <1>7, <1>9, <2>5, <2>6, Zenon DEF x
  <1>11. t[n + 1] = ch
    <2>1. n + 1 \in 1..(n + 1) /\ nread + (n + 1) - 1 = nread + n
      BY <1>2, <1>3, SMTT(30) DEF Counter
    <2>2. data'[nwrite % PIPESIZE] = ch
      BY <1>2, <1>5, SMTT(30)
    <2>3. QED
      BY <1>5, <1>9, <2>1, <2>2, SMTT(30)
  <1>12. /\ Append(s, ch) \in Seq(Byte) /\ Len(Append(s, ch)) = n + 1
         /\ Append(s, ch)[n + 1] = ch /\ \A i \in 1..n : Append(s, ch)[i] = s[i]
    BY <1>7, AppendProperties, SMTT(30)
  <1>13. \A i \in 1..(n + 1) : t[i] = Append(s, ch)[i]
    <2>1. SUFFICES ASSUME NEW i \in 1..(n + 1) PROVE t[i] = Append(s, ch)[i]
      BY Zenon
    <2>2. i \in 1..n \/ i = n + 1
      BY <1>3, SMTT(30)
    <2>3. QED
      BY <1>10, <1>11, <1>12, <2>2
  <1>14. t = Append(s, ch)
    BY <1>9, <1>12, <1>13, SeqEqual, SMTT(30)
  <1>15. CountInv'
    BY <1>3, <1>4, Sizes, SMTT(30) DEF CountInv, Count, Between
  <1>16. QED
    BY <1>1, <1>3, <1>6, <1>7, <1>14, <1>15, SMTT(30) DEF Abs!Put

\* piperead_byte is Get.
LEMMA GetStep ==
  ASSUME SetFacts, PInv, CountInv, NEW p \in Proc, piperead_byte(p)
  PROVE  CountInv' /\ Abs!Get
  <1> USE DEF piperead_byte, pipe, files, hist
  <1> DEFINE n == Between(nread, nwrite)
             s == Bytes(data, nread, n)
             t == Bytes(data, nread', n - 1)
  <1>1. alive = 1 /\ readopen = 1
    BY HasEnd, SMTT(30) DEF PInv, UseInv, InRead, AliveInv, TypeOK, End
  <1>2. nread \in Counter /\ nwrite \in Counter /\ data \in [0..(PIPESIZE - 1) -> Byte]
    BY DEF PInv, TypeOK, Counter
  <1>3. n \in Nat /\ n > 0 /\ n <= PIPESIZE
    <2>1. n \in Counter /\ n # 0
      BY <1>2, Limits DEF Empty
    <2>2. n <= PIPESIZE
      BY CountIs, SMTT(30) DEF CountInv
    <2>3. QED
      BY <2>1, <2>2, Sizes, SMTT(30) DEF Counter
  <1>4. nread' \in Counter /\ Between(nread', nwrite') = n - 1
    BY <1>2, <1>3, Bumped, SMTT(30)
  <1>5. Queue = s /\ Queue' = t
    BY <1>1, <1>4 DEF Queue, Count, Bytes, Between
  <1> HIDE DEF n
  <1>6. /\ s \in Seq(Byte) /\ Len(s) = n
        /\ \A i \in 1..n : s[i] = data[(nread + i - 1) % PIPESIZE]
    BY <1>2, <1>3, BytesAre, ZenonT(30)
  <1>7. /\ t \in Seq(Byte) /\ Len(t) = n - 1
        /\ \A i \in 1..(n - 1) : t[i] = data[(nread' + i - 1) % PIPESIZE]
    <2>1. PICK m \in Nat : m = n - 1
      BY <1>3
    <2>2. /\ Bytes(data, nread', m) \in Seq(Byte) /\ Len(Bytes(data, nread', m)) = m
          /\ \A i \in 1..m : Bytes(data, nread', m)[i] = data[(nread' + i - 1) % PIPESIZE]
      BY <1>2, <1>4, BytesAre, ZenonT(30)
    <2>3. QED
      BY <2>1, <2>2
  <1> HIDE DEF s, t
  <1>8. s # <<>>
    BY <1>3, <1>6, EmptySeq
  <1>9. /\ Tail(s) \in Seq(Byte) /\ Len(Tail(s)) = n - 1
        /\ \A i \in 1..(n - 1) : Tail(s)[i] = s[i + 1]
    BY <1>6, <1>8, HeadTailProperties, SMTT(30)
  <1>10. ASSUME NEW i \in 1..(n - 1)
         PROVE  t[i] = Tail(s)[i]
    <2>1. PICK x \in Int, y \in Int : x = nread + 1 /\ y = i - 1
      BY <1>2, <1>3 DEF Counter
    <2>2. ((x % CountMod) + y) % PIPESIZE = (x + y) % PIPESIZE
      BY SameSlot
    <2>3. nread' + i - 1 = (x % CountMod) + y /\ nread + (i + 1) - 1 = x + y
      BY <1>2, <1>3, <1>4, <2>1 DEF Counter
    <2>4. i + 1 \in 1..n
      BY <1>3, SMTT(30)
    <2>5. QED
      BY <1>6, <1>7, <1>9, <2>2, <2>3, <2>4, SMTT(30)
  <1>11. t = Tail(s)
    BY <1>7, <1>9, <1>10, SeqEqual, SMTT(30)
  <1>12. CountInv'
    BY <1>3, <1>4, Sizes DEF CountInv, Count, Between
  <1>13. QED
    BY <1>1, <1>5, <1>8, <1>11, <1>12, SMTT(30) DEF Abs!Get

\* pipealloc is Open.
LEMMA OpenStep ==
  ASSUME PInv, NEW p \in Proc, pipealloc(p)
  PROVE  CountInv' /\ Abs!Open
  <1> USE DEF pipealloc
  <1>1. readopen = 0 /\ writeopen = 0
    BY DEF PInv, AliveInv
  <1>2. 0 \in Counter
    BY Sizes DEF Counter
  <1>3. Between(0, 0) = 0
    BY <1>2, Limits
  <1>4. Count' = 0
    BY <1>3 DEF Count, Between
  <1>5. Queue' = Bytes(data, 0, 0)
    BY <1>4 DEF Queue, Bytes
  <1>6. Bytes(data, 0, 0) \in Seq(Byte) /\ Len(Bytes(data, 0, 0)) = 0
    BY <1>2, BytesAre, SMTT(30) DEF PInv, TypeOK
  <1>7. Queue' = <<>>
    BY <1>5, <1>6, EmptySeq
  <1>8. QED
    BY <1>1, <1>4, <1>7, Sizes DEF CountInv, Abs!Open

\* pipeclose is CloseRead or CloseWrite.
LEMMA CloseStep ==
  ASSUME PInv, CountInv, NEW p \in Proc, pipeclose(p)
  PROVE  CountInv' /\ (Abs!CloseRead \/ Abs!CloseWrite)
  <1> USE DEF pipeclose
  <1>1. Count' = Count
    BY SMTT(30) DEF Count
  <1>2. alive' = 1 => alive = 1 /\ Queue' = Queue
    BY <1>1 DEF Queue, PInv, TypeOK
  <1>3. alive' = 0 => Queue' = <<>>
    BY SMTT(30) DEF Queue
  <1>4. CASE pc[p] = "close_r"
    <2>1. readopen = 1 /\ alive = 1
      BY <1>4, SMTT(30) DEF PInv, OpenUntilLastClose, TypeOK, AliveInv
    <2>2. readopen' = 0 /\ writeopen' = writeopen /\ alive' = writeopen
      BY <1>4, <2>1, SMTT(30) DEF PInv, TypeOK
    <2>3. QED
      BY <1>1, <1>2, <1>3, <2>1, <2>2, SMTT(30) DEF CountInv, Abs!CloseRead, PInv, TypeOK
  <1>5. CASE pc[p] = "close_w"
    <2>1. writeopen = 1 /\ alive = 1
      BY <1>5, SMTT(30) DEF PInv, OpenUntilLastClose, TypeOK, AliveInv
    <2>2. writeopen' = 0 /\ readopen' = readopen /\ alive' = readopen
      BY <1>5, <2>1 DEF PInv, TypeOK
    <2>3. QED
      BY <1>1, <1>2, <1>3, <2>1, <2>2, SMTT(30) DEF CountInv, Abs!CloseWrite, PInv, TypeOK
  <1>6. QED
    BY <1>4, <1>5, SMTT(30)

\* Every other step leaves the struct pipe alone.
LEMMA QuietStep ==
  ASSUME CountInv, UNCHANGED pipe
  PROVE  CountInv' /\ UNCHANGED Abs!vars
  BY DEF CountInv, Count, Queue, pipe, Abs!vars

LEMMA AbsStep ==
  ASSUME SetFacts, PInv, CountInv, [Next]_vars
  PROVE  CountInv' /\ [Abs!Next]_(Abs!vars)
  <1>1. CASE UNCHANGED pipe
    BY <1>1, QuietStep, SMTT(30)
  <1>2. ASSUME NEW p \in Proc, InKernel(p)
        PROVE  CountInv' /\ [Abs!Next]_(Abs!vars)
    <2>1. CASE pipeclose(p)
      BY <2>1, CloseStep DEF Abs!Next
    <2>2. CASE \E ch \in Byte : pipewrite_byte(p, ch)
      BY <2>2, PutStep DEF Abs!Next
    <2>3. CASE piperead_byte(p)
      BY <2>3, GetStep, SMTT(30) DEF Abs!Next
    <2>4. CASE \/ pipewrite_full(p) \/ pipewrite_done(p) \/ piperead_wait(p)
               \/ piperead_done(p) \/ sleep(p) \/ sleep_return(p)
      BY <1>1, <2>4, SMTT(30) DEF pipewrite_full, pipewrite_done, piperead_wait, piperead_done, sleep,
         sleep_return
    <2>5. QED
      BY <1>2, <2>1, <2>2, <2>3, <2>4, SMTT(30) DEF InKernel
  <1>3. ASSUME NEW p \in Proc, Call(p)
        PROVE  CountInv' /\ [Abs!Next]_(Abs!vars)
    <2>1. CASE pipealloc(p)
      BY <2>1, OpenStep DEF Abs!Next
    <2>2. CASE UNCHANGED pipe
      BY <1>1, <2>2, SMTT(30)
    <2>3. QED
      BY <1>3, <2>1, <2>2 DEF Call, fork, fileclose, pipewrite, piperead
  <1>4. ASSUME NEW p \in Proc, kill(p)
        PROVE  UNCHANGED pipe
    BY <1>4 DEF kill
  <1>5. QED
    BY <1>1, <1>2, <1>3, <1>4, SMTT(30) DEF Next, vars



-----------------------------------------------------------------------------
(* The theorems.                                                           *)

INSTANCE FiniteSetTheorems

\* SetFacts is true.
LEMMA SetsCount == SetFacts
BY FS_EmptySet, FS_CardinalityType, FS_Singleton, FS_Subset, FS_AddElement, FS_RemoveElement, Zenon DEF SetFacts

\* The invariant of pipe.c holds in every reachable state.
THEOREM PipeInvariant == Spec => []PInv
  BY SetsCount, InitPInv, NextPInv, PTL DEF Spec

\* The fields of struct pipe, struct file and the calls keep their types.
THEOREM PipeTypeCorrect == Spec => []TypeOK
  <1>1. PInv => TypeOK
    BY DEF PInv
  <1>2. QED
    BY <1>1, PipeInvariant, PTL

\* pipeclose frees the page when nobody is in the pipe or can get to it.
THEOREM PageOutlivesUsers == Spec => []NotFreedInUse
  BY SetsCount, FreedUnused, PipeInvariant, PTL

\* f->ref counts the descriptors of an end, and it is open until the last one
\* is closed, whoever forks and closes at the same time.
THEOREM EndsCounted == Spec => []OpenUntilLastClose
  <1>1. PInv => OpenUntilLastClose
    BY DEF PInv
  <1>2. QED
    BY <1>1, PipeInvariant, PTL

\* piperead and pipewrite lose no wakeup but the one a killed writer omits.
THEOREM PipeWakeupsKept == Spec => []SleepsOnlyIfBlocked
  BY SleepersBlocked, PipeInvariant, PTL

\* A read that returned 0 for the end of file was right for good.
THEOREM EofStaysEof == Spec => []EofIsFinal
  <1>1. PInv => EofIsFinal
    BY DEF PInv
  <1>2. QED
    BY <1>1, PipeInvariant, PTL

\* A pipe is a bounded queue: every byte written is read once, in the order
\* of the writes, whatever PIPESIZE is and however often nread and nwrite have
\* wrapped around, and the queue goes with the second close.
THEOREM PipeIsQueue == Spec => ImplementsAbs
  <1>1. Init => CountInv /\ Abs!Init
    <2>1. SUFFICES ASSUME Init PROVE CountInv /\ Abs!Init
      OBVIOUS
    <2>2. 0 \in Counter
      BY Sizes DEF Counter
    <2>3. Count = 0
      BY <2>1, <2>2, Limits, CountIs DEF Init
    <2>4. QED
      BY <2>1, <2>3, Sizes DEF Init, CountInv, Queue, Abs!Init
  <1>2. PInv /\ CountInv /\ [Next]_vars => CountInv' /\ [Abs!Next]_(Abs!vars)
    BY SetsCount, AbsStep
  <1>3. QED
    BY <1>1, <1>2, PipeInvariant, PTL DEF Spec, ImplementsAbs, Abs!Spec

=============================================================================
