----------------------------- MODULE ProcProofs -----------------------------
(***************************************************************************)
(* Proofs about Proc, for every size of the process table and every choice *)
(* of the processes that are killed: nobody is orphaned, wait sleeps only  *)
(* for a reason, a slot is freed only when its process has left its stack, *)
(* and exit and wait do not deadlock on the locks of the table.            *)
(*                                                                         *)
(* The inductive invariant says who holds which lock (a function of the    *)
(* program counters), that a process whose parent is not init has copied   *)
(* that very parent when it locks it, what a scan of wait has already      *)
(* seen, and that parent pointers form a tree.                             *)
(***************************************************************************)
EXTENDS Proc, FiniteSetTheorems, WellFoundedInduction, TLAPS

PCs == {"none", "user", "panic", "exit_init", "exit_copy", "exit_parent",
        "exit_self", "reparent", "exit_sched", "scan", "sleep"}

TypeOK ==
  /\ state \in [Slot -> {"UNUSED", "RUNNABLE", "SLEEPING", "ZOMBIE"}]
  /\ parent \in [Slot -> Slot \cup {Nobody}]
  /\ killed \in [Slot -> {0, 1}]
  /\ lock \in [Slot -> Slot \cup {Nobody}]
  /\ pc \in [Slot -> PCs]
  /\ opar \in [Slot -> Slot \cup {Nobody}]
  /\ np \in [Slot -> 1..(NPROC + 1)]
  /\ kids \in [Slot -> {0, 1}]

\* What the scheduling state of a slot says about where its thread is.
StateInv ==
  /\ \A p \in Slot :
       /\ state[p] = "UNUSED" => pc[p] = "none" /\ parent[p] = Nobody
       /\ pc[p] = "none" => state[p] \in {"UNUSED", "ZOMBIE"}
       /\ state[p] = "ZOMBIE" => pc[p] \in {"none", "exit_sched"}
       /\ pc[p] = "exit_sched" => state[p] = "ZOMBIE"
       /\ state[p] = "SLEEPING" => pc[p] = "sleep"
  /\ pc[initproc] \in {"user", "scan", "sleep", "panic"}
  /\ parent[initproc] = Nobody

\* exit holds the parent it copied, then itself too; wait holds itself.
Holds(h, l) ==
  \/ pc[h] \in {"exit_self", "reparent"} /\ opar[h] = l
  \/ pc[h] \in {"reparent", "exit_sched", "scan"} /\ h = l

LockInv == \A l, h \in Slot : lock[l] = h <=> Holds(h, l)

\* The copy of the parent is stale only if the process has been given to init.
CopyInv ==
  \A p \in Slot :
    pc[p] \in {"exit_parent", "exit_self", "reparent"} =>
      /\ opar[p] \in Slot /\ opar[p] # p
      /\ parent[p] # initproc => opar[p] = parent[p]

\* What a scan knows of the slots it has passed.
ScanInv ==
  \A p \in Slot :
    /\ pc[p] = "scan" /\ p # initproc =>
         \A q \in Children(p) : q < np[p] => state[q] # "ZOMBIE"
    /\ kids[p] = 1 => pc[p] = "scan" /\ Children(p) # {}
    /\ pc[p] # "scan" => np[p] = 1

\* A rank that grows from parent to child: the processes form a tree.
RankedBy(d) ==
  /\ d \in [Slot -> Nat]
  /\ d[initproc] = 0
  /\ \A q \in Slot : parent[q] \in Slot => d[q] > d[parent[q]]

TreeInv == \E d \in [Slot -> Nat] : RankedBy(d)

PInv ==
  /\ TypeOK /\ StateInv /\ NoOrphans /\ LockInv /\ CopyInv /\ ScanInv
  /\ SleepsForAReason
  /\ TreeInv

-----------------------------------------------------------------------------
(* A finite set of ranks has a largest one, and Min is a member.           *)

\* Some element of a finite set has the largest value of f: the elements
\* above it are the smallest of the sets {y : f[y] > f[x]}.
LEMMA LargestExists ==
  ASSUME NEW S, IsFiniteSet(S), S # {}, NEW f \in [S -> Nat]
  PROVE  \E x \in S : \A y \in S : f[y] <= f[x]
  <1> DEFINE Above(x) == {y \in S : f[y] > f[x]}
             As == {Above(x) : x \in S}
  <1>1. IsWellFoundedOn(StrictSubsetOrdering(S), SUBSET S)
    BY FS_FiniteSubsetsOfFinite, FS_StrictSubsetOrderingWellFounded, Zenon
  <1>2. As \in SUBSET (SUBSET S) /\ As # {}
    <2>1. \A x \in S : Above(x) \in SUBSET S
      OBVIOUS
    <2> HIDE DEF Above
    <2> QED BY <2>1
  <1>3. PICK A \in As : \A B \in As : ~(<<B, A>> \in StrictSubsetOrdering(S))
    BY <1>1, <1>2, WFMin, Zenon
  <1>4. PICK x \in S : A = Above(x)
    BY <1>3
  <1>5. ASSUME NEW y \in S, f[y] > f[x] PROVE FALSE
    <2>1. Above(y) \subseteq Above(x) /\ y \in Above(x) /\ y \notin Above(y)
      BY <1>5
    <2>2. <<Above(y), Above(x)>> \in StrictSubsetOrdering(S)
      BY <2>1 DEF StrictSubsetOrdering
    <2> QED BY <2>2, <1>3, <1>4
  <1> QED BY <1>5

\* The slot that reparent looks at next is a child.
LEMMA MinIn ==
  ASSUME NEW C \in SUBSET Slot, C # {}
  PROVE  Min(C) \in C
  <1>1. IsFiniteSet(C)
    <2>1. IsFiniteSet(Slot)
      BY FS_Interval, ProcAssumption DEF Slot
    <2> QED BY <2>1, FS_Subset
  <1> DEFINE f == [x \in C |-> NPROC - x]
  <1>2. f \in [C -> Nat]
    BY ProcAssumption DEF Slot
  <1> HIDE DEF f
  <1>3. PICK x \in C : \A y \in C : f[y] <= f[x]
    BY <1>1, <1>2, LargestExists
  <1>4. \A y \in C : x <= y
    BY <1>3, ProcAssumption DEF Slot, f
  <1> QED BY <1>4 DEF Min

-----------------------------------------------------------------------------
(* The invariant holds initially, and every step keeps each conjunct.      *)

LEMMA InitPInv == Init => PInv
  <1> SUFFICES ASSUME Init PROVE PInv
    OBVIOUS
  <1> USE ProcAssumption DEF Init, Slot, initproc
  <1>1. TypeOK
    BY DEF TypeOK, PCs
  <1>2. StateInv /\ NoOrphans /\ CopyInv /\ ScanInv /\ SleepsForAReason
    BY DEF StateInv, NoOrphans, CopyInv, ScanInv, SleepsForAReason
  <1>3. LockInv
    BY DEF LockInv, Holds
  <1>4. TreeInv
    <2>1. RankedBy([q \in Slot |-> 0])
      BY DEF RankedBy
    <2> QED BY <2>1, Zenon DEF TreeInv
  <1> QED BY <1>1, <1>2, <1>3, <1>4 DEF PInv

LEMMA TypeStep ==
  ASSUME PInv, Next
  PROVE  TypeOK'
  <1> USE DEF TypeOK
  <1>0. TypeOK /\ CopyInv /\ initproc \in Slot
    BY ProcAssumption DEF PInv, Slot, initproc
  <1>1. PICK p \in Slot : \/ \E q \in Slot : fork(p, q) \/ kill(p, q)
                          \/ exit(p) \/ Exits(p)
                          \/ wait(p) \/ Waits(p)
    BY DEF Next
  <1>2. CASE \E q \in Slot : fork(p, q)
    BY <1>0, <1>2 DEF fork, locals, PCs
  <1>3. CASE \E q \in Slot : kill(p, q)
    BY <1>0, <1>3 DEF kill, locals
  <1>4. CASE exit(p) \/ exit_init(p) \/ exit_copy(p)
    BY <1>0, <1>4 DEF exit, exit_init, exit_copy, wakeup1, fields, locals, PCs
  <1>5. CASE exit_parent(p) \/ exit_self(p)
    BY <1>0, <1>5 DEF exit_parent, exit_self, fields, locals, PCs, CopyInv
  <1>6. CASE reparent(p)
    <2>1. Min(Children(p)) \in Slot
      BY <1>6, MinIn DEF reparent, Children
    <2> QED BY <1>0, <1>6, <2>1 DEF reparent, locals
  <1>7. CASE exit_zombie(p)
    BY <1>0, <1>7 DEF exit_zombie, wakeup1, locals, PCs, CopyInv
  <1>8. CASE exit_sched(p)
    BY <1>0, <1>8 DEF exit_sched, fields, PCs
  <1>9. CASE wait(p) \/ wait_again(p)
    BY <1>0, <1>9 DEF wait, wait_again, fields, locals, PCs
  <1>10. CASE wait_skip(p) \/ wait_child(p)
    BY <1>0, <1>10, ProcAssumption DEF wait_skip, wait_child, fields
  <1>11. CASE wait_zombie(p) \/ wait_sleep(p)
    <2>1. /\ lock' \in [Slot -> Slot \cup {Nobody}]
          /\ pc' \in [Slot -> PCs]
          /\ opar' \in [Slot -> Slot \cup {Nobody}]
          /\ np' \in [Slot -> 1..(NPROC + 1)]
          /\ kids' \in [Slot -> {0, 1}]
      BY <1>0, <1>11, ProcAssumption DEF wait_zombie, wait_sleep, Return, PCs
    <2>2. /\ state' \in [Slot -> {"UNUSED", "RUNNABLE", "SLEEPING", "ZOMBIE"}]
          /\ parent' \in [Slot -> Slot \cup {Nobody}]
          /\ killed' \in [Slot -> {0, 1}]
      BY <1>0, <1>11 DEF wait_zombie, wait_sleep, freeproc, fields
    <2> QED BY <2>1, <2>2
  <1> QED
    BY <1>1, <1>2, <1>3, <1>4, <1>5, <1>6, <1>7, <1>8, <1>9, <1>10, <1>11
    DEF Exits, Waits

\* A thread's place and its scheduling state change together.
LEMMA StateStep ==
  ASSUME PInv, Next
  PROVE  StateInv'
  <1> USE DEF StateInv
  <1>0. TypeOK /\ StateInv /\ NoOrphans /\ LockInv /\ CopyInv /\ initproc \in Slot
    BY ProcAssumption DEF PInv, Slot, initproc
  <1>1. PICK p \in Slot : \/ \E q \in Slot : fork(p, q) \/ kill(p, q)
                          \/ exit(p) \/ Exits(p)
                          \/ wait(p) \/ Waits(p)
    BY DEF Next
  <1>2. CASE \E q \in Slot : fork(p, q)
    BY <1>0, <1>2, ProcAssumption DEF fork, Calls, allocproc, TypeOK, Slot
  <1>3. CASE \E q \in Slot : kill(p, q)
    BY <1>0, <1>3 DEF kill, TypeOK
  <1>4. CASE exit(p) \/ exit_init(p) \/ exit_copy(p)
    BY <1>0, <1>4 DEF exit, exit_init, exit_copy, wakeup1, fields, TypeOK
  <1>5. CASE exit_parent(p) \/ exit_self(p)
    BY <1>0, <1>5 DEF exit_parent, exit_self, fields, TypeOK
  <1>6. CASE reparent(p)
    <2>1. Min(Children(p)) \in Slot /\ parent[Min(Children(p))] = p
      BY <1>6, MinIn DEF reparent, Children
    <2>2. p # Nobody /\ p # initproc
      BY <1>0, <1>6, ProcAssumption DEF reparent, Slot
    <2> QED BY <1>0, <1>6, <2>1, <2>2 DEF reparent, TypeOK
  <1>7. CASE exit_zombie(p)
    BY <1>0, <1>7 DEF exit_zombie, wakeup1, TypeOK, CopyInv
  <1>8. CASE exit_sched(p)
    BY <1>0, <1>8 DEF exit_sched, fields, TypeOK
  <1>9. CASE wait(p) \/ wait_again(p)
    BY <1>0, <1>9 DEF wait, wait_again, fields, Calls, TypeOK
  <1>10. CASE wait_skip(p) \/ wait_child(p)
    BY <1>0, <1>10 DEF wait_skip, wait_child, fields
  <1>11. CASE wait_zombie(p) \/ wait_sleep(p)
    <2>1. CASE wait_zombie(p)
      <3>1. /\ np[p] \in Slot /\ state[np[p]] = "ZOMBIE" /\ lock[np[p]] = Nobody
            /\ np[p] # initproc
        BY <1>0, <2>1, ProcAssumption DEF wait_zombie, TypeOK, Slot
      <3>2. pc[np[p]] = "none"
        BY <1>0, <3>1, ProcAssumption DEF LockInv, Holds, Slot
      <3> QED BY <1>0, <2>1, <3>1, <3>2 DEF wait_zombie, freeproc, Return, fields, TypeOK
    <2>2. CASE wait_sleep(p)
      BY <1>0, <2>2 DEF wait_sleep, Return, fields, TypeOK
    <2> QED BY <1>11, <2>1, <2>2
  <1> QED
    BY <1>1, <1>2, <1>3, <1>4, <1>5, <1>6, <1>7, <1>8, <1>9, <1>10, <1>11
    DEF Exits, Waits

\* Parents stay alive: exit gives all children away first.
LEMMA OrphanStep ==
  ASSUME PInv, Next
  PROVE  NoOrphans'
  <1> USE DEF NoOrphans
  <1>0. TypeOK /\ StateInv /\ NoOrphans /\ CopyInv /\ initproc \in Slot
    BY ProcAssumption DEF PInv, Slot, initproc
  <1>1. PICK p \in Slot : \/ \E q \in Slot : fork(p, q) \/ kill(p, q)
                          \/ exit(p) \/ Exits(p)
                          \/ wait(p) \/ Waits(p)
    BY DEF Next
  <1>2. CASE \E q \in Slot : fork(p, q)
    BY <1>0, <1>2 DEF fork, Calls, allocproc, TypeOK, StateInv
  <1>3. CASE \E q \in Slot : kill(p, q)
    BY <1>0, <1>3 DEF kill, TypeOK
  <1>4. CASE exit(p) \/ exit_init(p) \/ exit_copy(p)
    BY <1>0, <1>4 DEF exit, exit_init, exit_copy, wakeup1, fields, TypeOK
  <1>5. CASE exit_parent(p) \/ exit_self(p)
    BY <1>0, <1>5 DEF exit_parent, exit_self, fields
  <1>6. CASE reparent(p)
    BY <1>0, <1>6, MinIn DEF reparent, TypeOK, StateInv
  <1>7. CASE exit_zombie(p)
    BY <1>0, <1>7 DEF exit_zombie, wakeup1, TypeOK, CopyInv, StateInv, Children
  <1>8. CASE exit_sched(p)
    BY <1>0, <1>8 DEF exit_sched, fields
  <1>9. CASE wait(p) \/ wait_again(p)
    BY <1>0, <1>9 DEF wait, wait_again, fields
  <1>10. CASE wait_skip(p) \/ wait_child(p)
    BY <1>0, <1>10 DEF wait_skip, wait_child, fields
  <1>11. CASE wait_zombie(p) \/ wait_sleep(p)
    <2>1. CASE wait_zombie(p)
      <3>1. /\ np[p] \in Slot /\ state[np[p]] = "ZOMBIE"
        BY <1>0, <2>1, ProcAssumption DEF wait_zombie, TypeOK, Slot
      <3> QED BY <1>0, <2>1, <3>1 DEF wait_zombie, freeproc, fields, TypeOK
    <2>2. CASE wait_sleep(p)
      BY <1>0, <2>2 DEF wait_sleep, fields, TypeOK, StateInv
    <2> QED BY <1>11, <2>1, <2>2
  <1> QED
    BY <1>1, <1>2, <1>3, <1>4, <1>5, <1>6, <1>7, <1>8, <1>9, <1>10, <1>11
    DEF Exits, Waits

\* Who holds a lock is a matter of the program counters.
LEMMA LockStep ==
  ASSUME PInv, Next
  PROVE  LockInv'
  <1> USE DEF LockInv, Holds
  <1>0. /\ TypeOK /\ StateInv /\ LockInv /\ CopyInv /\ initproc \in Slot
        /\ Nobody \notin Slot
    BY ProcAssumption DEF PInv, Slot, initproc
  <1>1. PICK p \in Slot : \/ \E q \in Slot : fork(p, q) \/ kill(p, q)
                          \/ exit(p) \/ Exits(p)
                          \/ wait(p) \/ Waits(p)
    BY DEF Next
  <1>2. CASE \E q \in Slot : fork(p, q)
    BY <1>0, <1>2 DEF fork, allocproc, TypeOK, StateInv, locals
  <1>3. CASE \E q \in Slot : kill(p, q)
    BY <1>0, <1>3 DEF kill, locals
  <1>4. CASE exit(p) \/ exit_init(p) \/ exit_copy(p)
    BY <1>0, <1>4 DEF exit, exit_init, exit_copy, locals, TypeOK
  <1>5. CASE exit_parent(p) \/ exit_self(p)
    BY <1>0, <1>5 DEF exit_parent, exit_self, locals, TypeOK, CopyInv
  <1>6. CASE reparent(p)
    BY <1>0, <1>6 DEF reparent, locals
  <1>7. CASE exit_zombie(p)
    BY <1>0, <1>7 DEF exit_zombie, TypeOK, CopyInv, locals
  <1>8. CASE exit_sched(p)
    BY <1>0, <1>8 DEF exit_sched, TypeOK
  <1>9. CASE wait(p) \/ wait_again(p)
    BY <1>0, <1>9 DEF wait, wait_again, locals, Calls, TypeOK
  <1>10. CASE wait_skip(p) \/ wait_child(p)
    BY <1>0, <1>10 DEF wait_skip, wait_child
  <1>11. CASE wait_zombie(p) \/ wait_sleep(p)
    BY <1>0, <1>11 DEF wait_zombie, wait_sleep, Return, TypeOK
  <1> QED
    BY <1>1, <1>2, <1>3, <1>4, <1>5, <1>6, <1>7, <1>8, <1>9, <1>10, <1>11
    DEF Exits, Waits

\* reparent changes a parent to init only, so a copy of another is current.
LEMMA CopyStep ==
  ASSUME PInv, Next
  PROVE  CopyInv'
  <1> USE DEF CopyInv
  <1>0. /\ TypeOK /\ StateInv /\ NoOrphans /\ CopyInv /\ initproc \in Slot
        /\ \A q \in Slot : parent[q] # q
    <2>1. \A q \in Slot : parent[q] # q
      BY DEF PInv, TreeInv, RankedBy
    <2> QED BY <2>1, ProcAssumption DEF PInv, Slot, initproc
  <1>1. PICK p \in Slot : \/ \E q \in Slot : fork(p, q) \/ kill(p, q)
                          \/ exit(p) \/ Exits(p)
                          \/ wait(p) \/ Waits(p)
    BY DEF Next
  <1>2. CASE \E q \in Slot : fork(p, q)
    BY <1>0, <1>2 DEF fork, TypeOK, locals
  <1>3. CASE \E q \in Slot : kill(p, q)
    BY <1>0, <1>3 DEF kill, locals
  <1>4. CASE exit(p) \/ exit_init(p)
    BY <1>0, <1>4 DEF exit, exit_init, fields, locals, TypeOK
  <1>5. CASE exit_copy(p)
    <2>1. parent[p] \in Slot
      BY <1>0, <1>5 DEF exit_copy, NoOrphans, StateInv
    <2> QED BY <1>0, <1>5, <2>1 DEF exit_copy, fields, TypeOK
  <1>6. CASE exit_parent(p) \/ exit_self(p)
    BY <1>0, <1>6 DEF exit_parent, exit_self, fields, locals, TypeOK
  <1>7. CASE reparent(p)
    BY <1>0, <1>7, MinIn DEF reparent, locals, TypeOK
  <1>8. CASE exit_zombie(p) \/ exit_sched(p)
    BY <1>0, <1>8 DEF exit_zombie, exit_sched, fields, locals, TypeOK
  <1>9. CASE wait(p) \/ wait_again(p)
    BY <1>0, <1>9 DEF wait, wait_again, fields, locals, TypeOK
  <1>10. CASE wait_skip(p) \/ wait_child(p)
    BY <1>0, <1>10 DEF wait_skip, wait_child, fields
  <1>11. CASE wait_zombie(p) \/ wait_sleep(p)
    <2>1. CASE wait_zombie(p)
      <3>1. np[p] \in Slot /\ state[np[p]] = "ZOMBIE"
        BY <1>0, <2>1, ProcAssumption DEF wait_zombie, TypeOK, Slot
      <3>2. pc[np[p]] \in {"none", "exit_sched"}
        BY <1>0, <3>1 DEF StateInv
      <3> QED BY <1>0, <2>1, <3>1, <3>2 DEF wait_zombie, freeproc, Return, fields, TypeOK
    <2>2. CASE wait_sleep(p)
      BY <1>0, <2>2 DEF wait_sleep, Return, fields, TypeOK
    <2> QED BY <1>11, <2>1, <2>2
  <1> QED
    BY <1>1, <1>2, <1>3, <1>4, <1>5, <1>6, <1>7, <1>8, <1>9, <1>10, <1>11
    DEF Exits, Waits

\* What the steps of wait and exit do to the children of others: a zombie
\* appears only under the lock of the parent (init apart), and a process
\* loses a child only by its own steps.
LEMMA ZombieUnderLock ==
  ASSUME PInv, NEW c \in Slot, NEW q \in Slot, pc[c] = "reparent",
         parent[c] = q, q # initproc
  PROVE  lock[q] = c /\ pc[q] \notin {"scan"} /\ opar[c] = q
  <1>1. opar[c] = q
    BY DEF PInv, CopyInv
  <1>2. lock[q] = c
    BY <1>1 DEF PInv, LockInv, Holds
  <1>3. q # c
    BY DEF PInv, TreeInv, RankedBy
  <1>4. pc[q] # "scan"
    BY <1>2, <1>3 DEF PInv, LockInv, Holds
  <1> QED BY <1>1, <1>2, <1>4

LEMMA ScanStep ==
  ASSUME PInv, Next
  PROVE  ScanInv'
  <1> USE DEF ScanInv, Children
  <1>0. /\ TypeOK /\ StateInv /\ NoOrphans /\ CopyInv /\ ScanInv /\ initproc \in Slot
        /\ Nobody \notin Slot
    BY ProcAssumption DEF PInv, Slot, initproc
  <1>1. PICK p \in Slot : \/ \E q \in Slot : fork(p, q) \/ kill(p, q)
                          \/ exit(p) \/ Exits(p)
                          \/ wait(p) \/ Waits(p)
    BY DEF Next
  <1>2. CASE \E q \in Slot : fork(p, q)
    BY <1>0, <1>2 DEF fork, Calls, allocproc, TypeOK, StateInv, locals
  <1>3. CASE \E q \in Slot : kill(p, q)
    BY <1>0, <1>3 DEF kill, TypeOK, locals
  <1>4. CASE exit(p) \/ exit_init(p) \/ exit_copy(p)
    BY <1>0, <1>4 DEF exit, exit_init, exit_copy, wakeup1, fields, locals, TypeOK
  <1>5. CASE exit_parent(p) \/ exit_self(p)
    BY <1>0, <1>5 DEF exit_parent, exit_self, fields, locals, TypeOK
  <1>6. CASE reparent(p)
    <2>1. PICK m \in Slot : /\ parent[m] = p
                            /\ parent' = [parent EXCEPT ![m] = initproc]
      BY <1>6, MinIn, Zenon DEF reparent
    <2>2. pc[p] = "reparent" /\ UNCHANGED <<state, pc, np, kids>>
      BY <1>6 DEF reparent, locals
    <2>3. \A q \in Slot : parent'[q] = IF q = m THEN initproc ELSE parent[q]
      BY <1>0, <2>1 DEF TypeOK
    <2>4. ASSUME NEW r \in Slot, r # initproc
          PROVE  Children(r)' \subseteq Children(r)
      BY <2>3, <2>4
    <2>5. ASSUME NEW r \in Slot, kids[r] = 1
          PROVE  pc[r] = "scan" /\ Children(r)' # {}
      <3>1. pc[r] = "scan" /\ r # p
        BY <1>0, <2>2, <2>5
      <3>2. PICK c \in Slot : parent[c] = r
        BY <1>0, <2>5
      <3>3. parent'[c] = r
        BY <2>1, <2>3, <3>1, <3>2
      <3> QED BY <3>1, <3>3
    <2> QED BY <1>0, <2>2, <2>4, <2>5
  <1>7. CASE exit_zombie(p)
    <2>1. \A q \in Slot : parent[p] = q /\ q # initproc => pc[q] # "scan"
      BY <1>7, ZombieUnderLock DEF exit_zombie
    <2> QED BY <1>0, <1>7, <2>1 DEF exit_zombie, wakeup1, TypeOK, locals, CopyInv
  <1>8. CASE exit_sched(p)
    BY <1>0, <1>8 DEF exit_sched, fields, TypeOK
  <1>9. CASE wait(p) \/ wait_again(p)
    <2>1. np[p] = 1 /\ \A q \in Slot : ~(q < 1)
      BY <1>0, <1>9, ProcAssumption DEF wait, wait_again, Calls, Slot
    <2> QED BY <1>0, <1>9, <2>1 DEF wait, wait_again, fields, locals, TypeOK
  <1>10. CASE wait_skip(p) \/ wait_child(p)
    <2>1. /\ pc[p] = "scan" /\ np[p] \in Slot
          /\ UNCHANGED <<state, parent, pc>>
          /\ np' = [np EXCEPT ![p] = @ + 1]
          /\ parent[np[p]] = p => state[np[p]] # "ZOMBIE"
      BY <1>0, <1>10, ProcAssumption DEF wait_skip, wait_child, fields, TypeOK, Slot
    <2>2. \A q \in Slot : q < np'[p] => q < np[p] \/ q = np[p]
      BY <1>0, <2>1, ProcAssumption DEF TypeOK, Slot
    <2>3. \A r \in Slot : r # p => np'[r] = np[r]
      BY <1>0, <2>1 DEF TypeOK
    <2>4. \A r \in Slot : kids'[r] = 1 => kids[r] = 1 \/ (r = p /\ Children(p) # {})
      BY <1>0, <1>10, <2>1 DEF wait_skip, wait_child, TypeOK
    <2> QED BY <1>0, <2>1, <2>2, <2>3, <2>4
  <1>11. CASE wait_zombie(p) \/ wait_sleep(p)
    BY <1>0, <1>11 DEF wait_zombie, wait_sleep, freeproc, Return, fields, TypeOK
  <1> QED
    BY <1>1, <1>2, <1>3, <1>4, <1>5, <1>6, <1>7, <1>8, <1>9, <1>10, <1>11
    DEF Exits, Waits

\* A sleeper keeps its children, and whoever becomes a zombie wakes it.
LEMMA SleepStep ==
  ASSUME PInv, Next
  PROVE  SleepsForAReason'
  <1> USE DEF SleepsForAReason, Children
  <1>0. /\ TypeOK /\ StateInv /\ CopyInv /\ ScanInv /\ SleepsForAReason
        /\ initproc \in Slot /\ Nobody \notin Slot
    BY ProcAssumption DEF PInv, Slot, initproc
  <1>1. PICK p \in Slot : \/ \E q \in Slot : fork(p, q) \/ kill(p, q)
                          \/ exit(p) \/ Exits(p)
                          \/ wait(p) \/ Waits(p)
    BY DEF Next
  <1>2. CASE \E q \in Slot : fork(p, q)
    BY <1>0, <1>2 DEF fork, Calls, allocproc, TypeOK, StateInv
  <1>3. CASE \E q \in Slot : kill(p, q)
    BY <1>0, <1>3 DEF kill, TypeOK
  <1>4. CASE exit(p) \/ exit_init(p) \/ exit_copy(p)
    BY <1>0, <1>4 DEF exit, exit_init, exit_copy, wakeup1, fields, TypeOK
  <1>5. CASE exit_parent(p) \/ exit_self(p)
    BY <1>0, <1>5 DEF exit_parent, exit_self, fields
  <1>6. CASE reparent(p)
    <2>1. PICK m \in Slot : /\ parent[m] = p
                            /\ parent' = [parent EXCEPT ![m] = initproc]
      BY <1>6, MinIn, Zenon DEF reparent
    <2>2. state[p] # "SLEEPING" /\ UNCHANGED <<state, killed>>
      BY <1>0, <1>6 DEF reparent, StateInv
    <2>3. \A q \in Slot : parent'[q] = IF q = m THEN initproc ELSE parent[q]
      BY <1>0, <2>1 DEF TypeOK
    <2>4. ASSUME NEW r \in Slot, r # initproc
          PROVE  Children(r)' \subseteq Children(r)
      BY <2>3, <2>4
    <2>5. ASSUME NEW r \in Slot, state[r] = "SLEEPING"
          PROVE  Children(r)' # {}
      <3>1. PICK c \in Slot : parent[c] = r
        BY <1>0, <2>5
      <3>2. parent'[c] = r
        BY <2>1, <2>2, <2>3, <2>5, <3>1
      <3> QED BY <3>2
    <2> QED BY <1>0, <2>2, <2>4, <2>5
  <1>7. CASE exit_zombie(p)
    <2>1. \A q \in Slot : parent[p] = q /\ q # initproc => opar[p] = q
      BY <1>7, ZombieUnderLock DEF exit_zombie
    <2> QED BY <1>0, <1>7, <2>1 DEF exit_zombie, wakeup1, TypeOK, CopyInv
  <1>8. CASE exit_sched(p)
    BY <1>0, <1>8 DEF exit_sched, fields
  <1>9. CASE wait(p) \/ wait_again(p)
    BY <1>0, <1>9 DEF wait, wait_again, fields
  <1>10. CASE wait_skip(p) \/ wait_child(p)
    BY <1>0, <1>10 DEF wait_skip, wait_child, fields
  <1>11. CASE wait_zombie(p) \/ wait_sleep(p)
    <2>1. CASE wait_zombie(p)
      <3>1. /\ np[p] \in Slot /\ parent[np[p]] = p /\ state[p] # "SLEEPING"
        BY <1>0, <2>1, ProcAssumption DEF wait_zombie, TypeOK, Slot, StateInv
      <3>2. \/ UNCHANGED fields
            \/ freeproc(np[p])
        BY <2>1 DEF wait_zombie
      <3> QED BY <1>0, <3>1, <3>2 DEF freeproc, fields, TypeOK
    <2>2. CASE wait_sleep(p) /\ (kids[p] = 0 \/ killed[p] = 1)
      BY <1>0, <2>2 DEF wait_sleep, fields
    <2>3. CASE wait_sleep(p) /\ ~(kids[p] = 0 \/ killed[p] = 1)
      <3>1. /\ kids[p] = 1 /\ killed[p] = 0 /\ UNCHANGED <<parent, killed>>
            /\ state' = [state EXCEPT ![p] = "SLEEPING"]
            /\ pc[p] = "scan" /\ np[p] > NPROC
        BY <1>0, <2>3 DEF wait_sleep, TypeOK
      <3>2. \A q \in Slot : q < np[p]
        BY <1>0, <3>1, ProcAssumption DEF TypeOK, Slot
      <3> QED BY <1>0, <3>1, <3>2 DEF TypeOK, ScanInv
    <2> QED BY <1>11, <2>1, <2>2, <2>3
  <1> QED
    BY <1>1, <1>2, <1>3, <1>4, <1>5, <1>6, <1>7, <1>8, <1>9, <1>10, <1>11, Zenon
    DEF Exits, Waits

\* A step adds a leaf to the tree, moves one below init, or leaves it.
LEMMA TreeStep ==
  ASSUME PInv, Next
  PROVE  TreeInv'
  <1>0. TypeOK /\ StateInv /\ NoOrphans /\ initproc \in Slot /\ Nobody \notin Slot
    BY ProcAssumption DEF PInv, Slot, initproc
  <1>1. PICK d \in [Slot -> Nat] : RankedBy(d)
    BY DEF PInv, TreeInv
  <1>2. PICK p \in Slot : \/ \E q \in Slot : fork(p, q) \/ kill(p, q)
                          \/ exit(p) \/ Exits(p)
                          \/ wait(p) \/ Waits(p)
    BY DEF Next
  <1>3. CASE parent' = parent
    BY <1>1, <1>3 DEF TreeInv, RankedBy
  <1>4. CASE \E q \in Slot : fork(p, q)
    <2>1. PICK q \in Slot : fork(p, q)
      BY <1>4
    <2>2. state[q] = "UNUSED" /\ q # initproc /\ q # p
      BY <1>0, <2>1 DEF fork, Calls, allocproc, StateInv
    <2>3. \A r \in Slot : parent[r] # q
      BY <1>0, <2>2 DEF NoOrphans, StateInv
    <2> DEFINE e == [d EXCEPT ![q] = d[p] + 1]
    <2>4. e \in [Slot -> Nat] /\ e[initproc] = 0
      BY <1>0, <1>1, <2>2 DEF RankedBy
    <2>5. parent' = [parent EXCEPT ![q] = p]
      BY <2>1 DEF fork
    <2>6. ASSUME NEW r \in Slot, parent'[r] \in Slot
          PROVE  e[r] > e[parent'[r]]
      BY <1>0, <1>1, <2>2, <2>3, <2>5, <2>6 DEF RankedBy, TypeOK
    <2> HIDE DEF e
    <2> QED BY <2>4, <2>6 DEF TreeInv, RankedBy
  <1>5. CASE reparent(p)
    <2>1. PICK m \in Slot : /\ parent[m] = p
                            /\ parent' = [parent EXCEPT ![m] = initproc]
      BY <1>5, MinIn, Zenon DEF reparent, Children
    <2>2. ASSUME NEW r \in Slot, parent'[r] \in Slot
          PROVE  d[r] > d[parent'[r]]
      BY <1>0, <1>1, <2>1, <2>2 DEF RankedBy, TypeOK
    <2> QED BY <1>1, <2>2 DEF TreeInv, RankedBy
  <1>6. CASE wait_zombie(p) /\ parent' # parent
    <2>1. np[p] \in Slot /\ parent' = [parent EXCEPT ![np[p]] = Nobody]
      BY <1>0, <1>6, ProcAssumption DEF wait_zombie, freeproc, fields, TypeOK, Slot
    <2>2. ASSUME NEW r \in Slot, parent'[r] \in Slot
          PROVE  d[r] > d[parent'[r]]
      BY <1>0, <1>1, <2>1, <2>2 DEF RankedBy, TypeOK
    <2> QED BY <1>1, <2>2 DEF TreeInv, RankedBy
  <1>7. \/ \E q \in Slot : fork(p, q)
        \/ reparent(p) \/ wait_zombie(p) \/ parent' = parent
    BY <1>2 DEF kill, exit, Exits, exit_init, exit_copy, exit_parent, exit_self,
                exit_zombie, exit_sched, wait, Waits, wait_skip, wait_child,
                wait_sleep, wait_again, fields
  <1> QED BY <1>3, <1>4, <1>5, <1>6, <1>7

-----------------------------------------------------------------------------
(* The theorems.                                                           *)

\* The strengthened invariant: the locks of the table are held as the program
\* counters say, and the processes form a tree of living parents.
THEOREM ProcInvariant == Spec => []PInv
  <1>1. Init => PInv
    BY InitPInv
  <1>2. PInv /\ [Next]_vars => PInv'
    <2> SUFFICES ASSUME PInv, [Next]_vars PROVE PInv'
      OBVIOUS
    <2>1. CASE Next
      BY <2>1, TypeStep, StateStep, OrphanStep, LockStep, CopyStep, ScanStep,
         SleepStep, TreeStep DEF PInv
    <2>2. CASE UNCHANGED vars
      BY <2>2 DEF PInv, vars, fields, locals, TypeOK, StateInv, NoOrphans, LockInv,
                  Holds, CopyInv, ScanInv, SleepsForAReason, Children, TreeInv, RankedBy
    <2> QED BY <2>1, <2>2
  <1> QED BY <1>1, <1>2, PTL DEF Spec

\* Along a chain of waiting, the lock wanted is ever deeper in the tree: the
\* holder of the lock that p wants itself wants a lock of a higher rank.
LEMMA WantsDeeper ==
  ASSUME PInv, NEW d, RankedBy(d),
         \A p \in Slot : pc[p] \in {"exit_self", "reparent"} => opar[p] = parent[p],
         NEW l \in Slot, NEW h \in Slot, lock[l] = h, NEW k \in Wants(h)
  PROVE  k \in Slot /\ d[k] > d[l]
  <1>0. d \in [Slot -> Nat] /\ \A q \in Slot : parent[q] \in Slot => d[q] > d[parent[q]]
    BY DEF RankedBy
  <1>1. Holds(h, l)
    BY DEF PInv, LockInv
  <1>2. CASE pc[h] = "exit_self"
    <2>1. k = h /\ parent[h] = l
      BY <1>1, <1>2 DEF Wants, Holds
    <2> QED BY <1>0, <2>1
  <1>3. CASE pc[h] = "reparent"
    <2>1. k \in Slot /\ parent[k] = h
      BY <1>3, MinIn DEF Wants, Children
    <2>2. l = h \/ parent[h] = l
      BY <1>1, <1>3 DEF Holds
    <2>3. d[k] > d[h] /\ (l = h \/ d[h] > d[l])
      BY <1>0, <2>1, <2>2
    <2>4. d[k] \in Nat /\ d[h] \in Nat /\ d[l] \in Nat
      BY <1>0, <2>1
    <2> QED BY <2>1, <2>3, <2>4
  <1>4. CASE pc[h] = "scan"
    BY <1>0, <1>1, <1>4 DEF Holds, Wants
  <1>5. CASE pc[h] = "exit_sched"
    BY <1>5 DEF Wants
  <1> QED BY <1>1, <1>2, <1>3, <1>4, <1>5 DEF Holds

\* So no set of processes waits for itself: take the one that wants the lock
\* of the highest rank.
LEMMA NoCircle ==
  ASSUME PInv
  PROVE  ParentThenChild
  <1> SUFFICES ASSUME \A p \in Slot : pc[p] \in {"exit_self", "reparent"} => opar[p] = parent[p],
                      NEW S \in SUBSET Slot, Deadlocked(S)
               PROVE  FALSE
    BY DEF ParentThenChild
  <1>1. PICK d \in [Slot -> Nat] : RankedBy(d)
    BY DEF PInv, TreeInv
  <1> DEFINE Wanted == {l \in Slot : lock[l] \in S /\ \E p \in S : l \in Wants(p)}
             f == [l \in Wanted |-> d[l]]
  <1>2. IsFiniteSet(Wanted) /\ Wanted # {} /\ f \in [Wanted -> Nat]
    <2>1. IsFiniteSet(Slot)
      BY FS_Interval, ProcAssumption DEF Slot
    <2>2. IsFiniteSet(Wanted)
      BY <2>1, FS_Subset
    <2>3. Wanted # {}
      BY DEF Deadlocked, Wants
    <2> QED BY <1>1, <2>2, <2>3
  <1> HIDE DEF f
  <1>3. PICK l \in Wanted : \A k \in Wanted : f[k] <= f[l]
    BY <1>2, LargestExists, Zenon
  <1>4. PICK k \in Wants(lock[l]) : lock[k] \in S
    BY <1>3 DEF Deadlocked
  <1>5. k \in Slot /\ d[k] > d[l]
    BY <1>1, <1>3, <1>4, WantsDeeper
  <1>6. k \in Wanted
    BY <1>3, <1>4, <1>5
  <1>7. d[k] <= d[l] /\ d[k] \in Nat /\ d[l] \in Nat
    BY <1>1, <1>3, <1>5, <1>6, Zenon DEF f
  <1> QED BY <1>5, <1>7

\* ChildrenAwaited: exit gives its children to init before it becomes a
\* zombie, wait never misses the wakeup of a child that exits, and as long as
\* no copy of a parent is stale the two never deadlock.
THEOREM ParentsWait == Spec => []ChildrenAwaited
  <1>1. PInv => ChildrenAwaited
    BY NoCircle DEF PInv, ChildrenAwaited
  <1> QED BY <1>1, ProcInvariant, PTL

\* FreedWhenDone: wait frees a slot only when its process is off its kernel
\* stack, for exit holds p->lock until the switch is over.
THEOREM SlotsFreedOnce == Spec => FreedWhenDone
  <1> DEFINE Freed(q) == state[q] # "UNUSED" /\ state'[q] = "UNUSED"
             Done(q) == /\ state[q] = "ZOMBIE" /\ pc[q] = "none"
                        /\ Children(q) = {} /\ killed'[q] = 0
  <1>1. ASSUME PInv, Next, NEW q \in Slot, Freed(q)
        PROVE  Done(q)
    <2>0. TypeOK /\ StateInv /\ NoOrphans /\ LockInv /\ Nobody \notin Slot
      BY <1>1, ProcAssumption DEF PInv, Slot
    <2>1. PICK p \in Slot : wait_zombie(p) /\ freeproc(np[p]) /\ np[p] = q
      <3>1. PICK p \in Slot : \/ \E r \in Slot : fork(p, r) \/ kill(p, r)
                              \/ exit(p) \/ Exits(p)
                              \/ wait(p) \/ Waits(p)
        BY <1>1 DEF Next
      <3>2. ~ \E r \in Slot : fork(p, r) \/ kill(p, r)
        BY <1>1, <2>0 DEF fork, kill, TypeOK
      <3>3. ~(exit(p) \/ exit_copy(p) \/ exit_parent(p) \/ exit_self(p) \/ reparent(p)
              \/ exit_sched(p) \/ wait(p) \/ wait_skip(p) \/ wait_child(p) \/ wait_again(p))
        BY <1>1 DEF exit, exit_copy, exit_parent, exit_self, reparent, exit_sched, wait,
                    wait_skip, wait_child, wait_again, fields
      <3>4. ~(exit_init(p) \/ exit_zombie(p) \/ wait_sleep(p))
        BY <1>1, <2>0 DEF exit_init, exit_zombie, wait_sleep, wakeup1, fields, TypeOK
      <3>5. wait_zombie(p)
        BY <3>1, <3>2, <3>3, <3>4 DEF Exits, Waits
      <3>6. freeproc(np[p])
        BY <1>1, <3>5 DEF wait_zombie, fields
      <3>7. np[p] = q
        BY <1>1, <2>0, <3>6 DEF freeproc, TypeOK
      <3> QED BY <3>5, <3>6, <3>7
    <2>2. state[q] = "ZOMBIE" /\ lock[q] = Nobody /\ killed'[q] = 0
      BY <2>0, <2>1 DEF wait_zombie, freeproc, TypeOK
    <2>3. pc[q] = "none"
      BY <2>0, <2>2 DEF StateInv, LockInv, Holds
    <2>4. Children(q) = {}
      BY <2>0, <2>2 DEF NoOrphans, StateInv, Children
    <2> QED BY <2>2, <2>3, <2>4
  <1>2. PInv /\ [Next]_vars => [\A q \in Slot : Freed(q) => Done(q)]_vars
    BY <1>1
  <1> QED BY <1>2, ProcInvariant, PTL DEF Spec, FreedWhenDone
=============================================================================
