-------------------------------- MODULE Proc --------------------------------
(***************************************************************************)
(* The life of a process: fork, exit, reparent, wait and kill of           *)
(* kernel/proc.c, with the locks of the process table as the code takes    *)
(* them.                                                                   *)
(*                                                                         *)
(* Slot 1 of the table is init.  RUNNABLE stands for RUNNING too: CPUs and *)
(* the scheduler are modelled in Sched, and here every process whose       *)
(* kernel thread is not asleep may take the next step.  A step is what a   *)
(* process does between two acquires.  A lock taken and released with no   *)
(* other acquire in between is one step, enabled while the lock is free.   *)
(***************************************************************************)
EXTENDS Integers, FiniteSets, FiniteSetsExt

CONSTANTS NPROC,
          Nobody,    \* no process
          Killable   \* the slots whose pid kill() is called with

ASSUME ProcAssumption ==
  /\ NPROC \in Nat \ {0}
  /\ Nobody \notin 1..NPROC
  /\ Killable \subseteq 1..NPROC

Slot == 1..NPROC
initproc == 1

VARIABLES
  state, parent, killed, \* the fields of struct proc
  lock,  \* p->lock: the process that holds it
  pc,    \* where each kernel thread is
  opar,  \* exit's original_parent
  np,    \* wait's position in the table
  kids   \* wait's havekids

fields == <<state, parent, killed>>
locals == <<opar, np, kids>>
vars == <<fields, lock, pc, locals>>

Init ==
  /\ state = [p \in Slot |-> IF p = initproc THEN "RUNNABLE" ELSE "UNUSED"]
  /\ parent = [p \in Slot |-> Nobody]
  /\ killed = [p \in Slot |-> 0]
  /\ lock = [p \in Slot |-> Nobody]
  /\ pc = [p \in Slot |-> IF p = initproc THEN "user" ELSE "none"]
  /\ opar = [p \in Slot |-> Nobody]
  /\ np = [p \in Slot |-> 1]
  /\ kids = [p \in Slot |-> 0]

Children(p) == {q \in Slot : parent[q] = p}

\* A process with p->killed set makes no more calls: usertrap sends it to
\* exit.
Calls(p) == pc[p] = "user" /\ killed[p] = 0

-----------------------------------------------------------------------------
allocproc(q) == state[q] = "UNUSED" /\ lock[q] = Nobody

\* fork.  allocproc's slot stays locked until the child is RUNNABLE, and its
\* parent field is of interest to the caller alone, so the call is one step.
\* One that finds no slot or no memory leaves the table as it was.
fork(p, q) ==
  /\ Calls(p)
  /\ allocproc(q)
  /\ state' = [state EXCEPT ![q] = "RUNNABLE"]
  /\ parent' = [parent EXCEPT ![q] = p]
  /\ pc' = [pc EXCEPT ![q] = "user"]
  /\ UNCHANGED <<killed, lock, locals>>

\* kill looks at the pid alone: a free slot, whose pid is 0 (or the one that
\* allocproc gave it before it ran out of memory), can be marked as well.
kill(p, q) ==
  /\ Calls(p) /\ q \in Killable
  /\ lock[q] = Nobody
  /\ killed' = [killed EXCEPT ![q] = 1]
  /\ state' = [state EXCEPT ![q] = IF @ = "SLEEPING" THEN "RUNNABLE" ELSE @]
  /\ UNCHANGED <<parent, lock, pc, locals>>

-----------------------------------------------------------------------------
(* exit.                                                                   *)

\* wakeup1(q): q can be asleep in wait only.
wakeup1(q) == [state EXCEPT ![q] = IF @ = "SLEEPING" THEN "RUNNABLE" ELSE @]

\* The call, and the closing of files; init must not come here (user/init.c
\* does if its fork fails).
exit(p) ==
  /\ pc[p] = "user"
  /\ pc' = [pc EXCEPT ![p] = IF p = initproc THEN "panic" ELSE "exit_init"]
  /\ UNCHANGED <<fields, lock, locals>>

exit_init(p) ==
  /\ pc[p] = "exit_init" /\ lock[initproc] = Nobody
  /\ state' = wakeup1(initproc)
  /\ pc' = [pc EXCEPT ![p] = "exit_copy"]
  /\ UNCHANGED <<parent, killed, lock, locals>>

exit_copy(p) ==
  /\ pc[p] = "exit_copy" /\ lock[p] = Nobody
  /\ opar' = [opar EXCEPT ![p] = parent[p]]
  /\ pc' = [pc EXCEPT ![p] = "exit_parent"]
  /\ UNCHANGED <<fields, lock, np, kids>>

\* The parent-then-child rule.
exit_parent(p) ==
  /\ pc[p] = "exit_parent" /\ lock[opar[p]] = Nobody
  /\ lock' = [lock EXCEPT ![opar[p]] = p]
  /\ pc' = [pc EXCEPT ![p] = "exit_self"]
  /\ UNCHANGED <<fields, locals>>

exit_self(p) ==
  /\ pc[p] = "exit_self" /\ lock[p] = Nobody
  /\ lock' = [lock EXCEPT ![p] = p]
  /\ pc' = [pc EXCEPT ![p] = "reparent"]
  /\ UNCHANGED <<fields, locals>>

\* reparent gives the next child to init ...
reparent(p) ==
  LET q == Min(Children(p))
  IN /\ pc[p] = "reparent" /\ Children(p) # {}
     /\ lock[q] = Nobody
     /\ parent' = [parent EXCEPT ![q] = initproc]
     /\ UNCHANGED <<state, killed, lock, pc, locals>>

\* Mutant: no wakeup1(original_parent).
exit_zombie_silent(p) ==
  /\ pc[p] = "reparent" /\ Children(p) = {}
  /\ state' = [state EXCEPT ![p] = "ZOMBIE"]
  /\ lock' = [lock EXCEPT ![opar[p]] = Nobody]
  /\ pc' = [pc EXCEPT ![p] = "exit_sched"]
  /\ UNCHANGED <<parent, killed, locals>>

\* Mutant: p->lock is released before the switch to the scheduler.
exit_zombie_unlocks(p) ==
  /\ pc[p] = "reparent" /\ Children(p) = {}
  /\ state' = [wakeup1(opar[p]) EXCEPT ![p] = "ZOMBIE"]
  /\ lock' = [lock EXCEPT ![opar[p]] = Nobody, ![p] = Nobody]
  /\ pc' = [pc EXCEPT ![p] = "exit_sched"]
  /\ UNCHANGED <<parent, killed, locals>>

\* ... until there is none; then wakeup1(original_parent) and ZOMBIE.
exit_zombie(p) ==
  /\ pc[p] = "reparent" /\ Children(p) = {}
  /\ state' = [wakeup1(opar[p]) EXCEPT ![p] = "ZOMBIE"]
  /\ lock' = [lock EXCEPT ![opar[p]] = Nobody]
  /\ pc' = [pc EXCEPT ![p] = "exit_sched"]
  /\ UNCHANGED <<parent, killed, locals>>

\* sched: off the kernel stack at last, and the scheduler releases p->lock.
exit_sched(p) ==
  /\ pc[p] = "exit_sched"
  /\ lock' = [lock EXCEPT ![p] = Nobody]
  /\ opar' = [opar EXCEPT ![p] = Nobody]
  /\ pc' = [pc EXCEPT ![p] = "none"]
  /\ UNCHANGED <<fields, np, kids>>

-----------------------------------------------------------------------------
(* wait.  p->lock is held from the call to the return, but for sleep; its  *)
(* locals are reset where they die.                                        *)

wait(p) ==
  /\ Calls(p) /\ lock[p] = Nobody
  /\ lock' = [lock EXCEPT ![p] = p]
  /\ pc' = [pc EXCEPT ![p] = "scan"]
  /\ UNCHANGED <<fields, locals>>

Return(p) ==
  /\ lock' = [lock EXCEPT ![p] = Nobody]
  /\ np' = [np EXCEPT ![p] = 1]
  /\ kids' = [kids EXCEPT ![p] = 0]
  /\ pc' = [pc EXCEPT ![p] = "user"]

freeproc(q) ==
  /\ state' = [state EXCEPT ![q] = "UNUSED"]
  /\ parent' = [parent EXCEPT ![q] = Nobody]
  /\ killed' = [killed EXCEPT ![q] = 0]

\* A slot that is not a child is passed over by a read without its lock.
wait_skip(p) ==
  /\ pc[p] = "scan" /\ np[p] <= NPROC
  /\ parent[np[p]] # p
  /\ np' = [np EXCEPT ![p] = @ + 1]
  /\ UNCHANGED <<fields, lock, pc, opar, kids>>

\* A child that is not a zombie.
wait_child(p) ==
  /\ pc[p] = "scan" /\ np[p] <= NPROC
  /\ parent[np[p]] = p /\ lock[np[p]] = Nobody
  /\ state[np[p]] # "ZOMBIE"
  /\ kids' = [kids EXCEPT ![p] = 1]
  /\ np' = [np EXCEPT ![p] = @ + 1]
  /\ UNCHANGED <<fields, lock, pc, opar>>

\* A zombie: freed, unless copyout of its status fails.
wait_zombie(p) ==
  /\ pc[p] = "scan" /\ np[p] <= NPROC
  /\ parent[np[p]] = p /\ lock[np[p]] = Nobody
  /\ state[np[p]] = "ZOMBIE"
  /\ freeproc(np[p]) \/ UNCHANGED fields
  /\ Return(p)
  /\ UNCHANGED opar

\* The end of the table: return -1, or sleep(p, &p->lock).
wait_sleep(p) ==
  /\ pc[p] = "scan" /\ np[p] > NPROC
  /\ IF kids[p] = 0 \/ killed[p] = 1
     THEN Return(p) /\ UNCHANGED fields
     ELSE /\ state' = [state EXCEPT ![p] = "SLEEPING"]
          /\ lock' = [lock EXCEPT ![p] = Nobody]
          /\ np' = [np EXCEPT ![p] = 1]
          /\ kids' = [kids EXCEPT ![p] = 0]
          /\ pc' = [pc EXCEPT ![p] = "sleep"]
          /\ UNCHANGED <<parent, killed>>
  /\ UNCHANGED opar

\* sleep returns with p->lock, and the scan starts over.
wait_again(p) ==
  /\ pc[p] = "sleep" /\ state[p] # "SLEEPING" /\ lock[p] = Nobody
  /\ lock' = [lock EXCEPT ![p] = p]
  /\ pc' = [pc EXCEPT ![p] = "scan"]
  /\ UNCHANGED <<fields, locals>>

-----------------------------------------------------------------------------
Exits(p) ==
  \/ exit_init(p) \/ exit_copy(p) \/ exit_parent(p) \/ exit_self(p)
  \/ reparent(p) \/ exit_zombie(p) \/ exit_sched(p)

Waits(p) ==
  \/ wait_skip(p) \/ wait_child(p) \/ wait_zombie(p)
  \/ wait_sleep(p) \/ wait_again(p)

Next ==
  \E p \in Slot :
    \/ \E q \in Slot : fork(p, q) \/ kill(p, q)
    \/ exit(p) \/ Exits(p)
    \/ wait(p) \/ Waits(p)

Spec == Init /\ [][Next]_vars

-----------------------------------------------------------------------------
(* Properties.                                                             *)

\* No orphans: the parent of a process is a process that can still wait for
\* it.  exit gives its children away before it becomes a zombie, and nobody
\* is freed before that, so every zombie has someone to free its slot.
NoOrphans ==
  \A q \in Slot \ {initproc} :
    state[q] # "UNUSED" => /\ parent[q] \in Slot
                           /\ state[parent[q]] \in {"RUNNABLE", "SLEEPING"}

\* wait sleeps for a reason: there is a child to wait for, no kill it has
\* missed and (init apart) no child that is a zombie already.
SleepsForAReason ==
  \A p \in Slot :
    state[p] = "SLEEPING" =>
      /\ Children(p) # {}
      /\ killed[p] = 0
      /\ p # initproc => \A q \in Children(p) : state[q] # "ZOMBIE"

\* A slot is freed only when its process is a zombie that has left its kernel
\* stack, and only once: exit keeps p->lock until the switch is over.  No
\* child is left behind, and no kill.
FreedWhenDone ==
  [][\A q \in Slot : state[q] # "UNUSED" /\ state'[q] = "UNUSED"
                       => /\ state[q] = "ZOMBIE" /\ pc[q] = "none"
                          /\ Children(q) = {} /\ killed'[q] = 0]_vars

\* The lock a process is spinning for.
Wants(p) ==
  {l \in Slot :
     \/ pc[p] = "exit_init" /\ l = initproc
     \/ pc[p] = "exit_parent" /\ l = opar[p]
     \/ pc[p] \in {"exit_copy", "exit_self"} /\ l = p
     \/ pc[p] = "reparent" /\ Children(p) # {} /\ l = Min(Children(p))
     \/ pc[p] = "scan" /\ l = np[p] /\ parent[l] = p}

Deadlocked(S) ==
  S # {} /\ \A p \in S : \E l \in Wants(p) : lock[l] \in S

\* The parent-then-child rule: wait and exit never wait for their locks in a
\* circle, as long as whoever has locked the parent it copied still is its
\* child.
ParentThenChild ==
  (\A p \in Slot : pc[p] \in {"exit_self", "reparent"} => opar[p] = parent[p])
    => ~ \E S \in SUBSET Slot : Deadlocked(S)

\* exit and wait: every process has a parent that can still wait for it, wait
\* sleeps only for a child that has not exited yet, and the two never wait
\* for their locks in a circle.
ChildrenAwaited == NoOrphans /\ SleepsForAReason /\ ParentThenChild

\* proc.c:354-356: if the parent gives us away meanwhile, "the result will be
\* a harmless spurious wakeup to a dead or wrong process; proc structs are
\* never re-allocated as anything else".  So exit gets the locks it wants.
StaleParentHarmless == ~ \E S \in SUBSET Slot : Deadlocked(S)

-----------------------------------------------------------------------------
\* A process inside exit or wait goes on; one that spins for a lock that
\* comes free again and again gets it.
InKernel(p) == Exits(p) \/ Waits(p)
FairSpec ==
  /\ Spec
  /\ \A p \in Slot : SF_vars(InKernel(p))

\* The circle that StaleParentHarmless denies: who is in it spins for ever.
Circle == \E S \in SUBSET Slot : Deadlocked(S)

\* Every exit ends, the process a zombie and off its stack, unless there is
\* such a circle.
Exiting(p) == pc[p] = "exit_init"
Gone(p) == pc[p] = "none"
ExitEnds == \A p \in Slot : Exiting(p) ~> (Gone(p) \/ Circle)

\* A zombie ends its parent's wait, asleep or not, with the same exception:
\* init apart, which can sleep on beside the zombies it was given.
InWait(p) == p # initproc /\ pc[p] \in {"scan", "sleep"}
Awaited(p) == InWait(p) /\ \E q \in Children(p) : state[q] = "ZOMBIE"
WaitReturns == \A p \in Slot : Awaited(p) ~> (~InWait(p) \/ Circle)
=============================================================================
