------------------------------- MODULE Sched -------------------------------
(***************************************************************************)
(* Spin locks, interrupts, the scheduler and sleep/wakeup: spinlock.c and  *)
(* the second half of proc.c, on several CPUs.                             *)
(*                                                                         *)
(* Each CPU runs either its scheduler or the kernel thread of a process.   *)
(* The processes share one condition, ready, protected by a lock lk, and   *)
(* use it the way all of the kernel uses sleep and wakeup:                 *)
(*    acquire(lk); while(!ready) sleep(chan, lk); ready = 0; release(lk)   *)
(*    acquire(lk); ready = 1; wakeup(chan); release(lk)                    *)
(* A step is what a CPU does between two points where it may have to spin. *)
(***************************************************************************)
EXTENDS Integers, FiniteSets

CONSTANTS NPROC, Cpu,
          None  \* no process, no CPU

ASSUME SchedAssumption ==
  /\ NPROC \in Nat \ {0}
  /\ None \notin Cpu
  /\ None \notin 1..NPROC

Proc == 1..NPROC

VARIABLES
  state, chan,  \* p->state; 1 while p->chan is the channel
  plock, lk,    \* which CPU holds p->lock, and the lock of the condition
  ready,        \* the condition
  cpu,          \* struct cpu: proc, noff, intena; and the SIE bit
  run,          \* the process whose kernel stack the CPU is on, or None
  idx,          \* the scheduler's position in the process table
  pc, ret,      \* each kernel thread, and where sched() returns to
  saved,        \* sched()'s local intena
  visit         \* the processes wakeup() has still to look at

vars == <<state, chan, plock, lk, ready, cpu, run, idx, pc, ret, saved, visit>>

Init ==
  /\ state = [p \in Proc |-> "RUNNABLE"]
  /\ chan = [p \in Proc |-> 0]
  /\ plock = [p \in Proc |-> None]
  /\ lk = None
  /\ ready = 0
  /\ cpu = [c \in Cpu |-> [proc |-> None, noff |-> 0, intena |-> 0, sie |-> 0]]
  /\ run = [c \in Cpu |-> None]
  /\ idx = [c \in Cpu |-> 1]
  /\ pc = [p \in Proc |-> "forkret"]
  /\ ret = [p \in Proc |-> "run"]
  /\ saved = [p \in Proc |-> 0]
  /\ visit = [p \in Proc |-> {}]

-----------------------------------------------------------------------------
(* spinlock.c.                                                             *)

\* Mutant: push_off does not remember whether interrupts were on.
PushOffForgets(k) == [k EXCEPT !.sie = 0, !.noff = @ + 1, !.intena = 0]

push_off(k) ==
  [k EXCEPT !.sie = 0,
            !.noff = @ + 1,
            !.intena = IF k.noff = 0 THEN k.sie ELSE @]

pop_off(k) ==
  [k EXCEPT !.noff = @ - 1,
            !.sie = IF k.noff = 1 /\ k.intena = 1 THEN 1 ELSE @]

Next1(i) == IF i = NPROC THEN 1 ELSE i + 1

-----------------------------------------------------------------------------
(* The scheduler.                                                          *)

\* Mutant: the chosen process stays RUNNABLE.
scheduler_norun(c) ==
  LET p == idx[c]
  IN /\ run[c] = None /\ cpu[c].proc = None
     /\ plock[p] = None
     /\ IF state[p] = "RUNNABLE"
        THEN /\ plock' = [plock EXCEPT ![p] = c]
             /\ cpu' = [cpu EXCEPT ![c] = [push_off(@) EXCEPT !.proc = p]]
             /\ run' = [run EXCEPT ![c] = p]
             /\ UNCHANGED idx
        ELSE /\ idx' = [idx EXCEPT ![c] = Next1(p)]
             /\ UNCHANGED <<plock, cpu, run>>
     /\ UNCHANGED <<state, chan, lk, ready, pc, ret, saved, visit>>

\* One round of its loop: p->lock is taken, and kept if p is to run.
scheduler(c) ==
  LET p == idx[c]
  IN /\ run[c] = None /\ cpu[c].proc = None
     /\ plock[p] = None
     /\ IF state[p] = "RUNNABLE"
        THEN /\ plock' = [plock EXCEPT ![p] = c]
             /\ state' = [state EXCEPT ![p] = "RUNNING"]
             /\ cpu' = [cpu EXCEPT ![c] = [push_off(@) EXCEPT !.proc = p]]
             /\ run' = [run EXCEPT ![c] = p]
             /\ UNCHANGED idx
        ELSE /\ idx' = [idx EXCEPT ![c] = Next1(p)]
             /\ UNCHANGED <<plock, state, cpu, run>>
     /\ UNCHANGED <<chan, lk, ready, pc, ret, saved, visit>>

\* Back from swtch: c->proc = 0, c->intena = 0, release(&p->lock).
scheduler_back(c) ==
  LET p == cpu[c].proc
  IN /\ run[c] = None /\ p # None
     /\ plock' = [plock EXCEPT ![p] = None]
     /\ cpu' = [cpu EXCEPT ![c] = pop_off([@ EXCEPT !.proc = None, !.intena = 0])]
     /\ idx' = [idx EXCEPT ![c] = Next1(p)]
     /\ UNCHANGED <<state, chan, lk, ready, run, pc, ret, saved, visit>>

\* sched(): the tests, then swtch to the CPU's scheduler.
sched(c) ==
  LET p == run[c]
  IN /\ p # None /\ pc[p] = "sched"
     /\ IF /\ plock[p] = c /\ cpu[c].noff = 1
           /\ state[p] # "RUNNING" /\ cpu[c].sie = 0
        THEN /\ saved' = [saved EXCEPT ![p] = cpu[c].intena]
             /\ run' = [run EXCEPT ![c] = None]
             /\ pc' = [pc EXCEPT ![p] = "resume"]
        ELSE /\ pc' = [pc EXCEPT ![p] = "panic"]
             /\ UNCHANGED <<saved, run>>
     /\ UNCHANGED <<state, chan, plock, lk, ready, cpu, idx, ret, visit>>

\* A process runs again: sched() restores intena, sleep() clears p->chan,
\* p->lock is released.  yield() was called from a trap, whose return turns
\* interrupts on again.
resume(c) ==
  LET p == run[c]
  IN /\ p # None /\ pc[p] = "resume"
     /\ plock' = [plock EXCEPT ![p] = None]
     /\ chan' = [chan EXCEPT ![p] = IF ret[p] = "slept" THEN 0 ELSE @]
     /\ cpu' = [cpu EXCEPT ![c] =
                  LET k == pop_off([@ EXCEPT !.intena = saved[p]])
                  IN IF ret[p] = "slept" THEN k ELSE [k EXCEPT !.sie = 1]]
     /\ pc' = [pc EXCEPT ![p] = IF ret[p] = "slept" THEN "awake" ELSE ret[p]]
     /\ UNCHANGED <<state, lk, ready, run, idx, ret, saved, visit>>

\* The first time: forkret, and on to user space.
forkret(c) ==
  LET p == run[c]
  IN /\ p # None /\ pc[p] = "forkret"
     /\ plock' = [plock EXCEPT ![p] = None]
     /\ cpu' = [cpu EXCEPT ![c] = [pop_off(@) EXCEPT !.sie = 1]]
     /\ pc' = [pc EXCEPT ![p] = "run"]
     /\ UNCHANGED <<state, chan, lk, ready, run, idx, ret, saved, visit>>

\* A timer interrupt, possible wherever interrupts are on: kerneltrap, or
\* usertrap, calls yield(), with interrupts off.
yield(c) ==
  LET p == run[c]
  IN /\ p # None /\ cpu[c].sie = 1 /\ state[p] = "RUNNING"
     /\ plock[p] = None
     /\ plock' = [plock EXCEPT ![p] = c]
     /\ state' = [state EXCEPT ![p] = "RUNNABLE"]
     /\ cpu' = [cpu EXCEPT ![c] = push_off([@ EXCEPT !.sie = 0])]
     /\ pc' = [pc EXCEPT ![p] = "sched"]
     /\ ret' = [ret EXCEPT ![p] = pc[p]]
     /\ UNCHANGED <<chan, lk, ready, run, idx, saved, visit>>

-----------------------------------------------------------------------------
(* The users of the condition.                                             *)

\* acquire(lk): interrupts go off, then the CPU spins.
push(c, from, to) ==
  LET p == run[c]
  IN /\ p # None /\ pc[p] \in from
     /\ cpu' = [cpu EXCEPT ![c] = push_off(@)]
     /\ pc' = [pc EXCEPT ![p] = to]
     /\ UNCHANGED <<state, chan, plock, lk, ready, run, idx, ret, saved, visit>>

acquire(c, from, to) ==
  LET p == run[c]
  IN /\ p # None /\ pc[p] = from /\ lk = None
     /\ lk' = c
     /\ pc' = [pc EXCEPT ![p] = to]
     /\ UNCHANGED <<state, chan, plock, ready, cpu, run, idx, ret, saved, visit>>

\* The loop ends: the condition is used up, and lk released.
consume(c) ==
  LET p == run[c]
  IN /\ p # None /\ pc[p] = "test" /\ ready = 1
     /\ ready' = 0
     /\ lk' = None
     /\ cpu' = [cpu EXCEPT ![c] = pop_off(@)]
     /\ pc' = [pc EXCEPT ![p] = "run"]
     /\ UNCHANGED <<state, chan, plock, run, idx, ret, saved, visit>>

\* sleep(chan, lk): p->lock, then release(lk), then asleep.
sleep(c) ==
  LET p == run[c]
  IN /\ p # None /\ pc[p] = "test" /\ ready = 0
     /\ plock[p] = None
     /\ plock' = [plock EXCEPT ![p] = c]
     /\ lk' = None
     /\ cpu' = [cpu EXCEPT ![c] = pop_off(push_off(@))]
     /\ chan' = [chan EXCEPT ![p] = 1]
     /\ state' = [state EXCEPT ![p] = "SLEEPING"]
     /\ pc' = [pc EXCEPT ![p] = "sched"]
     /\ ret' = [ret EXCEPT ![p] = "slept"]
     /\ UNCHANGED <<ready, run, idx, saved, visit>>

\* Mutant: wakeup stops one short of the last process.
set_short(c) ==
  LET p == run[c]
  IN /\ p # None /\ pc[p] = "set"
     /\ ready' = 1
     /\ visit' = [visit EXCEPT ![p] = 1..(NPROC - 1)]
     /\ pc' = [pc EXCEPT ![p] = "wakeup"]
     /\ UNCHANGED <<state, chan, plock, lk, cpu, run, idx, ret, saved>>

\* The other side: ready = 1, then wakeup(chan) visits every process.
set(c) ==
  LET p == run[c]
  IN /\ p # None /\ pc[p] = "set"
     /\ ready' = 1
     /\ visit' = [visit EXCEPT ![p] = Proc]
     /\ pc' = [pc EXCEPT ![p] = "wakeup"]
     /\ UNCHANGED <<state, chan, plock, lk, cpu, run, idx, ret, saved>>

\* acquire(&q->lock), test, release(&q->lock), for the next q of the table.
wakeup(c) ==
  LET p == run[c]
  IN /\ p # None /\ pc[p] = "wakeup"
     /\ \E q \in visit[p] :
          /\ \A r \in visit[p] : q <= r
          /\ plock[q] = None
          /\ state' = [state EXCEPT ![q] =
                         IF @ = "SLEEPING" /\ chan[q] = 1 THEN "RUNNABLE" ELSE @]
          /\ visit' = [visit EXCEPT ![p] = @ \ {q}]
     /\ UNCHANGED <<chan, plock, lk, ready, cpu, run, idx, pc, ret, saved>>

wakeup_done(c) ==
  LET p == run[c]
  IN /\ p # None /\ pc[p] = "wakeup" /\ visit[p] = {}
     /\ lk' = None
     /\ cpu' = [cpu EXCEPT ![c] = pop_off(@)]
     /\ pc' = [pc EXCEPT ![p] = "run"]
     /\ UNCHANGED <<state, chan, plock, ready, run, idx, ret, saved, visit>>

\* kill(): wakes a sleeper whatever it waits for.
kill(c, q) ==
  LET p == run[c]
  IN /\ p # None /\ pc[p] = "run" /\ plock[q] = None
     /\ state[q] = "SLEEPING"
     /\ state' = [state EXCEPT ![q] = "RUNNABLE"]
     /\ UNCHANGED <<chan, plock, lk, ready, cpu, run, idx, pc, ret, saved, visit>>

-----------------------------------------------------------------------------
\* What a CPU does until the next interrupt ...
Work(c) ==
  \/ scheduler(c) \/ scheduler_back(c) \/ sched(c) \/ resume(c) \/ forkret(c)
  \/ push(c, {"awake"}, "spin_wait")
  \/ acquire(c, "spin_wait", "test")
  \/ acquire(c, "spin_set", "set")
  \/ consume(c) \/ sleep(c)
  \/ set(c) \/ wakeup(c) \/ wakeup_done(c)

\* ... and what a process may ask for.
Call(c) ==
  \/ push(c, {"run"}, "spin_wait")
  \/ push(c, {"run"}, "spin_set")
  \/ \E q \in Proc : kill(c, q)

Next == \E c \in Cpu : Work(c) \/ Call(c) \/ yield(c)

Spec == Init /\ [][Next]_vars

\* Every CPU keeps executing; one that spins for a lock that comes free again
\* and again gets it; a timer keeps ticking, and an interrupt that arrives
\* while interrupts are off stays pending until they are on.
FairSpec ==
  /\ Spec
  /\ \A c \in Cpu :
       /\ WF_vars(Work(c))
       /\ SF_vars(scheduler(c))
       /\ SF_vars(wakeup(c))
       /\ SF_vars(acquire(c, "spin_wait", "test") \/ acquire(c, "spin_set", "set"))
       /\ SF_vars(yield(c))

-----------------------------------------------------------------------------
(* Properties.                                                             *)

\* The fields of struct proc and struct cpu keep their types; no CPU nests
\* more than two locks, and the scheduler's index stays in the table.
TypeOK ==
  /\ state \in [Proc -> {"RUNNABLE", "RUNNING", "SLEEPING"}]
  /\ chan \in [Proc -> {0, 1}]
  /\ plock \in [Proc -> Cpu \cup {None}]
  /\ lk \in Cpu \cup {None}
  /\ ready \in {0, 1}
  /\ cpu \in [Cpu -> [proc : Proc \cup {None}, noff : 0..2,
                      intena : {0, 1}, sie : {0, 1}]]
  /\ run \in [Cpu -> Proc \cup {None}]
  /\ idx \in [Cpu -> Proc]
  /\ pc \in [Proc -> {"forkret", "resume", "sched", "run", "awake", "spin_wait",
                      "spin_set", "test", "set", "wakeup", "panic"}]
  /\ ret \in [Proc -> {"run", "awake", "slept"}]
  /\ saved \in [Proc -> {0, 1}]
  /\ visit \in [Proc -> SUBSET Proc]

\* No two CPUs are ever on one kernel stack, and a RUNNING process is on
\* one: p->lock, held across swtch, keeps a process that has just made itself
\* RUNNABLE or SLEEPING from being run before its registers are saved.
OneStackOneCpu ==
  /\ \A c, d \in Cpu : run[c] = run[d] /\ run[c] # None => c = d
  /\ \A p \in Proc : state[p] = "RUNNING" => \E c \in Cpu : run[c] = p

\* sched()'s four tests never fail, and every other panic of spinlock.c is
\* out of reach: a CPU counts exactly the locks it holds or spins for, keeps
\* interrupts off while it does, and turns them on again afterwards.
LocksHeld(c) == {p \in Proc : plock[p] = c}
Spinning(c) == run[c] # None /\ pc[run[c]] \in {"spin_wait", "spin_set"}
InterruptsMatch ==
  /\ \A p \in Proc : pc[p] # "panic"
  /\ \A c \in Cpu :
       /\ cpu[c].noff = Cardinality(LocksHeld(c))
                        + (IF lk = c \/ Spinning(c) THEN 1 ELSE 0)
       /\ cpu[c].noff > 0 => cpu[c].sie = 0
       /\ run[c] # None /\ cpu[c].noff = 0 => cpu[c].sie = 1

\* No wakeup is lost: while the condition holds, whoever sleeps is still to
\* be visited by a process that is in wakeup().
NoLostWakeup ==
  \A p \in Proc :
    ready = 1 /\ state[p] = "SLEEPING"
      => \E q \in Proc : pc[q] = "wakeup" /\ p \in visit[q]

\* The same over time: a condition that becomes true ends every sleep.
Asleep(p) == state[p] = "SLEEPING"
SleepersWake == \A p \in Proc : (ready = 1 /\ Asleep(p)) ~> ~Asleep(p)

\* The scheduler's loop starves no one.
RunnablesRun == \A p \in Proc : state[p] = "RUNNABLE" ~> state[p] = "RUNNING"
=============================================================================
