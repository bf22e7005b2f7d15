---------------------------- MODULE SchedProofs ----------------------------
(***************************************************************************)
(* The properties of Sched for any number of processes and CPUs.           *)
(*                                                                         *)
(* A process is in the hands of at most one CPU: the one whose cpu.proc    *)
(* names it, from the scheduler's choice until the scheduler is back and   *)
(* has released p->lock.  SInv says what holds at each point of that time  *)
(* of the lock, the state, the count of locks and the interrupt bits.      *)
(***************************************************************************)
EXTENDS Sched, TLAPS

Kernel == [proc : Proc \cup {None}, noff : 0..2, intena : {0, 1}, sie : {0, 1}]
Critical == {"test", "set", "wakeup"}
Spins == {"spin_wait", "spin_set"}

\* A CPU is on the stack of its own process, and no two have the same one.
OwnInv ==
  /\ \A c \in Cpu : run[c] # None => cpu[c].proc = run[c]
  /\ \A c, d \in Cpu : cpu[c].proc = cpu[d].proc /\ cpu[c].proc # None => c = d

\* A process that no CPU has is not RUNNING and will go on in swtch; only the
\* CPU that has a process holds its lock.
ProcInv ==
  \A p \in Proc :
    /\ (\A c \in Cpu : cpu[c].proc # p) =>
         plock[p] = None /\ state[p] # "RUNNING" /\ pc[p] \in {"forkret", "resume"}
    /\ \A c \in Cpu : plock[p] = c => cpu[c].proc = p
    /\ state[p] = "SLEEPING" => chan[p] = 1
    /\ pc[p] = "resume" /\ ret[p] = "slept" => saved[p] = 1
    /\ pc[p] # "panic"

\* What a CPU holds when it has its process's lock, and when it has not.
Held(c, p) == plock[p] = c /\ cpu[c].noff = 1 /\ cpu[c].sie = 0
Busy(p) == plock[p] = None /\ state[p] = "RUNNING"

CpuOK(c) ==
  LET p == cpu[c].proc IN
  /\ p = None => run[c] = None /\ cpu[c].noff = 0 /\ cpu[c].sie = 0
  /\ p # None /\ run[c] = None => Held(c, p) /\ state[p] # "RUNNING" /\ pc[p] = "resume"
  /\ p # None /\ run[c] = p =>
       /\ pc[p] = "sched" => /\ Held(c, p) /\ state[p] # "RUNNING"
                             /\ ret[p] = "slept" => cpu[c].intena = 1
       /\ pc[p] \in {"forkret", "resume"} => Held(c, p) /\ state[p] = "RUNNING"
       /\ pc[p] \in {"run", "awake"} => Busy(p) /\ cpu[c].noff = 0 /\ cpu[c].sie = 1
       /\ pc[p] \in Spins \cup Critical =>
            Busy(p) /\ cpu[c].noff = 1 /\ cpu[c].sie = 0 /\ cpu[c].intena = 1
  /\ lk = c <=> run[c] # None /\ pc[run[c]] \in Critical

SInv == TypeOK /\ OwnInv /\ ProcInv /\ (\A c \in Cpu : CpuOK(c)) /\ NoLostWakeup

\* CpuOK speaks of these variables only.
LEMMA SameCpuOK ==
  ASSUME NEW c \in Cpu, CpuOK(c), UNCHANGED <<cpu, run, plock, state, pc, ret, lk>>
  PROVE  CpuOK(c)'
  <1>1. \A p : Held(c, p)' = Held(c, p) /\ Busy(p)' = Busy(p)
    BY DEF Held, Busy
  <1> QED
    BY <1>1, ZenonT(30) DEF CpuOK

-----------------------------------------------------------------------------
(* push_off and pop_off, field by field.                                   *)

\* push_off turns interrupts off and remembers, at the outermost level only,
\* whether they were on.
LEMMA PushOff ==
  ASSUME NEW k \in Kernel, k.noff \in 0..1
  PROVE  /\ push_off(k) \in Kernel
         /\ push_off(k).proc = k.proc
         /\ push_off(k).noff = k.noff + 1
         /\ push_off(k).sie = 0
         /\ push_off(k).intena = IF k.noff = 0 THEN k.sie ELSE k.intena
  <1> DEFINE i == IF k.noff = 0 THEN k.sie ELSE k.intena
             k1 == [k EXCEPT !.sie = 0]
             k2 == [k1 EXCEPT !.noff = k.noff + 1]
             k3 == [k2 EXCEPT !.intena = i]
  <1>1. k.sie \in {0, 1} /\ k.intena \in {0, 1} /\ k1 \in Kernel /\ k1.proc = k.proc /\ k1.sie = 0
    BY DEF Kernel
  <1>2. i \in {0, 1}
    BY <1>1
  <1> HIDE DEF k1, i
  <1>3. k2 \in Kernel /\ k2.proc = k.proc /\ k2.sie = 0 /\ k2.noff = k.noff + 1
    BY <1>1 DEF Kernel
  <1> HIDE DEF k2
  <1>4. k3 \in Kernel /\ k3.proc = k.proc /\ k3.sie = 0 /\ k3.noff = k.noff + 1 /\ k3.intena = i
    BY <1>2, <1>3 DEF Kernel
  <1>5. push_off(k) = k3
    BY DEF push_off, k1, k2, i
  <1> QED
    BY <1>4, <1>5 DEF i

\* pop_off turns interrupts on again at the outermost level, if they were on.
LEMMA PopOff ==
  ASSUME NEW k \in Kernel, k.noff \in 1..2
  PROVE  /\ pop_off(k) \in Kernel
         /\ pop_off(k).proc = k.proc
         /\ pop_off(k).noff = k.noff - 1
         /\ pop_off(k).sie = IF k.noff = 1 /\ k.intena = 1 THEN 1 ELSE k.sie
         /\ pop_off(k).intena = k.intena
  <1> DEFINE e == IF k.noff = 1 /\ k.intena = 1 THEN 1 ELSE k.sie
             k1 == [k EXCEPT !.noff = k.noff - 1]
             k2 == [k1 EXCEPT !.sie = e]
  <1>1. k.sie \in {0, 1} /\ k1 \in Kernel /\ k1.proc = k.proc /\ k1.noff = k.noff - 1
        /\ k1.intena = k.intena
    BY DEF Kernel
  <1>2. e \in {0, 1}
    BY <1>1
  <1> HIDE DEF k1, e
  <1>3. k2 \in Kernel /\ k2.proc = k.proc /\ k2.noff = k.noff - 1 /\ k2.intena = k.intena
        /\ k2.sie = e
    BY <1>1, <1>2 DEF Kernel
  <1>4. pop_off(k) = k2
    BY DEF pop_off, k1, e
  <1> QED
    BY <1>3, <1>4 DEF e

-----------------------------------------------------------------------------
(* The inductive invariant.                                                *)

\* No process is with a CPU at first.
LEMMA InitSInv == Init => SInv
  <1> SUFFICES ASSUME Init PROVE SInv
    OBVIOUS
  <1> USE SchedAssumption DEF Init, Proc
  <1>1. TypeOK
    BY DEF TypeOK
  <1>2. OwnInv /\ ProcInv
    BY DEF OwnInv, ProcInv
  <1>3. \A c \in Cpu : CpuOK(c)
    BY DEF CpuOK, Held, Busy, Spins, Critical
  <1>4. NoLostWakeup
    BY DEF NoLostWakeup
  <1> QED
    BY <1>1, <1>2, <1>3, <1>4 DEF SInv

\* The CPU that has a process holds its lock, or runs it.
LEMMA LockedOrRunning ==
  ASSUME SInv, NEW c \in Cpu, NEW p \in Proc, cpu[c].proc = p
  PROVE  plock[p] = c \/ (plock[p] = None /\ state[p] = "RUNNING" /\ run[c] = p)
  <1>1. p # None /\ CpuOK(c) /\ (run[c] = None \/ run[c] = p) /\ pc[p] # "panic"
    BY SchedAssumption DEF SInv, OwnInv, ProcInv, Proc
  <1>2. CASE run[c] = None
    BY <1>1, <1>2 DEF CpuOK, Held
  <1>3. CASE run[c] = p
    <2>1. pc[p] \in {"sched", "forkret", "resume", "run", "awake"} \cup Spins \cup Critical
      BY <1>1 DEF SInv, TypeOK, Spins, Critical
    <2> QED
      BY <1>1, <1>3, <2>1 DEF CpuOK, Held, Busy
  <1> QED
    BY <1>1, <1>2, <1>3

\* A step of one CPU leaves CpuOK of another as it is, when it does not touch
\* the other's process.
LEMMA OtherCpu ==
  ASSUME SInv, NEW d \in Cpu, cpu'[d] = cpu[d], run'[d] = run[d], lk' = d <=> lk = d,
         LET q == cpu[d].proc
         IN q # None => plock'[q] = plock[q] /\ state'[q] = state[q] /\ pc'[q] = pc[q] /\ ret'[q] = ret[q]
  PROVE  CpuOK(d)'
  <1>1. CpuOK(d) /\ (run[d] # None => cpu[d].proc = run[d])
    BY DEF SInv, OwnInv
  <1> QED
    BY <1>1 DEF CpuOK, Held, Busy

\* scheduler: the process it takes is with no CPU, since it is RUNNABLE and
\* its lock is free.
LEMMA SchedulerStep ==
  ASSUME SInv, NEW c \in Cpu, scheduler(c)
  PROVE  SInv'
  <1> DEFINE p == idx[c]
  <1> USE SchedAssumption DEF Proc
  <1>1. p \in Proc /\ cpu[c] \in Kernel /\ CpuOK(c)
    BY DEF SInv, TypeOK, Kernel
  <1>2. CASE state[p] = "RUNNABLE"
    <2> DEFINE k == push_off(cpu[c])
               kp == [k EXCEPT !.proc = p]
    <2>1. run[c] = None /\ cpu[c].proc = None /\ cpu[c].noff = 0 /\ plock[p] = None
      BY <1>1 DEF scheduler, CpuOK
    <2>2. k \in Kernel /\ k.noff = 1 /\ k.sie = 0
      BY <1>1, <2>1, PushOff
    <2> HIDE DEF k
    <2>3. kp \in Kernel /\ kp.proc = p /\ kp.noff = 1 /\ kp.sie = 0
      BY <1>1, <2>2 DEF Kernel
    <2>4. /\ plock' = [plock EXCEPT ![p] = c] /\ state' = [state EXCEPT ![p] = "RUNNING"]
          /\ cpu' = [cpu EXCEPT ![c] = kp] /\ run' = [run EXCEPT ![c] = p]
          /\ UNCHANGED <<idx, chan, lk, ready, pc, ret, saved, visit>>
      BY <1>2 DEF scheduler, k
    <2> HIDE DEF kp
    <2>5. \A d \in Cpu : cpu[d].proc # p
      BY <1>1, <1>2, <2>1, LockedOrRunning
    <2>6. TypeOK'
      BY <1>1, <2>3, <2>4 DEF SInv, TypeOK, Kernel
    <2>7. OwnInv'
      BY <1>1, <2>1, <2>3, <2>4, <2>5 DEF SInv, TypeOK, OwnInv
    <2>8. ProcInv'
      BY <1>1, <2>1, <2>3, <2>4, <2>5 DEF SInv, TypeOK, ProcInv
    <2>9. ASSUME NEW d \in Cpu PROVE CpuOK(d)'
      <3>1. CASE d # c
        BY <1>1, <2>4, <2>5, <3>1, OtherCpu DEF SInv, TypeOK, Kernel
      <3>2. CASE d = c
        <4>1. cpu'[c] = kp /\ run'[c] = p /\ plock'[p] = c /\ state'[p] = "RUNNING" /\ p # None
          BY <1>1, <2>4 DEF SInv, TypeOK
        <4>2. pc'[p] \in {"forkret", "resume"} /\ lk' # c
          BY <1>1, <2>1, <2>4, <2>5 DEF SInv, ProcInv, CpuOK
        <4> QED
          BY <2>3, <3>2, <4>1, <4>2 DEF CpuOK, Held, Spins, Critical
      <3> QED
        BY <3>1, <3>2
    <2>10. NoLostWakeup'
      BY <1>1, <2>4 DEF SInv, TypeOK, NoLostWakeup
    <2> QED
      BY <2>6, <2>7, <2>8, <2>9, <2>10 DEF SInv
  <1>3. CASE state[p] # "RUNNABLE"
    <2>1. UNCHANGED <<plock, state, cpu, run, chan, lk, ready, pc, ret, saved, visit>>
          /\ idx' = [idx EXCEPT ![c] = Next1(p)]
      BY <1>3 DEF scheduler
    <2>2. Next1(p) \in Proc
      BY <1>1 DEF Next1
    <2>3. TypeOK'
      BY <2>1, <2>2, SMTT(30) DEF SInv, TypeOK
    <2>4. OwnInv' /\ ProcInv' /\ NoLostWakeup' /\ \A d \in Cpu : CpuOK(d)'
      BY <2>1 DEF SInv, OwnInv, ProcInv, NoLostWakeup, CpuOK, Held, Busy
    <2> QED
      BY <2>3, <2>4 DEF SInv
  <1> QED
    BY <1>2, <1>3

-----------------------------------------------------------------------------
(* Steps of the CPU that has a process.                                    *)

\* On a process's stack, the CPU has that process.
LEMMA OnStack ==
  ASSUME SInv, NEW c \in Cpu, run[c] # None
  PROVE  run[c] \in Proc /\ cpu[c].proc = run[c] /\ cpu[c] \in Kernel /\ CpuOK(c)
  BY DEF SInv, TypeOK, OwnInv, Kernel

\* A step that changes nothing of the other CPUs and the other processes.
OnlyOf(c, p) ==
  /\ \A d \in Cpu \ {c} : cpu'[d] = cpu[d] /\ run'[d] = run[d]
  /\ \A q \in Proc \ {p} : /\ plock'[q] = plock[q] /\ state'[q] = state[q]
                           /\ chan'[q] = chan[q] /\ pc'[q] = pc[q]
                           /\ ret'[q] = ret[q] /\ saved'[q] = saved[q]

\* A step of the CPU that has p changes no other process and no other CPU:
\* what remains to be shown of it is about p, that CPU and the condition.
LEMMA OwnStep ==
  ASSUME SInv, TypeOK', NEW c \in Cpu, NEW p \in Proc,
         cpu[c].proc = p, cpu'[c].proc = p, run'[c] \in {None, p},
         OnlyOf(c, p), plock'[p] \in {None, c},
         state'[p] = "SLEEPING" => chan'[p] = 1,
         pc'[p] = "resume" /\ ret'[p] = "slept" => saved'[p] = 1,
         pc'[p] # "panic",
         lk' = lk \/ (lk \in {None, c} /\ lk' \in {None, c}),
         CpuOK(c)', NoLostWakeup'
  PROVE  SInv'
  <1> USE SchedAssumption DEF OnlyOf
  <1>1. \A d \in Cpu : cpu'[d].proc = cpu[d].proc
    OBVIOUS
  <1>2. OwnInv'
    BY <1>1 DEF SInv, OwnInv, Proc
  <1>3. ProcInv'
    BY <1>1 DEF SInv, ProcInv
  <1>4. ASSUME NEW d \in Cpu PROVE CpuOK(d)'
    <2>1. CASE d # c
      <3>1. cpu[d].proc # p /\ cpu[d].proc \in Proc \cup {None} /\ (lk' = d <=> lk = d)
        BY <2>1 DEF SInv, TypeOK, OwnInv, Proc
      <3> QED
        BY <2>1, <3>1, OtherCpu
    <2> QED
      BY <2>1
  <1> QED
    BY <1>2, <1>3, <1>4 DEF SInv

\* sched: its four tests hold, and p->lock stays with the CPU over swtch.
LEMMA SchedStep ==
  ASSUME SInv, NEW c \in Cpu, sched(c)
  PROVE  SInv'
  <1> DEFINE p == run[c]
  <1>1. p # None /\ p \in Proc /\ pc[p] = "sched" /\ cpu[c].proc = p /\ cpu[c] \in Kernel /\ CpuOK(c)
    BY OnStack DEF sched
  <1>2. Held(c, p) /\ state[p] # "RUNNING" /\ (ret[p] = "slept" => cpu[c].intena = 1) /\ lk # c
    BY <1>1 DEF CpuOK, Critical
  <1>3. /\ saved' = [saved EXCEPT ![p] = cpu[c].intena] /\ run' = [run EXCEPT ![c] = None]
        /\ pc' = [pc EXCEPT ![p] = "resume"]
        /\ UNCHANGED <<state, chan, plock, lk, ready, cpu, idx, ret, visit>>
    BY <1>2 DEF sched, Held
  <1> HIDE DEF p
  <1>4. TypeOK'
    BY <1>1, <1>3 DEF SInv, TypeOK, Kernel
  <1>5. CpuOK(c)'
    <2>1. run'[c] = None /\ pc'[p] = "resume" /\ cpu' = cpu /\ plock' = plock /\ state' = state /\ lk' # c
      BY <1>1, <1>2, <1>3 DEF SInv, TypeOK
    <2> QED
      BY <1>1, <1>2, <2>1 DEF CpuOK, Held
  <1>6. NoLostWakeup'
    BY <1>1, <1>3 DEF SInv, TypeOK, NoLostWakeup
  <1>7. saved'[p] = cpu[c].intena /\ pc'[p] = "resume" /\ run'[c] = None
    BY <1>1, <1>3 DEF SInv, TypeOK
  <1>8. OnlyOf(c, p)
    BY <1>3 DEF SInv, TypeOK, OnlyOf
  <1>9. state'[p] = "SLEEPING" => chan'[p] = 1
    BY <1>1, <1>3 DEF SInv, ProcInv
  <1> QED
    BY <1>1, <1>2, <1>3, <1>4, <1>5, <1>6, <1>7, <1>8, <1>9, OwnStep DEF Held

\* resume: intena is what it was when p called sched, so that interrupts are
\* on again once p->lock is released.
LEMMA ResumeStep ==
  ASSUME SInv, NEW c \in Cpu, resume(c)
  PROVE  SInv'
  <1> DEFINE p == run[c]
             k == [cpu[c] EXCEPT !.intena = saved[p]]
             kp == pop_off(k)
             ks == [kp EXCEPT !.sie = 1]
             kk == IF ret[p] = "slept" THEN kp ELSE ks
             to == IF ret[p] = "slept" THEN "awake" ELSE ret[p]
             ch == IF ret[p] = "slept" THEN 0 ELSE chan[p]
  <1>1. p # None /\ p \in Proc /\ pc[p] = "resume" /\ cpu[c].proc = p /\ cpu[c] \in Kernel /\ CpuOK(c)
    BY OnStack DEF resume
  <1>2. Held(c, p) /\ state[p] = "RUNNING" /\ lk # c /\ (ret[p] = "slept" => saved[p] = 1)
    BY <1>1 DEF SInv, ProcInv, CpuOK, Critical
  <1>3. /\ plock' = [plock EXCEPT ![p] = None] /\ chan' = [chan EXCEPT ![p] = ch]
        /\ cpu' = [cpu EXCEPT ![c] = kk] /\ pc' = [pc EXCEPT ![p] = to]
        /\ UNCHANGED <<state, lk, ready, run, idx, ret, saved, visit>>
    BY DEF resume
  <1>4. saved[p] \in {0, 1} /\ ret[p] \in {"run", "awake", "slept"} /\ chan[p] \in {0, 1}
    BY <1>1 DEF SInv, TypeOK
  <1>5. run[c] = p
    OBVIOUS
  <1> HIDE DEF p
  <1>6. k \in Kernel /\ k.proc = p /\ k.noff = 1 /\ k.intena = saved[p]
    BY <1>1, <1>2, <1>4 DEF Kernel, Held
  <1> HIDE DEF k
  <1>7. kp \in Kernel /\ kp.proc = p /\ kp.noff = 0 /\ (saved[p] = 1 => kp.sie = 1)
    BY <1>6, PopOff
  <1> HIDE DEF kp
  <1>8. ks \in Kernel /\ ks.proc = p /\ ks.noff = 0 /\ ks.sie = 1
    BY <1>7 DEF Kernel
  <1> HIDE DEF ks
  <1>9. kk \in Kernel /\ kk.proc = p /\ kk.noff = 0 /\ kk.sie = 1
    BY <1>2, <1>7, <1>8
  <1>10. to \in {"run", "awake"} /\ ch \in {0, 1}
    BY <1>4
  <1> HIDE DEF kk, to, ch
  <1>11. TypeOK'
    BY <1>1, <1>3, <1>9, <1>10 DEF SInv, TypeOK, Kernel
  <1>12. cpu'[c] = kk /\ run'[c] = p /\ pc'[p] = to /\ plock'[p] = None /\ state'[p] = "RUNNING"
    BY <1>1, <1>2, <1>3, <1>5, SMTT(30) DEF SInv, TypeOK
  <1>13. CpuOK(c)'
    BY <1>1, <1>2, <1>3, <1>9, <1>10, <1>12 DEF CpuOK, Busy, Spins, Critical
  <1>14. NoLostWakeup'
    BY <1>1, <1>3 DEF SInv, TypeOK, NoLostWakeup
  <1>15. OnlyOf(c, p)
    BY <1>3 DEF SInv, TypeOK, OnlyOf
  <1> QED
    BY <1>1, <1>3, <1>9, <1>10, <1>11, <1>12, <1>13, <1>14, <1>15, OwnStep

\* forkret: p->lock, held since the scheduler took p, is released.
LEMMA ForkretStep ==
  ASSUME SInv, NEW c \in Cpu, forkret(c)
  PROVE  SInv'
  <1> DEFINE p == run[c]
             kp == pop_off(cpu[c])
             ks == [kp EXCEPT !.sie = 1]
  <1>1. p # None /\ p \in Proc /\ pc[p] = "forkret" /\ cpu[c].proc = p /\ cpu[c] \in Kernel /\ CpuOK(c)
    BY OnStack DEF forkret
  <1>2. Held(c, p) /\ state[p] = "RUNNING" /\ lk # c
    BY <1>1 DEF CpuOK, Critical
  <1>3. /\ plock' = [plock EXCEPT ![p] = None] /\ cpu' = [cpu EXCEPT ![c] = ks]
        /\ pc' = [pc EXCEPT ![p] = "run"]
        /\ UNCHANGED <<state, chan, lk, ready, run, idx, ret, saved, visit>>
    BY DEF forkret
  <1>4. run[c] = p
    OBVIOUS
  <1> HIDE DEF p
  <1>5. kp \in Kernel /\ kp.proc = p /\ kp.noff = 0
    BY <1>1, <1>2, PopOff DEF Held
  <1> HIDE DEF kp
  <1>6. ks \in Kernel /\ ks.proc = p /\ ks.noff = 0 /\ ks.sie = 1
    BY <1>5 DEF Kernel
  <1> HIDE DEF ks
  <1>7. TypeOK'
    BY <1>1, <1>3, <1>6 DEF SInv, TypeOK, Kernel
  <1>8. cpu'[c] = ks /\ run'[c] = p /\ pc'[p] = "run" /\ plock'[p] = None /\ state'[p] = "RUNNING"
    BY <1>1, <1>2, <1>3, <1>4, SMTT(30) DEF SInv, TypeOK
  <1>9. CpuOK(c)'
    BY <1>1, <1>2, <1>3, <1>6, <1>8 DEF CpuOK, Busy, Spins, Critical
  <1>10. NoLostWakeup'
    BY <1>1, <1>3 DEF SInv, TypeOK, NoLostWakeup
  <1>11. OnlyOf(c, p)
    BY <1>3 DEF SInv, TypeOK, OnlyOf
  <1> QED
    BY <1>1, <1>3, <1>6, <1>7, <1>8, <1>9, <1>10, <1>11, OwnStep

\* yield: interrupts are on only where p holds no lock.
LEMMA YieldStep ==
  ASSUME SInv, NEW c \in Cpu, yield(c)
  PROVE  SInv'
  <1> DEFINE p == run[c]
             k == [cpu[c] EXCEPT !.sie = 0]
             kk == push_off(k)
  <1>1. p # None /\ p \in Proc /\ cpu[c].proc = p /\ cpu[c] \in Kernel /\ CpuOK(c) /\ cpu[c].sie = 1
    BY OnStack DEF yield
  <1>2. pc[p] \in {"run", "awake"}
    <2>1. pc[p] \in {"sched", "forkret", "resume", "run", "awake"} \cup Spins \cup Critical
      BY <1>1 DEF SInv, TypeOK, ProcInv, Spins, Critical
    <2> QED
      BY <1>1, <2>1 DEF CpuOK, Held
  <1>3. cpu[c].noff = 0 /\ lk # c
    BY <1>1, <1>2 DEF CpuOK, Critical
  <1>4. /\ plock' = [plock EXCEPT ![p] = c] /\ state' = [state EXCEPT ![p] = "RUNNABLE"]
        /\ cpu' = [cpu EXCEPT ![c] = kk] /\ pc' = [pc EXCEPT ![p] = "sched"]
        /\ ret' = [ret EXCEPT ![p] = pc[p]]
        /\ UNCHANGED <<chan, lk, ready, run, idx, saved, visit>>
    BY DEF yield
  <1>5. run[c] = p
    OBVIOUS
  <1> HIDE DEF p
  <1>6. k \in Kernel /\ k.proc = p /\ k.noff = 0
    BY <1>1, <1>3 DEF Kernel
  <1> HIDE DEF k
  <1>7. kk \in Kernel /\ kk.proc = p /\ kk.noff = 1 /\ kk.sie = 0
    BY <1>6, PushOff
  <1> HIDE DEF kk
  <1>8. TypeOK'
    BY <1>1, <1>2, <1>4, <1>7 DEF SInv, TypeOK, Kernel
  <1>9. /\ cpu'[c] = kk /\ run'[c] = p /\ pc'[p] = "sched" /\ plock'[p] = c
        /\ state'[p] = "RUNNABLE" /\ ret'[p] # "slept"
    BY <1>1, <1>2, <1>4, <1>5, SMTT(30) DEF SInv, TypeOK
  <1>10. CpuOK(c)'
    BY <1>1, <1>3, <1>4, <1>7, <1>9 DEF CpuOK, Held, Spins, Critical
  <1>11. NoLostWakeup'
    BY <1>1, <1>2, <1>4 DEF SInv, TypeOK, NoLostWakeup
  <1>12. OnlyOf(c, p)
    BY <1>4 DEF SInv, TypeOK, OnlyOf
  <1> QED
    BY <1>1, <1>4, <1>7, <1>8, <1>9, <1>10, <1>11, <1>12, OwnStep

\* push: a process with interrupts on begins to spin for lk with them off,
\* and intena remembers that they were on.
LEMMA PushStep ==
  ASSUME SInv, NEW c \in Cpu, NEW from \in SUBSET {"run", "awake"}, NEW to \in Spins,
         push(c, from, to)
  PROVE  SInv'
  <1> DEFINE p == run[c]
             kk == push_off(cpu[c])
  <1>1. p # None /\ p \in Proc /\ cpu[c].proc = p /\ cpu[c] \in Kernel /\ CpuOK(c)
        /\ pc[p] \in {"run", "awake"}
    BY OnStack, Zenon DEF push
  <1>2. Busy(p) /\ cpu[c].noff = 0 /\ cpu[c].sie = 1 /\ lk # c
    BY <1>1 DEF CpuOK, Critical
  <1>3. /\ cpu' = [cpu EXCEPT ![c] = kk] /\ pc' = [pc EXCEPT ![p] = to]
        /\ UNCHANGED <<state, chan, plock, lk, ready, run, idx, ret, saved, visit>>
    BY DEF push
  <1>4. run[c] = p
    OBVIOUS
  <1> HIDE DEF p
  <1>5. kk \in Kernel /\ kk.proc = p /\ kk.noff = 1 /\ kk.sie = 0 /\ kk.intena = 1
    BY <1>1, <1>2, PushOff
  <1> HIDE DEF kk
  <1>6. TypeOK'
    BY <1>1, <1>3, <1>5 DEF SInv, TypeOK, Kernel, Spins
  <1>7. cpu'[c] = kk /\ run'[c] = p /\ pc'[p] = to /\ plock'[p] = None /\ state'[p] = "RUNNING"
    BY <1>1, <1>2, <1>3, <1>4, SMTT(30) DEF SInv, TypeOK, Busy
  <1>8. CpuOK(c)'
    BY <1>1, <1>2, <1>3, <1>5, <1>7 DEF CpuOK, Busy, Spins, Critical
  <1>9. NoLostWakeup'
    BY <1>1, <1>3 DEF SInv, TypeOK, NoLostWakeup
  <1>10. OnlyOf(c, p)
    BY <1>3, SMTT(30) DEF SInv, TypeOK, OnlyOf
  <1> QED
    BY <1>1, <1>3, <1>5, <1>6, <1>7, <1>8, <1>9, <1>10, OwnStep DEF Spins

\* acquire: the CPU that spun has lk.
LEMMA AcquireStep ==
  ASSUME SInv, NEW c \in Cpu, NEW from \in Spins, NEW to \in {"test", "set"},
         acquire(c, from, to)
  PROVE  SInv'
  <1> DEFINE p == run[c]
  <1>1. p # None /\ p \in Proc /\ cpu[c].proc = p /\ cpu[c] \in Kernel /\ CpuOK(c)
        /\ pc[p] \in Spins /\ lk = None
    BY OnStack, SMTT(30) DEF acquire
  <1>2. Busy(p) /\ cpu[c].noff = 1 /\ cpu[c].sie = 0 /\ cpu[c].intena = 1
    BY <1>1 DEF CpuOK
  <1>3. /\ lk' = c /\ pc' = [pc EXCEPT ![p] = to]
        /\ UNCHANGED <<state, chan, plock, ready, cpu, run, idx, ret, saved, visit>>
    BY DEF acquire
  <1>4. run[c] = p
    OBVIOUS
  <1> HIDE DEF p
  <1>5. TypeOK'
    BY <1>1, <1>3 DEF SInv, TypeOK
  <1>6. cpu'[c] = cpu[c] /\ run'[c] = p /\ pc'[p] = to /\ plock'[p] = None /\ state'[p] = "RUNNING"
    BY <1>1, <1>2, <1>3, <1>4, SMTT(30) DEF SInv, TypeOK, Busy
  <1>7. CpuOK(c)'
    BY <1>1, <1>2, <1>3, <1>6 DEF CpuOK, Busy, Spins, Critical
  <1>8. NoLostWakeup'
    BY <1>1, <1>3 DEF SInv, TypeOK, NoLostWakeup, Spins
  <1>9. OnlyOf(c, p)
    BY <1>3 DEF SInv, TypeOK, OnlyOf
  <1> QED
    BY <1>1, <1>3, <1>5, <1>6, <1>7, <1>8, <1>9, OwnStep, SMTT(30)

\* set: the condition holds, and every process is still to be visited.
LEMMA SetStep ==
  ASSUME SInv, NEW c \in Cpu, set(c)
  PROVE  SInv'
  <1> DEFINE p == run[c]
  <1>1. p # None /\ p \in Proc /\ cpu[c].proc = p /\ CpuOK(c) /\ pc[p] = "set"
    BY OnStack, SMTT(30) DEF set
  <1>2. Busy(p) /\ cpu[c].noff = 1 /\ cpu[c].sie = 0 /\ cpu[c].intena = 1 /\ lk = c
    BY <1>1 DEF CpuOK, Critical
  <1>3. /\ ready' = 1 /\ visit' = [visit EXCEPT ![p] = Proc] /\ pc' = [pc EXCEPT ![p] = "wakeup"]
        /\ UNCHANGED <<state, chan, plock, lk, cpu, run, idx, ret, saved>>
    BY DEF set
  <1>4. run[c] = p
    OBVIOUS
  <1> HIDE DEF p
  <1>5. TypeOK'
    BY <1>1, <1>3 DEF SInv, TypeOK
  <1>6. cpu'[c] = cpu[c] /\ run'[c] = p /\ pc'[p] = "wakeup" /\ visit'[p] = Proc
        /\ plock'[p] = None /\ state'[p] = "RUNNING"
    BY <1>1, <1>2, <1>3, <1>4, SMTT(30) DEF SInv, TypeOK, Busy
  <1>7. CpuOK(c)'
    BY <1>1, <1>2, <1>3, <1>6 DEF CpuOK, Busy, Spins, Critical
  <1>8. NoLostWakeup'
    BY <1>1, <1>6 DEF NoLostWakeup
  <1>9. OnlyOf(c, p)
    BY <1>3, SMTT(30) DEF SInv, TypeOK, OnlyOf
  <1> QED
    BY <1>1, <1>3, <1>5, <1>6, <1>7, <1>8, <1>9, OwnStep, ZenonT(30)

\* consume: the condition is used up, so that a sleeper waits rightly.
LEMMA ConsumeStep ==
  ASSUME SInv, NEW c \in Cpu, consume(c)
  PROVE  SInv'
  <1> DEFINE p == run[c]
             kk == pop_off(cpu[c])
  <1>1. p # None /\ p \in Proc /\ cpu[c].proc = p /\ cpu[c] \in Kernel /\ CpuOK(c)
        /\ pc[p] = "test"
    BY OnStack DEF consume
  <1>2. Busy(p) /\ cpu[c].noff = 1 /\ cpu[c].sie = 0 /\ cpu[c].intena = 1 /\ lk = c
    BY <1>1 DEF CpuOK, Critical
  <1>3. /\ lk' = None /\ cpu' = [cpu EXCEPT ![c] = kk] /\ pc' = [pc EXCEPT ![p] = "run"]
        /\ ready' = 0 /\ UNCHANGED <<state, chan, plock, run, idx, ret, saved, visit>>
    BY DEF consume
  <1>4. run[c] = p /\ None \notin Cpu
    BY SchedAssumption
  <1> HIDE DEF p
  <1>5. kk \in Kernel /\ kk.proc = p /\ kk.noff = 0 /\ kk.sie = 1
    BY <1>1, <1>2, PopOff
  <1> HIDE DEF kk
  <1>6. TypeOK'
    BY <1>1, <1>3, <1>5 DEF SInv, TypeOK, Kernel
  <1>7. cpu'[c] = kk /\ run'[c] = p /\ pc'[p] = "run" /\ plock'[p] = None /\ state'[p] = "RUNNING"
    BY <1>1, <1>2, <1>3, <1>4, SMTT(30) DEF SInv, TypeOK, Busy
  <1>8. CpuOK(c)'
    BY <1>1, <1>3, <1>4, <1>5, <1>7 DEF CpuOK, Busy, Spins, Critical
  <1>9. NoLostWakeup'
    BY <1>3 DEF NoLostWakeup
  <1>10. OnlyOf(c, p)
    BY <1>3 DEF SInv, TypeOK, OnlyOf
  <1> QED
    BY <1>1, <1>2, <1>3, <1>5, <1>6, <1>7, <1>8, <1>9, <1>10, OwnStep, SMTT(30)

\* wakeup_done: it leaves no one unvisited.
LEMMA WakeupDoneStep ==
  ASSUME SInv, NEW c \in Cpu, wakeup_done(c)
  PROVE  SInv'
  <1> DEFINE p == run[c]
             kk == pop_off(cpu[c])
  <1>1. p # None /\ p \in Proc /\ cpu[c].proc = p /\ cpu[c] \in Kernel /\ CpuOK(c)
        /\ pc[p] = "wakeup" /\ visit[p] = {}
    BY OnStack DEF wakeup_done
  <1>2. Busy(p) /\ cpu[c].noff = 1 /\ cpu[c].sie = 0 /\ cpu[c].intena = 1 /\ lk = c
    BY <1>1, SMTT(30) DEF CpuOK, Critical
  <1>3. /\ lk' = None /\ cpu' = [cpu EXCEPT ![c] = kk] /\ pc' = [pc EXCEPT ![p] = "run"]
        /\ UNCHANGED <<state, chan, plock, ready, run, idx, ret, saved, visit>>
    BY SMTT(30) DEF wakeup_done
  <1>4. run[c] = p /\ None \notin Cpu
    BY SchedAssumption
  <1> HIDE DEF p
  <1>5. kk \in Kernel /\ kk.proc = p /\ kk.noff = 0 /\ kk.sie = 1
    BY <1>1, <1>2, PopOff
  <1> HIDE DEF kk
  <1>6. TypeOK'
    BY <1>1, <1>3, <1>5 DEF SInv, TypeOK, Kernel
  <1>7. cpu'[c] = kk /\ run'[c] = p /\ pc'[p] = "run" /\ plock'[p] = None /\ state'[p] = "RUNNING"
    BY <1>1, <1>2, <1>3, <1>4, SMTT(30) DEF SInv, TypeOK, Busy
  <1>8. CpuOK(c)'
    BY <1>1, <1>3, <1>4, <1>5, <1>7 DEF CpuOK, Busy, Spins, Critical
  <1>9. NoLostWakeup'
    BY <1>1, <1>3 DEF SInv, TypeOK, NoLostWakeup
  <1>10. OnlyOf(c, p)
    BY <1>3, SMTT(30) DEF SInv, TypeOK, OnlyOf
  <1> QED
    BY <1>1, <1>2, <1>3, <1>5, <1>6, <1>7, <1>8, <1>9, <1>10, OwnStep, SMTT(30)

\* sleep: p is on the channel, with its lock held, before lk is released;
\* the condition is false at that moment.
LEMMA SleepStep ==
  ASSUME SInv, NEW c \in Cpu, sleep(c)
  PROVE  SInv'
  <1> DEFINE p == run[c]
             k == push_off(cpu[c])
             kk == pop_off(k)
  <1>1. p # None /\ p \in Proc /\ cpu[c].proc = p /\ cpu[c] \in Kernel /\ CpuOK(c)
        /\ pc[p] = "test" /\ ready = 0
    BY OnStack DEF sleep
  <1>2. cpu[c].noff = 1 /\ cpu[c].sie = 0 /\ cpu[c].intena = 1 /\ lk = c
    BY <1>1 DEF CpuOK, Critical
  <1>3. /\ plock' = [plock EXCEPT ![p] = c] /\ lk' = None
        /\ cpu' = [cpu EXCEPT ![c] = kk] /\ chan' = [chan EXCEPT ![p] = 1]
        /\ state' = [state EXCEPT ![p] = "SLEEPING"] /\ pc' = [pc EXCEPT ![p] = "sched"]
        /\ ret' = [ret EXCEPT ![p] = "slept"]
        /\ UNCHANGED <<ready, run, idx, saved, visit>>
    BY DEF sleep
  <1>4. run[c] = p /\ None \notin Cpu
    BY SchedAssumption
  <1> HIDE DEF p
  <1>5. k \in Kernel /\ k.proc = p /\ k.noff = 2 /\ k.sie = 0 /\ k.intena = 1
    BY <1>1, <1>2, PushOff
  <1> HIDE DEF k
  <1>6. kk \in Kernel /\ kk.proc = p /\ kk.noff = 1 /\ kk.sie = 0 /\ kk.intena = 1
    BY <1>5, PopOff
  <1> HIDE DEF kk
  <1>7. TypeOK'
    BY <1>1, <1>3, <1>6 DEF SInv, TypeOK, Kernel
  <1>8. /\ cpu'[c] = kk /\ run'[c] = p /\ pc'[p] = "sched" /\ plock'[p] = c
        /\ state'[p] = "SLEEPING" /\ chan'[p] = 1
    BY <1>1, <1>3, <1>4 DEF SInv, TypeOK
  <1>9. CpuOK(c)'
    BY <1>1, <1>3, <1>4, <1>6, <1>8, ZenonT(30) DEF CpuOK, Held, Spins, Critical
  <1>10. NoLostWakeup'
    BY <1>1, <1>3 DEF NoLostWakeup
  <1>11. OnlyOf(c, p)
    BY <1>3 DEF SInv, TypeOK, OnlyOf
  <1> QED
    BY <1>1, <1>2, <1>3, <1>6, <1>7, <1>8, <1>9, <1>10, <1>11, OwnStep, SMTT(30)

-----------------------------------------------------------------------------
(* Steps that touch a process no CPU has.                                  *)

\* A sleeper whose lock is free is with no CPU: one that is still on its way
\* to swtch holds its lock.
LEMMA FreeSleeper ==
  ASSUME SInv, NEW q \in Proc, plock[q] = None, state[q] = "SLEEPING", NEW c \in Cpu
  PROVE  cpu[c].proc # q
  BY SchedAssumption, LockedOrRunning

\* Waking such a process, as wakeup and kill do, disturbs no CPU.
LEMMA WakeOne ==
  ASSUME SInv, NEW q \in Proc, plock[q] = None, state[q] = "SLEEPING",
         state' = [state EXCEPT ![q] = "RUNNABLE"],
         UNCHANGED <<chan, plock, lk, ready, cpu, run, idx, pc, ret, saved>>
  PROVE  OwnInv' /\ ProcInv' /\ \A d \in Cpu : CpuOK(d)'
  <1>1. OwnInv' /\ ProcInv'
    BY SMTT(30) DEF SInv, TypeOK, OwnInv, ProcInv
  <1>2. ASSUME NEW d \in Cpu PROVE CpuOK(d)'
    BY FreeSleeper, OtherCpu DEF SInv, TypeOK
  <1> QED
    BY <1>1, <1>2

\* wakeup: the process it has visited does not sleep on the channel.
LEMMA WakeupStep ==
  ASSUME SInv, NEW c \in Cpu, wakeup(c)
  PROVE  SInv'
  <1> DEFINE p == run[c]
  <1>1. p \in Proc /\ pc[p] = "wakeup"
    BY OnStack DEF wakeup
  <1>2. PICK q \in visit[p] :
          /\ plock[q] = None
          /\ state' = [state EXCEPT ![q] = IF state[q] = "SLEEPING" /\ chan[q] = 1
                                           THEN "RUNNABLE" ELSE state[q]]
          /\ visit' = [visit EXCEPT ![p] = visit[p] \ {q}]
    BY Zenon DEF wakeup
  <1>3. UNCHANGED <<chan, plock, lk, ready, cpu, run, idx, pc, ret, saved>>
    BY DEF wakeup
  <1> HIDE DEF p
  <1>4. q \in Proc /\ (state[q] = "SLEEPING" => chan[q] = 1)
    BY <1>1 DEF SInv, TypeOK, ProcInv
  <1>5. TypeOK'
    BY <1>1, <1>2, <1>3, <1>4 DEF SInv, TypeOK
  <1>6. NoLostWakeup'
    BY <1>1, <1>2, <1>3, <1>4 DEF SInv, TypeOK, NoLostWakeup
  <1>7. CASE state[q] = "SLEEPING"
    BY <1>2, <1>3, <1>4, <1>5, <1>6, <1>7, WakeOne, Zenon DEF SInv
  <1>8. CASE state[q] # "SLEEPING"
    <2>1. state' = state
      BY <1>2, <1>4, <1>8 DEF SInv, TypeOK
    <2>2. OwnInv'
      BY <1>3, Zenon DEF SInv, OwnInv
    <2>3. ProcInv'
      BY <1>3, <2>1, Zenon DEF SInv, ProcInv
    <2>4. \A d \in Cpu : CpuOK(d)'
      BY <1>3, <2>1, SameCpuOK, Zenon DEF SInv
    <2> QED
      BY <1>5, <1>6, <2>2, <2>3, <2>4, Zenon DEF SInv
  <1> QED
    BY <1>7, <1>8, SMTT(30)

\* kill: it wakes a sleeper whatever the sleeper waits for.
LEMMA KillStep ==
  ASSUME SInv, NEW c \in Cpu, NEW q \in Proc, kill(c, q)
  PROVE  SInv'
  <1>1. /\ plock[q] = None /\ state[q] = "SLEEPING" /\ state' = [state EXCEPT ![q] = "RUNNABLE"]
        /\ UNCHANGED <<chan, plock, lk, ready, cpu, run, idx, pc, ret, saved, visit>>
    BY DEF kill
  <1>2. TypeOK' /\ NoLostWakeup'
    BY <1>1 DEF SInv, TypeOK, NoLostWakeup
  <1> QED
    BY <1>1, <1>2, WakeOne, Zenon DEF SInv

\* scheduler_back: the CPU gives its process back, which has saved its
\* registers by now.
LEMMA SchedulerBackStep ==
  ASSUME SInv, NEW c \in Cpu, scheduler_back(c)
  PROVE  SInv'
  <1> DEFINE p == cpu[c].proc
             k1 == [cpu[c] EXCEPT !.proc = None]
             k2 == [k1 EXCEPT !.intena = 0]
             kk == pop_off(k2)
  <1> USE SchedAssumption
  <1>1. p # None /\ p \in Proc /\ run[c] = None /\ cpu[c] \in Kernel /\ CpuOK(c)
    BY SMTT(30) DEF scheduler_back, SInv, TypeOK, Kernel
  <1>2. Held(c, p) /\ state[p] # "RUNNING" /\ pc[p] = "resume" /\ lk # c
    BY <1>1 DEF CpuOK
  <1>3. /\ plock' = [plock EXCEPT ![p] = None] /\ cpu' = [cpu EXCEPT ![c] = kk]
        /\ idx' = [idx EXCEPT ![c] = Next1(p)]
        /\ UNCHANGED <<state, chan, lk, ready, run, pc, ret, saved, visit>>
    BY DEF scheduler_back
  <1>4. cpu[c].proc = p
    OBVIOUS
  <1> HIDE DEF p
  <1>5. k1 \in Kernel /\ k1.proc = None /\ k1.noff = 1 /\ k1.sie = 0
    BY <1>1, <1>2 DEF Kernel, Held
  <1> HIDE DEF k1
  <1>6. k2 \in Kernel /\ k2.proc = None /\ k2.noff = 1 /\ k2.sie = 0 /\ k2.intena = 0
    BY <1>5 DEF Kernel
  <1> HIDE DEF k2
  <1>7. kk \in Kernel /\ kk.proc = None /\ kk.noff = 0 /\ kk.sie = 0
    BY <1>6, PopOff
  <1> HIDE DEF kk
  <1>8. Next1(p) \in Proc
    BY <1>1, SMTT(30) DEF Next1, Proc
  <1>9. TypeOK'
    BY <1>1, <1>3, <1>7, <1>8, SMTT(30) DEF SInv, TypeOK, Kernel
  <1>10. cpu'[c] = kk /\ run'[c] = None /\ plock'[p] = None
         /\ \A d \in Cpu \ {c} : cpu'[d] = cpu[d] /\ cpu[d].proc # p
    BY <1>1, <1>3, <1>4, SMTT(30) DEF SInv, TypeOK, OwnInv
  <1>11. OwnInv'
    BY <1>1, <1>3, <1>7, <1>10, SMTT(30) DEF SInv, OwnInv
  <1>12. ProcInv'
    <2> SUFFICES ASSUME NEW q \in Proc
                 PROVE  /\ (\A d \in Cpu : cpu'[d].proc # q) =>
                             plock'[q] = None /\ state'[q] # "RUNNING" /\ pc'[q] \in {"forkret", "resume"}
                        /\ \A d \in Cpu : plock'[q] = d => cpu'[d].proc = q
                        /\ state'[q] = "SLEEPING" => chan'[q] = 1
                        /\ pc'[q] = "resume" /\ ret'[q] = "slept" => saved'[q] = 1
                        /\ pc'[q] # "panic"
      BY SMTT(30) DEF ProcInv
    <2>1. CASE q = p
      BY <1>2, <1>3, <1>10, <2>1, SMTT(30) DEF SInv, ProcInv
    <2>2. CASE q # p
      BY <1>3, <1>4, <1>10, <2>2 DEF SInv, TypeOK, ProcInv
    <2> QED
      BY <2>1, <2>2
  <1>13. ASSUME NEW d \in Cpu PROVE CpuOK(d)'
    <2>1. CASE d = c
      BY <1>1, <1>2, <1>3, <1>7, <1>10, <2>1, ZenonT(30) DEF CpuOK
    <2>2. CASE d # c
      BY <1>3, <1>10, <2>2, OtherCpu, SMTT(30) DEF SInv, TypeOK
    <2> QED
      BY <2>1, <2>2
  <1>14. NoLostWakeup'
    BY <1>3 DEF SInv, NoLostWakeup
  <1> QED
    BY <1>9, <1>11, <1>12, <1>13, <1>14 DEF SInv

-----------------------------------------------------------------------------
(* The theorems.                                                           *)

\* Every step of a CPU keeps SInv.
LEMMA NextSInv == SInv /\ [Next]_vars => SInv'
  <1> SUFFICES ASSUME SInv, [Next]_vars PROVE SInv'
    OBVIOUS
  <1>1. CASE UNCHANGED vars
    <2>1. TypeOK' /\ OwnInv' /\ ProcInv' /\ NoLostWakeup'
      BY <1>1 DEF vars, SInv, TypeOK, OwnInv, ProcInv, NoLostWakeup
    <2>2. \A d \in Cpu : CpuOK(d)'
      BY <1>1, SameCpuOK, Zenon DEF vars, SInv
    <2> QED
      BY <2>1, <2>2, SMTT(30) DEF SInv
  <1>2. ASSUME NEW c \in Cpu, Work(c) PROVE SInv'
    <2>1. CASE scheduler(c) \/ scheduler_back(c) \/ sched(c) \/ resume(c) \/ forkret(c)
      BY <2>1, SchedulerStep, SchedulerBackStep, SchedStep, ResumeStep, ForkretStep
    <2>2. CASE push(c, {"awake"}, "spin_wait")
      BY <2>2, PushStep DEF Spins
    <2>3. CASE acquire(c, "spin_wait", "test") \/ acquire(c, "spin_set", "set")
      BY <2>3, AcquireStep DEF Spins
    <2>4. CASE consume(c) \/ sleep(c) \/ set(c) \/ wakeup(c) \/ wakeup_done(c)
      BY <2>4, ConsumeStep, SleepStep, SetStep, WakeupStep, WakeupDoneStep
    <2> QED
      BY <1>2, <2>1, <2>2, <2>3, <2>4 DEF Work
  <1>3. ASSUME NEW c \in Cpu, Call(c) PROVE SInv'
    <2>1. CASE push(c, {"run"}, "spin_wait") \/ push(c, {"run"}, "spin_set")
      BY <2>1, PushStep DEF Spins
    <2>2. CASE \E q \in Proc : kill(c, q)
      BY <2>2, KillStep
    <2> QED
      BY <1>3, <2>1, <2>2 DEF Call
  <1> QED
    BY <1>1, <1>2, <1>3, YieldStep DEF Next

\* SInv holds always: who has a process, what that CPU holds, and with which
\* interrupt bits, at every point between two switches.
THEOREM SchedInvariant == Spec => []SInv
  BY InitSInv, NextSInv, PTL DEF Spec

\* The fields of struct proc and struct cpu keep their types, for any number
\* of processes and CPUs: no CPU nests more than two locks.
THEOREM SchedTypeCorrect == Spec => []TypeOK
  <1>1. SInv => TypeOK
    BY DEF SInv
  <1> QED
    BY <1>1, SchedInvariant, PTL

\* swtch never puts two CPUs on one kernel stack, and every RUNNING process
\* is on the stack of some CPU.
THEOREM StacksExclusive == Spec => []OneStackOneCpu
  <1>1. ASSUME SInv PROVE OneStackOneCpu
    <2> USE <1>1
    <2>1. \A c, d \in Cpu : run[c] = run[d] /\ run[c] # None => c = d
      BY SMTT(30) DEF SInv, OwnInv
    <2>2. ASSUME NEW p \in Proc, state[p] = "RUNNING" PROVE \E c \in Cpu : run[c] = p
      <3>1. PICK c \in Cpu : cpu[c].proc = p
        BY <2>2 DEF SInv, ProcInv
      <3>2. CpuOK(c) /\ p # None /\ run[c] \in {None, p}
        BY <3>1, SchedAssumption DEF SInv, OwnInv, Proc
      <3> QED
        BY <2>2, <3>1, <3>2, SMTT(30) DEF CpuOK
    <2> QED
      BY <2>1, <2>2 DEF OneStackOneCpu
  <1> QED
    BY <1>1, SchedInvariant, PTL

\* A wakeup between the test of the condition and the sleep is not lost.
THEOREM WakeupsKept == Spec => []NoLostWakeup
  <1>1. SInv => NoLostWakeup
    BY DEF SInv
  <1> QED
    BY <1>1, SchedInvariant, PTL

INSTANCE FiniteSetTheorems

\* push_off and pop_off count exactly the locks a CPU has, so that none of
\* the panics of sched, acquire, release and pop_off is ever reached.
THEOREM LocksCounted == Spec => []InterruptsMatch
  <1>1. ASSUME SInv PROVE InterruptsMatch
    <2> USE <1>1
    <2>1. \A p \in Proc : pc[p] # "panic"
      BY SMTT(30) DEF SInv, ProcInv
    <2>2. ASSUME NEW c \in Cpu
          PROVE  /\ cpu[c].noff = Cardinality(LocksHeld(c)) + (IF lk = c \/ Spinning(c) THEN 1 ELSE 0)
                 /\ cpu[c].noff > 0 => cpu[c].sie = 0
                 /\ run[c] # None /\ cpu[c].noff = 0 => cpu[c].sie = 1
      <3> DEFINE p == cpu[c].proc
      <3>1. p \in Proc \cup {None} /\ CpuOK(c) /\ (run[c] = None \/ run[c] = p) /\ None \notin Proc
            /\ None \notin Cpu
        BY SchedAssumption DEF SInv, TypeOK, OwnInv, Proc
      <3>2. \A q \in Proc : plock[q] = c => q = p
        BY DEF SInv, ProcInv
      <3>3. Cardinality({}) = 0 /\ Cardinality({p}) = 1
        BY FS_EmptySet, FS_Singleton, Zenon
      <3>4. CASE p = None
        <4>1. LocksHeld(c) = {} /\ run[c] = None /\ cpu[c].noff = 0 /\ lk # c
          BY <3>1, <3>2, <3>4, SMTT(30) DEF LocksHeld, CpuOK
        <4> QED
          BY <3>3, <4>1, SMTT(30) DEF Spinning
      <3>5. CASE p # None /\ plock[p] = c
        <4>1. LocksHeld(c) = {p}
          BY <3>1, <3>2, <3>5 DEF LocksHeld
        <4>2. pc[p] \in {"sched", "forkret", "resume", "run", "awake"} \cup Spins \cup Critical
          BY <2>1, <3>1, <3>5, SMTT(30) DEF SInv, TypeOK, Spins, Critical
        <4>3. cpu[c].noff = 1 /\ cpu[c].sie = 0 /\ lk # c /\ ~Spinning(c)
          BY <3>1, <3>5, <4>2, SMTT(30) DEF CpuOK, Held, Busy, Spinning, Spins, Critical
        <4> QED
          BY <3>3, <4>1, <4>3, SMTT(30)
      <3>6. CASE p # None /\ plock[p] # c
        <4>1. LocksHeld(c) = {}
          BY <3>2, <3>6 DEF LocksHeld
        <4>2. plock[p] = None /\ run[c] = p
          BY <3>1, <3>6, LockedOrRunning, SMTT(30)
        <4>3. pc[p] \in {"run", "awake"} \cup Spins \cup Critical
          <5>1. pc[p] \in {"sched", "forkret", "resume", "run", "awake"} \cup Spins \cup Critical
            BY <2>1, <3>1, <3>6, SMTT(30) DEF SInv, TypeOK, Spins, Critical
          <5> QED
            BY <3>1, <3>6, <4>2, <5>1 DEF CpuOK, Held
        <4>4. CASE pc[p] \in {"run", "awake"}
          <5>1. cpu[c].noff = 0 /\ cpu[c].sie = 1 /\ lk # c /\ ~Spinning(c)
            BY <3>1, <3>6, <4>2, <4>4 DEF CpuOK, Spinning, Spins, Critical
          <5> QED
            BY <3>3, <4>1, <5>1, SMTT(30)
        <4>5. CASE pc[p] \in Spins \cup Critical
          <5>1. cpu[c].noff = 1 /\ cpu[c].sie = 0 /\ (lk = c \/ Spinning(c))
            BY <3>1, <3>6, <4>2, <4>5 DEF CpuOK, Spinning, Spins, Critical
          <5> QED
            BY <3>3, <4>1, <5>1, SMTT(30)
        <4> QED
          BY <4>3, <4>4, <4>5, SMTT(30)
      <3> QED
        BY <3>4, <3>5, <3>6
    <2> QED
      BY <2>1, <2>2, SMTT(30) DEF InterruptsMatch
  <1> QED
    BY <1>1, SchedInvariant, PTL

=============================================================================
