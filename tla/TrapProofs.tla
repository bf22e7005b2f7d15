----------------------------- MODULE TrapProofs -----------------------------
(***************************************************************************)
(* Traps and context switches of Trap, proved for any number of processes  *)
(* and harts: ContextKept holds always, and so does KernelResumes; and     *)
(* sys_sleep and the clock of Clock, for any number of sleepers and any    *)
(* width of ticks: SleepsInTime holds always.                              *)
(*                                                                         *)
(* The inductive invariant TInv follows the state that a trap saves: where *)
(* it is after each instruction that could be interrupted, for the thread  *)
(* a hart runs (HartOK: in the hart's registers, in the frame kernelvec    *)
(* pushed, or in the trapframe) and for a process that waits to be picked  *)
(* (ProcOK: in its context and its kernel stack).  A step of one hart      *)
(* touches that hart, the thread it runs and at most one process that no   *)
(* hart runs, which is why no other hart or process needs a look.          *)
(*                                                                         *)
(* KInv relates the unsigned difference that sys_sleep computes to the     *)
(* ticks that have really passed.                                          *)
(***************************************************************************)
EXTENDS Trap, Clock, TLAPS

\* Where a hart can be: in user code, in the scheduler, in kernel code of a
\* process that interrupts can reach, and in code with interrupts off.

UserPc == {"u0", "u1"}
SchedPc == {"s_on", "s_pick"}
ProcPc == {"exit", "syscall", "post", "post_timer", "forkret"}
BarePc == {"uservec", "usertrap", "ret_set", "userret", "kernelvec", "ktrap_end"}
Pc == UserPc \cup SchedPc \cup ProcPc \cup BarePc \cup {"none"}
Cause == {"ecall", "fault", "timer", "device", "none"}

\* The registers, what kernelvec pushes, struct context and struct trapframe.
Reg == [mode : {"u", "s"}, sie : {0, 1}, spie : {0, 1}, spp : {"u", "s"}, sepc : Pc,
        scause : Cause, stvec : {"uservec", "kernelvec"}, satp : Proc \cup {Kernel, "none"},
        tp : Hart \cup {"none"}, sp : Thread \cup {"none"}, x : Proc \cup {"k", "none"}, pc : Pc]
Frame == [sepc : Pc, spp : {"u", "s"}, spie : {0, 1}, tp : Hart \cup {"none"}]
Context == [pc : Pc, sie : {0, 1}]
Trapframe == [epc : UserPc \cup {"none"}, x : Proc \cup {"k", "none"}, hartid : Hart \cup {"none"},
              sp : Thread \cup {"none"}, satp : Proc \cup {Kernel, "none"}]

\* The types of the variables.
TTypeOK ==
  /\ reg \in [Hart -> Reg] /\ run \in [Hart -> Thread]
  /\ ctx \in [Thread -> Context] /\ frame \in [Thread -> Frame] /\ tf \in [Proc -> Trapframe]
  /\ tstate \in [Proc -> {"unused", "runnable", "running"}] /\ tkilled \in [Proc -> {0, 1}]
  /\ goal \in [Proc -> UserPc] /\ kgoal \in [Thread -> Pc]

\* A process runs on one hart at most, and is RUNNING exactly then.
RunOK ==
  /\ \A h \in Hart : run[h] = h \/ (run[h] \in Proc /\ tstate[run[h]] = "running")
  /\ \A g, h \in Hart : run[g] = run[h] => g = h

\* Where a thread's own code is: what a trap interrupted, while it is handled.
Handling == {"kernelvec", "ktrap_end"}
Pos(pc, k) == IF pc \in Handling THEN k ELSE pc

\* Where a trap from user space is to return to.
Ret(r) == IF r.scause = "ecall" THEN After(r.sepc) ELSE r.sepc

\* What uservec finds in the trapframe.
Ready(h, p, u) == u.sp = p /\ u.hartid = h /\ u.satp = Kernel

\* Hart h with registers r runs thread t, whose last interrupted instruction
\* is k and whose frame of kernelvec is f.
KernelOK(h, r, t, k, f) ==
  /\ r.mode = "u" => r.pc \in UserPc /\ t \in Proc /\ r.stvec = "uservec" /\ r.satp = t /\ r.x = t
  /\ r.mode = "s" =>
       /\ r.pc \in SchedPc \cup ProcPc \cup BarePc
       /\ r.pc # "uservec" => r.tp = h /\ r.sp = t /\ r.satp = Kernel
       /\ r.stvec = IF r.pc \in {"uservec", "usertrap", "userret"} THEN "uservec" ELSE "kernelvec"
       /\ r.pc \in BarePc => r.sie = 0
       /\ t \in Proc <=> Pos(r.pc, k) \notin SchedPc
       /\ r.pc \in Handling => k \in SchedPc \cup ProcPc
       /\ r.pc = "kernelvec" => /\ r.spp = "s" /\ r.spie = 1 /\ r.sepc = k
                                /\ r.scause \in {"timer", "device"}
       /\ r.pc = "ktrap_end" => f.sepc = k /\ f.spp = "s" /\ f.spie = 1

\* Hart h with registers r runs process p, with trapframe u, whose user code
\* is to go on at g.
UserOK(h, r, p, u, g, k) ==
  /\ r.mode = "u" => r.pc = g /\ Ready(h, p, u)
  /\ r.pc = "uservec" => r.satp = p /\ r.x = p /\ Ready(h, p, u)
  /\ r.pc \in {"uservec", "usertrap"} =>
       r.spp = "u" /\ r.scause # "none" /\ r.sepc \in UserPc /\ Ret(r) = g
  /\ r.pc = "usertrap" => u.x = p
  /\ Pos(r.pc, k) \in {"syscall", "post", "post_timer", "forkret", "ret_set"} =>
       u.x = p /\ u.epc = g
  /\ r.pc = "userret" => /\ r.spp = "u" /\ r.spie = 1 /\ r.sepc = g
                         /\ u.x = p /\ Ready(h, p, u)

\* Process p waits to be picked, with context c.
WaitOK(p, c, u, g, k, f) ==
  /\ c.pc \in {"syscall", "forkret", "ktrap_end"}
  /\ c.pc = "ktrap_end" => /\ c.sie = 0 /\ k \in ProcPc
                           /\ f.sepc = k /\ f.spp = "s" /\ f.spie = 1
  /\ Pos(c.pc, k) # "exit" => u.x = p /\ u.epc = g

\* What hart h runs.
HartOK(h) ==
  /\ KernelOK(h, reg[h], run[h], kgoal[run[h]], frame[run[h]])
  /\ run[h] \in Proc => UserOK(h, reg[h], run[h], tf[run[h]], goal[run[h]], kgoal[run[h]])

\* What a process is to go on with.
ProcOK(p) == tstate[p] = "runnable" => WaitOK(p, ctx[p], tf[p], goal[p], kgoal[p], frame[p])

\* The inductive invariant.
TInv ==
  /\ TTypeOK /\ RunOK /\ ~paniced
  /\ \A h \in Hart : HartOK(h)
  /\ \A p \in Proc : ProcOK(p)

-----------------------------------------------------------------------------
(* Facts the steps share.                                                  *)

\* What sret and the reset of the trap registers leave.
LEMMA SpentReg ==
  ASSUME NEW r \in Reg
  PROVE  /\ Spent(r) \in Reg
         /\ Spent(r).mode = r.mode /\ Spent(r).sie = r.sie /\ Spent(r).stvec = r.stvec
         /\ Spent(r).satp = r.satp /\ Spent(r).tp = r.tp /\ Spent(r).sp = r.sp
         /\ Spent(r).x = r.x /\ Spent(r).pc = r.pc
<1>1. "none" \in Pc /\ "none" \in Cause
  BY Zenon DEF Pc, Cause
<1> QED
  BY <1>1, Zenon DEF Spent, Reg

\* What sret does to the registers.
LEMMA SretReg ==
  ASSUME NEW r \in Reg
  PROVE  /\ Sret(r) \in Reg
         /\ Sret(r).mode = r.spp /\ Sret(r).sie = r.spie /\ Sret(r).stvec = r.stvec
         /\ Sret(r).satp = r.satp /\ Sret(r).tp = r.tp /\ Sret(r).sp = r.sp
         /\ Sret(r).x = r.x /\ Sret(r).pc = r.sepc
<1> DEFINE s == [r EXCEPT !.mode = r.spp, !.sie = r.spie, !.pc = r.sepc]
<1>1. /\ s \in Reg
      /\ s.mode = r.spp /\ s.sie = r.spie /\ s.stvec = r.stvec
      /\ s.satp = r.satp /\ s.tp = r.tp /\ s.sp = r.sp
      /\ s.x = r.x /\ s.pc = r.sepc
  BY Zenon DEF Reg
<1>2. Sret(r) = Spent(s)
  BY Zenon DEF Sret
<1> HIDE DEF s
<1> QED
  BY <1>1, <1>2, SpentReg

\* A step of hart h that touches, of the threads, the one it runs and q,
\* which no other hart runs.
Touches(h, q) ==
  /\ \A g \in Hart : g # h => reg'[g] = reg[g] /\ run'[g] = run[g] /\ run[g] # q
  /\ \A t \in Thread : t # run[h] /\ t # q => kgoal'[t] = kgoal[t] /\ frame'[t] = frame[t]
  /\ \A p \in Proc : p # run[h] /\ p # q =>
       tf'[p] = tf[p] /\ goal'[p] = goal[p] /\ ctx'[p] = ctx[p] /\ tstate'[p] = tstate[p]
  /\ run'[h] \in {run[h], q, h}
  /\ run'[h] = h \/ (run'[h] \in Proc /\ tstate'[run'[h]] = "running")

\* What the invariant says of hart h.
LEMMA HartFacts ==
  ASSUME TrapAssumption, TInv, NEW h \in Hart
  PROVE  /\ TTypeOK /\ ~paniced
         /\ reg[h] \in Reg /\ run[h] \in Thread /\ h \in Thread /\ h \notin Proc
         /\ run[h] = h \/ (run[h] \in Proc /\ tstate[run[h]] = "running")
         /\ \A g \in Hart : g # h => run[g] # run[h] /\ run[g] # h
         /\ HartOK(h) /\ \A p \in Proc : ProcOK(p)
<1>1. TTypeOK /\ RunOK /\ ~paniced /\ HartOK(h) /\ \A p \in Proc : ProcOK(p)
  BY Zenon DEF TInv
<1>2. h \in Thread /\ h \notin Proc
  BY Zenon DEF TrapAssumption, Thread
<1>3. reg[h] \in Reg /\ run[h] \in Thread
  BY <1>1, Zenon DEF TTypeOK
<1>4. \A g \in Hart : run[g] = g \/ (run[g] \in Proc /\ tstate[run[g]] = "running")
  BY <1>1, Zenon DEF RunOK
<1>5. \A g \in Hart : g # h => run[g] # run[h] /\ run[g] # h
  BY <1>1, <1>2, <1>4, Zenon DEF RunOK
<1> QED
  BY <1>1, <1>2, <1>3, <1>4, <1>5, Zenon

\* Such a step preserves the invariant if it does so for h and the two.
LEMMA StepInv ==
  ASSUME TrapAssumption, TInv, TTypeOK', ~paniced', NEW h \in Hart, NEW q \in Thread, Touches(h, q),
         HartOK(h)', \A p \in Proc : p \in {run[h], q} => ProcOK(p)'
  PROVE  TInv'
<1>0. \A g \in Hart : /\ run[g] \in Thread /\ (g # h => run[g] # run[h] /\ run[g] # h)
                      /\ run[g] = g \/ (run[g] \in Proc /\ tstate[run[g]] = "running")
  BY HartFacts, Zenon
<1>1. RunOK'
  <2>1. ASSUME NEW g \in Hart, g # h
        PROVE  run'[g] = g \/ (run'[g] \in Proc /\ tstate'[run'[g]] = "running")
    <3>1. run'[g] = run[g] /\ run[g] # q /\ run[g] # run[h]
      BY <2>1, <1>0, Zenon DEF Touches
    <3>2. run[g] \in Proc => tstate'[run[g]] = tstate[run[g]]
      BY <3>1, Zenon DEF Touches
    <3> QED
      BY <3>1, <3>2, <1>0, Zenon
  <2>2. ASSUME NEW g \in Hart, g # h PROVE run'[g] # run'[h]
    <3>1. /\ run[g] # run[h] /\ run[g] # q /\ run'[g] = run[g] /\ run[g] # h
          /\ run'[h] \in {run[h], q, h}
      BY <2>2, <1>0, Zenon DEF Touches
    <3> QED
      BY <3>1, Zenon
  <2>3. ASSUME NEW f \in Hart, NEW g \in Hart, run'[f] = run'[g] PROVE f = g
    <3>1. CASE f = h \/ g = h
      BY <3>1, <2>3, <2>2, Zenon
    <3>2. CASE f # h /\ g # h
      <4>1. run[f] = run[g]
        BY <3>2, <2>3, Zenon DEF Touches
      <4>2. RunOK
        BY Zenon DEF TInv
      <4> QED
        BY <4>1, <4>2, Zenon DEF RunOK
    <3> QED
      BY <3>1, <3>2, Zenon
  <2>4. run'[h] = h \/ (run'[h] \in Proc /\ tstate'[run'[h]] = "running")
    BY Zenon DEF Touches
  <2> QED
    BY <2>1, <2>3, <2>4, Zenon DEF RunOK
<1>2. ASSUME NEW g \in Hart PROVE HartOK(g)'
  <2>1. CASE g = h
    BY <2>1, Zenon
  <2>2. CASE g # h
    <3>1. run'[g] = run[g] /\ reg'[g] = reg[g] /\ run[g] # run[h] /\ run[g] # q /\ run[g] \in Thread
      BY <2>2, <1>0, Zenon DEF Touches
    <3>2. kgoal'[run[g]] = kgoal[run[g]] /\ frame'[run[g]] = frame[run[g]]
      BY <3>1, Zenon DEF Touches
    <3>3. run[g] \in Proc => tf'[run[g]] = tf[run[g]] /\ goal'[run[g]] = goal[run[g]]
      BY <3>1, Zenon DEF Touches
    <3>4. HartOK(g)
      BY Zenon DEF TInv
    <3> QED
      BY <3>1, <3>2, <3>3, <3>4, Zenon DEF HartOK
  <2> QED
    BY <2>1, <2>2, Zenon
<1>3. ASSUME NEW p \in Proc PROVE ProcOK(p)'
  <2>1. CASE p \in {run[h], q}
    BY <2>1, Zenon
  <2>2. CASE p # run[h] /\ p # q
    <3>0. p \in Thread
      BY Zenon DEF Thread
    <3>1. /\ kgoal'[p] = kgoal[p] /\ frame'[p] = frame[p]
          /\ tf'[p] = tf[p] /\ goal'[p] = goal[p] /\ ctx'[p] = ctx[p] /\ tstate'[p] = tstate[p]
      BY <2>2, <3>0, Zenon DEF Touches
    <3>2. ProcOK(p)
      BY Zenon DEF TInv
    <3> QED
      BY <3>1, <3>2, Zenon DEF ProcOK
  <2> QED
    BY <2>1, <2>2, Zenon
<1> QED
  BY <1>1, <1>2, <1>3, Zenon DEF TInv

\* A step of hart h after which the same thread runs on it.
LEMMA HartStep ==
  ASSUME TrapAssumption, TInv, NEW h \in Hart, NEW R \in Reg,
         reg' = [reg EXCEPT ![h] = R],
         kgoal' \in [Thread -> Pc], frame' \in [Thread -> Frame],
         tf' \in [Proc -> Trapframe], goal' \in [Proc -> UserPc], tkilled' \in [Proc -> {0, 1}],
         \A t \in Thread : t # run[h] => kgoal'[t] = kgoal[t] /\ frame'[t] = frame[t],
         \A p \in Proc : p # run[h] => tf'[p] = tf[p] /\ goal'[p] = goal[p],
         UNCHANGED <<run, ctx, tstate, paniced>>,
         KernelOK(h, R, run[h], kgoal'[run[h]], frame'[run[h]]),
         run[h] \in Proc => UserOK(h, R, run[h], tf'[run[h]], goal'[run[h]], kgoal'[run[h]])
  PROVE  TInv'
<1>0. /\ TTypeOK /\ ~paniced /\ h \in Thread /\ h \notin Proc
      /\ run[h] = h \/ (run[h] \in Proc /\ tstate[run[h]] = "running")
      /\ \A g \in Hart : g # h => run[g] # run[h] /\ run[g] # h
  BY HartFacts, Zenon
<1>1. TTypeOK'
  BY <1>0, Zenon DEF TTypeOK
<1>2. reg'[h] = R /\ \A g \in Hart : g # h => reg'[g] = reg[g]
  BY <1>0, Zenon DEF TTypeOK
<1>3. \A p \in Proc : p \in {run[h], h} => ProcOK(p)'
  BY <1>0, Zenon DEF ProcOK
<1>4. Touches(h, h)
  BY <1>0, <1>2, Zenon DEF Touches
<1>5. HartOK(h)'
  BY <1>2, Zenon DEF HartOK
<1> QED
  BY <1>0, <1>1, <1>3, <1>4, <1>5, StepInv, Zenon

\* Such a step that changes nothing but the hart's registers.
LEMMA RegOnly ==
  ASSUME TrapAssumption, TInv, NEW h \in Hart, NEW R \in Reg,
         reg' = [reg EXCEPT ![h] = R],
         UNCHANGED <<run, ctx, frame, tf, tstate, tkilled, goal, kgoal, paniced>>,
         KernelOK(h, R, run[h], kgoal[run[h]], frame[run[h]]),
         run[h] \in Proc => UserOK(h, R, run[h], tf[run[h]], goal[run[h]], kgoal[run[h]])
  PROVE  TInv'
<1>1. TTypeOK
  BY HartFacts, Zenon
<1>2. /\ kgoal' \in [Thread -> Pc] /\ frame' \in [Thread -> Frame]
      /\ tf' \in [Proc -> Trapframe] /\ goal' \in [Proc -> UserPc] /\ tkilled' \in [Proc -> {0, 1}]
  BY <1>1, Zenon DEF TTypeOK
<1> QED
  BY <1>2, HartStep, Zenon

\* A process that leaves its hart for the scheduler.
LEMMA LeaveInv ==
  ASSUME TrapAssumption, TInv, NEW h \in Hart, NEW R \in Reg, NEW pc \in Pc, run[h] \in Proc,
         Leave(h, run[h], R, pc), R.mode = "s", R.stvec = "kernelvec", R.satp = Kernel, R.tp = h,
         tstate' = [tstate EXCEPT ![run[h]] = "runnable"],
         frame' \in [Thread -> Frame], \A t \in Thread : t # run[h] => frame'[t] = frame[t],
         UNCHANGED <<tf, tkilled, goal, kgoal, paniced>>,
         WaitOK(run[h], [pc |-> pc, sie |-> R.sie], tf[run[h]], goal[run[h]], kgoal[run[h]], frame'[run[h]])
  PROVE  TInv'
<1>0. /\ TTypeOK /\ ~paniced /\ h \in Thread /\ h \notin Proc
      /\ \A g \in Hart : g # h => run[g] # run[h] /\ run[g] # h
  BY HartFacts, Zenon
<1> DEFINE S == [R EXCEPT !.sp = h, !.pc = "s_on"]
<1>1. /\ S \in Reg /\ S.mode = "s" /\ S.stvec = "kernelvec" /\ S.satp = Kernel /\ S.tp = h
      /\ S.sp = h /\ S.pc = "s_on"
  <2>1. h \in Thread \cup {"none"} /\ "s_on" \in Pc
    BY <1>0, Zenon DEF Pc, SchedPc
  <2> QED
    BY <2>1, Zenon DEF Reg
<1>2. /\ ctx' = [ctx EXCEPT ![run[h]] = [pc |-> pc, sie |-> R.sie]]
      /\ run' = [run EXCEPT ![h] = h] /\ reg' = [reg EXCEPT ![h] = S]
  BY Zenon DEF Leave
<1>c. [pc |-> pc, sie |-> R.sie] \in Context
  BY Zenon DEF Context, Reg
<1> HIDE DEF S
<1>3. TTypeOK'
  BY <1>0, <1>1, <1>2, <1>c, Zenon DEF TTypeOK
<1>4. reg'[h] = S /\ run'[h] = h /\ \A g \in Hart : g # h => reg'[g] = reg[g] /\ run'[g] = run[g]
  BY <1>0, <1>2, Zenon DEF TTypeOK
<1>5. \A p \in Proc : p # run[h] => ctx'[p] = ctx[p] /\ tstate'[p] = tstate[p]
  BY <1>0, <1>2, Zenon DEF TTypeOK, Thread
<1>6. KernelOK(h, S, h, kgoal'[h], frame'[h])
  BY <1>0, <1>1, Zenon DEF KernelOK, SchedPc, ProcPc, BarePc, Pos, Handling
<1>7. ctx'[run[h]] = [pc |-> pc, sie |-> R.sie]
  BY <1>0, <1>2, Zenon DEF TTypeOK, Thread
<1>8. \A p \in Proc : p \in {run[h], h} => ProcOK(p)'
  BY <1>0, <1>7, Zenon DEF ProcOK
<1>9. Touches(h, h)
  BY <1>0, <1>4, <1>5, Zenon DEF Touches
<1>10. HartOK(h)'
  BY <1>0, <1>4, <1>6, Zenon DEF HartOK
<1> QED
  BY <1>0, <1>3, <1>8, <1>9, <1>10, StepInv, Zenon

-----------------------------------------------------------------------------
(* The steps.                                                              *)

USE DEF UserPc, SchedPc, ProcPc, BarePc, Handling

\* Every pc is one of Pc.
LEMMA Pcs == /\ \A x \in UserPc \cup SchedPc \cup ProcPc \cup BarePc \cup {"none"} : x \in Pc
             /\ \A x \in UserPc : After(x) \in UserPc
BY Zenon DEF Pc, After

\* The scheduler turns interrupts on.
LEMMA SchedOnInv == ASSUME TrapAssumption, TInv, NEW h \in Hart, sched_on(h) PROVE TInv'
<1> DEFINE R == [reg[h] EXCEPT !.sie = 1, !.pc = "s_pick"]
<1>0. /\ reg[h] \in Reg /\ HartOK(h) /\ h \notin Proc /\ "s_pick" \in Pc
      /\ (run[h] = h \/ run[h] \in Proc) /\ TTypeOK
  BY HartFacts, Pcs, Zenon DEF Pc
<1>1. R \in Reg /\ R.mode = reg[h].mode /\ R.tp = reg[h].tp /\ R.sp = reg[h].sp /\ R.satp = reg[h].satp
      /\ R.stvec = reg[h].stvec /\ R.pc = "s_pick"
  BY <1>0, Zenon DEF Reg
<1>2. /\ reg[h].pc = "s_on" /\ reg' = [reg EXCEPT ![h] = R]
      /\ UNCHANGED <<run, ctx, frame, tf, tstate, tkilled, goal, kgoal, paniced>>
  BY Zenon DEF sched_on
<1> HIDE DEF R
<1>3. reg[h].mode = "s" /\ KernelOK(h, R, run[h], kgoal[run[h]], frame[run[h]])
  BY <1>0, <1>1, <1>2 DEF HartOK, KernelOK, Pos, Reg
<1>4. run[h] \in Proc => UserOK(h, R, run[h], tf[run[h]], goal[run[h]], kgoal[run[h]])
  BY <1>0, <1>1, <1>2, <1>3, Zenon DEF HartOK, KernelOK, UserOK, Pos
<1> QED
  BY <1>1, <1>2, <1>3, <1>4, RegOnly, Zenon

\* A system call returns.
LEMMA SyscallEndInv == ASSUME TrapAssumption, TInv, NEW h \in Hart, syscall_end(h) PROVE TInv'
<1> DEFINE R == [reg[h] EXCEPT !.pc = "post"]
<1>0. reg[h] \in Reg /\ HartOK(h) /\ "post" \in Pc
  BY HartFacts, Pcs, Zenon
<1>1. /\ R \in Reg /\ R.mode = reg[h].mode /\ R.tp = reg[h].tp /\ R.sp = reg[h].sp
      /\ R.satp = reg[h].satp /\ R.stvec = reg[h].stvec /\ R.pc = "post"
  BY <1>0, Zenon DEF Reg
<1>2. /\ reg[h].pc = "syscall" /\ reg' = [reg EXCEPT ![h] = R]
      /\ UNCHANGED <<run, ctx, frame, tf, tstate, tkilled, goal, kgoal, paniced>>
  BY Zenon DEF syscall_end
<1> HIDE DEF R
<1>3. reg[h].mode = "s" /\ KernelOK(h, R, run[h], kgoal[run[h]], frame[run[h]])
  BY <1>0, <1>1, <1>2 DEF HartOK, KernelOK, Pos, Reg
<1>4. run[h] \in Proc => UserOK(h, R, run[h], tf[run[h]], goal[run[h]], kgoal[run[h]])
  BY <1>0, <1>1, <1>2, <1>3, Zenon DEF HartOK, UserOK, Pos
<1> QED
  BY <1>1, <1>2, <1>3, <1>4, RegOnly, Zenon

\* intr_off in usertrapret.
LEMMA RetOffInv == ASSUME TrapAssumption, TInv, NEW h \in Hart, ret_off(h) PROVE TInv'
<1> DEFINE R == [reg[h] EXCEPT !.sie = 0, !.pc = "ret_set"]
<1>0. reg[h] \in Reg /\ HartOK(h) /\ "ret_set" \in Pc
  BY HartFacts, Pcs, Zenon
<1>1. /\ R \in Reg /\ R.mode = reg[h].mode /\ R.tp = reg[h].tp /\ R.sp = reg[h].sp
      /\ R.satp = reg[h].satp /\ R.stvec = reg[h].stvec /\ R.pc = "ret_set" /\ R.sie = 0
  BY <1>0, Zenon DEF Reg
<1>2. /\ reg[h].pc = "forkret" /\ reg' = [reg EXCEPT ![h] = R]
      /\ UNCHANGED <<run, ctx, frame, tf, tstate, tkilled, goal, kgoal, paniced>>
  BY Zenon DEF ret_off
<1> HIDE DEF R
<1>3. reg[h].mode = "s" /\ KernelOK(h, R, run[h], kgoal[run[h]], frame[run[h]])
  BY <1>0, <1>1, <1>2 DEF HartOK, KernelOK, Pos, Reg
<1>4. run[h] \in Proc => UserOK(h, R, run[h], tf[run[h]], goal[run[h]], kgoal[run[h]])
  BY <1>0, <1>1, <1>2, <1>3, Zenon DEF HartOK, UserOK, Pos
<1> QED
  BY <1>1, <1>2, <1>3, <1>4, RegOnly, Zenon

\* A system call that sleeps: the process goes on in it, maybe elsewhere.
LEMMA SyscallSleepInv == ASSUME TrapAssumption, TInv, NEW h \in Hart, syscall_sleep(h) PROVE TInv'
<1>0. reg[h] \in Reg /\ HartOK(h) /\ TTypeOK /\ run[h] \in Thread /\ "syscall" \in Pc
  BY HartFacts, Pcs, Zenon
<1>1. /\ reg[h].pc = "syscall" /\ tstate' = [tstate EXCEPT ![run[h]] = "runnable"]
      /\ Leave(h, run[h], reg[h], "syscall")
      /\ UNCHANGED <<frame, tf, tkilled, goal, kgoal, paniced>>
  BY Zenon DEF syscall_sleep
<1>2. /\ run[h] \in Proc /\ reg[h].mode = "s" /\ reg[h].stvec = "kernelvec" /\ reg[h].satp = Kernel
      /\ reg[h].tp = h
  BY <1>0, <1>1, Zenon DEF HartOK, KernelOK, Pos, Reg
<1>3. WaitOK(run[h], [pc |-> "syscall", sie |-> reg[h].sie], tf[run[h]], goal[run[h]], kgoal[run[h]], frame'[run[h]])
  BY <1>0, <1>1, <1>2, Zenon DEF HartOK, UserOK, WaitOK, Pos
<1>4. frame' \in [Thread -> Frame] /\ \A t \in Thread : t # run[h] => frame'[t] = frame[t]
  BY <1>0, <1>1, Zenon DEF TTypeOK
<1> QED
  BY <1>0, <1>1, <1>2, <1>3, <1>4, LeaveInv, Zenon

\* The end of usertrap.
LEMMA UsertrapEndInv == ASSUME TrapAssumption, TInv, NEW h \in Hart, usertrap_end(h) PROVE TInv'
<1>0. /\ reg[h] \in Reg /\ HartOK(h) /\ TTypeOK /\ run[h] \in Thread
      /\ "forkret" \in Pc /\ "exit" \in Pc
  BY HartFacts, Pcs, Zenon
<1>1. reg[h].pc \in {"post", "post_timer"} /\ UNCHANGED <<frame, tf, tkilled, goal, kgoal, paniced>>
  BY Zenon DEF usertrap_end
<1>2. /\ run[h] \in Proc /\ reg[h].mode = "s" /\ reg[h].stvec = "kernelvec" /\ reg[h].satp = Kernel
      /\ reg[h].tp = h /\ reg[h].sp = run[h]
      /\ tf[run[h]].x = run[h] /\ tf[run[h]].epc = goal[run[h]]
  BY <1>0, <1>1, Zenon DEF HartOK, KernelOK, UserOK, Pos, Reg
<1>3. CASE /\ tstate' = [tstate EXCEPT ![run[h]] = "runnable"] /\ Leave(h, run[h], reg[h], "forkret")
  <2>1. WaitOK(run[h], [pc |-> "forkret", sie |-> reg[h].sie], tf[run[h]], goal[run[h]], kgoal[run[h]], frame'[run[h]])
    BY <1>0, <1>1, <1>2, Zenon DEF WaitOK, Pos
  <2>2. frame' \in [Thread -> Frame] /\ \A t \in Thread : t # run[h] => frame'[t] = frame[t]
    BY <1>0, <1>1, Zenon DEF TTypeOK
  <2> QED
    BY <1>0, <1>1, <1>2, <1>3, <2>1, <2>2, LeaveInv, Zenon
<1> DEFINE S(pc) == [reg[h] EXCEPT !.pc = pc]
<1>4. ASSUME NEW pc \in {"exit", "forkret"}, reg' = [reg EXCEPT ![h] = S(pc)],
             UNCHANGED <<tstate, run, ctx>>
      PROVE  TInv'
  <2> DEFINE R == S(pc)
  <2>1. /\ R \in Reg /\ R.mode = reg[h].mode /\ R.tp = reg[h].tp /\ R.sp = reg[h].sp
        /\ R.satp = reg[h].satp /\ R.stvec = reg[h].stvec /\ R.pc = pc
    BY <1>0, <1>4, Zenon DEF Reg
  <2>2. reg' = [reg EXCEPT ![h] = R]
    BY <1>4, Zenon
  <2> HIDE DEF R, S
  <2>3. KernelOK(h, R, run[h], kgoal[run[h]], frame[run[h]])
    BY <1>2, <2>1, Zenon DEF KernelOK, Pos
  <2>4. UserOK(h, R, run[h], tf[run[h]], goal[run[h]], kgoal[run[h]])
    BY <1>2, <2>1, Zenon DEF UserOK, Pos
  <2> QED
    BY <1>1, <1>4, <2>1, <2>2, <2>3, <2>4, RegOnly, Zenon
<1>5. CASE reg' = [reg EXCEPT ![h] = S(IF tkilled[run[h]] = 1 THEN "exit" ELSE "forkret")]
           /\ UNCHANGED <<tstate, run, ctx>>
  <2>1. PICK pc \in {"exit", "forkret"} : pc = IF tkilled[run[h]] = 1 THEN "exit" ELSE "forkret"
    BY Zenon
  <2> QED
    BY <2>1, <1>4, <1>5, Zenon
<1> QED
  BY <1>3, <1>5, Zenon DEF usertrap_end

-----------------------------------------------------------------------------
(* Between user space and the kernel: one hart, one process' trapframe.    *)

\* A step of a hart that changes the trapframe of the process it runs, too.
LEMMA UserStep ==
  ASSUME TrapAssumption, TInv, NEW h \in Hart, NEW R \in Reg, run[h] \in Proc,
         NEW u \in Trapframe,
         reg' = [reg EXCEPT ![h] = R], tf' = [tf EXCEPT ![run[h]] = u],
         tkilled' \in [Proc -> {0, 1}],
         UNCHANGED <<run, ctx, frame, tstate, goal, kgoal, paniced>>,
         KernelOK(h, R, run[h], kgoal[run[h]], frame[run[h]]),
         UserOK(h, R, run[h], u, goal[run[h]], kgoal[run[h]])
  PROVE  TInv'
<1>1. TTypeOK
  BY HartFacts, Zenon
<1>2. kgoal' \in [Thread -> Pc] /\ frame' \in [Thread -> Frame] /\ goal' \in [Proc -> UserPc]
  BY <1>1, Zenon DEF TTypeOK
<1>3. /\ tf' \in [Proc -> Trapframe] /\ tf'[run[h]] = u
      /\ \A p \in Proc : p # run[h] => tf'[p] = tf[p] /\ goal'[p] = goal[p]
  BY <1>1, Zenon DEF TTypeOK
<1>4. /\ KernelOK(h, R, run[h], kgoal'[run[h]], frame'[run[h]])
      /\ UserOK(h, R, run[h], tf'[run[h]], goal'[run[h]], kgoal'[run[h]])
      /\ \A t \in Thread : t # run[h] => kgoal'[t] = kgoal[t] /\ frame'[t] = frame[t]
  BY <1>3, Zenon
<1>5. UNCHANGED <<run, ctx, tstate, paniced>>
  BY Zenon
<1> QED
  BY <1>2, <1>3, <1>4, <1>5, HartStep, Zenon

\* usertrapret fills in the trapframe and the registers for sret.
LEMMA RetSetInv == ASSUME TrapAssumption, TInv, NEW h \in Hart, ret_set(h) PROVE TInv'
<1>0. reg[h] \in Reg /\ HartOK(h) /\ TTypeOK /\ run[h] \in Thread /\ h \in Thread /\ "userret" \in Pc
  BY HartFacts, Pcs, Zenon
<1>1. reg[h].pc = "ret_set"
  BY Zenon DEF ret_set
<1>2. /\ run[h] \in Proc /\ reg[h].mode = "s" /\ reg[h].satp = Kernel
      /\ reg[h].tp = h /\ reg[h].sp = run[h] /\ reg[h].sie = 0
      /\ tf[run[h]].x = run[h] /\ tf[run[h]].epc = goal[run[h]]
  BY <1>0, <1>1, Zenon DEF HartOK, KernelOK, UserOK, Pos, Reg
<1> DEFINE u == [tf[run[h]] EXCEPT !.satp = reg[h].satp, !.sp = run[h], !.hartid = reg[h].tp]
           R == [reg[h] EXCEPT !.stvec = "uservec", !.spp = "u", !.spie = 1,
                   !.sepc = tf[run[h]].epc, !.pc = "userret"]
<1>3. tf[run[h]] \in Trapframe /\ goal[run[h]] \in UserPc /\ goal[run[h]] \in Pc
  BY <1>0, <1>2, Pcs, Zenon DEF TTypeOK
<1>4. /\ u \in Trapframe /\ u.x = tf[run[h]].x /\ u.epc = tf[run[h]].epc
      /\ u.satp = Kernel /\ u.sp = run[h] /\ u.hartid = h
  <2>1. /\ reg[h].satp \in Proc \cup {Kernel, "none"} /\ run[h] \in Thread \cup {"none"}
        /\ reg[h].tp \in Hart \cup {"none"}
    BY <1>0, <1>2, Zenon
  <2> QED
    BY <1>2, <1>3, <2>1, Zenon DEF Trapframe
<1>5. /\ R \in Reg /\ R.mode = reg[h].mode /\ R.tp = reg[h].tp /\ R.sp = reg[h].sp
      /\ R.satp = reg[h].satp /\ R.stvec = "uservec" /\ R.pc = "userret" /\ R.sie = reg[h].sie
      /\ R.spp = "u" /\ R.spie = 1 /\ R.sepc = tf[run[h]].epc
  <2>1. "uservec" \in {"uservec", "kernelvec"} /\ "u" \in {"u", "s"} /\ 1 \in {0, 1}
    BY Zenon
  <2>2. tf[run[h]].epc \in Pc
    BY <1>2, <1>3, Zenon
  <2> QED
    BY <1>0, <2>1, <2>2, Zenon DEF Reg
<1>6. /\ reg' = [reg EXCEPT ![h] = R] /\ tf' = [tf EXCEPT ![run[h]] = u]
      /\ UNCHANGED <<run, ctx, frame, tstate, tkilled, goal, kgoal, paniced>>
  BY <1>2, Zenon DEF ret_set
<1> HIDE DEF u, R
<1>7. KernelOK(h, R, run[h], kgoal[run[h]], frame[run[h]])
  BY <1>2, <1>5, Zenon DEF KernelOK, Pos
<1>8. UserOK(h, R, run[h], u, goal[run[h]], kgoal[run[h]])
  BY <1>2, <1>4, <1>5, Zenon DEF UserOK, Pos, Ready
<1>9. tkilled' \in [Proc -> {0, 1}]
  BY <1>0, <1>6, Zenon DEF TTypeOK
<1> QED
  BY <1>2, <1>4, <1>5, <1>6, <1>7, <1>8, <1>9, UserStep, Zenon

\* userret: the process' page table, its registers, and sret.
LEMMA UserretInv == ASSUME TrapAssumption, TInv, NEW h \in Hart, userret(h) PROVE TInv'
<1>0. reg[h] \in Reg /\ HartOK(h) /\ TTypeOK /\ run[h] \in Thread
  BY HartFacts, Zenon
<1>1. reg[h].pc = "userret"
  BY Zenon DEF userret
<1>2. /\ run[h] \in Proc /\ reg[h].mode = "s" /\ reg[h].tp = h /\ reg[h].stvec = "uservec"
      /\ reg[h].spp = "u" /\ reg[h].spie = 1 /\ reg[h].sepc = goal[run[h]]
      /\ tf[run[h]].x = run[h] /\ Ready(h, run[h], tf[run[h]])
  BY <1>0, <1>1, Zenon DEF HartOK, KernelOK, UserOK, Pos, Reg
<1> DEFINE u == [tf[run[h]] EXCEPT !.epc = "none", !.x = "none"]
           S == [reg[h] EXCEPT !.satp = run[h], !.x = tf[run[h]].x, !.sp = run[h]]
           R == Sret(S)
<1>3. tf[run[h]] \in Trapframe /\ goal[run[h]] \in UserPc
  BY <1>0, <1>2, Zenon DEF TTypeOK
<1>4. u \in Trapframe /\ Ready(h, run[h], u)
  <2>1. "none" \in UserPc \cup {"none"} /\ "none" \in Proc \cup {"k", "none"}
    BY Zenon
  <2> QED
    BY <1>2, <1>3, <2>1, Zenon DEF Trapframe, Ready
<1>5. /\ S \in Reg /\ S.satp = run[h] /\ S.x = run[h] /\ S.spp = reg[h].spp /\ S.spie = reg[h].spie
      /\ S.sepc = reg[h].sepc /\ S.stvec = reg[h].stvec
  <2>1. /\ run[h] \in Proc \cup {Kernel, "none"} /\ tf[run[h]].x \in Proc \cup {"k", "none"}
        /\ run[h] \in Thread \cup {"none"}
    BY <1>0, <1>2, Zenon
  <2> QED
    BY <1>0, <1>2, <2>1, Zenon DEF Reg
<1> HIDE DEF S, u
<1>6. /\ R \in Reg /\ R.mode = "u" /\ R.stvec = "uservec" /\ R.satp = run[h] /\ R.x = run[h]
      /\ R.pc = goal[run[h]]
  BY <1>2, <1>5, SretReg, Zenon
<1>7. /\ reg' = [reg EXCEPT ![h] = R] /\ tf' = [tf EXCEPT ![run[h]] = u]
      /\ UNCHANGED <<run, ctx, frame, tstate, tkilled, goal, kgoal, paniced>>
  BY <1>2, Zenon DEF userret, u, S
<1> HIDE DEF R
<1>8. KernelOK(h, R, run[h], kgoal[run[h]], frame[run[h]])
  BY <1>2, <1>3, <1>6, Zenon DEF KernelOK
<1>9. UserOK(h, R, run[h], u, goal[run[h]], kgoal[run[h]])
  BY <1>3, <1>4, <1>6, Zenon DEF UserOK, Pos
<1>10. tkilled' \in [Proc -> {0, 1}]
  BY <1>0, <1>7, Zenon DEF TTypeOK
<1> QED
  BY <1>2, <1>4, <1>6, <1>7, <1>8, <1>9, <1>10, UserStep, Zenon

\* uservec: the page table in use is the process' own, and its trapframe
\* holds the kernel's values for this hart.
LEMMA UservecInv == ASSUME TrapAssumption, TInv, NEW h \in Hart, uservec(h) PROVE TInv'
<1>0. reg[h] \in Reg /\ HartOK(h) /\ TTypeOK /\ run[h] \in Thread /\ h \in Thread /\ "usertrap" \in Pc
  BY HartFacts, Pcs, Zenon
<1>1. reg[h].pc = "uservec"
  BY Zenon DEF uservec
<1>2. /\ run[h] \in Proc /\ reg[h].mode = "s" /\ reg[h].stvec = "uservec" /\ reg[h].sie = 0
      /\ reg[h].satp = run[h] /\ reg[h].x = run[h] /\ reg[h].spp = "u" /\ reg[h].scause # "none"
      /\ reg[h].sepc \in UserPc /\ Ret(reg[h]) = goal[run[h]] /\ Ready(h, run[h], tf[run[h]])
  BY <1>0, <1>1, Zenon DEF HartOK, KernelOK, UserOK, Pos, Reg
<1> DEFINE u == [NoTf EXCEPT !.x = reg[h].x]
           R == [reg[h] EXCEPT !.sp = tf[run[h]].sp, !.tp = tf[run[h]].hartid,
                   !.satp = tf[run[h]].satp, !.x = "k", !.pc = "usertrap"]
<1>3. u \in Trapframe /\ u.x = run[h]
  BY <1>2, Zenon DEF Trapframe, NoTf
<1>4. /\ R \in Reg /\ R.mode = reg[h].mode /\ R.tp = h /\ R.sp = run[h]
      /\ R.satp = Kernel /\ R.stvec = reg[h].stvec /\ R.pc = "usertrap" /\ R.sie = reg[h].sie
      /\ R.spp = reg[h].spp /\ R.sepc = reg[h].sepc /\ R.scause = reg[h].scause
  <2>1. /\ tf[run[h]].sp = run[h] /\ tf[run[h]].hartid = h /\ tf[run[h]].satp = Kernel
        /\ tf[run[h]].sp \in Thread \cup {"none"} /\ tf[run[h]].hartid \in Hart \cup {"none"}
        /\ tf[run[h]].satp \in Proc \cup {Kernel, "none"} /\ "k" \in Proc \cup {"k", "none"}
    BY <1>0, <1>2, Zenon DEF Ready
  <2> QED
    BY <1>0, <2>1, ZenonT(30) DEF Reg
<1>5. run[h] # Kernel
  BY <1>2, Zenon DEF TrapAssumption
<1>6. /\ reg' = [reg EXCEPT ![h] = R] /\ tf' = [tf EXCEPT ![run[h]] = u]
      /\ UNCHANGED <<run, ctx, frame, tstate, tkilled, goal, kgoal, paniced>>
  BY <1>2, <1>5, Zenon DEF uservec
<1> HIDE DEF u, R
<1>7. KernelOK(h, R, run[h], kgoal[run[h]], frame[run[h]])
  BY <1>2, <1>4, Zenon DEF KernelOK, Pos
<1>8. UserOK(h, R, run[h], u, goal[run[h]], kgoal[run[h]])
  BY <1>2, <1>3, <1>4, Zenon DEF UserOK, Pos, Ret
<1>9. tkilled' \in [Proc -> {0, 1}]
  BY <1>0, <1>6, Zenon DEF TTypeOK
<1> QED
  BY <1>2, <1>3, <1>4, <1>6, <1>7, <1>8, <1>9, UserStep, Zenon

\* usertrap saves where the user code is to go on, before interrupts are on.
LEMMA UsertrapInv == ASSUME TrapAssumption, TInv, NEW h \in Hart, usertrap(h) PROVE TInv'
<1>0. reg[h] \in Reg /\ HartOK(h) /\ TTypeOK /\ run[h] \in Thread
  BY HartFacts, Zenon
<1>1. reg[h].pc = "usertrap"
  BY Zenon DEF usertrap
<1>2. /\ run[h] \in Proc /\ reg[h].mode = "s" /\ reg[h].tp = h /\ reg[h].sp = run[h]
      /\ reg[h].satp = Kernel /\ reg[h].spp = "u" /\ reg[h].sepc \in UserPc
      /\ Ret(reg[h]) = goal[run[h]] /\ tf[run[h]].x = run[h]
  BY <1>0, <1>1, Zenon DEF HartOK, KernelOK, UserOK, Pos, Reg
<1>3. tf[run[h]] \in Trapframe /\ tkilled \in [Proc -> {0, 1}] /\ After(reg[h].sepc) \in UserPc
  BY <1>0, <1>2, Pcs, Zenon DEF TTypeOK
<1> DEFINE U(e) == [tf[run[h]] EXCEPT !.epc = e]
           S == Spent(reg[h])
           At(pc, sie) == [S EXCEPT !.stvec = "kernelvec", !.pc = pc, !.sie = sie]
<1>4. ASSUME NEW pc \in ProcPc, NEW sie \in {0, 1}, NEW e \in UserPc,
             pc # "exit" => e = goal[run[h]],
             reg' = [reg EXCEPT ![h] = At(pc, sie)], tf' = [tf EXCEPT ![run[h]] = U(e)],
             tkilled' \in [Proc -> {0, 1}], UNCHANGED <<run, ctx, frame, tstate, goal, kgoal, paniced>>
      PROVE  TInv'
  <2> DEFINE R == At(pc, sie) u == U(e)
  <2>1. /\ S \in Reg /\ S.mode = "s" /\ S.tp = h /\ S.sp = run[h] /\ S.satp = Kernel
    BY <1>0, <1>2, SpentReg, Zenon
  <2>2. "kernelvec" \in {"uservec", "kernelvec"} /\ pc \in Pc
    BY Pcs, Zenon
  <2> HIDE DEF S
  <2>3. /\ R \in Reg /\ R.mode = "s" /\ R.tp = h /\ R.sp = run[h] /\ R.satp = Kernel
        /\ R.stvec = "kernelvec" /\ R.pc = pc
    BY <2>1, <2>2, Zenon DEF Reg
  <2>4. u \in Trapframe /\ u.x = run[h] /\ u.epc = e
    <3>1. e \in UserPc \cup {"none"}
      BY Zenon
    <3> QED
      BY <1>2, <1>3, <3>1, Zenon DEF Trapframe
  <2>5. reg' = [reg EXCEPT ![h] = R] /\ tf' = [tf EXCEPT ![run[h]] = u]
    BY <1>4, Zenon
  <2> HIDE DEF R, u, At, U
  <2>6. KernelOK(h, R, run[h], kgoal[run[h]], frame[run[h]])
    BY <1>2, <2>3, Zenon DEF KernelOK, Pos
  <2>7. UserOK(h, R, run[h], u, goal[run[h]], kgoal[run[h]])
    BY <1>4, <2>3, <2>4, Zenon DEF UserOK, Pos
  <2>8. /\ run[h] \in Proc /\ tkilled' \in [Proc -> {0, 1}]
        /\ UNCHANGED <<run, ctx, frame, tstate, goal, kgoal, paniced>>
    BY <1>2, <1>4, Zenon
  <2> QED
    BY <2>3, <2>4, <2>5, <2>6, <2>7, <2>8, UserStep, Zenon
<1>5. UNCHANGED <<run, ctx, frame, tstate, goal, kgoal, paniced>> /\ reg[h].sie \in {0, 1}
  <2>1. reg[h].spp # "s"
    BY <1>2, Zenon
  <2> QED
    BY <1>0, <1>1, <2>1, Zenon DEF usertrap, Reg
<1>6. \/ /\ tf' = [tf EXCEPT ![run[h]] = U(reg[h].sepc)]
         /\ reg' = [reg EXCEPT ![h] = At("exit", reg[h].sie)] /\ UNCHANGED tkilled
      \/ /\ reg[h].scause = "ecall" /\ tf' = [tf EXCEPT ![run[h]] = U(After(reg[h].sepc))]
         /\ reg' = [reg EXCEPT ![h] = At("syscall", 1)] /\ UNCHANGED tkilled
      \/ /\ reg[h].scause \in {"timer", "device"} /\ tf' = [tf EXCEPT ![run[h]] = U(reg[h].sepc)]
         /\ reg' = [reg EXCEPT ![h] = At(IF reg[h].scause = "timer" THEN "post_timer" ELSE "post", reg[h].sie)]
         /\ UNCHANGED tkilled
      \/ /\ reg[h].scause = "fault" /\ tf' = [tf EXCEPT ![run[h]] = U(reg[h].sepc)]
         /\ tkilled' = [tkilled EXCEPT ![run[h]] = 1]
         /\ reg' = [reg EXCEPT ![h] = At("post", reg[h].sie)]
  <2>1. reg[h].spp # "s" /\ run[reg[h].tp] = run[h]
    BY <1>2, Zenon
  <2> QED
    BY <1>1, <2>1, Zenon DEF usertrap
<1>7. reg[h].scause # "ecall" => reg[h].sepc = goal[run[h]]
  BY <1>2, Zenon DEF Ret
<1>8. reg[h].scause = "ecall" => After(reg[h].sepc) = goal[run[h]]
  BY <1>2, Zenon DEF Ret
<1>9. /\ "exit" \in ProcPc /\ "syscall" \in ProcPc /\ "post" \in ProcPc
      /\ (IF reg[h].scause = "timer" THEN "post_timer" ELSE "post") \in ProcPc
      /\ 1 \in {0, 1} /\ [tkilled EXCEPT ![run[h]] = 1] \in [Proc -> {0, 1}]
      /\ reg[h].scause \in {"timer", "device"} => reg[h].scause # "ecall"
      /\ reg[h].scause = "fault" => reg[h].scause # "ecall"
      /\ reg[h].sepc \in UserPc /\ After(reg[h].sepc) \in UserPc
  BY <1>2, <1>3, Zenon
<1> HIDE DEF U, At
<1> QED
  BY <1>3, <1>4, <1>5, <1>6, <1>7, <1>8, <1>9, Zenon

\* A trap: the hardware saves pc, mode and sie, and goes to stvec.
LEMMA TrapInv ==
  ASSUME TrapAssumption, TInv, NEW h \in Hart, NEW cause \in {"ecall", "fault", "timer", "device"},
         trap(h, cause)
  PROVE  TInv'
<1>0. reg[h] \in Reg /\ HartOK(h) /\ TTypeOK /\ run[h] \in Thread
  BY HartFacts, Zenon
<1> DEFINE R == [reg[h] EXCEPT !.mode = "s", !.spp = reg[h].mode,
                   !.spie = reg[h].sie, !.sie = 0, !.sepc = reg[h].pc, !.scause = cause,
                   !.pc = reg[h].stvec]
<1>1. /\ R \in Reg /\ R.mode = "s" /\ R.spp = reg[h].mode /\ R.spie = reg[h].sie /\ R.sie = 0
      /\ R.sepc = reg[h].pc /\ R.scause = cause /\ R.pc = reg[h].stvec /\ R.stvec = reg[h].stvec
      /\ R.tp = reg[h].tp /\ R.sp = reg[h].sp /\ R.satp = reg[h].satp /\ R.x = reg[h].x
  <2>1. /\ "s" \in {"u", "s"} /\ reg[h].mode \in {"u", "s"} /\ 0 \in {0, 1} /\ reg[h].sie \in {0, 1}
        /\ reg[h].pc \in Pc /\ cause \in Cause
    BY <1>0, Zenon DEF Reg, Cause
  <2>2. reg[h].stvec \in Pc
    BY <1>0, Pcs, Zenon DEF Reg
  <2> QED
    BY <1>0, <2>1, <2>2, Zenon DEF Reg
<1>2. /\ \/ cause \in {"ecall", "fault"} /\ reg[h].mode = "u"
         \/ cause \in {"timer", "device"} /\ (reg[h].mode = "u" \/ reg[h].sie = 1)
      /\ reg' = [reg EXCEPT ![h] = R]
      /\ IF reg[h].mode = "u"
         THEN /\ goal' = [goal EXCEPT ![run[h]] = IF cause = "ecall" THEN After(reg[h].pc) ELSE reg[h].pc]
              /\ UNCHANGED kgoal
         ELSE kgoal' = [kgoal EXCEPT ![run[h]] = reg[h].pc] /\ UNCHANGED goal
      /\ UNCHANGED <<run, ctx, frame, tf, tstate, tkilled, paniced>>
  BY Zenon DEF trap
<1> HIDE DEF R
<1>3. /\ frame' \in [Thread -> Frame] /\ tf' \in [Proc -> Trapframe] /\ tkilled' \in [Proc -> {0, 1}]
      /\ UNCHANGED <<run, ctx, tstate, paniced>> /\ frame' = frame /\ tf' = tf
  BY <1>0, <1>2, Zenon DEF TTypeOK
<1>4. CASE reg[h].mode = "u"
  <2>1. /\ run[h] \in Proc /\ reg[h].pc \in UserPc /\ reg[h].stvec = "uservec" /\ reg[h].satp = run[h]
        /\ reg[h].x = run[h] /\ Ready(h, run[h], tf[run[h]])
    BY <1>0, <1>4, Zenon DEF HartOK, KernelOK, UserOK
  <2> DEFINE g == IF cause = "ecall" THEN After(reg[h].pc) ELSE reg[h].pc
  <2>2. g \in UserPc /\ kgoal' = kgoal /\ goal' = [goal EXCEPT ![run[h]] = g]
    BY <1>2, <1>4, <2>1, Pcs, Zenon
  <2>3. /\ goal' \in [Proc -> UserPc] /\ goal'[run[h]] = g /\ kgoal' \in [Thread -> Pc]
        /\ \A p \in Proc : p # run[h] => tf'[p] = tf[p] /\ goal'[p] = goal[p]
        /\ \A t \in Thread : t # run[h] => kgoal'[t] = kgoal[t] /\ frame'[t] = frame[t]
    BY <1>0, <1>3, <2>1, <2>2, Zenon DEF TTypeOK
  <2>4. KernelOK(h, R, run[h], kgoal'[run[h]], frame'[run[h]])
    BY <1>1, <2>1, Zenon DEF KernelOK, Pos
  <2>5. UserOK(h, R, run[h], tf'[run[h]], goal'[run[h]], kgoal'[run[h]])
    BY <1>1, <1>3, <1>4, <2>1, <2>3, Zenon DEF UserOK, Pos, Ret
  <2> QED
    BY <1>1, <1>2, <1>3, <2>3, <2>4, <2>5, HartStep, Zenon
<1>5. CASE reg[h].mode # "u"
  <2>1. reg[h].mode = "s" /\ reg[h].sie = 1 /\ cause \in {"timer", "device"}
    BY <1>0, <1>2, <1>5, Zenon DEF Reg
  <2>2. /\ reg[h].pc \in SchedPc \cup ProcPc /\ reg[h].stvec = "kernelvec" /\ reg[h].satp = Kernel
        /\ reg[h].tp = h /\ reg[h].sp = run[h] /\ (run[h] \in Proc <=> reg[h].pc \notin SchedPc)
    BY <1>0, <2>1 DEF HartOK, KernelOK, Pos
  <2>3. goal' = goal /\ kgoal' = [kgoal EXCEPT ![run[h]] = reg[h].pc] /\ reg[h].pc \in Pc
    BY <1>2, <1>5, <2>2, Pcs, Zenon
  <2>4. /\ goal' \in [Proc -> UserPc] /\ kgoal' \in [Thread -> Pc] /\ kgoal'[run[h]] = reg[h].pc
        /\ \A p \in Proc : p # run[h] => tf'[p] = tf[p] /\ goal'[p] = goal[p]
        /\ \A t \in Thread : t # run[h] => kgoal'[t] = kgoal[t] /\ frame'[t] = frame[t]
    BY <1>0, <1>3, <2>3, Zenon DEF TTypeOK
  <2>5. KernelOK(h, R, run[h], kgoal'[run[h]], frame'[run[h]])
    BY <1>1, <2>1, <2>2, <2>4, Zenon DEF KernelOK, Pos
  <2>6. run[h] \in Proc => UserOK(h, R, run[h], tf'[run[h]], goal'[run[h]], kgoal'[run[h]])
    <3> SUFFICES ASSUME run[h] \in Proc PROVE UserOK(h, R, run[h], tf'[run[h]], goal'[run[h]], kgoal'[run[h]])
      BY Zenon
    <3>1. R.mode = "s" /\ R.pc = "kernelvec" /\ Pos(R.pc, kgoal'[run[h]]) = Pos(reg[h].pc, kgoal[run[h]])
      BY <1>1, <2>2, <2>4, Zenon DEF Pos
    <3> QED
      BY <1>0, <1>3, <2>3, <3>1, Zenon DEF HartOK, UserOK
  <2> QED
    BY <1>1, <1>2, <1>3, <2>4, <2>5, <2>6, HartStep, Zenon
<1> QED
  BY <1>4, <1>5, Zenon

-----------------------------------------------------------------------------
(* Interrupts in the kernel.                                               *)

\* A handler of an interrupt in the kernel: one hart, one thread's frame.
LEMMA HandlerStep ==
  ASSUME TrapAssumption, TInv, NEW h \in Hart, NEW R \in Reg, NEW k \in Pc, NEW f \in Frame,
         reg' = [reg EXCEPT ![h] = R], frame' = [frame EXCEPT ![run[h]] = f],
         kgoal' = [kgoal EXCEPT ![run[h]] = k],
         UNCHANGED <<run, ctx, tf, tstate, tkilled, goal, paniced>>,
         KernelOK(h, R, run[h], k, f),
         run[h] \in Proc => UserOK(h, R, run[h], tf[run[h]], goal[run[h]], k)
  PROVE  TInv'
<1>1. TTypeOK /\ run[h] \in Thread
  BY HartFacts, Zenon
<1>2. /\ goal' \in [Proc -> UserPc] /\ tf' \in [Proc -> Trapframe] /\ tkilled' \in [Proc -> {0, 1}]
      /\ UNCHANGED <<run, ctx, tstate, paniced>>
      /\ \A p \in Proc : p # run[h] => tf'[p] = tf[p] /\ goal'[p] = goal[p]
  BY <1>1, Zenon DEF TTypeOK
<1>3. /\ kgoal' \in [Thread -> Pc] /\ frame' \in [Thread -> Frame]
      /\ kgoal'[run[h]] = k /\ frame'[run[h]] = f
      /\ \A t \in Thread : t # run[h] => kgoal'[t] = kgoal[t] /\ frame'[t] = frame[t]
  BY <1>1, Zenon DEF TTypeOK
<1>4. /\ KernelOK(h, R, run[h], kgoal'[run[h]], frame'[run[h]])
      /\ run[h] \in Proc => UserOK(h, R, run[h], tf'[run[h]], goal'[run[h]], kgoal'[run[h]])
  BY <1>3, Zenon
<1> QED
  BY <1>2, <1>3, <1>4, HartStep, Zenon

\* kerneltrap does not panic: it was entered from the kernel, interrupts are
\* off, and a device is the cause.  It yields only a running process.
LEMMA KerneltrapInv == ASSUME TrapAssumption, TInv, NEW h \in Hart, kerneltrap(h) PROVE TInv'
<1>0. /\ reg[h] \in Reg /\ HartOK(h) /\ TTypeOK /\ run[h] \in Thread /\ "ktrap_end" \in Pc
      /\ run[h] = h \/ (run[h] \in Proc /\ tstate[run[h]] = "running")
  BY HartFacts, Pcs, Zenon
<1>1. reg[h].pc = "kernelvec"
  BY Zenon DEF kerneltrap
<1>2. /\ reg[h].mode = "s" /\ reg[h].tp = h /\ reg[h].sp = run[h] /\ reg[h].satp = Kernel
      /\ reg[h].stvec = "kernelvec" /\ reg[h].sie = 0 /\ reg[h].spp = "s" /\ reg[h].spie = 1
      /\ reg[h].sepc = kgoal[run[h]] /\ reg[h].scause \in {"timer", "device"}
      /\ kgoal[run[h]] \in SchedPc \cup ProcPc
      /\ run[h] \in Proc <=> kgoal[run[h]] \notin SchedPc
  BY <1>0, <1>1, Zenon DEF HartOK, KernelOK, Pos, Reg
<1>u. run[h] \in Proc /\ kgoal[run[h]] # "exit" =>
        tf[run[h]].x = run[h] /\ tf[run[h]].epc = goal[run[h]]
  BY <1>0, <1>1, <1>2, Zenon DEF HartOK, UserOK, Pos
<1> DEFINE f == Saved(reg[h]) S == Spent(reg[h])
<1>3. f \in Frame /\ f.sepc = kgoal[run[h]] /\ f.spp = "s" /\ f.spie = 1
  BY <1>0, <1>2, Zenon DEF Saved, Frame, Reg
<1>4. /\ S \in Reg /\ S.mode = "s" /\ S.tp = h /\ S.sp = run[h] /\ S.satp = Kernel
      /\ S.stvec = "kernelvec" /\ S.sie = 0
  BY <1>0, <1>2, SpentReg, Zenon
<1> DEFINE R == [S EXCEPT !.pc = "ktrap_end"]
<1>5. /\ frame' = [frame EXCEPT ![run[h]] = f]
      /\ UNCHANGED <<tf, tkilled, goal, kgoal, paniced>>
      /\ \/ /\ run[h] \in Proc /\ tstate' = [tstate EXCEPT ![run[h]] = "runnable"]
            /\ Leave(h, run[h], S, "ktrap_end")
         \/ reg' = [reg EXCEPT ![h] = R] /\ UNCHANGED <<tstate, run, ctx>>
  <2>1. reg[h].spp # "u" /\ reg[h].sie # 1 /\ reg[h].scause \in {"timer", "device"}
    BY <1>2
  <2> QED
    BY <1>1, <2>1, Zenon DEF kerneltrap
<1> HIDE DEF f, S
<1>6. CASE /\ run[h] \in Proc /\ tstate' = [tstate EXCEPT ![run[h]] = "runnable"]
           /\ Leave(h, run[h], S, "ktrap_end")
  <2>1. /\ frame' \in [Thread -> Frame] /\ frame'[run[h]] = f
        /\ \A t \in Thread : t # run[h] => frame'[t] = frame[t]
    BY <1>0, <1>3, <1>5, Zenon DEF TTypeOK
  <2>2. WaitOK(run[h], [pc |-> "ktrap_end", sie |-> S.sie], tf[run[h]], goal[run[h]], kgoal[run[h]], frame'[run[h]])
    BY <1>2, <1>3, <1>4, <1>u, <1>6, <2>1, Zenon DEF WaitOK, Pos
  <2>3. UNCHANGED <<tf, tkilled, goal, kgoal, paniced>>
    BY <1>5, Zenon
  <2> QED
    BY <1>0, <1>4, <1>6, <2>1, <2>2, <2>3, LeaveInv, Zenon
<1>7. CASE reg' = [reg EXCEPT ![h] = R] /\ UNCHANGED <<tstate, run, ctx>>
  <2>1. /\ R \in Reg /\ R.mode = "s" /\ R.tp = h /\ R.sp = run[h] /\ R.satp = Kernel
        /\ R.stvec = "kernelvec" /\ R.sie = 0 /\ R.pc = "ktrap_end"
    BY <1>0, <1>4, ZenonT(30) DEF Reg
  <2> HIDE DEF R
  <2>2. KernelOK(h, R, run[h], kgoal[run[h]], f)
    BY <1>2, <1>3, <2>1, Zenon DEF KernelOK, Pos
  <2>3. run[h] \in Proc => UserOK(h, R, run[h], tf[run[h]], goal[run[h]], kgoal[run[h]])
    BY <1>2, <1>u, <2>1, Zenon DEF UserOK, Pos
  <2>4. kgoal' = [kgoal EXCEPT ![run[h]] = kgoal[run[h]]] /\ kgoal[run[h]] \in Pc
    BY <1>0, <1>5, Zenon DEF TTypeOK
  <2>5. frame' = [frame EXCEPT ![run[h]] = f] /\ UNCHANGED <<run, ctx, tf, tstate, tkilled, goal, paniced>>
    BY <1>5, <1>7, Zenon
  <2> QED
    BY <1>3, <1>7, <2>1, <2>2, <2>3, <2>4, <2>5, HandlerStep, Zenon
<1> QED
  BY <1>5, <1>6, <1>7, Zenon

EndRegs(h) == Sret(Restored(reg[h], frame[run[h]]))

\* What kerneltrap's end leaves in the registers: the interrupted code's.
LEMMA KerneltrapEndRegs ==
  ASSUME TrapAssumption, TInv, NEW h \in Hart, reg[h].pc = "ktrap_end"
  PROVE  /\ EndRegs(h) \in Reg /\ EndRegs(h).mode = "s" /\ EndRegs(h).sie = 1
         /\ EndRegs(h).pc = kgoal[run[h]] /\ EndRegs(h).stvec = "kernelvec"
         /\ EndRegs(h).tp = h /\ EndRegs(h).sp = run[h] /\ EndRegs(h).satp = Kernel
<1>0. reg[h] \in Reg /\ HartOK(h) /\ TTypeOK /\ run[h] \in Thread
  BY HartFacts, Zenon
<1>1. /\ reg[h].mode = "s" /\ reg[h].tp = h /\ reg[h].sp = run[h] /\ reg[h].satp = Kernel
      /\ reg[h].stvec = "kernelvec" /\ frame[run[h]].spp = "s" /\ frame[run[h]].spie = 1
      /\ frame[run[h]].sepc = kgoal[run[h]]
  BY <1>0, Zenon DEF HartOK, KernelOK, Pos, Reg
<1>2. frame[run[h]] \in Frame
  BY <1>0, Zenon DEF TTypeOK
<1> DEFINE S == Restored(reg[h], frame[run[h]])
<1>3. /\ S \in Reg /\ S.sepc = frame[run[h]].sepc /\ S.spp = frame[run[h]].spp
      /\ S.spie = frame[run[h]].spie /\ S.stvec = reg[h].stvec /\ S.tp = reg[h].tp
      /\ S.sp = reg[h].sp /\ S.satp = reg[h].satp
  <2>1. /\ frame[run[h]].sepc \in Pc /\ frame[run[h]].spp \in {"u", "s"}
        /\ frame[run[h]].spie \in {0, 1}
    BY <1>2, Zenon DEF Frame
  <2> QED
    BY <1>0, <2>1, Zenon DEF Restored, Reg
<1> HIDE DEF S
<1> QED
  BY <1>1, <1>3, SretReg DEF S, EndRegs

\* kerneltrap restores sepc and sstatus and returns.
LEMMA KerneltrapEndInv == ASSUME TrapAssumption, TInv, NEW h \in Hart, kerneltrap_end(h) PROVE TInv'
<1>0. reg[h] \in Reg /\ HartOK(h) /\ TTypeOK /\ run[h] \in Thread
  BY HartFacts, Zenon
<1> DEFINE R == EndRegs(h)
<1>1. /\ reg[h].pc = "ktrap_end" /\ reg' = [reg EXCEPT ![h] = R]
      /\ frame' = [frame EXCEPT ![run[h]] = NoFrame] /\ kgoal' = [kgoal EXCEPT ![run[h]] = "none"]
      /\ UNCHANGED <<run, ctx, tf, tstate, tkilled, goal, paniced>>
  BY Zenon DEF kerneltrap_end, EndRegs
<1>2. /\ R \in Reg /\ R.mode = "s" /\ R.sie = 1 /\ R.pc = kgoal[run[h]]
      /\ R.stvec = "kernelvec" /\ R.tp = h /\ R.sp = run[h] /\ R.satp = Kernel
  BY <1>1, KerneltrapEndRegs, Zenon
<1> HIDE DEF R
<1>3. /\ kgoal[run[h]] \in SchedPc \cup ProcPc /\ (run[h] \in Proc <=> kgoal[run[h]] \notin SchedPc)
  BY <1>0, <1>1, Zenon DEF HartOK, KernelOK, Pos, Reg
<1>4. run[h] \in Proc /\ kgoal[run[h]] # "exit" =>
        tf[run[h]].x = run[h] /\ tf[run[h]].epc = goal[run[h]]
  BY <1>0, <1>1, <1>3, Zenon DEF HartOK, UserOK, Pos
<1>5. KernelOK(h, R, run[h], "none", NoFrame)
  BY <1>2, <1>3, Zenon DEF KernelOK, Pos
<1>6. run[h] \in Proc => UserOK(h, R, run[h], tf[run[h]], goal[run[h]], "none")
  BY <1>2, <1>3, <1>4, Zenon DEF UserOK, Pos
<1>7. "none" \in Pc /\ NoFrame \in Frame
  BY Pcs, Zenon DEF NoFrame, Frame
<1> QED
  BY <1>1, <1>2, <1>5, <1>6, <1>7, HandlerStep, Zenon

-----------------------------------------------------------------------------
(* Processes start, move, die.                                             *)

\* swtch to a process: it goes on where it left, with this hart's registers.
LEMMA SchedPickInv ==
  ASSUME TrapAssumption, TInv, NEW h \in Hart, NEW p \in Proc, sched_pick(h, p) PROVE TInv'
<1>0. /\ reg[h] \in Reg /\ HartOK(h) /\ TTypeOK /\ ProcOK(p) /\ h \in Thread /\ h \notin Proc /\ ~paniced
      /\ run[h] = h \/ run[h] \in Proc
  BY HartFacts, Zenon
<1> DEFINE R == [reg[h] EXCEPT !.sp = p, !.pc = ctx[p].pc, !.sie = ctx[p].sie]
<1>1. /\ reg[h].pc = "s_pick" /\ tstate[p] = "runnable"
      /\ tstate' = [tstate EXCEPT ![p] = "running"] /\ run' = [run EXCEPT ![h] = p]
      /\ reg' = [reg EXCEPT ![h] = R] /\ ctx' = [ctx EXCEPT ![p] = NoCtx]
      /\ UNCHANGED <<frame, tf, tkilled, goal, kgoal, paniced>>
  BY Zenon DEF sched_pick
<1>2. /\ run[h] \notin Proc /\ reg[h].mode = "s" /\ reg[h].tp = h /\ reg[h].satp = Kernel
      /\ reg[h].stvec = "kernelvec"
  BY <1>0, <1>1, Zenon DEF HartOK, KernelOK, Pos, Reg
<1>p. p \in Thread
  BY Zenon DEF Thread
<1>3. ctx[p] \in Context /\ WaitOK(p, ctx[p], tf[p], goal[p], kgoal[p], frame[p])
  BY <1>0, <1>1, <1>p, Zenon DEF ProcOK, TTypeOK
<1>4. /\ R \in Reg /\ R.mode = "s" /\ R.tp = h /\ R.satp = Kernel /\ R.stvec = "kernelvec"
      /\ R.sp = p /\ R.pc = ctx[p].pc /\ R.sie = ctx[p].sie
  <2>1. p \in Thread \cup {"none"} /\ ctx[p].pc \in Pc /\ ctx[p].sie \in {0, 1}
    BY <1>3, <1>p, Zenon DEF Context
  <2> QED
    BY <1>0, <1>2, <2>1, Zenon DEF Reg
<1> HIDE DEF R
<1>5. NoCtx \in Context
  BY Pcs, Zenon DEF NoCtx, Context
<1>6. TTypeOK'
  BY <1>0, <1>1, <1>4, <1>5, <1>p, Zenon DEF TTypeOK
<1>7. \A g \in Hart : run[g] # p
  BY <1>1, HartFacts, Zenon
<1>8. /\ reg'[h] = R /\ run'[h] = p /\ tstate'[p] = "running"
      /\ \A g \in Hart : g # h => reg'[g] = reg[g] /\ run'[g] = run[g]
      /\ \A q \in Proc : q # p => ctx'[q] = ctx[q] /\ tstate'[q] = tstate[q]
  BY <1>0, <1>1, <1>p, Zenon DEF TTypeOK, Thread
<1>9. Touches(h, p)
  BY <1>1, <1>7, <1>8, Zenon DEF Touches
<1>10. KernelOK(h, R, p, kgoal[p], frame[p])
  BY <1>3, <1>4, Zenon DEF KernelOK, WaitOK, Pos
<1>11. UserOK(h, R, p, tf[p], goal[p], kgoal[p])
  BY <1>3, <1>4, Zenon DEF UserOK, WaitOK, Pos
<1>12. HartOK(h)'
  BY <1>1, <1>8, <1>10, <1>11, Zenon DEF HartOK
<1>13. \A q \in Proc : q \in {run[h], p} => ProcOK(q)'
  BY <1>2, <1>8, Zenon DEF ProcOK
<1> QED
  BY <1>0, <1>1, <1>p, <1>6, <1>9, <1>12, <1>13, StepInv, Zenon

\* exit gives the hart to its scheduler and the slot back.
LEMMA ExitInv == ASSUME TrapAssumption, TInv, NEW h \in Hart, exit(h) PROVE TInv'
<1>0. /\ reg[h] \in Reg /\ HartOK(h) /\ TTypeOK /\ h \in Thread /\ h \notin Proc /\ ~paniced
      /\ \A g \in Hart : g # h => run[g] # run[h] /\ run[g] # h
  BY HartFacts, Zenon
<1> DEFINE R == [reg[h] EXCEPT !.sp = h, !.pc = "s_on"]
<1>1. /\ reg[h].pc = "exit" /\ tstate' = [tstate EXCEPT ![run[h]] = "unused"]
      /\ tkilled' = [tkilled EXCEPT ![run[h]] = 0] /\ tf' = [tf EXCEPT ![run[h]] = NoTf]
      /\ goal' = [goal EXCEPT ![run[h]] = "u0"] /\ run' = [run EXCEPT ![h] = h]
      /\ reg' = [reg EXCEPT ![h] = R] /\ UNCHANGED <<ctx, frame, kgoal, paniced>>
  BY Zenon DEF exit
<1>2. /\ run[h] \in Proc /\ reg[h].mode = "s" /\ reg[h].tp = h /\ reg[h].satp = Kernel
      /\ reg[h].stvec = "kernelvec"
  BY <1>0, <1>1, Zenon DEF HartOK, KernelOK, Pos, Reg
<1>3. /\ R \in Reg /\ R.mode = "s" /\ R.tp = h /\ R.satp = Kernel /\ R.stvec = "kernelvec"
      /\ R.sp = h /\ R.pc = "s_on"
  <2>1. h \in Thread \cup {"none"} /\ "s_on" \in Pc
    BY <1>0, Pcs, Zenon
  <2> QED
    BY <1>0, <1>2, <2>1, Zenon DEF Reg
<1> HIDE DEF R
<1>4. NoTf \in Trapframe
  BY Zenon DEF NoTf, Trapframe
<1>5. TTypeOK'
  BY <1>0, <1>1, <1>2, <1>3, <1>4, Zenon DEF TTypeOK
<1>6. /\ reg'[h] = R /\ run'[h] = h /\ tstate'[run[h]] = "unused"
      /\ \A g \in Hart : g # h => reg'[g] = reg[g] /\ run'[g] = run[g]
      /\ \A q \in Proc : q # run[h] => tf'[q] = tf[q] /\ goal'[q] = goal[q] /\ tstate'[q] = tstate[q]
  BY <1>0, <1>1, <1>2, Zenon DEF TTypeOK
<1>7. Touches(h, h)
  BY <1>0, <1>1, <1>6, Zenon DEF Touches
<1>8. KernelOK(h, R, h, kgoal'[h], frame'[h])
  BY <1>0, <1>3, Zenon DEF KernelOK, Pos
<1>9. HartOK(h)'
  BY <1>0, <1>6, <1>8, Zenon DEF HartOK
<1>10. \A q \in Proc : q \in {run[h], h} => ProcOK(q)'
  BY <1>0, <1>6, Zenon DEF ProcOK
<1> QED
  BY <1>0, <1>1, <1>5, <1>7, <1>9, <1>10, StepInv, Zenon

\* fork: the child is to return from the same call, with registers of its own.
LEMMA ForkInv ==
  ASSUME TrapAssumption, TInv, NEW h \in Hart, NEW q \in Proc, syscall_fork(h, q) PROVE TInv'
<1>0. /\ reg[h] \in Reg /\ HartOK(h) /\ TTypeOK /\ h \in Thread /\ h \notin Proc /\ ~paniced
      /\ run[h] = h \/ (run[h] \in Proc /\ tstate[run[h]] = "running")
  BY HartFacts, Zenon
<1> DEFINE R == [reg[h] EXCEPT !.pc = "post"] u == [tf[run[h]] EXCEPT !.x = q]
           c == [pc |-> "forkret", sie |-> 1]
<1>1. /\ reg[h].pc = "syscall" /\ tstate[q] = "unused"
      /\ tstate' = [tstate EXCEPT ![q] = "runnable"] /\ tf' = [tf EXCEPT ![q] = u]
      /\ ctx' = [ctx EXCEPT ![q] = c] /\ goal' = [goal EXCEPT ![q] = tf[run[h]].epc]
      /\ reg' = [reg EXCEPT ![h] = R] /\ UNCHANGED <<run, frame, tkilled, kgoal, paniced>>
  BY Zenon DEF syscall_fork
<1>2. /\ run[h] \in Proc /\ reg[h].mode = "s" /\ reg[h].tp = h /\ reg[h].satp = Kernel
      /\ reg[h].stvec = "kernelvec" /\ reg[h].sp = run[h]
      /\ tf[run[h]].x = run[h] /\ tf[run[h]].epc = goal[run[h]]
  BY <1>0, <1>1, Zenon DEF HartOK, KernelOK, UserOK, Pos, Reg
<1>3. /\ R \in Reg /\ R.mode = "s" /\ R.tp = h /\ R.satp = Kernel /\ R.stvec = "kernelvec"
      /\ R.sp = run[h] /\ R.pc = "post"
  <2>1. "post" \in Pc
    BY Pcs, Zenon
  <2> QED
    BY <1>0, <1>2, <2>1, Zenon DEF Reg
<1>4. u \in Trapframe /\ u.x = q /\ u.epc = goal[run[h]] /\ goal[run[h]] \in UserPc
  <2>1. tf[run[h]] \in Trapframe /\ q \in Proc \cup {"k", "none"} /\ goal[run[h]] \in UserPc
    BY <1>0, <1>2, Zenon DEF TTypeOK
  <2> QED
    BY <1>2, <2>1, Zenon DEF Trapframe
<1>5. c \in Context /\ c.pc = "forkret"
  BY Pcs, Zenon DEF Context
<1>q. q # run[h] /\ q \in Thread /\ run[h] \in Thread
  BY <1>0, <1>1, <1>2, Zenon DEF Thread
<1> HIDE DEF R, u, c
<1>6. TTypeOK'
  BY <1>0, <1>1, <1>2, <1>3, <1>4, <1>5, <1>q, Zenon DEF TTypeOK
<1>7. /\ reg'[h] = R /\ tf'[q] = u /\ ctx'[q] = c /\ goal'[q] = goal[run[h]] /\ tstate'[q] = "runnable"
      /\ \A g \in Hart : g # h => reg'[g] = reg[g]
      /\ \A p \in Proc : p # q => /\ tf'[p] = tf[p] /\ goal'[p] = goal[p]
                                  /\ ctx'[p] = ctx[p] /\ tstate'[p] = tstate[p]
  BY <1>0, <1>1, <1>2, <1>q, Zenon DEF TTypeOK, Thread
<1>8. \A g \in Hart : run[g] # q
  BY <1>1, HartFacts, Zenon
<1>9. Touches(h, q)
  BY <1>0, <1>1, <1>2, <1>7, <1>8, Zenon DEF Touches
<1>10. KernelOK(h, R, run[h], kgoal[run[h]], frame[run[h]])
  BY <1>2, <1>3, Zenon DEF KernelOK, Pos
<1>11. UserOK(h, R, run[h], tf[run[h]], goal[run[h]], kgoal[run[h]])
  BY <1>2, <1>3, Zenon DEF UserOK, Pos
<1>12. HartOK(h)'
  BY <1>1, <1>2, <1>7, <1>q, <1>10, <1>11, ZenonT(30) DEF HartOK
<1>13. ProcOK(q)'
  <2>1. WaitOK(q, c, u, goal[run[h]], kgoal'[q], frame'[q])
    BY <1>4, <1>5, Zenon DEF WaitOK, Pos
  <2> QED
    BY <1>7, <2>1, Zenon DEF ProcOK
<1>14. PICK t \in Proc : t = run[h]
  BY <1>2, Zenon
<1>15. ProcOK(t)'
  BY <1>0, <1>2, <1>7, <1>q, <1>14, Zenon DEF ProcOK
<1>16. \A p \in Proc : p \in {run[h], q} => ProcOK(p)'
  BY <1>13, <1>14, <1>15, Zenon
<1> QED
  BY <1>0, <1>1, <1>q, <1>6, <1>9, <1>12, <1>16, StepInv, Zenon

\* kill only sets a flag.
LEMMA KillInv == ASSUME TInv, NEW p \in Proc, kill(p) PROVE TInv'
<1>1. /\ tkilled' = [tkilled EXCEPT ![p] = 1]
      /\ UNCHANGED <<reg, run, ctx, frame, tf, tstate, goal, kgoal, paniced>>
  BY Zenon DEF kill
<1>2. TTypeOK /\ RunOK /\ ~paniced /\ (\A h \in Hart : HartOK(h)) /\ \A q \in Proc : ProcOK(q)
  BY Zenon DEF TInv
<1>3. TTypeOK'
  BY <1>1, <1>2, Zenon DEF TTypeOK
<1>4. RunOK' /\ ~paniced' /\ (\A h \in Hart : HartOK(h)') /\ \A q \in Proc : ProcOK(q)'
  BY <1>1, <1>2, Zenon DEF RunOK, HartOK, ProcOK
<1> QED
  BY <1>3, <1>4, Zenon DEF TInv

-----------------------------------------------------------------------------
(* The theorems.                                                           *)

\* main leaves every hart in its scheduler, and one process to be picked.
LEMMA InitTInv == ASSUME TrapAssumption, TInit PROVE TInv
<1> DEFINE r0(h) == [mode |-> "s", sie |-> 0, spie |-> 0, spp |-> "s",
                       sepc |-> "none", scause |-> "none", stvec |-> "kernelvec",
                       satp |-> Kernel, tp |-> h, sp |-> h, x |-> "k", pc |-> "s_on"]
<1>1. /\ reg = [h \in Hart |-> r0(h)] /\ run = [h \in Hart |-> h]
      /\ frame = [t \in Thread |-> NoFrame] /\ tkilled = [p \in Proc |-> 0]
      /\ goal = [p \in Proc |-> "u0"] /\ kgoal = [t \in Thread |-> "none"] /\ paniced = FALSE
  BY Zenon DEF TInit
<1> DEFINE c0 == [pc |-> "forkret", sie |-> 1]
           u0(p) == [NoTf EXCEPT !.epc = "u0", !.x = p]
<1>2. PICK first \in Proc :
        /\ tstate = [p \in Proc |-> IF p = first THEN "runnable" ELSE "unused"]
        /\ ctx = [t \in Thread |-> IF t = first THEN c0 ELSE NoCtx]
        /\ tf = [p \in Proc |-> IF p = first THEN u0(p) ELSE NoTf]
  BY Zenon DEF TInit
<1>3. \A h \in Hart : h \notin Proc /\ h \in Thread
  BY Zenon DEF TrapAssumption, Thread
<1>4. ASSUME NEW h \in Hart
      PROVE  /\ r0(h) \in Reg /\ r0(h).mode = "s" /\ r0(h).pc = "s_on" /\ r0(h).tp = h
             /\ r0(h).sp = h /\ r0(h).satp = Kernel /\ r0(h).stvec = "kernelvec"
  BY <1>3, Pcs, Zenon DEF Reg, Cause
<1>5. NoFrame \in Frame /\ NoCtx \in Context /\ c0 \in Context /\ NoTf \in Trapframe /\ "none" \in Pc
  BY Pcs, Zenon DEF NoFrame, Frame, NoCtx, Context, NoTf, Trapframe
<1>6. ASSUME NEW p \in Proc PROVE u0(p) \in Trapframe /\ u0(p).x = p /\ u0(p).epc = "u0"
  BY Zenon DEF NoTf, Trapframe
<1>c. c0.pc = "forkret"
  BY Zenon
<1> HIDE DEF r0, c0, u0
<1>7. TTypeOK
  BY <1>1, <1>2, <1>3, <1>4, <1>5, <1>6, Zenon DEF TTypeOK
<1>8. RunOK /\ ~paniced
  BY <1>1, Zenon DEF RunOK
<1>9. ASSUME NEW h \in Hart PROVE HartOK(h)
  <2>1. reg[h] = r0(h) /\ run[h] = h /\ h \notin Proc
    BY <1>1, <1>3, Zenon
  <2>2. KernelOK(h, reg[h], h, kgoal[h], frame[h])
    BY <1>4, <2>1 DEF KernelOK, Pos
  <2> QED
    BY <2>1, <2>2, Zenon DEF HartOK
<1>10. ASSUME NEW p \in Proc PROVE ProcOK(p)
  <2>1. CASE p = first
    <3>1. ctx[p] = c0 /\ tf[p] = u0(p) /\ goal[p] = "u0"
      BY <1>1, <1>2, <2>1, Zenon DEF Thread
    <3> QED
      BY <1>6, <1>c, <3>1, Zenon DEF ProcOK, WaitOK, Pos
  <2>2. CASE p # first
    BY <1>2, <2>2, Zenon DEF ProcOK
  <2> QED
    BY <2>1, <2>2, Zenon
<1> QED
  BY <1>7, <1>8, <1>9, <1>10, Zenon DEF TInv

\* Every step keeps the invariant.
LEMMA NextTInv == ASSUME TrapAssumption, TInv, [TNext]_tvars PROVE TInv'
<1>1. ASSUME NEW h \in Hart, Progress(h) PROVE TInv'
  BY <1>1, ExitInv, UservecInv, UsertrapInv, SyscallEndInv, UsertrapEndInv, RetOffInv, RetSetInv,
     UserretInv, SchedOnInv, Zenon DEF Progress
<1>2. ASSUME NEW h \in Hart, Handler(h) PROVE TInv'
  BY <1>2, KerneltrapInv, KerneltrapEndInv, Zenon DEF Handler
<1>3. ASSUME UNCHANGED tvars PROVE TInv'
  <2>1. UNCHANGED reg /\ UNCHANGED run /\ UNCHANGED ctx /\ UNCHANGED frame /\ UNCHANGED tf
        /\ UNCHANGED tstate /\ UNCHANGED tkilled /\ UNCHANGED goal /\ UNCHANGED kgoal /\ UNCHANGED paniced
    BY <1>3, Zenon DEF tvars
  <2> QED
    BY <2>1, Zenon DEF TInv, TTypeOK, RunOK, HartOK, ProcOK
<1> QED
  BY <1>1, <1>2, <1>3, SyscallSleepInv, TrapInv, SchedPickInv, ForkInv, KillInv, Zenon DEF TNext

\* The invariant is enough.
LEMMA InvContextKept == ASSUME TrapAssumption, TInv PROVE ContextKept
<1>0. ASSUME NEW h \in Hart PROVE reg[h] \in Reg /\ HartOK(h)
  BY HartFacts, Zenon
<1>1. VectorMatchesMode
  <2>1. ~paniced
    BY Zenon DEF TInv
  <2>2. ASSUME NEW h \in Hart
        PROVE  /\ reg[h].mode = "u" => reg[h].stvec = "uservec" /\ reg[h].satp = run[h]
               /\ reg[h].mode = "s" /\ reg[h].sie = 1 => reg[h].stvec = "kernelvec" /\ reg[h].satp = Kernel
    BY <1>0 DEF HartOK, KernelOK
  <2> QED
    BY <2>1, <2>2, Zenon DEF VectorMatchesMode
<1>2. HartIdMatches
  BY <1>0, Zenon DEF HartOK, KernelOK, HartIdMatches
<1>3. UserResumes
  BY <1>0, Zenon DEF HartOK, KernelOK, UserOK, UserResumes
<1> QED
  BY <1>1, <1>2, <1>3, Zenon DEF ContextKept

\* For any number of processes and harts, and whatever the order of traps,
\* context switches, forks, kills and exits: a trap always goes to the vector
\* of the mode it comes from and no panic of usertrap or kerneltrap happens,
\* kernel code has its hart's number in tp and its thread's stack in sp, and
\* user code goes on where it was, with its own registers.
THEOREM TrapsKeepContext ==
  ASSUME TrapAssumption PROVE TSpec => []ContextKept
<1>1. TInit => TInv
  BY InitTInv, Zenon
<1>2. TInv /\ [TNext]_tvars => TInv'
  BY NextTInv, Zenon
<1>3. TInv => ContextKept
  BY InvContextKept, Zenon
<1> QED
  BY <1>1, <1>2, <1>3, PTL DEF TSpec

\* A step of one hart leaves the registers of the others alone.
LEMMA RegLocal ==
  ASSUME reg \in [Hart -> Reg], NEW g \in Hart, NEW h \in Hart, h # g,
         \/ Progress(g) \/ Handler(g) \/ syscall_sleep(g)
         \/ \E cause \in {"ecall", "fault", "timer", "device"} : trap(g, cause)
         \/ \E p \in Proc : sched_pick(g, p) \/ syscall_fork(g, p)
  PROVE  reg'[h] = reg[h]
<1>1. ASSUME NEW R, reg' = [reg EXCEPT ![g] = R] PROVE reg'[h] = reg[h]
  BY <1>1, Zenon
<1>2. ASSUME UNCHANGED reg PROVE reg'[h] = reg[h]
  BY <1>2, Zenon
<1>3. CASE exit(g)
  BY <1>3, <1>1, <1>2, Zenon DEF exit
<1>4. CASE uservec(g)
  BY <1>4, <1>1, <1>2, Zenon DEF uservec, panic
<1>5. CASE usertrap(g)
  BY <1>5, <1>1, <1>2, Zenon DEF usertrap, panic
<1>6. CASE syscall_end(g)
  BY <1>6, <1>1, <1>2, Zenon DEF syscall_end
<1>7. CASE usertrap_end(g)
  BY <1>7, <1>1, <1>2, Zenon DEF usertrap_end, Leave
<1>8. CASE ret_off(g)
  BY <1>8, <1>1, <1>2, Zenon DEF ret_off
<1>9. CASE ret_set(g)
  BY <1>9, <1>1, <1>2, Zenon DEF ret_set
<1>10. CASE userret(g)
  BY <1>10, <1>1, <1>2, Zenon DEF userret
<1>11. CASE sched_on(g)
  BY <1>11, <1>1, <1>2, Zenon DEF sched_on
<1>12. CASE kerneltrap(g)
  BY <1>12, <1>1, <1>2, Zenon DEF kerneltrap, panic, Leave
<1>13. CASE kerneltrap_end(g)
  BY <1>13, <1>1, <1>2, Zenon DEF kerneltrap_end
<1>14. CASE syscall_sleep(g)
  BY <1>14, <1>1, <1>2, Zenon DEF syscall_sleep, Leave
<1>15. ASSUME NEW cause, trap(g, cause) PROVE reg'[h] = reg[h]
  BY <1>15, <1>1, Zenon DEF trap
<1>16. ASSUME NEW p \in Proc, sched_pick(g, p) \/ syscall_fork(g, p) PROVE reg'[h] = reg[h]
  BY <1>16, <1>1, Zenon DEF sched_pick, syscall_fork
<1> QED
  BY <1>3, <1>4, <1>5, <1>6, <1>7, <1>8, <1>9, <1>10, <1>11, <1>12, <1>13, <1>14, <1>15, <1>16, Zenon DEF Progress, Handler

\* What a step of another hart, or of this one, does to an interrupted thread.
LEMMA StepKernel == ASSUME TrapAssumption, TInv, [TNext]_tvars PROVE [KernelStep]_tvars
<1> SUFFICES ASSUME TNext PROVE KernelStep
  BY Zenon
<1> SUFFICES ASSUME NEW h \in Hart, reg[h].pc = "ktrap_end", reg'[h].pc # "ktrap_end"
             PROVE  reg'[h].pc = kgoal[run[h]] /\ reg'[h].mode = "s" /\ reg'[h].sie = 1
  BY Zenon DEF KernelStep
<1>0. TTypeOK /\ reg[h] \in Reg /\ HartOK(h)
  BY HartFacts, Zenon
<1>1. reg \in [Hart -> Reg] /\ reg'[h] # reg[h]
  BY <1>0, Zenon DEF TTypeOK
<1>2. reg[h].mode = "s" /\ reg[h].sie = 0
  BY <1>0, Zenon DEF HartOK, KernelOK, Reg
<1>3. ASSUME NEW p \in Proc, kill(p) PROVE FALSE
  BY <1>1, <1>3, Zenon DEF kill
<1>4. PICK g \in Hart :
        \/ Progress(g) \/ Handler(g) \/ syscall_sleep(g)
        \/ \E cause \in {"ecall", "fault", "timer", "device"} : trap(g, cause)
        \/ \E p \in Proc : sched_pick(g, p) \/ syscall_fork(g, p)
  BY <1>3, Zenon DEF TNext
<1>5. g = h
  BY <1>1, <1>4, RegLocal, Zenon
<1>6. ASSUME NEW cause \in {"ecall", "fault", "timer", "device"}, trap(h, cause) PROVE FALSE
  <2>1. reg[h].mode = "u" \/ reg[h].sie = 1
    BY <1>6, Zenon DEF trap
  <2> QED
    BY <1>2, <2>1
<1>7. ~Progress(h) /\ ~kerneltrap(h) /\ ~syscall_sleep(h) /\ \A p \in Proc : ~sched_pick(h, p) /\ ~syscall_fork(h, p)
  BY Zenon DEF Progress, exit, uservec, usertrap, syscall_end, usertrap_end, ret_off, ret_set, userret, sched_on,
         kerneltrap, syscall_sleep, sched_pick, syscall_fork
<1>8. kerneltrap_end(h)
  BY <1>4, <1>5, <1>6, <1>7, Zenon DEF Handler
<1>9. reg'[h] = EndRegs(h)
  BY <1>1, <1>8, Zenon DEF kerneltrap_end, EndRegs
<1> QED
  BY <1>9, KerneltrapEndRegs, ZenonT(30)

\* For any number of processes and harts, an interrupt in the kernel returns
\* to the instruction it interrupted, with interrupts on, also when
\* kerneltrap yielded and other traps overwrote sepc and sstatus meanwhile.
THEOREM InterruptsReturn ==
  ASSUME TrapAssumption PROVE TSpec => KernelResumes
<1>1. TInit => TInv
  BY InitTInv, Zenon
<1>2. TInv /\ [TNext]_tvars => TInv'
  BY NextTInv, Zenon
<1>3. TInv /\ [TNext]_tvars => [KernelStep]_tvars
  BY StepKernel, Zenon
<1> QED
  BY <1>1, <1>2, <1>3, PTL DEF TSpec, KernelResumes

-----------------------------------------------------------------------------
(* The clock.                                                              *)

\* Where sys_sleep is.
SleepPc == {"user", "loop", "tested", "asleep", "woken"}

\* The types of what the invariant is about.
KTypeOK ==
  /\ ticks \in 0..(TickMod - 1)
  /\ spc \in [Proc -> SleepPc]
  /\ ticks0 \in [Proc -> 0..(TickMod - 1)] /\ dur \in [Proc -> 0..(TickMod - 1)]
  /\ since \in [Proc -> 0..TickMod] /\ slept \in [Proc -> BOOLEAN]

\* The unsigned difference that sys_sleep computes is the number of ticks
\* since the call, as long as that is less than TickMod; who has tested it and
\* not looked again still has to wait.
SleeperOK(p) ==
  /\ spc[p] = "user" => since[p] = 0
  /\ spc[p] # "user" => since[p] = TickMod \/ since[p] = Elapsed(p)
  /\ spc[p] \in {"tested", "asleep"} => Elapsed(p) < dur[p]
  /\ slept[p]

\* The inductive invariant.
KInv == KTypeOK /\ \A p \in Proc : SleeperOK(p)

\* A remainder of less than twice the modulus.
LEMMA Wrapped ==
  ASSUME NEW M \in Nat \ {0}, NEW x \in 0..(2 * M - 1)
  PROVE  x % M = IF x < M THEN x ELSE x - M
<1> DEFINE q == x \div M
<1>1. q \in Int /\ x % M \in 0..(M - 1) /\ x = M * q + (x % M)
  OBVIOUS
<1> HIDE DEF q
<1>2. CASE q = 0
  BY <1>1, <1>2
<1>3. CASE q = 1
  BY <1>1, <1>3
<1>4. CASE q >= 2
  <2>1. PICK d \in Nat : q = 2 + d
    <3>1. q - 2 \in Nat /\ q = 2 + (q - 2)
      BY <1>1, <1>4
    <3> QED
      BY <3>1
  <2>2. M * q = 2 * M + M * d /\ M * d \in Nat
    BY <2>1
  <2> QED
    BY <1>1, <2>2
<1>5. CASE q < 0
  <2>1. PICK d \in Nat : q = 0 - (1 + d)
    <3>1. 0 - q - 1 \in Nat /\ q = 0 - (1 + (0 - q - 1))
      BY <1>1, <1>5
    <3> QED
      BY <3>1
  <2>2. M * q = 0 - (M + M * d) /\ M * d \in Nat
    BY <2>1
  <2> QED
    BY <1>1, <2>2
<1> QED
  BY <1>1, <1>2, <1>3, <1>4, <1>5

\* What sys_sleep computes.
LEMMA ElapsedIs ==
  ASSUME ClockAssumption, KTypeOK, NEW p \in Proc
  PROVE  /\ Elapsed(p) = IF ticks >= ticks0[p] THEN ticks - ticks0[p] ELSE ticks - ticks0[p] + TickMod
         /\ Elapsed(p) \in 0..(TickMod - 1)
<1>1. ticks \in 0..(TickMod - 1) /\ ticks0[p] \in 0..(TickMod - 1) /\ TickMod \in Nat \ {0}
  BY DEF KTypeOK, ClockAssumption
<1> DEFINE x == ticks - ticks0[p] + TickMod
<1>2. x \in 0..(2 * TickMod - 1)
  BY <1>1
<1>3. x % TickMod = IF x < TickMod THEN x ELSE x - TickMod
  <2> HIDE DEF x
  <2> QED
    BY <1>1, <1>2, Wrapped, Zenon
<1> QED
  BY <1>1, <1>3 DEF Elapsed

\* A step that leaves ticks alone and is one of process p at most.
LEMMA OneSleeper ==
  ASSUME ClockAssumption, KInv, KTypeOK', UNCHANGED ticks, NEW p \in Proc, SleeperOK(p)',
         \A q \in Proc : q # p => /\ spc'[q] = spc[q] /\ ticks0'[q] = ticks0[q] /\ dur'[q] = dur[q]
                                  /\ since'[q] = since[q] /\ slept'[q] = slept[q]
  PROVE  KInv'
<1> SUFFICES ASSUME NEW q \in Proc, q # p PROVE SleeperOK(q)'
  BY Zenon DEF KInv
<1>1. SleeperOK(q)
  BY Zenon DEF KInv
<1>2. Elapsed(q)' = Elapsed(q)
  BY DEF Elapsed
<1> QED
  BY <1>1, <1>2 DEF SleeperOK

\* A step that is none of sys_sleep's.
LEMMA NoSleeper == ASSUME KInv, UNCHANGED <<ticks, spc, ticks0, dur, since, slept>> PROVE KInv'
<1>1. KTypeOK'
  BY DEF KInv, KTypeOK
<1>2. ASSUME NEW q \in Proc PROVE SleeperOK(q)'
  BY DEF KInv, SleeperOK, Elapsed
<1> QED
  BY <1>1, <1>2, Zenon DEF KInv

\* The tick.
LEMMA TickKInv == ASSUME ClockAssumption, KInv, clockintr, UNCHANGED <<ticks0, dur, slept>> PROVE KInv'
<1>0. KTypeOK /\ TickMod \in Nat \ {0} /\ ticks \in 0..(TickMod - 1)
  BY DEF KInv, KTypeOK, ClockAssumption
<1>1. ticks' = IF ticks + 1 < TickMod THEN ticks + 1 ELSE 0
  <2> DEFINE x == ticks + 1
  <2>1. x \in 0..(2 * TickMod - 1)
    BY <1>0
  <2>2. x % TickMod = IF x < TickMod THEN x ELSE x - TickMod
    <3> HIDE DEF x
    <3> QED
      BY <1>0, <2>1, Wrapped, Zenon
  <2> QED
    BY <1>0, <2>2 DEF clockintr
<1>2. \A q \in Proc : /\ spc[q] \notin {"loop", "tested"} /\ spc[q] \in SleepPc /\ since[q] \in 0..TickMod
                      /\ spc'[q] = IF spc[q] = "asleep" THEN "woken" ELSE spc[q]
                      /\ since'[q] = IF spc[q] = "user" \/ since[q] = TickMod THEN since[q] ELSE since[q] + 1
  BY <1>0 DEF clockintr, Unlocked, KTypeOK
<1>3. KTypeOK'
  <2>1. ticks' \in 0..(TickMod - 1)
    BY <1>0, <1>1
  <2>2. spc' \in [Proc -> SleepPc]
    BY <1>0 DEF clockintr, KTypeOK, SleepPc
  <2>3. since' \in [Proc -> 0..TickMod]
    BY <1>0 DEF clockintr, KTypeOK
  <2> QED
    BY <1>0, <2>1, <2>2, <2>3, Zenon DEF KTypeOK
<1>4. ASSUME NEW q \in Proc PROVE SleeperOK(q)'
  <2>1. SleeperOK(q) /\ ticks0[q] \in 0..(TickMod - 1) /\ ticks0'[q] = ticks0[q]
    BY <1>0 DEF KInv, KTypeOK
  <2>2. /\ Elapsed(q) = IF ticks >= ticks0[q] THEN ticks - ticks0[q] ELSE ticks - ticks0[q] + TickMod
        /\ Elapsed(q) \in 0..(TickMod - 1)
    BY <1>0, ElapsedIs, Zenon
  <2>3. Elapsed(q)' = IF ticks' >= ticks0[q] THEN ticks' - ticks0[q] ELSE ticks' - ticks0[q] + TickMod
    <3>1. ticks' \in 0..(TickMod - 1)
      BY <1>0, <1>1
    <3> DEFINE x == ticks' - ticks0[q] + TickMod
    <3>2. x \in 0..(2 * TickMod - 1)
      BY <1>0, <2>1, <3>1
    <3>3. x % TickMod = IF x < TickMod THEN x ELSE x - TickMod
      <4> HIDE DEF x
      <4> QED
        BY <1>0, <3>2, Wrapped, Zenon
    <3>4. Elapsed(q)' = x % TickMod
      BY <2>1 DEF Elapsed
    <3> QED
      BY <1>0, <2>1, <3>1, <3>3, <3>4
  <2>4. Elapsed(q)' = IF Elapsed(q) + 1 < TickMod THEN Elapsed(q) + 1 ELSE 0
    BY <1>0, <1>1, <2>1, <2>2, <2>3
  <2> QED
    BY <1>0, <1>2, <2>1, <2>2, <2>4 DEF SleeperOK, SleepPc
<1> QED
  BY <1>3, <1>4, Zenon DEF KInv

\* sys_sleep begins.
LEMMA CallKInv == ASSUME ClockAssumption, KInv, NEW p \in Proc, NEW n \in 0..(TickMod - 1), sys_sleep(p, n) PROVE KInv'
<1>0. KTypeOK /\ TickMod \in Nat \ {0} /\ SleeperOK(p)
  BY DEF KInv, ClockAssumption
<1>1. CASE n = 0
  BY <1>1, NoSleeper DEF sys_sleep
<1>2. CASE n # 0
  <2>1. /\ ticks0' = [ticks0 EXCEPT ![p] = ticks] /\ dur' = [dur EXCEPT ![p] = n]
        /\ spc' = [spc EXCEPT ![p] = "loop"] /\ spc[p] = "user"
        /\ UNCHANGED ticks /\ UNCHANGED since /\ UNCHANGED slept
    BY <1>2 DEF sys_sleep
  <2>2. KTypeOK'
    BY <1>0, <2>1 DEF KTypeOK, SleepPc
  <2>3. Elapsed(p)' = 0
    <3>1. ticks' = ticks /\ ticks0'[p] = ticks /\ ticks \in 0..(TickMod - 1)
      BY <1>0, <2>1 DEF KTypeOK
    <3>2. ticks - ticks + TickMod = TickMod /\ TickMod \in 0..(2 * TickMod - 1)
      BY <1>0, <3>1
    <3>3. TickMod % TickMod = IF TickMod < TickMod THEN TickMod ELSE TickMod - TickMod
      BY <1>0, <3>2, Wrapped, Zenon
    <3> QED
      BY <1>0, <3>1, <3>2, <3>3 DEF Elapsed
  <2>4. SleeperOK(p)'
    BY <1>0, <2>1, <2>3 DEF SleeperOK, KTypeOK
  <2> QED
    BY <1>0, <2>1, <2>2, <2>4, OneSleeper DEF KTypeOK
<1> QED
  BY <1>1, <1>2

\* Its loop.
LEMMA LoopKInv == ASSUME ClockAssumption, KInv, NEW p \in Proc, Sleep(p) PROVE KInv'
<1>0. KTypeOK /\ TickMod \in Nat \ {0} /\ SleeperOK(p)
  BY DEF KInv, ClockAssumption
<1>1. Elapsed(p) \in 0..(TickMod - 1)
  BY <1>0, ElapsedIs, Zenon
<1>2. CASE sleep_test(p) \/ sleep_wait(p)
  <2>1. /\ UNCHANGED ticks /\ UNCHANGED ticks0 /\ UNCHANGED dur /\ UNCHANGED since /\ UNCHANGED slept
        /\ spc[p] # "user" /\ Elapsed(p) < dur[p]
        /\ spc' = [spc EXCEPT ![p] = "tested"] \/ spc' = [spc EXCEPT ![p] = "asleep"]
    BY <1>0, <1>2 DEF sleep_test, sleep_wait, Looks, SleeperOK
  <2>2. KTypeOK'
    BY <1>0, <2>1 DEF KTypeOK, SleepPc
  <2>3. Elapsed(p)' = Elapsed(p)
    BY <2>1 DEF Elapsed
  <2>4. SleeperOK(p)'
    BY <1>0, <2>1, <2>3 DEF SleeperOK, KTypeOK
  <2> QED
    BY <1>0, <2>1, <2>2, <2>4, OneSleeper DEF KTypeOK
<1>3. CASE sleep_killed(p) \/ sleep_done(p)
  <2>1. PICK ok \in BOOLEAN :
          /\ SReturn(p, ok) /\ UNCHANGED ticks /\ spc[p] # "user" /\ (ok => Elapsed(p) >= dur[p])
    <3>1. CASE sleep_killed(p)
      BY <3>1, Zenon DEF sleep_killed, Looks
    <3>2. CASE sleep_done(p)
      BY <3>2, Zenon DEF sleep_done, Looks
    <3> QED
      BY <1>3, <3>1, <3>2
  <2>2. /\ spc' = [spc EXCEPT ![p] = "user"] /\ ticks0' = [ticks0 EXCEPT ![p] = 0]
        /\ dur' = [dur EXCEPT ![p] = 0] /\ since' = [since EXCEPT ![p] = 0]
        /\ slept' = [slept EXCEPT ![p] = ~ok \/ since[p] >= dur[p]]
    BY <2>1, Zenon DEF SReturn
  <2>3. ~ok \/ since[p] >= dur[p]
    BY <1>0, <1>1, <2>1 DEF SleeperOK, KTypeOK
  <2>4. slept' \in [Proc -> BOOLEAN] /\ slept'[p]
    BY <1>0, <2>2, <2>3, Zenon DEF KTypeOK
  <2>5. /\ KTypeOK' /\ spc'[p] = "user" /\ since'[p] = 0
        /\ \A q \in Proc : q # p => /\ spc'[q] = spc[q] /\ ticks0'[q] = ticks0[q] /\ dur'[q] = dur[q]
                                    /\ since'[q] = since[q]
    BY <1>0, <2>1, <2>2, <2>4 DEF KTypeOK, SleepPc
  <2>6. \A q \in Proc : q # p => slept'[q] = slept[q]
    BY <1>0, <2>2, Zenon DEF KTypeOK
  <2>7. SleeperOK(p)'
    BY <2>4, <2>5 DEF SleeperOK
  <2> QED
    BY <2>1, <2>5, <2>6, <2>7, OneSleeper, Zenon
<1> QED
  BY <1>2, <1>3 DEF Sleep

\* kill, and the exit that follows.
LEMMA KillKInv == ASSUME ClockAssumption, KInv, NEW p \in Proc, kkill(p) \/ kexit(p) PROVE KInv'
<1>0. KTypeOK /\ SleeperOK(p)
  BY DEF KInv
<1>1. CASE kkill(p)
  <2>1. /\ UNCHANGED ticks /\ UNCHANGED ticks0 /\ UNCHANGED dur /\ UNCHANGED since /\ UNCHANGED slept
        /\ spc' = [spc EXCEPT ![p] = IF spc[p] = "asleep" THEN "woken" ELSE spc[p]]
    BY <1>1 DEF kkill
  <2>2. KTypeOK'
    BY <1>0, <2>1 DEF KTypeOK, SleepPc
  <2>3. Elapsed(p)' = Elapsed(p)
    BY <2>1 DEF Elapsed
  <2>4. SleeperOK(p)'
    BY <1>0, <2>1, <2>3 DEF SleeperOK, KTypeOK
  <2> QED
    BY <1>0, <2>1, <2>2, <2>4, OneSleeper DEF KTypeOK
<1>2. CASE kexit(p)
  <2>1. /\ UNCHANGED ticks /\ UNCHANGED spc /\ UNCHANGED ticks0 /\ UNCHANGED dur /\ UNCHANGED since
        /\ slept' = [slept EXCEPT ![p] = TRUE]
    BY <1>2 DEF kexit
  <2>2. slept' \in [Proc -> BOOLEAN] /\ slept'[p] /\ \A q \in Proc : q # p => slept'[q] = slept[q]
    BY <1>0, <2>1, Zenon DEF KTypeOK
  <2>3. KTypeOK'
    BY <1>0, <2>1, <2>2, Zenon DEF KTypeOK
  <2>4. Elapsed(p)' = Elapsed(p)
    BY <2>1 DEF Elapsed
  <2>5. SleeperOK(p)'
    BY <1>0, <2>1, <2>2, <2>4 DEF SleeperOK
  <2> QED
    BY <2>1, <2>2, <2>3, <2>5, OneSleeper, Zenon
<1> QED
  BY <1>1, <1>2

\* Every step keeps the invariant.
LEMMA NextKInv == ASSUME ClockAssumption, KInv, [KNext]_kvars PROVE KInv'
<1>1. CASE \/ UNCHANGED kvars \/ \E i \in Irq : raise(i)
           \/ \E h \in Hart : timervec(h) \/ external(h) \/ Devintr(h)
  <2>1. UNCHANGED <<ticks, spc, ticks0, dur, since, slept>>
    BY <1>1 DEF kvars, raise, timervec, external, Devintr, plic_claim, serve, plic_complete, software_ack, sleepers
  <2> QED
    BY <2>1, NoSleeper
<1>2. ASSUME NEW h \in Hart, software(h) PROVE KInv'
  <2>1. CASE h = Hart0
    <3>1. clockintr /\ UNCHANGED <<ticks0, dur, slept>>
      BY <1>2, <2>1 DEF software
    <3> QED
      BY <3>1, TickKInv, Zenon
  <2>2. CASE h # Hart0
    <3>1. UNCHANGED <<ticks, spc, ticks0, dur, since, slept>>
      BY <1>2, <2>2 DEF software
    <3> QED
      BY <3>1, NoSleeper
  <2> QED
    BY <2>1, <2>2
<1>3. ASSUME NEW p \in Proc, Sleep(p) \/ kkill(p) \/ kexit(p) \/ \E n \in 0..(TickMod - 1) : sys_sleep(p, n)
      PROVE  KInv'
  BY <1>3, LoopKInv, KillKInv, CallKInv, Zenon
<1> QED
  BY <1>1, <1>2, <1>3, Zenon DEF KNext

\* For any number of processes and harts and any range of ticks: sys_sleep
\* returns 0 only after as many ticks as it was asked for, and nobody is
\* asleep whose time is over, across the wrap of ticks and however late a
\* process gets to look at them.
THEOREM SleepersWakeInTime == ASSUME ClockAssumption PROVE KSpec => []SleepsInTime
<1>1. KInit => KInv
  <2> SUFFICES ASSUME KInit PROVE KInv
    OBVIOUS
  <2>1. KTypeOK
    BY DEF KInit, KTypeOK, SleepPc, ClockAssumption
  <2>2. \A p \in Proc : SleeperOK(p)
    BY Zenon DEF KInit, SleeperOK
  <2> QED
    BY <2>1, <2>2, Zenon DEF KInv
<1>2. KInv /\ [KNext]_kvars => KInv'
  BY NextKInv, Zenon
<1>3. KInv => SleepsInTime
  BY Zenon DEF KInv, SleeperOK, SleepsInTime, SleptLongEnough, SleepersDue
<1> QED
  BY <1>1, <1>2, <1>3, PTL DEF KSpec

=============================================================================
