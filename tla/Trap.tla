-------------------------------- MODULE Trap --------------------------------
(***************************************************************************)
(* Traps: uservec and userret (kernel/trampoline.S), kernelvec             *)
(* (kernel/kernelvec.S), usertrap, usertrapret and kerneltrap              *)
(* (kernel/trap.c), and the context switches between them.  What devintr   *)
(* does with an interrupt is in module Clock.                              *)
(*                                                                         *)
(* Each hart has one set of control registers, which every trap on it      *)
(* overwrites; a process enters the kernel on one hart, may be interrupted *)
(* there, yield, and leave the kernel on another.  A step is a stretch of  *)
(* code within which the hart's registers are not taken away.  The general *)
(* registers are one value: whose user registers they are, or "k" for      *)
(* kernel values.  A thread is a process, or a hart for its scheduler.     *)
(***************************************************************************)
EXTENDS Integers, Machine

Thread == Proc \cup Hart
After(pc) == IF pc = "u0" THEN "u1" ELSE "u0"   \* the instruction after ecall
Kernel == "kernel"

\* Of the constants: a process is not a hart, nor the kernel's page table.
TrapAssumption == Proc \cap Hart = {} /\ Kernel \notin Proc

VARIABLES
  reg,      \* a hart's registers
  run,      \* the thread on a hart (cpus[].proc; the hart itself: none)
  ctx,      \* where a thread continues after swtch, and its intena
  frame,    \* kernelvec's stack frame with kerneltrap's locals
  tf,       \* p->tf
  tstate, tkilled,
  goal,     \* history: where a process' user code is to continue
  kgoal,    \* history: the kernel instruction a trap interrupted
  paniced

tvars == <<reg, run, ctx, frame, tf, tstate, tkilled, goal, kgoal, paniced>>

\* Values that are not read again are reset: NoFrame, NoCtx, NoTf, and the
\* trap registers once a handler has read them.
NoFrame == [sepc |-> "none", spp |-> "s", spie |-> 0, tp |-> "none"]
NoCtx == [pc |-> "none", sie |-> 0]
NoTf == [epc |-> "none", x |-> "none", hartid |-> "none", sp |-> "none", satp |-> "none"]
Spent(r) == [r EXCEPT !.sepc = "none", !.spp = "s", !.spie = 0, !.scause = "none"]

\* main: every hart is in its scheduler, with trapinithart done.  All
\* processes but one are still to be forked.
TInit ==
  /\ reg = [h \in Hart |-> [mode |-> "s", sie |-> 0, spie |-> 0, spp |-> "s",
              sepc |-> "none", scause |-> "none", stvec |-> "kernelvec",
              satp |-> Kernel, tp |-> h, sp |-> h, x |-> "k", pc |-> "s_on"]]
  /\ run = [h \in Hart |-> h]
  /\ frame = [t \in Thread |-> NoFrame]
  /\ \E first \in Proc :
       /\ tstate = [p \in Proc |-> IF p = first THEN "runnable" ELSE "unused"]
       /\ ctx = [t \in Thread |-> IF t = first THEN [pc |-> "forkret", sie |-> 1] ELSE NoCtx]
       /\ tf = [p \in Proc |-> IF p = first THEN [NoTf EXCEPT !.epc = "u0", !.x = p] ELSE NoTf]
  /\ tkilled = [p \in Proc |-> 0]
  /\ goal = [p \in Proc |-> "u0"] /\ kgoal = [t \in Thread |-> "none"]
  /\ paniced = FALSE

-----------------------------------------------------------------------------
(* The hardware (external).                                                *)

\* A trap: in user mode any, in the kernel an interrupt if they are enabled.
trap(h, cause) ==
  LET r == reg[h] IN
  /\ \/ cause \in {"ecall", "fault"} /\ r.mode = "u"
     \/ cause \in {"timer", "device"} /\ (r.mode = "u" \/ r.sie = 1)
  /\ reg' = [reg EXCEPT ![h] = [r EXCEPT !.mode = "s", !.spp = r.mode,
               !.spie = r.sie, !.sie = 0, !.sepc = r.pc, !.scause = cause,
               !.pc = r.stvec]]
  /\ IF r.mode = "u"
     THEN /\ goal' = [goal EXCEPT ![run[h]] =
                        IF cause = "ecall" THEN After(r.pc) ELSE r.pc]
          /\ UNCHANGED kgoal
     ELSE kgoal' = [kgoal EXCEPT ![run[h]] = r.pc] /\ UNCHANGED goal
  /\ UNCHANGED <<run, ctx, frame, tf, tstate, tkilled, paniced>>

panic ==
  /\ paniced' = TRUE
  /\ UNCHANGED <<reg, run, ctx, frame, tf, tstate, tkilled, goal, kgoal>>

-----------------------------------------------------------------------------
(* Context switches: swtch carries the stack and the return address over,  *)
(* neither tp nor a control register.  The releases around it leave        *)
(* interrupts as the thread that goes on had them.                         *)

\* Thread t leaves hart h for the scheduler, to continue at pc later.
Leave(h, t, r, pc) ==
  /\ ctx' = [ctx EXCEPT ![t] = [pc |-> pc, sie |-> r.sie]]
  /\ run' = [run EXCEPT ![h] = h]
  /\ reg' = [reg EXCEPT ![h] = [r EXCEPT !.sp = h, !.pc = "s_on"]]

\* The scheduler's loop: intr_on, then a process that is RUNNABLE.
sched_on(h) ==
  /\ reg[h].pc = "s_on"
  /\ reg' = [reg EXCEPT ![h] = [@ EXCEPT !.sie = 1, !.pc = "s_pick"]]
  /\ UNCHANGED <<run, ctx, frame, tf, tstate, tkilled, goal, kgoal, paniced>>

sched_pick(h, p) ==
  /\ reg[h].pc = "s_pick" /\ tstate[p] = "runnable"
  /\ tstate' = [tstate EXCEPT ![p] = "running"]
  /\ run' = [run EXCEPT ![h] = p]
  /\ reg' = [reg EXCEPT ![h] = [@ EXCEPT !.sp = p, !.pc = ctx[p].pc, !.sie = ctx[p].sie]]
  /\ ctx' = [ctx EXCEPT ![p] = NoCtx]
  /\ UNCHANGED <<frame, tf, tkilled, goal, kgoal, paniced>>

\* exit, and wait in the parent: the slot is free again.
exit(h) ==
  /\ reg[h].pc = "exit"
  /\ tstate' = [tstate EXCEPT ![run[h]] = "unused"]
  /\ tkilled' = [tkilled EXCEPT ![run[h]] = 0]
  /\ tf' = [tf EXCEPT ![run[h]] = NoTf]
  /\ goal' = [goal EXCEPT ![run[h]] = "u0"]
  /\ run' = [run EXCEPT ![h] = h]
  /\ reg' = [reg EXCEPT ![h] = [@ EXCEPT !.sp = h, !.pc = "s_on"]]
  /\ UNCHANGED <<ctx, frame, kgoal, paniced>>

kill(p) ==
  /\ tstate[p] # "unused" /\ tkilled[p] = 0
  /\ tkilled' = [tkilled EXCEPT ![p] = 1]
  /\ UNCHANGED <<reg, run, ctx, frame, tf, tstate, goal, kgoal, paniced>>

-----------------------------------------------------------------------------
(* From user space into the kernel.                                        *)

\* The registers go to the trapframe that the page table in use maps; stack,
\* hartid and page table of the kernel come from it.
uservec(h) ==
  LET r == reg[h]
      q == r.satp
  IN
  /\ r.pc = "uservec"
  /\ IF q = Kernel THEN panic
     ELSE /\ tf' = [tf EXCEPT ![q] = [NoTf EXCEPT !.x = r.x]]
          /\ reg' = [reg EXCEPT ![h] = [r EXCEPT !.sp = tf[q].sp, !.tp = tf[q].hartid,
                       !.satp = tf[q].satp, !.x = "k", !.pc = "usertrap"]]
          /\ UNCHANGED <<run, ctx, frame, tstate, tkilled, goal, kgoal, paniced>>

\* Mutant: a system call enables interrupts before it saves sepc.
usertrap_early(h) ==
  LET r == reg[h]
      p == run[r.tp]
  IN
  /\ r.pc \in {"usertrap", "usertrap_2"}
  /\ IF r.pc = "usertrap"
     THEN /\ reg' = [reg EXCEPT ![h] = [r EXCEPT !.stvec = "kernelvec", !.sie = 1,
                       !.pc = IF r.scause = "ecall" THEN "usertrap_2" ELSE "post"]]
          /\ tf' = [tf EXCEPT ![p].epc = r.sepc]
     ELSE /\ reg' = [reg EXCEPT ![h] = [Spent(r) EXCEPT !.pc = "syscall"]]
          /\ tf' = [tf EXCEPT ![p].epc = After(r.sepc)]
  /\ UNCHANGED <<run, ctx, frame, tstate, tkilled, goal, kgoal, paniced>>

usertrap(h) ==
  LET r == reg[h]
      p == run[r.tp]   \* myproc()
      at(pc, sie) == reg' = [reg EXCEPT ![h] =
                               [Spent(r) EXCEPT !.stvec = "kernelvec", !.pc = pc, !.sie = sie]]
  IN
  /\ r.pc = "usertrap"
  /\ IF r.spp = "s" THEN panic
     ELSE
     /\ \/ /\ r.scause = "ecall" /\ tkilled[p] = 1
           /\ tf' = [tf EXCEPT ![p].epc = r.sepc]
           /\ at("exit", r.sie) /\ UNCHANGED tkilled
        \/ /\ r.scause = "ecall" /\ tkilled[p] = 0
           /\ tf' = [tf EXCEPT ![p].epc = After(r.sepc)]
           /\ at("syscall", 1) /\ UNCHANGED tkilled
        \/ /\ r.scause \in {"timer", "device"}
           /\ tf' = [tf EXCEPT ![p].epc = r.sepc]
           /\ at(IF r.scause = "timer" THEN "post_timer" ELSE "post", r.sie)
           /\ UNCHANGED tkilled
        \/ /\ r.scause = "fault"
           /\ tf' = [tf EXCEPT ![p].epc = r.sepc]
           /\ tkilled' = [tkilled EXCEPT ![p] = 1]
           /\ at("post", r.sie)
     /\ UNCHANGED <<run, ctx, frame, tstate, goal, kgoal, paniced>>

\* The system call runs with interrupts on: it ends, sleeps and is woken, or
\* forks a child, which gets a copy of the trapframe.
syscall_end(h) ==
  /\ reg[h].pc = "syscall"
  /\ reg' = [reg EXCEPT ![h].pc = "post"]
  /\ UNCHANGED <<run, ctx, frame, tf, tstate, tkilled, goal, kgoal, paniced>>

syscall_sleep(h) ==
  /\ reg[h].pc = "syscall"
  /\ tstate' = [tstate EXCEPT ![run[h]] = "runnable"]
  /\ Leave(h, run[h], reg[h], "syscall")
  /\ UNCHANGED <<frame, tf, tkilled, goal, kgoal, paniced>>

syscall_fork(h, q) ==
  LET p == run[h] IN
  /\ reg[h].pc = "syscall" /\ tstate[q] = "unused"
  /\ tstate' = [tstate EXCEPT ![q] = "runnable"]
  /\ tf' = [tf EXCEPT ![q] = [tf[p] EXCEPT !.x = q]]
  /\ ctx' = [ctx EXCEPT ![q] = [pc |-> "forkret", sie |-> 1]]
  /\ goal' = [goal EXCEPT ![q] = tf[p].epc]
  /\ reg' = [reg EXCEPT ![h].pc = "post"]
  /\ UNCHANGED <<run, frame, tkilled, kgoal, paniced>>

\* The end of usertrap; yield after a timer interrupt.
usertrap_end(h) ==
  LET p == run[h] IN
  /\ reg[h].pc \in {"post", "post_timer"}
  /\ IF tkilled[p] = 0 /\ reg[h].pc = "post_timer"
     THEN tstate' = [tstate EXCEPT ![p] = "runnable"] /\ Leave(h, p, reg[h], "forkret")
     ELSE /\ reg' = [reg EXCEPT ![h].pc = IF tkilled[p] = 1 THEN "exit" ELSE "forkret"]
          /\ UNCHANGED <<tstate, run, ctx>>
  /\ UNCHANGED <<frame, tf, tkilled, goal, kgoal, paniced>>

-----------------------------------------------------------------------------
(* Back to user space: usertrapret (from usertrap or forkret), userret.    *)

\* intr_off.
ret_off(h) ==
  /\ reg[h].pc = "forkret"
  /\ reg' = [reg EXCEPT ![h] = [@ EXCEPT !.sie = 0, !.pc = "ret_set"]]
  /\ UNCHANGED <<run, ctx, frame, tf, tstate, tkilled, goal, kgoal, paniced>>

\* stvec, what uservec will need, and what sret will use.
ret_set(h) ==
  LET r == reg[h]
      p == run[r.tp]
  IN
  /\ r.pc = "ret_set"
  /\ tf' = [tf EXCEPT ![p] = [@ EXCEPT !.satp = r.satp, !.sp = p, !.hartid = r.tp]]
  /\ reg' = [reg EXCEPT ![h] = [r EXCEPT !.stvec = "uservec", !.spp = "u", !.spie = 1,
               !.sepc = tf[p].epc, !.pc = "userret"]]
  /\ UNCHANGED <<run, ctx, frame, tstate, tkilled, goal, kgoal, paniced>>

Sret(r) == Spent([r EXCEPT !.mode = r.spp, !.sie = r.spie, !.pc = r.sepc])

userret(h) ==
  LET r == reg[h]
      p == run[r.tp]
  IN
  /\ r.pc = "userret"
  /\ reg' = [reg EXCEPT ![h] = Sret([r EXCEPT !.satp = p, !.x = tf[p].x, !.sp = p])]
  /\ tf' = [tf EXCEPT ![p] = [@ EXCEPT !.epc = "none", !.x = "none"]]
  /\ UNCHANGED <<run, ctx, frame, tstate, tkilled, goal, kgoal, paniced>>

-----------------------------------------------------------------------------
(* Interrupts in the kernel.                                               *)

\* The frame that kernelvec pushes (tp stands for the registers), with
\* kerneltrap's copies of sepc and sstatus.
Saved(r) == [sepc |-> r.sepc, spp |-> r.spp, spie |-> r.spie, tp |-> r.tp]

\* kerneltrap up to the yield.
kerneltrap(h) ==
  LET r == reg[h]
      t == run[h]
  IN
  /\ r.pc = "kernelvec"
  /\ IF r.spp = "u" \/ r.sie = 1 \/ r.scause \notin {"timer", "device"} THEN panic
     ELSE
     /\ frame' = [frame EXCEPT ![t] = Saved(r)]
     /\ IF r.scause = "timer" /\ t \in Proc /\ tstate[t] = "running"
        THEN tstate' = [tstate EXCEPT ![t] = "runnable"] /\ Leave(h, t, Spent(r), "ktrap_end")
        ELSE /\ reg' = [reg EXCEPT ![h] = [Spent(r) EXCEPT !.pc = "ktrap_end"]]
             /\ UNCHANGED <<tstate, run, ctx>>
     /\ UNCHANGED <<tf, tkilled, goal, kgoal, paniced>>

\* kerneltrap puts sepc and sstatus back.
Restored(r, f) == [r EXCEPT !.sepc = f.sepc, !.spp = f.spp, !.spie = f.spie]

\* Mutant: sepc and sstatus are not put back.
kerneltrap_end_bare(h) ==
  /\ reg[h].pc = "ktrap_end"
  /\ reg' = [reg EXCEPT ![h] = Sret(@)]
  /\ frame' = [frame EXCEPT ![run[h]] = NoFrame]
  /\ kgoal' = [kgoal EXCEPT ![run[h]] = "none"]
  /\ UNCHANGED <<run, ctx, tf, tstate, tkilled, goal, paniced>>

\* kernelvec restores all registers but tp, and returns.
kerneltrap_end(h) ==
  /\ reg[h].pc = "ktrap_end"
  /\ reg' = [reg EXCEPT ![h] = Sret(Restored(@, frame[run[h]]))]
  /\ frame' = [frame EXCEPT ![run[h]] = NoFrame]
  /\ kgoal' = [kgoal EXCEPT ![run[h]] = "none"]
  /\ UNCHANGED <<run, ctx, tf, tstate, tkilled, goal, paniced>>

\* The steps of the code a trap interrupts, and of the handler of interrupts.
Progress(h) ==
  \/ exit(h) \/ uservec(h) \/ usertrap(h) \/ syscall_end(h) \/ usertrap_end(h)
  \/ ret_off(h) \/ ret_set(h) \/ userret(h) \/ sched_on(h)
Handler(h) == kerneltrap(h) \/ kerneltrap_end(h)

TNext ==
  /\ ~paniced
  /\ \/ \E h \in Hart :
          \/ Progress(h) \/ Handler(h) \/ syscall_sleep(h)
          \/ \E cause \in {"ecall", "fault", "timer", "device"} : trap(h, cause)
          \/ \E p \in Proc : sched_pick(h, p) \/ syscall_fork(h, p)
     \/ \E p \in Proc : kill(p)

TSpec == TInit /\ [][TNext]_tvars

\* The timer keeps coming, but not so fast that the code it interrupts does
\* not go on; system calls end; the scheduler gets to every process.
TFairness ==
  \A h \in Hart :
    /\ SF_tvars(trap(h, "timer")) /\ SF_tvars(Handler(h)) /\ SF_tvars(sched_on(h))
    /\ \A p \in Proc : SF_tvars(sched_pick(h, p)) /\ SF_tvars(run[h] = p /\ Progress(h))

-----------------------------------------------------------------------------
(* Properties.                                                             *)

\* A trap always goes to the vector for the mode it comes from: in user mode
\* stvec is uservec and the page table the process' own; whenever the kernel
\* has interrupts on, stvec is kernelvec and the kernel page table is in use.
\* None of the panics of usertrap and kerneltrap happens.
VectorMatchesMode ==
  /\ ~paniced
  /\ \A h \in Hart :
       /\ reg[h].mode = "u" => reg[h].stvec = "uservec" /\ reg[h].satp = run[h]
       /\ reg[h].mode = "s" /\ reg[h].sie = 1 => reg[h].stvec = "kernelvec" /\ reg[h].satp = Kernel

\* In kernel code tp is the number of the hart it runs on, so that mycpu and
\* myproc are right, also for a process that was interrupted on one hart and
\* goes on on another; and the stack is the running thread's own.
HartIdMatches ==
  \A h \in Hart : reg[h].mode = "s" /\ reg[h].pc # "uservec" =>
                    reg[h].tp = h /\ reg[h].sp = run[h]

\* User code goes on where it was (after the ecall of a system call), with
\* its own registers, however many traps, switches and moves between harts
\* there were.
UserResumes ==
  \A h \in Hart : reg[h].mode = "u" =>
    /\ run[h] \in Proc
    /\ reg[h].pc = goal[run[h]] /\ reg[h].x = run[h]

\* The three together: no trap, in whatever order they come and on whichever
\* harts, makes the kernel or a process lose its place.
ContextKept == VectorMatchesMode /\ HartIdMatches /\ UserResumes

\* An interrupt in the kernel returns to the instruction it interrupted, also
\* when the handler yielded and other traps overwrote sepc.
KernelStep ==
  \A h \in Hart : reg[h].pc = "ktrap_end" /\ reg'[h].pc # "ktrap_end" =>
    reg'[h].pc = kgoal[run[h]] /\ reg'[h].mode = "s" /\ reg'[h].sie = 1
KernelResumes == [][KernelStep]_tvars

\* A killed process leaves, even one that never calls the kernel: the timer
\* brings it there.
KilledExits == \A p \in Proc : (tkilled[p] = 1) ~> (tkilled[p] = 0)
=============================================================================
