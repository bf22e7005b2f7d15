------------------------------ MODULE MCKernel ------------------------------
(* The kernel below the file system, for TLC: the scheduler, the disk       *)
(* driver, the console, traps, and the clock with the interrupt controller. *)
(* part names the one that runs; the variables of the others are 0, the     *)
(* scheduler's apart.                                                       *)
EXTENDS Sched, TLC

CONSTANTS p1, p2, p3, h0, h1, i1, NoIrq, Nobody

\* Virtio, Console, Trap and Clock; the scheduler's are Sched's.
VARIABLES
  free, next, addr, avail, availidx, elems, usedid, used_idx, info, vlock, vpc, vidx,
  write, busy, bdata, medium, seen, inflight, pend, intr,
  buf, r, w, e, clock, rx, thr, cpc, left, got, ckilled, owed,
  reg, trun, ctx, frame, tf, tstate, tkilled, goal, kgoal, paniced,
  sip, line, claimed, hpc, ticks, spc, ticks0, dur, skilled, since, slept,
  part

vv == <<free, next, addr, avail, availidx, elems, usedid, used_idx, info, vlock, vpc, vidx,
        write, busy, bdata, medium, seen, inflight, pend, intr>>
cv == <<buf, r, w, e, clock, rx, thr, cpc, left, got, ckilled, owed>>
tv == <<reg, trun, ctx, frame, tf, tstate, tkilled, goal, kgoal, paniced>>
kv == <<sip, line, claimed, hpc, ticks, spc, ticks0, dur, skilled, since, slept>>

V == INSTANCE Virtio WITH Proc <- {p1, p2, p3}, NUM <- 6, IdxMod <- 6, idx <- vidx
C == INSTANCE Console WITH Proc <- {p1, p2}, INPUT_BUF <- 2, CountMod <- 4, FIFO <- 1, MaxN <- 2
T == INSTANCE Trap WITH Proc <- {p1, p2}, Hart <- {h0, h1}, run <- trun
K == INSTANCE Clock WITH Proc <- {p1}, Hart <- {h0, h1}, Hart0 <- h0, Irq <- {i1}, TickMod <- 4

\* What the proofs about the components assume of their constants.
ASSUME KernelAssumption ==
  V!VirtioAssumption /\ C!ConsoleAssumption /\ T!TrapAssumption /\ K!ClockAssumption

kernelvars == <<part, vars, vv, cv, tv, kv>>

\* The variables of a component that is not run.
VOff ==
  /\ free = 0 /\ next = 0 /\ addr = 0 /\ avail = 0 /\ availidx = 0 /\ elems = 0
  /\ usedid = 0 /\ used_idx = 0 /\ info = 0 /\ vlock = 0 /\ vpc = 0 /\ vidx = 0
  /\ write = 0 /\ busy = 0 /\ bdata = 0 /\ medium = 0 /\ seen = 0 /\ inflight = 0
  /\ pend = 0 /\ intr = 0
COff ==
  /\ buf = 0 /\ r = 0 /\ w = 0 /\ e = 0 /\ clock = 0 /\ rx = 0 /\ thr = 0 /\ cpc = 0
  /\ left = 0 /\ got = 0 /\ ckilled = 0 /\ owed = 0
TOff ==
  /\ reg = 0 /\ trun = 0 /\ ctx = 0 /\ frame = 0 /\ tf = 0 /\ tstate = 0 /\ tkilled = 0
  /\ goal = 0 /\ kgoal = 0 /\ paniced = 0
KOff ==
  /\ sip = 0 /\ line = 0 /\ claimed = 0 /\ hpc = 0 /\ ticks = 0 /\ spc = 0 /\ ticks0 = 0
  /\ dur = 0 /\ skilled = 0 /\ since = 0 /\ slept = 0

KernelInit ==
  /\ part \in {"sched", "disk", "console", "trap", "clock"}
  /\ Init
  /\ IF part = "disk" THEN V!VInit ELSE VOff
  /\ IF part = "console" THEN C!CInit ELSE COff
  /\ IF part = "trap" THEN T!TInit ELSE TOff
  /\ IF part = "clock" THEN K!KInit ELSE KOff

KernelNext ==
  \/ part = "sched" /\ Next /\ UNCHANGED <<part, vv, cv, tv, kv>>
  \/ part = "disk" /\ V!VNext /\ UNCHANGED <<part, vars, cv, tv, kv>>
  \/ part = "console" /\ C!CNext /\ UNCHANGED <<part, vars, vv, tv, kv>>
  \/ part = "trap" /\ T!TNext /\ UNCHANGED <<part, vars, vv, cv, kv>>
  \/ part = "clock" /\ K!KNext /\ UNCHANGED <<part, vars, vv, cv, tv>>
  \* Only the scheduler may never stop.
  \/ part # "sched" /\ UNCHANGED kernelvars

KernelSpec == KernelInit /\ [][KernelNext]_kernelvars

-----------------------------------------------------------------------------
(* The components' properties, by their names.                             *)

\* virtio_disk_rw and its interrupt handler: every descriptor is free or in
\* the chain of one request, the device moves data only while the caller
\* waits, a call returns after its own transfer whatever order they end in,
\* and nobody sleeps for a descriptor that is free or a request that is done.
TransfersSafe == part = "disk" => V!TransfersSafe

\* The console under its interrupt handler: cons.r, w and e stay in order
\* across their wrap, a full buffer can be read, the line being edited holds
\* no newline and no ^D, every ^D ends exactly one read, and no reader sleeps
\* beside input it could take.
InputKept == part = "console" => C!InputKept

\* Traps: each goes to the vector of the mode it comes from, kernel code has
\* its hart's number in tp and its own stack, and a process resumes in user
\* mode where it left it, with its registers, on whichever hart.
ContextKept == part = "trap" => T!ContextKept

\* An interrupt in the kernel returns to the instruction it interrupted, also
\* when kerneltrap yielded and other traps overwrote sepc.
KernelResumes == [][part = "trap" => T!KernelStep]_kernelvars

\* sys_sleep returns 0 only after as many ticks as it was asked for, and
\* nobody sleeps on when its time is over, across the wrap of ticks.
SleepsInTime == part = "clock" => K!SleepsInTime

=============================================================================
