------------------------------- MODULE MCLive -------------------------------
(* What must eventually happen, for TLC: one component at a time, the one   *)
(* that part names, on an instance small enough for strong fairness; the    *)
(* others stay in their initial states.  Each component's fairness is its   *)
(* own, of the part that runs.                                              *)
EXTENDS Integers, TLC

CONSTANTS p1, p2, c1, h0, h1, i1, x, b1, v1, None, Nobody, NoIrq, NoVal, NoBlock, a

VARIABLES
  state, parent, killed, lock, pc, opar, np, kids,
  sstate, chan, plock, lk, ready, cpu, run, idx, spc, ret, saved, visit,
  alive, data, nread, nwrite, readopen, writeopen, plk, ref, ends, pkilled, ppc, pleft, eof, cut,
  home, dlog, dhead, lh, outstanding, committing, cache, refcnt, lpc, hold, tail, nwrites, boot,
  crashes, latest, unpinned,
  free, next, addr, avail, availidx, elems, usedid, used_idx, info, vlock, vpc, vidx,
  write, busy, bdata, medium, seen, inflight, pend, intr,
  buf, r, w, e, clock, rx, thr, cpc, left, got, ckilled, owed,
  reg, trun, ctx, frame, tf, tstate, tkilled, goal, kgoal, paniced,
  sip, line, claimed, hpc, ticks, kpc, ticks0, dur, skilled, since, slept,
  cmds, starved,
  dtype, dnlink, ents, iref, ivalid, itype, inlink, ilocked, pr, drops, cwd, file, gone, stray, dpanic,
  part

pv == <<state, parent, killed, lock, pc, opar, np, kids>>
sv == <<sstate, chan, plock, lk, ready, cpu, run, idx, spc, ret, saved, visit>>
iv == <<alive, data, nread, nwrite, readopen, writeopen, plk, ref, ends, pkilled, ppc, pleft, eof, cut>>
lv == <<home, dlog, dhead, lh, outstanding, committing, cache, refcnt, lpc, hold, tail, nwrites, boot,
        crashes, latest, unpinned>>
vv == <<free, next, addr, avail, availidx, elems, usedid, used_idx, info, vlock, vpc, vidx,
        write, busy, bdata, medium, seen, inflight, pend, intr>>
cv == <<buf, r, w, e, clock, rx, thr, cpc, left, got, ckilled, owed>>
tv == <<reg, trun, ctx, frame, tf, tstate, tkilled, goal, kgoal, paniced>>
kv == <<sip, line, claimed, hpc, ticks, kpc, ticks0, dur, skilled, since, slept>>
rv == <<cmds, starved>>
dv == <<dtype, dnlink, ents, iref, ivalid, itype, inlink, ilocked, pr, drops, cwd, file, gone, stray, dpanic>>

\* A pipeline whose left side never ends, and a background job that reads.
Reads == <<"exec", "cat">>
Lines == {<<"pipe", <<"exec", "yes">>, <<"exec", "true">>>>,
          <<"list", <<"back", <<"redir", Reads, 0>>>>, <<"pipe", Reads, Reads>>>>}

\* Two calls that want a directory and its parent, and one that fails inside.
Call(op, path) == [op |-> op, abs |-> FALSE, path |-> path, path2 |-> <<>>]
Calls == p1 :> {Call("mkdir", <<a>>), Call("mkdir", <<a, a>>)}
         @@ p2 :> {Call("unlink", <<a>>)}

User == {p1, p2}
Slot == 1..4
Cpu == {c1}

P == INSTANCE Proc WITH NPROC <- 4, Killable <- {2}
S == INSTANCE Sched WITH NPROC <- 2, state <- sstate, pc <- spc
I == INSTANCE Pipe WITH Proc <- User, Byte <- {x}, PIPESIZE <- 1, CountMod <- 2, MaxN <- 1,
                        lock <- plk, killed <- pkilled, pc <- ppc, left <- pleft
L == INSTANCE Log WITH Proc <- User, Block <- {b1}, Value <- {v1}, MAXOPBLOCKS <- 1, LOGSIZE <- 1,
                       NLOG <- 2, RefMod <- 8, CachePressure <- FALSE, MaxCrash <- 1, pc <- lpc
V == INSTANCE Virtio WITH Proc <- User, NUM <- 4, IdxMod <- 4, idx <- vidx
C == INSTANCE Console WITH Proc <- {p1}, INPUT_BUF <- 1, CountMod <- 2, FIFO <- 1, MaxN <- 1
T == INSTANCE Trap WITH Proc <- {p1}, Hart <- {h0}, run <- trun
K == INSTANCE Clock WITH Proc <- {p1}, Hart <- {h0, h1}, Hart0 <- h0, Irq <- {i1}, TickMod <- 2,
                         spc <- kpc
R == INSTANCE ShRun WITH NPROC <- 4, NOFILE <- 5, NPIPE <- 2, procs <- cmds
D == INSTANCE Dir WITH Proc <- User, NInodes <- 3, Names <- {a}, NINODE <- 3

\* Who forks whom in part "heirs".  Slot 4 is a grandchild's child that may
\* find slot 2 free again: with 2 and 3 exiting and 1 and 4 waiting, this is
\* the least family in which a parent exit has copied is another's child.
Descent == {<<1, 2>>, <<2, 3>>, <<3, 4>>, <<4, 2>>}
Heirs ==
  \/ \E d \in Descent : P!fork(d[1], d[2])
  \/ \E p \in {2, 3} : P!exit(p) \/ P!Exits(p)
  \/ \E p \in {1, 4} : P!wait(p) \/ P!Waits(p)

LiveInit ==
  /\ part \in {"process", "heirs", "scheduler", "pipe", "log", "disk", "console", "trap", "clock", "shell", "dirs"}
  /\ P!Init /\ S!Init /\ I!Init /\ L!Init /\ V!VInit /\ C!CInit /\ K!KInit /\ R!RInit /\ D!DInit
  /\ T!TInit /\ (part = "trap" \/ tstate[p1] = "runnable")

Run(q) == part = q /\ UNCHANGED part

LiveNext ==
  \/ Run("process") /\ P!Next /\ state'[4] = "UNUSED" /\ UNCHANGED <<sv, iv, lv, vv, cv, tv, kv, rv, dv>>
  \/ Run("heirs") /\ Heirs /\ UNCHANGED <<sv, iv, lv, vv, cv, tv, kv, rv, dv>>
  \/ Run("scheduler") /\ S!Next /\ UNCHANGED <<pv, iv, lv, vv, cv, tv, kv, rv, dv>>
  \/ Run("pipe") /\ I!Next /\ pkilled'[p2] = 0 /\ UNCHANGED <<pv, sv, lv, vv, cv, tv, kv, rv, dv>>
  \/ Run("log") /\ L!Next /\ UNCHANGED <<pv, sv, iv, vv, cv, tv, kv, rv, dv>>
  \/ Run("disk") /\ V!VNext /\ UNCHANGED <<pv, sv, iv, lv, cv, tv, kv, rv, dv>>
  \/ Run("console") /\ C!CNext /\ UNCHANGED <<pv, sv, iv, lv, vv, tv, kv, rv, dv>>
  \/ Run("trap") /\ T!TNext /\ UNCHANGED <<pv, sv, iv, lv, vv, cv, kv, rv, dv>>
  \/ Run("clock") /\ K!KNext /\ UNCHANGED <<pv, sv, iv, lv, vv, cv, tv, rv, dv>>
  \/ Run("shell") /\ R!RNext /\ UNCHANGED <<pv, sv, iv, lv, vv, cv, tv, kv, dv>>
  \/ Run("dirs") /\ D!DNext /\ UNCHANGED <<pv, sv, iv, lv, vv, cv, tv, kv, rv>>

-----------------------------------------------------------------------------
(* The fairness of the components: Strong(k) and Weak(k) are the k-th        *)
(* actions the part's own fairness condition names, with strong and with     *)
(* weak fairness.  Processes, harts and slots are told apart by their number. *)

Nth == <<p1, p2>>
Hart == <<h0, h1>>

Strong(k) ==
  \/ (Run("process") \/ Run("heirs"))
     /\ \E p \in Slot : k = p /\ P!InKernel(p)
  \/ Run("scheduler") /\ \/ k = 1 /\ S!scheduler(c1)
                         \/ k = 2 /\ S!wakeup(c1)
                         \/ k = 3 /\ (S!acquire(c1, "spin_wait", "test") \/ S!acquire(c1, "spin_set", "set"))
                         \/ k = 4 /\ S!yield(c1)
  \/ Run("pipe") /\ \E n \in 1..2 : k = n /\ I!InKernel(Nth[n])
  \/ Run("log") /\ \E n \in 1..2 : (k = n /\ L!end_op(Nth[n])) \/ (k = n + 2 /\ L!commit(Nth[n]))
  \/ Run("disk") /\ \/ k = 7 /\ V!Intr
                    \/ \E n \in 1..2 : \/ k = n /\ V!rw_format(Nth[n])
                                       \/ k = n + 2 /\ V!rw_return(Nth[n])
                                       \/ k = n + 4 /\ (V!rw_sleep(Nth[n]) \/ V!rw_again(Nth[n]))
  \/ Run("console") /\ ((k = 1 /\ C!consoleintr) \/ (k = 2 /\ C!Reads(p1)) \/ (k = 3 /\ C!Writes(p1)))
  \/ Run("trap") /\ \/ k = 1 /\ T!trap(h0, "timer")
                    \/ k = 2 /\ T!Handler(h0)
                    \/ k = 3 /\ T!sched_on(h0)
                    \/ k = 4 /\ T!sched_pick(h0, p1)
                    \/ k = 5 /\ trun[h0] = p1 /\ T!Progress(h0)
  \/ Run("clock") /\ \E n \in 1..2 : \/ k = n /\ K!external(Hart[n])
                                     \/ k = n + 2 /\ K!software(Hart[n])
                                     \/ k = n + 4 /\ K!plic_claim(Hart[n]) /\ claimed'[Hart[n]] = i1
                                     \/ k = 7 /\ K!Sleep(p1)
  \/ Run("dirs") /\ \E n \in 1..2 : k = n /\ D!Step(Nth[n])

Weak(k) ==
  \/ Run("scheduler") /\ k = 1 /\ S!Work(c1)
  \/ Run("log") /\ \/ k = 3 /\ L!recover_from_log
                   \/ \E n \in 1..2 : k = n /\ L!Progress(Nth[n])
  \/ Run("disk") /\ \/ k = 3 /\ V!dev_take
                    \/ \E n \in 1..2 : k = n /\ V!rw_notify(Nth[n])
                    \/ \E i \in 0..3 : k = i + 4 /\ V!dev_serve(i)
  \/ Run("console") /\ k = 1 /\ C!transmit
  \/ Run("clock") /\ \E n \in 1..2 : (k = n /\ K!timervec(Hart[n])) \/ (k = n + 2 /\ K!Devintr(Hart[n]))
  \/ Run("shell") /\ \/ k = 5 /\ R!main_wait
                     \/ \E s \in 1..4 : k = s /\ R!Step(s)

\* The variables of the part that runs.
Vars ==
  CASE part \in {"process", "heirs"} -> pv [] part = "scheduler" -> sv [] part = "pipe" -> iv [] part = "log" -> lv
    [] part = "disk" -> vv [] part = "console" -> cv [] part = "trap" -> tv [] part = "clock" -> kv
    [] part = "shell" -> rv [] part = "dirs" -> dv

LiveSpec ==
  /\ LiveInit /\ [][LiveNext]_<<pv, sv, iv, lv, vv, cv, tv, kv, rv, dv, part>>
  /\ \A k \in 1..7 : SF_Vars(Strong(k)) /\ WF_Vars(Weak(k))

-----------------------------------------------------------------------------
(* The components' properties: a part has up to four debts, of its first and *)
(* its second process (1 and 2), and of the same two for something else (3   *)
(* and 4).  Slot 1 is init's, which neither exits nor is in want of a wait   *)
(* that returns.                                                            *)

Family == part \in {"process", "heirs"}

Due(k) ==
  \/ Family /\ k <= 2 /\ P!Exiting(k + 1)
  \/ part = "process" /\ k > 2 /\ P!Awaited(k - 1)
  \/ part = "heirs" /\ k = 4 /\ P!Awaited(4)
  \/ part = "scheduler" /\ k <= 2 /\ ready = 1 /\ S!Asleep(k)
  \/ part = "scheduler" /\ k > 2 /\ sstate[k - 2] = "RUNNABLE"
  \/ part = "pipe" /\ k <= 2 /\ I!Deserted(Nth[k])
  \/ part = "log" /\ k <= 2 /\ lpc[Nth[k]] = "sleep"
  \/ part = "disk" /\ k <= 2 /\ vpc[Nth[k]] = "start"
  \/ part = "console" /\ ((k = 1 /\ cpc[p1] = "w_loop") \/ (k = 2 /\ C!CDue(p1)))
  \/ part = "trap" /\ k = 1 /\ tkilled[p1] = 1
  \/ part = "clock" /\ ((k = 1 /\ skilled[p1] = 1 /\ kpc[p1] # "user") \/ (k = 2 /\ line[i1] = 1))
  \/ part = "shell" /\ k = 1 /\ R!At(1, "wait")
  \/ part = "dirs" /\ k <= 2 /\ pr[Nth[k]].pc # "user"

Met(k) ==
  \/ Family /\ k <= 2 /\ P!Gone(k + 1)
  \/ part = "process" /\ k > 2 /\ ~P!InWait(k - 1)
  \/ part = "heirs" /\ k = 4 /\ ~P!InWait(4)
  \/ Family /\ P!Circle
  \/ part = "scheduler" /\ k <= 2 /\ ~S!Asleep(k)
  \/ part = "scheduler" /\ k > 2 /\ sstate[k - 2] = "RUNNING"
  \/ part = "pipe" /\ k <= 2 /\ ppc[Nth[k]] = "user"
  \/ part = "log" /\ k <= 2 /\ lpc[Nth[k]] # "sleep"
  \/ part = "disk" /\ k <= 2 /\ vpc[Nth[k]] = "idle"
  \/ part = "console" /\ ((k = 1 /\ cpc[p1] = "user") \/ (k = 2 /\ ~C!CAsleep(p1)))
  \/ part = "trap" /\ k = 1 /\ tkilled[p1] = 0
  \/ part = "clock" /\ ((k = 1 /\ kpc[p1] = "user") \/ (k = 2 /\ line[i1] # 1))
  \/ part = "shell" /\ k = 1 /\ ~R!At(1, "wait")
  \/ part = "dirs" /\ k <= 2 /\ (pr[Nth[k]].pc = "user" \/ dpanic # "no")

\* What must happen does.  Calls return: exit, unless there is the circle that
\* StaleParentHarmless denies; a read or write of a pipe whose other end is
\* closed; virtio_disk_rw; consolewrite; every call on a path; the shell's wait
\* for a pipeline.  Sleepers with a reason to wake do: a parent of a zombie,
\* with the same exception; whoever waits for a condition that holds; begin_op;
\* a reader of the console with a line to read; sys_sleep of a killed process.
\* Nobody is passed over: a runnable process runs, a killed one exits, a device
\* with something to report is served.
EveryoneServed == \A k \in 1..4 : Due(k) ~> Met(k)

=============================================================================
