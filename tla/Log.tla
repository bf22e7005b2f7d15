-------------------------------- MODULE Log --------------------------------
(***************************************************************************)
(* The write-ahead log of kernel/log.c: begin_op, log_write, end_op,       *)
(* commit, and recover_from_log after a crash, with every write to the     *)
(* disk a step of its own.                                                 *)
(*                                                                         *)
(* The buffer cache appears as what log.c relies on: for each home block   *)
(* the cached contents, the reference count that bpin, bunpin, bread and   *)
(* brelse move, and the process that holds the buffer's sleep lock.  The   *)
(* slots the blocks are cached in are modelled in Bio.  Log blocks and the *)
(* header are written through by every bwrite, so their cached copies are  *)
(* never newer than the disk and are not kept apart from it.               *)
(*                                                                         *)
(* A step is what runs between two points where the code can be            *)
(* interleaved: a critical section of log.lock or of bcache.lock together  *)
(* with the accesses to the buffer whose sleep lock the process holds.     *)
(***************************************************************************)
EXTENDS Integers, Sequences, FiniteSets

CONSTANTS Proc,          \* processes making file-system calls
          Block,         \* home blocks
          Value,         \* block contents
          NoVal,         \* "not in the cache"
          NoBlock,       \* "holds no buffer"
          MAXOPBLOCKS,   \* log_write calls one operation may make
          LOGSIZE,       \* entries of lh.block
          NLOG,          \* log[dev].size, the superblock's nlog
          RefMod,        \* 2^32 in the code: refcnt is a uint
          CachePressure, \* TRUE if bget ever has to recycle a buffer
          MaxCrash       \* bound on crashes

ASSUME LogAssumption ==
  /\ NoVal \notin Value
  /\ NoBlock \notin Block
  /\ MAXOPBLOCKS \in Nat \ {0}
  /\ LOGSIZE \in Nat \ {0}
  /\ NLOG \in Nat \ {0}
  /\ RefMod \in Nat /\ RefMod > 2
  /\ IsFiniteSet(Proc)
  /\ CachePressure \in BOOLEAN
  /\ MaxCrash \in Nat

VARIABLES
  home,        \* disk: home blocks
  dlog,        \* disk: the data blocks of the log
  dhead,       \* disk: the block numbers in the log header
  lh,          \* log[dev].lh, in memory
  outstanding, \* log[dev].outstanding
  committing,  \* log[dev].committing
  cache,       \* cached contents of each home block, or NoVal
  refcnt,      \* the buffer's reference count
  pc, hold,    \* where each process is and the buffer it has locked
  tail,        \* loop index of write_log and install_trans
  nwrites,     \* log_write calls of the current operation
  boot,        \* where the boot process is in recover_from_log
  crashes,     \* crashes so far
  latest,      \* history: what the system calls last wrote to each block
  unpinned     \* history: blocks this boot's recovery called bunpin on

disk == <<home, dlog, dhead>>
logvars == <<lh, outstanding, committing>>
bufs == <<cache, refcnt>>
procs == <<pc, hold, tail, nwrites>>
hist == <<latest, unpinned>>
vars == <<disk, logvars, bufs, procs, boot, crashes, hist>>

PC == {"idle", "begin", "sleep", "op", "hold", "dirty", "checked", "logged",
       "read", "write_log", "write_head", "install", "clear", "finish",
       "panic"}

-----------------------------------------------------------------------------
(* What a reader of the disk, and of the cache, would see.                 *)

Entries(s) == {s[i] : i \in DOMAIN s}

\* The disk as recover_from_log would leave it: committed blocks from the
\* log, every other block from its home location.
Recovered ==
  [b \in Block |->
     IF b \in Entries(dhead)
     THEN dlog[CHOOSE i \in DOMAIN dhead : dhead[i] = b]
     ELSE home[b]]

\* bread: the cached contents, read from the disk if the buffer is not valid.
Contents(b) == IF cache[b] = NoVal THEN home[b] ELSE cache[b]

BufFree(b) == \A p \in Proc : hold[p] # b

-----------------------------------------------------------------------------
Init ==
  /\ home \in [Block -> Value]
  /\ \E v \in Value : dlog = [i \in 1..LOGSIZE |-> v]
  /\ dhead = <<>>
  /\ lh = <<>>
  /\ outstanding = 0
  /\ committing = 0
  /\ cache = [b \in Block |-> NoVal]
  /\ refcnt = [b \in Block |-> 0]
  /\ pc = [p \in Proc |-> "idle"]
  /\ hold = [p \in Proc |-> NoBlock]
  /\ tail = 0
  /\ nwrites = [p \in Proc |-> 0]
  /\ boot = "read_head"
  /\ crashes = 0
  /\ latest = home
  /\ unpinned = {}

-----------------------------------------------------------------------------
(* The system calls.                                                       *)

\* Mutant: begin_op forgets log[dev].committing.
begin_op_nowait(p) ==
  /\ boot = "done"
  /\ pc[p] \in {"idle", "begin"}
  /\ IF Len(lh) + (outstanding + 1) * MAXOPBLOCKS > LOGSIZE
     THEN /\ pc' = [pc EXCEPT ![p] = "sleep"]
          /\ UNCHANGED <<outstanding, nwrites>>
     ELSE /\ outstanding' = outstanding + 1
          /\ pc' = [pc EXCEPT ![p] = "op"]
          /\ nwrites' = [nwrites EXCEPT ![p] = 0]
  /\ UNCHANGED <<disk, lh, committing, bufs, hold, tail, boot, crashes, hist>>

\* Mutant: begin_op reserves for the operations before this one only.
begin_op_short(p) ==
  /\ boot = "done"
  /\ pc[p] \in {"idle", "begin"}
  /\ IF committing = 1 \/ Len(lh) + outstanding * MAXOPBLOCKS > LOGSIZE
     THEN /\ pc' = [pc EXCEPT ![p] = "sleep"]
          /\ UNCHANGED <<outstanding, nwrites>>
     ELSE /\ outstanding' = outstanding + 1
          /\ pc' = [pc EXCEPT ![p] = "op"]
          /\ nwrites' = [nwrites EXCEPT ![p] = 0]
  /\ UNCHANGED <<disk, lh, committing, bufs, hold, tail, boot, crashes, hist>>

\* begin_op.  The test is repeated after every wakeup; sleep() releases
\* log.lock only once the process is on the channel.
begin_op(p) ==
  /\ boot = "done"
  /\ pc[p] \in {"idle", "begin"}
  /\ IF committing = 1 \/ Len(lh) + (outstanding + 1) * MAXOPBLOCKS > LOGSIZE
     THEN /\ pc' = [pc EXCEPT ![p] = "sleep"]
          /\ UNCHANGED <<outstanding, nwrites>>
     ELSE /\ outstanding' = outstanding + 1
          /\ pc' = [pc EXCEPT ![p] = "op"]
          /\ nwrites' = [nwrites EXCEPT ![p] = 0]
  /\ UNCHANGED <<disk, lh, committing, bufs, hold, tail, boot, crashes, hist>>

\* bread, by a call inside an operation or (read, stat, a path lookup) by
\* one outside.  refcnt is raised by bget and the sleep lock then taken.
bread(p, b) ==
  /\ boot = "done"
  /\ pc[p] \in {"idle", "op"}
  /\ BufFree(b)
  /\ refcnt' = [refcnt EXCEPT ![b] = (@ + 1) % RefMod]
  /\ cache' = [cache EXCEPT ![b] = Contents(b)]
  /\ hold' = [hold EXCEPT ![p] = b]
  /\ pc' = [pc EXCEPT ![p] = IF pc[p] = "op" THEN "hold" ELSE "read"]
  /\ UNCHANGED <<disk, logvars, tail, nwrites, boot, crashes, hist>>

\* A caller changes b->data of the buffer it holds, and gives it to log_write
\* next.  One in fs.c may not: writei releases a block that it could copy only
\* in part from user memory as it is.  Such a block is not modelled here.
modify(p, v) ==
  /\ pc[p] = "hold"
  /\ nwrites[p] < MAXOPBLOCKS
  /\ cache' = [cache EXCEPT ![hold[p]] = v]
  /\ latest' = [latest EXCEPT ![hold[p]] = v]
  /\ nwrites' = [nwrites EXCEPT ![p] = @ + 1]
  /\ pc' = [pc EXCEPT ![p] = "dirty"]
  /\ UNCHANGED <<disk, logvars, refcnt, hold, tail, boot, crashes, unpinned>>

\* Mutant: one block too careful.
log_write_check_early(p) ==
  /\ pc[p] = "dirty"
  /\ pc' = [pc EXCEPT ![p] =
              IF \/ Len(lh) >= LOGSIZE - 1 \/ Len(lh) >= NLOG - 2
                 \/ outstanding < 1
              THEN "panic" ELSE "checked"]
  /\ UNCHANGED <<disk, logvars, bufs, hold, tail, nwrites, boot, crashes, hist>>

\* log_write tests for space before it takes log.lock ...
log_write_check(p) ==
  /\ pc[p] = "dirty"
  /\ pc' = [pc EXCEPT ![p] =
              IF \/ Len(lh) >= LOGSIZE \/ Len(lh) >= NLOG - 1
                 \/ outstanding < 1
              THEN "panic" ELSE "checked"]
  /\ UNCHANGED <<disk, logvars, bufs, hold, tail, nwrites, boot, crashes, hist>>

\* Mutant: log_write without bpin.
log_write_nopin(p) ==
  /\ pc[p] = "checked"
  /\ lh' = IF hold[p] \in Entries(lh) THEN lh ELSE Append(lh, hold[p])
  /\ pc' = [pc EXCEPT ![p] = "logged"]
  /\ UNCHANGED <<disk, outstanding, committing, bufs, hold, tail, nwrites,
                 boot, crashes, hist>>

\* ... and then absorbs a block that is already logged, or appends and pins.
log_write(p) ==
  /\ pc[p] = "checked"
  /\ IF hold[p] \in Entries(lh)
     THEN UNCHANGED <<lh, refcnt>>
     ELSE /\ lh' = Append(lh, hold[p])
          /\ refcnt' = [refcnt EXCEPT ![hold[p]] = (@ + 1) % RefMod]
  /\ pc' = [pc EXCEPT ![p] = "logged"]
  /\ UNCHANGED <<disk, outstanding, committing, cache, hold, tail, nwrites,
                 boot, crashes, hist>>

brelse(p) ==
  /\ pc[p] \in {"hold", "logged", "read"}
  /\ refcnt' = [refcnt EXCEPT ![hold[p]] = (@ - 1) % RefMod]
  /\ hold' = [hold EXCEPT ![p] = NoBlock]
  /\ pc' = [pc EXCEPT ![p] = IF pc[p] = "read" THEN "idle" ELSE "op"]
  /\ UNCHANGED <<disk, logvars, cache, tail, nwrites, boot, crashes, hist>>

\* wakeup(&log): every sleeper tests again.
Wake(f) == [p \in Proc |-> IF f[p] = "sleep" THEN "begin" ELSE f[p]]

end_op(p) ==
  /\ pc[p] = "op"
  /\ outstanding' = outstanding - 1
  /\ IF committing = 1
     THEN /\ pc' = [pc EXCEPT ![p] = "panic"]
          /\ UNCHANGED <<committing, tail>>
     ELSE IF outstanding = 1
     THEN /\ committing' = 1
          /\ pc' = [pc EXCEPT ![p] = IF lh = <<>> THEN "finish" ELSE "write_log"]
          /\ tail' = 0
     ELSE /\ pc' = Wake([pc EXCEPT ![p] = "idle"])
          /\ UNCHANGED <<committing, tail>>
  /\ UNCHANGED <<disk, lh, bufs, hold, nwrites, boot, crashes, hist>>

-----------------------------------------------------------------------------
(* commit, run by the process whose end_op found no other operation.       *)

\* One round of write_log: bread of the cached block, copy, bwrite of the
\* log block, brelse of both.
write_log(p) ==
  /\ pc[p] = "write_log"
  /\ tail < Len(lh)
  /\ LET b == lh[tail + 1]
     IN /\ BufFree(b)
        /\ cache' = [cache EXCEPT ![b] = Contents(b)]
        /\ dlog' = [dlog EXCEPT ![tail + 1] = Contents(b)]
  /\ tail' = tail + 1
  /\ pc' = [pc EXCEPT ![p] = IF tail + 1 = Len(lh) THEN "write_head" ELSE @]
  /\ UNCHANGED <<home, dhead, logvars, refcnt, hold, nwrites, boot, crashes, hist>>

\* Mutant: commit clears the header without installing.
write_head_noinstall(p) ==
  /\ pc[p] = "write_head"
  /\ dhead' = lh
  /\ tail' = 0
  /\ pc' = [pc EXCEPT ![p] = "clear"]
  /\ UNCHANGED <<home, dlog, logvars, bufs, hold, nwrites, boot, crashes, hist>>

\* write_head: the commit point.
write_head(p) ==
  /\ pc[p] = "write_head"
  /\ dhead' = lh
  /\ tail' = 0
  /\ pc' = [pc EXCEPT ![p] = "install"]
  /\ UNCHANGED <<home, dlog, logvars, bufs, hold, nwrites, boot, crashes, hist>>

\* One round of install_trans: copy the log block over the cached block,
\* bwrite it home, bunpin, brelse.  bread and brelse cancel out in refcnt,
\* bunpin does not.
InstallBlock(b, v) ==
  /\ BufFree(b)
  /\ home' = [home EXCEPT ![b] = v]
  /\ cache' = [cache EXCEPT ![b] = v]
  /\ refcnt' = [refcnt EXCEPT ![b] = (@ - 1) % RefMod]

install_trans(p) ==
  /\ pc[p] = "install"
  /\ InstallBlock(lh[tail + 1], dlog[tail + 1])
  /\ tail' = tail + 1
  /\ pc' = [pc EXCEPT ![p] = IF tail + 1 = Len(lh) THEN "clear" ELSE @]
  /\ UNCHANGED <<dlog, dhead, logvars, hold, nwrites, boot, crashes, hist>>

\* lh.n = 0 and the second write_head.
clear_head(p) ==
  /\ pc[p] = "clear"
  /\ lh' = <<>>
  /\ dhead' = <<>>
  /\ pc' = [pc EXCEPT ![p] = "finish"]
  /\ UNCHANGED <<home, dlog, outstanding, committing, bufs, hold, tail,
                 nwrites, boot, crashes, hist>>

\* The tail of end_op.
end_op_finish(p) ==
  /\ pc[p] = "finish"
  /\ committing' = 0
  /\ pc' = Wake([pc EXCEPT ![p] = "idle"])
  /\ UNCHANGED <<disk, lh, outstanding, bufs, hold, tail, nwrites, boot,
                 crashes, hist>>

-----------------------------------------------------------------------------
(* Crash and recovery.  fsinit runs recover_from_log in the first process, *)
(* before any other exists.                                                *)

\* Mutant: recovery clears the log without installing it.
read_head_noinstall ==
  /\ boot = "read_head"
  /\ lh' = dhead
  /\ tail' = 0
  /\ boot' = "clear"
  /\ UNCHANGED <<disk, outstanding, committing, bufs, pc, hold, nwrites,
                 crashes, hist>>

read_head ==
  /\ boot = "read_head"
  /\ lh' = dhead
  /\ tail' = 0
  /\ boot' = IF dhead = <<>> THEN "clear" ELSE "install"
  /\ UNCHANGED <<disk, outstanding, committing, bufs, pc, hold, nwrites,
                 crashes, hist>>

recover_install ==
  /\ boot = "install"
  /\ InstallBlock(lh[tail + 1], dlog[tail + 1])
  /\ unpinned' = unpinned \cup {lh[tail + 1]}
  /\ tail' = tail + 1
  /\ boot' = IF tail + 1 = Len(lh) THEN "clear" ELSE boot
  /\ UNCHANGED <<dlog, dhead, logvars, pc, hold, nwrites, crashes, latest>>

recover_clear ==
  /\ boot = "clear"
  /\ lh' = <<>>
  /\ dhead' = <<>>
  /\ boot' = "done"
  /\ UNCHANGED <<home, dlog, outstanding, committing, bufs, procs, crashes, hist>>

\* Everything in memory is lost.
crash ==
  /\ crashes < MaxCrash
  /\ crashes' = crashes + 1
  /\ lh' = <<>>
  /\ outstanding' = 0
  /\ committing' = 0
  /\ cache' = [b \in Block |-> NoVal]
  /\ refcnt' = [b \in Block |-> 0]
  /\ pc' = [p \in Proc |-> "idle"]
  /\ hold' = [p \in Proc |-> NoBlock]
  /\ tail' = 0
  /\ nwrites' = [p \in Proc |-> 0]
  /\ boot' = "read_head"
  /\ latest' = Recovered
  /\ unpinned' = {}
  /\ UNCHANGED disk

\* bget, looking for room for some other block, recycles a buffer whose
\* reference count is 0.  Nothing else protects a buffer: after recovery has
\* made a count wrong, bget can take a buffer from under its holder, who goes
\* on with the buffer of the other block and leaves that count wrong too.
\* What the cache then holds is not followed further.
recycle(b) ==
  /\ CachePressure
  /\ refcnt[b] = 0
  /\ cache[b] # NoVal
  /\ cache' = [cache EXCEPT ![b] = NoVal]
  /\ UNCHANGED <<disk, logvars, refcnt, procs, boot, crashes, hist>>

-----------------------------------------------------------------------------
commit(p) == write_log(p) \/ write_head(p) \/ install_trans(p) \/ clear_head(p)

recover_from_log == read_head \/ recover_install \/ recover_clear

Step(p) ==
  \/ begin_op(p)
  \/ \E b \in Block : bread(p, b)
  \/ \E v \in Value : modify(p, v)
  \/ log_write_check(p)
  \/ log_write(p)
  \/ brelse(p)
  \/ end_op(p)
  \/ commit(p)
  \/ end_op_finish(p)

Next ==
  \/ \E p \in Proc : Step(p)
  \/ recover_from_log
  \/ \E b \in Block : recycle(b)
  \/ crash

Spec == Init /\ [][Next]_vars

-----------------------------------------------------------------------------
(* Properties.                                                             *)

InOp(p) == pc[p] \in {"op", "hold", "dirty", "checked", "logged", "panic"}
InCommit(p) == pc[p] \in {"write_log", "write_head", "install", "clear", "finish"}

\* The fields of struct log, the header and the buffers keep their C types:
\* refcnt stays an unsigned number, even where recovery unpins too often.
TypeOK ==
  /\ home \in [Block -> Value]
  /\ dlog \in [1..LOGSIZE -> Value]
  /\ dhead \in Seq(Block)
  /\ lh \in Seq(Block)
  /\ outstanding \in Int
  /\ committing \in {0, 1}
  /\ cache \in [Block -> Value \cup {NoVal}]
  /\ refcnt \in [Block -> 0..(RefMod - 1)]
  /\ pc \in [Proc -> PC]
  /\ hold \in [Proc -> Block \cup {NoBlock}]
  /\ tail \in Nat
  /\ nwrites \in [Proc -> 0..MAXOPBLOCKS]
  /\ boot \in {"read_head", "install", "clear", "done"}
  /\ crashes \in 0..MaxCrash
  /\ latest \in [Block -> Value]
  /\ unpinned \in SUBSET Block

\* The log commits only when no system call is active, and one process at a
\* time runs commit() (end_op's do_commit and log[dev].committing).
CommitAlone ==
  /\ \A p \in Proc : InCommit(p) => committing = 1 /\ ~ \E q \in Proc : InOp(q)
  /\ \A p, q \in Proc : InCommit(p) /\ InCommit(q) => p = q
  /\ outstanding = Cardinality({p \in Proc : InOp(p)})

\* The log_write calls the admitted operations may still make, as a set of
\* <<process, n-th call>>; a call that has not appended yet is still to come.
Done(p) == nwrites[p] - (IF pc[p] \in {"dirty", "checked", "panic"} THEN 1 ELSE 0)
Unused == {t \in Proc \X (1..MAXOPBLOCKS) : InOp(t[1]) /\ t[2] > Done(t[1])}

\* begin_op's reservation covers what the admitted operations can still log,
\* so lh.block[LOGSIZE] is never indexed past its end, whatever they absorb
\* and however they overlap.
SpaceReserved == Len(lh) + Cardinality(Unused) <= LOGSIZE

\* log_write pins a logged block, so what the system calls last wrote is what
\* bread returns, however often the cache recycles buffers -- as long as this
\* boot's recovery found an empty log.  Once it has called bunpin on one block
\* no block is safe: a buffer recycled under its holder passes the wrong
\* count on to the block that takes it over.
NoLostUpdate ==
  boot = "done" /\ unpinned = {} => \A b \in Block : Contents(b) = latest[b]

\* What a crash would leave changes at one point only: when no call is in
\* progress, and then, if this boot's recovery found an empty log, to all that
\* the calls wrote.  install_trans, the clearing of the header, a crash and the
\* recovery after it do not change it.
CommitIsAtomic ==
  [][Recovered' # Recovered =>
       /\ \A p \in Proc : ~InOp(p)
       /\ unpinned = {} => Recovered' = latest]_vars

\* The log implements LogAbs: until recovery is over the calls would see the
\* recovered disk, afterwards what bread returns.
Abs == INSTANCE LogAbs WITH
  mem <- IF boot = "done" THEN [b \in Block |-> Contents(b)] ELSE Recovered,
  stable <- Recovered,
  ops <- {p \in Proc : InOp(p)}

ImplementsAbs == Abs!Spec

\* log.c:205-206: "Record the block number and pin in the cache by increasing
\* refcnt.  commit()/write_log() will do the disk write."  Stated for every
\* block, those that recovery installed included.
LoggedBlocksStayCached ==
  boot = "done" => \A b \in Block : Contents(b) = latest[b]

\* A call that begin_op admitted and that logs at most MAXOPBLOCKS blocks
\* panics for one reason only: every data block of the log on the disk is
\* taken.  So it never does if the log has LOGSIZE of them (NLOG > LOGSIZE).
PanicsOnlyIfFull == \A p \in Proc : pc[p] = "panic" => Len(lh) >= NLOG - 1

-----------------------------------------------------------------------------
(* Fairness: a process inside the kernel keeps running, a system call ends *)
(* (each one reads and writes a bounded number of blocks), and one waiting *)
(* for a buffer that is released again and again gets it eventually.       *)
Progress(p) == pc[p] # "idle" /\ Step(p)

FairSpec ==
  /\ Spec
  /\ WF_vars(recover_from_log)
  /\ \A p \in Proc :
       /\ WF_vars(Progress(p))
       /\ SF_vars(end_op(p))
       /\ SF_vars(commit(p))

\* Nobody sleeps in begin_op for ever: whatever it waits for ends in a
\* wakeup(&log) that it cannot miss.
SleepersWake == \A p \in Proc : pc[p] = "sleep" ~> pc[p] # "sleep"
=============================================================================
