-------------------------------- MODULE Bio --------------------------------
(***************************************************************************)
(* The buffer cache of kernel/bio.c, buffer by buffer, with the sleep lock *)
(* of kernel/sleeplock.c that each buffer carries.                         *)
(*                                                                         *)
(* bcache.lock protects the list, the block numbers and the reference      *)
(* counts: what runs under it is one step.  The sleep lock is taken, and   *)
(* the disk read, outside it.  The callers are the file system, which      *)
(* changes a block and has the log pin it, and the log, which installs a   *)
(* pinned block and unpins it.                                             *)
(***************************************************************************)
EXTENDS Integers, Sequences, FiniteSets

CONSTANTS Proc, Block, Value,
          Nobody,      \* no process
          NoBlock,     \* block 0: what a buffer is labelled with before use
          NBUF,        \* buffers
          RefMod,      \* 2^32 in the code: refcnt is a uint
          MaxPins      \* blocks the log keeps pinned at once

ASSUME BioAssumption ==
  /\ Nobody \notin Proc
  /\ NoBlock \notin Block
  /\ NBUF \in Nat \ {0}
  /\ MaxPins \in Nat
  /\ IsFiniteSet(Proc)
  /\ RefMod \in Nat /\ RefMod > Cardinality(Proc) + 1

Slot == 1..NBUF

VARIABLES lru,     \* the list from head.next (most recent) to head.prev
          blockno, valid, refcnt, data, \* the fields of each buf
          lock,    \* b->lock: who holds it
          disk,
          pc, want, buf, \* each caller: where it is, its block, its buffer
          pins,    \* blocks in the log
          latest   \* history: what was last written to each block

bufs == <<lru, blockno, valid, refcnt, data, lock>>
callers == <<pc, want, buf>>
vars == <<bufs, disk, callers, pins, latest>>

Init ==
  /\ lru = [i \in Slot |-> NBUF + 1 - i]
  /\ blockno = [s \in Slot |-> NoBlock]
  /\ valid = [s \in Slot |-> 0]
  /\ refcnt = [s \in Slot |-> 0]
  /\ disk \in [Block -> Value]
  /\ \E v \in Value : data = [s \in Slot |-> v]
  /\ lock = [s \in Slot |-> Nobody]
  /\ pc = [p \in Proc |-> "idle"]
  /\ want = [p \in Proc |-> NoBlock]
  /\ buf = [p \in Proc |-> 1]
  /\ pins = {}
  /\ latest = disk

-----------------------------------------------------------------------------
\* The first buffer from head.next that holds block b.
Hit(s, b) == \E i \in Slot : /\ lru[i] = s /\ blockno[s] = b
                             /\ \A j \in 1..(i - 1) : blockno[lru[j]] # b

\* Mutant: bget takes the last buffer of the list, used or not.
UnusedAny(s) == s = lru[NBUF]

\* The first buffer from head.prev that nobody refers to.
Unused(s) == \E i \in Slot : /\ lru[i] = s /\ refcnt[s] = 0
                             /\ \A j \in (i + 1)..NBUF : refcnt[lru[j]] # 0

\* bget's second loop.
Recycle(s, b) ==
  /\ Unused(s)
  /\ blockno' = [blockno EXCEPT ![s] = b]
  /\ valid' = [valid EXCEPT ![s] = 0]
  /\ refcnt' = [refcnt EXCEPT ![s] = 1]

NoBuffers == \A s \in Slot : refcnt[s] # 0

\* bget up to acquiresleep.  The last disjunct is panic("bget: no buffers").
bget(p, b) ==
  /\ pc[p] = "idle"
  /\ \/ \E s \in Slot :
          /\ Hit(s, b)
          /\ refcnt' = [refcnt EXCEPT ![s] = (@ + 1) % RefMod]
          /\ buf' = [buf EXCEPT ![p] = s]
          /\ pc' = [pc EXCEPT ![p] = "acquire"]
          /\ UNCHANGED <<blockno, valid>>
     \/ \E s \in Slot :
          /\ \A t \in Slot : blockno[t] # b
          /\ Recycle(s, b)
          /\ buf' = [buf EXCEPT ![p] = s]
          /\ pc' = [pc EXCEPT ![p] = "acquire"]
     \/ /\ \A t \in Slot : blockno[t] # b
        /\ NoBuffers
        /\ pc' = [pc EXCEPT ![p] = "panic"]
        /\ UNCHANGED <<blockno, valid, refcnt, buf>>
  /\ want' = [want EXCEPT ![p] = b]
  /\ UNCHANGED <<lru, data, lock, disk, pins, latest>>

\* acquiresleep returns once lk->locked is 0; until then the caller sleeps.
acquiresleep(p) ==
  /\ pc[p] = "acquire"
  /\ lock[buf[p]] = Nobody
  /\ lock' = [lock EXCEPT ![buf[p]] = p]
  /\ pc' = [pc EXCEPT ![p] = "read"]
  /\ UNCHANGED <<lru, blockno, valid, refcnt, data, disk, want, buf, pins, latest>>

\* Mutant: bread marks the buffer valid without reading the block.
bread_unread(p) ==
  /\ pc[p] = "read"
  /\ valid' = [valid EXCEPT ![buf[p]] = 1]
  /\ pc' = [pc EXCEPT ![p] = "use"]
  /\ UNCHANGED <<lru, blockno, refcnt, data, lock, disk, want, buf, pins, latest>>

\* The rest of bread.
bread(p) ==
  LET s == buf[p]
  IN /\ pc[p] = "read"
     /\ \/ /\ valid[s] = 0 /\ blockno[s] \in Block
           /\ data' = [data EXCEPT ![s] = disk[blockno[s]]]
           /\ valid' = [valid EXCEPT ![s] = 1]
        \/ valid[s] = 1 /\ UNCHANGED <<data, valid>>
     /\ pc' = [pc EXCEPT ![p] = "use"]
     /\ UNCHANGED <<lru, blockno, refcnt, lock, disk, want, buf, pins, latest>>

-----------------------------------------------------------------------------
(* What callers do with a buffer they hold.                                *)

\* Change the data and log it: log_write calls bpin unless b->blockno is in
\* the log already.
bpin(p, v) ==
  LET s == buf[p]
      b == blockno[s]
  IN /\ pc[p] = "use"
     /\ b \in pins \/ Cardinality(pins) < MaxPins
     /\ data' = [data EXCEPT ![s] = v]
     /\ latest' = [latest EXCEPT ![want[p]] = v]
     /\ pins' = pins \cup {b}
     /\ refcnt' = [refcnt EXCEPT ![s] = IF b \in pins THEN @ ELSE (@ + 1) % RefMod]
     /\ UNCHANGED <<lru, blockno, valid, lock, disk, callers>>

\* Change the data and bwrite it at once (log blocks and the header).
bwrite(p, v) ==
  LET s == buf[p]
  IN /\ pc[p] = "use"
     /\ IF lock[s] = p
        THEN /\ data' = [data EXCEPT ![s] = v]
             /\ disk' = [disk EXCEPT ![blockno[s]] = v]
             /\ latest' = [latest EXCEPT ![want[p]] = v]
             /\ UNCHANGED pc
        ELSE /\ pc' = [pc EXCEPT ![p] = "panic"]
             /\ UNCHANGED <<data, disk, latest>>
     /\ UNCHANGED <<lru, blockno, valid, refcnt, lock, want, buf, pins>>

\* Mutant: install_trans unpins a block that it has not written home.
bunpin_unwritten(p) ==
  LET s == buf[p]
      b == blockno[s]
  IN /\ pc[p] = "use"
     /\ b \in pins
     /\ refcnt' = [refcnt EXCEPT ![s] = (@ - 1) % RefMod]
     /\ pins' = pins \ {b}
     /\ pc' = [pc EXCEPT ![p] = "installed"]
     /\ UNCHANGED <<lru, blockno, valid, data, lock, disk, want, buf, latest>>

\* install_trans: bwrite of the block's home location, then bunpin.  commit
\* calls it for blocks that log_write has pinned; what the call in recovery,
\* for blocks that nobody has pinned, does to refcnt is in module Log.
bunpin(p) ==
  LET s == buf[p]
      b == blockno[s]
  IN /\ pc[p] = "use"
     /\ b \in pins
     /\ disk' = [disk EXCEPT ![b] = data[s]]
     /\ refcnt' = [refcnt EXCEPT ![s] = (@ - 1) % RefMod]
     /\ pins' = pins \ {b}
     /\ pc' = [pc EXCEPT ![p] = "installed"]
     /\ UNCHANGED <<lru, blockno, valid, data, lock, want, buf, latest>>

\* brelse as far as releasesleep ...
releasesleep(p) ==
  LET s == buf[p]
  IN /\ pc[p] \in {"use", "installed"}
     /\ IF lock[s] = p
        THEN /\ lock' = [lock EXCEPT ![s] = Nobody]
             /\ pc' = [pc EXCEPT ![p] = "release"]
        ELSE /\ pc' = [pc EXCEPT ![p] = "panic"]
             /\ UNCHANGED lock
     /\ UNCHANGED <<lru, blockno, valid, refcnt, data, disk, want, buf, pins, latest>>

\* s taken out of the list and put at its head: those before it move down.
ToFront(s) ==
  [i \in Slot |-> IF i = 1 THEN s
                  ELSE IF \E j \in i..NBUF : lru[j] = s THEN lru[i - 1] ELSE lru[i]]

\* Mutant: the reference is not dropped.
brelse_leak(p) ==
  /\ pc[p] = "release"
  /\ pc' = [pc EXCEPT ![p] = "idle"]
  /\ UNCHANGED <<bufs, disk, want, buf, pins, latest>>

\* ... and the rest of it, under bcache.lock.
brelse(p) ==
  LET s == buf[p]
      n == (refcnt[s] - 1) % RefMod
  IN /\ pc[p] = "release"
     /\ refcnt' = [refcnt EXCEPT ![s] = n]
     /\ lru' = IF n = 0 THEN ToFront(s) ELSE lru
     /\ pc' = [pc EXCEPT ![p] = "idle"]
     /\ UNCHANGED <<blockno, valid, data, lock, disk, want, buf, pins, latest>>

-----------------------------------------------------------------------------
Step(p) ==
  \/ \E b \in Block : bget(p, b)
  \/ acquiresleep(p)
  \/ bread(p)
  \/ \E v \in Value : bpin(p, v)
  \/ \E v \in Value : bwrite(p, v)
  \/ bunpin(p)
  \/ releasesleep(p)
  \/ brelse(p)

Next == \E p \in Proc : Step(p)

Spec == Init /\ [][Next]_vars

-----------------------------------------------------------------------------
(* Properties.                                                             *)

\* The fields of struct buf keep their types, and the list links every buffer
\* exactly once, whatever brelse moves.
TypeOK ==
  /\ lru \in [Slot -> Slot] /\ \A i, j \in Slot : lru[i] = lru[j] => i = j
  /\ blockno \in [Slot -> Block \cup {NoBlock}]
  /\ valid \in [Slot -> {0, 1}]
  /\ refcnt \in [Slot -> 0..(RefMod - 1)]
  /\ data \in [Slot -> Value]
  /\ lock \in [Slot -> Proc \cup {Nobody}]
  /\ disk \in [Block -> Value]
  /\ pc \in [Proc -> {"idle", "acquire", "read", "use", "installed", "release", "panic"}]
  /\ want \in [Proc -> Block \cup {NoBlock}]
  /\ buf \in [Proc -> Slot]
  /\ pins \in SUBSET Block
  /\ latest \in [Block -> Value]

Holds(p) == pc[p] \in {"read", "use", "installed"}
Users(s) == {p \in Proc : pc[p] \in {"acquire", "read", "use", "installed", "release"} /\ buf[p] = s}

\* "Only one process at a time can use a buffer" (bio.c:13), and it is the
\* buffer of the block it asked for, from bget to brelse: a buffer is not
\* relabelled under a process that waits for it or holds it, and no block
\* has two buffers.
BufferIsMine ==
  /\ \A p \in Proc : /\ p \in Users(buf[p]) => blockno[buf[p]] = want[p]
                     /\ Holds(p) => lock[buf[p]] = p
  /\ \A s, t \in Slot : blockno[s] = blockno[t] /\ blockno[s] # NoBlock => s = t

\* b->refcnt counts the processes between bget and brelse and the log's pin,
\* although brelse drops the lock and the reference in two steps.
RefcntExact ==
  \A s \in Slot :
    refcnt[s] = Cardinality(Users(s)) + (IF blockno[s] \in pins THEN 1 ELSE 0)

\* A process that bread has returned to sees what was last written to its
\* block, through any number of evictions.
ReadsLatest == \A p \in Proc : pc[p] = "use" => data[buf[p]] = latest[want[p]]

\* Bio implements BufAbs.
Contents(b) ==
  IF \E s \in Slot : blockno[s] = b /\ valid[s] = 1
  THEN data[CHOOSE s \in Slot : blockno[s] = b /\ valid[s] = 1]
  ELSE disk[b]

Owner(b) ==
  IF \E p \in Proc : Holds(p) /\ want[p] = b
  THEN CHOOSE p \in Proc : Holds(p) /\ want[p] = b
  ELSE Nobody

Abs == INSTANCE BufAbs WITH contents <- [b \in Block |-> Contents(b)],
                            owner <- [b \in Block |-> Owner(b)]

ImplementsAbs == Abs!Spec
=============================================================================
