------------------------------- MODULE Virtio -------------------------------
(***************************************************************************)
(* The disk driver (kernel/virtio_disk.c) against a virtio block device    *)
(* that serves the requests it is given in any order.                      *)
(*                                                                         *)
(* Every process transfers a buffer of its own: Bio shows that the sleep   *)
(* lock of a struct buf keeps a second process away from it, so a buffer   *)
(* and its block are named by the process that holds them.  vdisk_lock is  *)
(* a variable because the device does not take it.  A ring entry or a      *)
(* descriptor that has been consumed is reset to NoDesc, so that states do   *)
(* not differ in values nobody reads again.  Contents are named relative   *)
(* to the call: 0 is what the block held when it began, 1 anything else.   *)
(***************************************************************************)
EXTENDS Integers, FiniteSets

CONSTANTS Proc,
          Nobody,   \* no process
          NUM,      \* descriptors
          IdxMod    \* 2^16 in the code: the ring indices are uint16

\* Of the constants: uint16 indices run around the ring a whole number of
\* times, and vdisk_lock's three kinds of owner are told apart.
VirtioAssumption ==
  /\ NUM \in Nat \ {0} /\ IdxMod \in Nat \ {0} /\ IdxMod % NUM = 0
  /\ Nobody \notin Proc /\ "intr" \notin Proc \cup {Nobody}

VARIABLES
  free, next, addr,      \* disk.free, and what the device reads of disk.desc
  avail, availidx,       \* avail[2..] and avail[1]
  elems, usedid,         \* used->elems and used->id, which the device writes
  used_idx, info,        \* how far the driver has looked; info[].b
  vlock,                 \* vdisk_lock: a process, "intr" or Nobody
  vpc, idx, write,       \* where virtio_disk_rw is, idx[0], its argument
  busy, bdata,           \* b->disk and b->data
  medium,                \* the blocks of the disk
  seen, inflight,        \* the device: avail entries taken, requests not done
  pend, intr             \* the PLIC's pending bit, and the handler

ring == <<avail, availidx>>
device == <<usedid, seen, inflight>>
contents == <<bdata, medium>>
driver == <<free, next, addr, info>>
vvars == <<driver, ring, elems, device, used_idx, vlock, vpc, idx, write, busy, contents, pend, intr>>

Desc == 0..(NUM - 1)
NoDesc == NUM

\* virtio_disk_init: every descriptor free, both rings empty.
virtio_disk_init ==
  /\ free = [i \in Desc |-> 1]
  /\ next = [i \in Desc |-> NoDesc]
  /\ addr = [i \in Desc |-> Nobody]
  /\ avail = [i \in Desc |-> NoDesc] /\ availidx = 0
  /\ elems = [i \in Desc |-> NoDesc] /\ usedid = 0
  /\ used_idx = 0
  /\ info = [i \in Desc |-> Nobody]

VInit ==
  /\ virtio_disk_init
  /\ vlock = Nobody
  /\ vpc = [p \in Proc |-> "idle"]
  /\ idx = [p \in Proc |-> NoDesc]
  /\ write = [p \in Proc |-> 0]
  /\ busy = [p \in Proc |-> 0]
  /\ medium = [p \in Proc |-> 0]
  /\ bdata = [p \in Proc |-> 0]
  /\ seen = 0 /\ inflight = {}
  /\ pend = 0 /\ intr = "none"

FreeDescs == {i \in Desc : free[i] = 1}

\* alloc_desc, the k-th time: the lowest free descriptors, in order.
alloc_desc(k) == CHOOSE i \in FreeDescs : Cardinality({j \in FreeDescs : j < i}) = k

\* The descriptors of the chain that starts at i.
Chain(i) == {i, next[i], next[next[i]]}

\* What free_chain gives to free_desc.
free_chain(i) == Chain(i)

\* free_desc's wakeup(&disk.free[0]).
WakeFree(f) == [p \in Proc |-> IF f[p] = "sleep_free" THEN "start" ELSE f[p]]

-----------------------------------------------------------------------------
(* The driver.                                                             *)

\* A caller with its buffer locked: bwrite with new contents in it, bread
\* with whatever is there.
virtio_disk_rw(p, w) ==
  /\ vpc[p] = "idle"
  /\ vpc' = [vpc EXCEPT ![p] = "start"]
  /\ write' = [write EXCEPT ![p] = w]
  /\ bdata' = [bdata EXCEPT ![p] = 1]
  /\ UNCHANGED <<driver, ring, elems, device, used_idx, vlock, idx, busy, medium, pend, intr>>

\* alloc3_desc fails: what it got goes back, with wakeups, and sleep.
rw_sleep(p) ==
  /\ vpc[p] = "start" /\ vlock = Nobody
  /\ Cardinality(FreeDescs) < 3
  /\ vpc' = [(IF FreeDescs = {} THEN vpc ELSE WakeFree(vpc)) EXCEPT ![p] = "sleep_free"]
  /\ UNCHANGED <<driver, ring, elems, device, used_idx, vlock, idx, write, busy, contents, pend, intr>>

\* alloc3_desc succeeds: the chain is formatted and its first index put where
\* the device will look, all under vdisk_lock.
rw_format(p) ==
  /\ vpc[p] = "start" /\ vlock = Nobody
  /\ Cardinality(FreeDescs) >= 3
  /\ LET i == alloc_desc(0)  j == alloc_desc(1)  k == alloc_desc(2)
     IN /\ free' = [free EXCEPT ![i] = 0, ![j] = 0, ![k] = 0]
        /\ next' = [next EXCEPT ![i] = j, ![j] = k, ![k] = NoDesc]
        /\ addr' = [addr EXCEPT ![i] = p, ![j] = p, ![k] = p]
        /\ info' = [info EXCEPT ![i] = p]
        /\ idx' = [idx EXCEPT ![p] = i]
        /\ avail' = [avail EXCEPT ![availidx % NUM] = i]
  /\ busy' = [busy EXCEPT ![p] = 1]
  /\ vlock' = p
  /\ vpc' = [vpc EXCEPT ![p] = "notify"]
  /\ UNCHANGED <<availidx, elems, device, used_idx, write, contents, pend, intr>>

\* The index is advanced, the device told, and sleep(b, &vdisk_lock): b->disk
\* cannot have been cleared yet.
rw_notify(p) ==
  /\ vpc[p] = "notify"
  /\ availidx' = (availidx + 1) % IdxMod
  /\ vlock' = Nobody
  /\ vpc' = [vpc EXCEPT ![p] = "sleep_b"]
  /\ UNCHANGED <<driver, avail, elems, device, used_idx, idx, write, busy, contents, pend, intr>>

\* kill makes any sleeper RUNNABLE; neither loop looks at p->killed.
kill_sleeper(p) ==
  /\ vpc[p] \in {"sleep_free", "sleep_b"}
  /\ vpc' = [vpc EXCEPT ![p] = IF @ = "sleep_b" THEN "woken" ELSE "start"]
  /\ UNCHANGED <<driver, ring, elems, device, used_idx, vlock, idx, write, busy, contents, pend, intr>>

\* The test of b->disk.
Done(p) == busy[p] = 0

\* sleep returned, and b->disk is still set.
rw_again(p) ==
  /\ vpc[p] = "woken" /\ vlock = Nobody /\ ~Done(p)
  /\ vpc' = [vpc EXCEPT ![p] = "sleep_b"]
  /\ UNCHANGED <<driver, ring, elems, device, used_idx, vlock, idx, write, busy, contents, pend, intr>>

Forget(p) ==
  /\ write' = [write EXCEPT ![p] = 0]
  /\ bdata' = [bdata EXCEPT ![p] = 0]
  /\ medium' = [medium EXCEPT ![p] = 0]

\* The request is done: free_chain, wakeup, return; free_desc panics if the
\* descriptor is free already.
rw_return(p) ==
  /\ vpc[p] = "woken" /\ vlock = Nobody /\ Done(p)
  /\ info' = [info EXCEPT ![idx[p]] = Nobody]
  /\ free' = [i \in Desc |-> IF i \in free_chain(idx[p]) THEN 1 ELSE free[i]]
  /\ addr' = [i \in Desc |-> IF i \in free_chain(idx[p]) THEN Nobody ELSE addr[i]]
  /\ next' = [i \in Desc |-> IF i \in free_chain(idx[p]) THEN NoDesc ELSE next[i]]
  /\ idx' = [idx EXCEPT ![p] = NoDesc]
  /\ Forget(p)
  /\ vpc' = [WakeFree(vpc) EXCEPT
               ![p] = IF free_chain(idx[p]) \cap FreeDescs = {} THEN "idle" ELSE "panic"]
  /\ UNCHANGED <<ring, elems, device, used_idx, vlock, busy, pend, intr>>

-----------------------------------------------------------------------------
(* The device (external): it takes requests from the avail ring in order   *)
(* and completes the ones it has in any order.                             *)

dev_take ==
  /\ seen # availidx
  /\ inflight' = inflight \cup {avail[seen % NUM]}
  /\ avail' = [avail EXCEPT ![seen % NUM] = NoDesc]
  /\ seen' = (seen + 1) % IdxMod
  /\ UNCHANGED <<driver, availidx, elems, usedid, used_idx, vlock, vpc, idx, write,
                 busy, contents, pend, intr>>

dev_serve(i) ==
  /\ i \in inflight /\ addr[i] \in Proc
  /\ inflight' = inflight \ {i}
  /\ LET b == addr[next[i]]
     IN IF write[b] = 1
        THEN medium' = [medium EXCEPT ![b] = bdata[b]] /\ UNCHANGED bdata
        ELSE bdata' = [bdata EXCEPT ![b] = medium[b]] /\ UNCHANGED medium
  /\ elems' = [elems EXCEPT ![usedid % NUM] = i]
  /\ usedid' = (usedid + 1) % IdxMod
  /\ pend' = 1
  /\ UNCHANGED <<driver, ring, seen, used_idx, vlock, vpc, idx, write, busy, intr>>

-----------------------------------------------------------------------------
(* The interrupt.                                                          *)

\* devintr's plic_claim, and virtio_disk_intr's acquire.
intr_claim ==
  /\ pend = 1 /\ intr = "none"
  /\ pend' = 0
  /\ intr' = "spin"
  /\ UNCHANGED <<driver, ring, elems, device, used_idx, vlock, vpc, idx, write, busy, contents>>

intr_acquire ==
  /\ intr = "spin" /\ vlock = Nobody
  /\ vlock' = "intr"
  /\ intr' = "loop"
  /\ UNCHANGED <<driver, ring, elems, device, used_idx, vpc, idx, write, busy, contents, pend>>

More == used_idx % NUM # usedid % NUM

\* Mutant: an interrupt is taken to mean that every request is done.
intr_all ==
  /\ intr = "loop" /\ More
  /\ busy' = [p \in Proc |-> 0]
  /\ vpc' = [p \in Proc |-> IF vpc[p] = "sleep_b" THEN "woken" ELSE vpc[p]]
  /\ elems' = [elems EXCEPT ![used_idx] = NoDesc]
  /\ used_idx' = (used_idx + 1) % NUM
  /\ UNCHANGED <<driver, ring, device, vlock, idx, write, contents, pend, intr>>

\* The next entry of the used ring.
intr_step ==
  /\ intr = "loop" /\ More
  /\ LET b == info[elems[used_idx]]
     IN /\ busy' = [busy EXCEPT ![b] = 0]
        /\ vpc' = [vpc EXCEPT ![b] = IF @ = "sleep_b" THEN "woken" ELSE @]
  /\ elems' = [elems EXCEPT ![used_idx] = NoDesc]
  /\ used_idx' = (used_idx + 1) % NUM
  /\ UNCHANGED <<driver, ring, device, vlock, idx, write, contents, pend, intr>>

\* Release, and devintr's plic_complete.
intr_end ==
  /\ intr = "loop" /\ ~More
  /\ vlock' = Nobody
  /\ intr' = "none"
  /\ UNCHANGED <<driver, ring, elems, device, used_idx, vpc, idx, write, busy, contents, pend>>

Rw(p) == rw_sleep(p) \/ rw_format(p) \/ rw_notify(p) \/ rw_again(p) \/ rw_return(p)
Intr == intr_claim \/ intr_acquire \/ intr_step \/ intr_end

VNext ==
  \/ \E p \in Proc : Rw(p) \/ kill_sleeper(p)
  \/ \E p \in Proc, w \in {0, 1} : virtio_disk_rw(p, w)
  \/ dev_take
  \/ \E i \in Desc : dev_serve(i)
  \/ Intr

VSpec == VInit /\ [][VNext]_vvars

\* A process that waits for vdisk_lock gets it in the end; the device serves
\* what it is given; interrupts are taken.
VFairness ==
  /\ \A p \in Proc : /\ SF_vvars(rw_format(p)) /\ WF_vvars(rw_notify(p))
                     /\ SF_vvars(rw_return(p)) /\ SF_vvars(rw_sleep(p) \/ rw_again(p))
  /\ WF_vvars(dev_take) /\ \A i \in Desc : WF_vvars(dev_serve(i))
  /\ SF_vvars(Intr)

-----------------------------------------------------------------------------
(* Properties.                                                             *)

\* The requests between rw_format and rw_return.
Waiting == {p \in Proc : idx[p] # NoDesc}

\* A descriptor is free or belongs to the chain of exactly one request, so
\* that none is lost, none is used twice and free_chain never meets a free
\* one.
DescsAccounted ==
  /\ FreeDescs \cup UNION {Chain(idx[p]) : p \in Waiting} = Desc
  /\ Cardinality(FreeDescs) + 3 * Cardinality(Waiting) = NUM

\* The device works only on requests whose caller still waits with b->disk
\* set: no transfer into a buffer that virtio_disk_rw has given back.
DmaWhileBusy ==
  \A i \in inflight : \E p \in Waiting : idx[p] = i /\ busy[p] = 1 /\ info[i] = p

\* When virtio_disk_intr clears b->disk the transfer has happened: the block
\* has what was written, the buffer what was read.
DoneMeansTransferred ==
  \A p \in Waiting : busy[p] = 0 => bdata[p] = write[p] /\ medium[p] = write[p]

\* No lost wakeup in either loop: nobody sleeps for descriptors that are
\* there, or for a request that is done.
VNoLostWakeup ==
  \A p \in Proc : /\ vpc[p] = "sleep_free" => Cardinality(FreeDescs) < 3
                  /\ vpc[p] = "sleep_b" => busy[p] = 1

\* The driver and the device never disagree: every descriptor accounted for,
\* DMA only into buffers that are given to it, b->disk cleared only after the
\* transfer, and no wakeup lost.
TransfersSafe == DescsAccounted /\ DmaWhileBusy /\ DoneMeansTransferred /\ VNoLostWakeup

\* Every call of virtio_disk_rw returns.
TransfersEnd == \A p \in Proc : vpc[p] = "start" ~> vpc[p] = "idle"
=============================================================================
