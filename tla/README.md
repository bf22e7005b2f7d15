# xv6 (6.S081) in TLA+

TLA+ models of the kernel in `src/kernel` and of the programs in `src/user` and
`src/mkfs` that have something to get wrong, checked with TLC on small instances.
For the log, the buffer cache, pipes, the scheduler, the process table, traps, the clock,
the disk driver and the console the safety properties, and the refinements where there are
any, are also theorems, proved by TLAPS for every instance.
Paths below are relative to `src/` of the repository.

## 1. The system

xv6 is a small Unix kernel for RISC-V multiprocessors. All state is in memory,
shared by the CPUs, except the disk image that `mkfs` lays out.

| part | source | what it does | modules |
|---|---|---|---|
| spin locks, scheduler, sleep, wakeup | `kernel/spinlock.c`, `kernel/proc.c`, `swtch.S` | interrupts off while a lock is held; a scheduler thread per CPU switches to RUNNABLE processes; processes sleep on channels | `Sched` |
| traps | `kernel/trap.c`, `trampoline.S`, `kernelvec.S`, `syscall.c` | into the kernel and back, timer, dispatch | `Trap` |
| clock, interrupt controller | `kernel/trap.c`, `kernelvec.S`, `plic.c`, `sysproc.c` | ticks, `sleep`, device interrupts on several harts | `Clock` |
| process table | `kernel/proc.c` | fork, exit, wait, kill; orphans go to init | `Proc` |
| sleep locks | `kernel/sleeplock.c` | locks held across disk operations | `Sched`, `Bio` |
| disk driver | `kernel/virtio_disk.c` | requests to and completions from the device | `Virtio` |
| buffer cache | `kernel/bio.c` | one copy of each disk block in use, LRU list | `Bio` |
| log | `kernel/log.c` | system calls become atomic with respect to crashes | `Log` |
| inodes, directories, paths | `kernel/fs.c`, `kernel/sysfile.c` | reference-counted inodes, the tree and the calls that change it | `Dir` |
| blocks, files, descriptors | `kernel/fs.c`, `kernel/file.c`, `kernel/sysfile.c` | block allocation, direct and indirect blocks, open files | `File` |
| pipes | `kernel/pipe.c` | bounded byte queue between processes | `Pipe` |
| console | `kernel/console.c`, `kernel/uart.c` | line-edited input, output | `Console` |
| memory | `kernel/kalloc.c`, `kernel/vm.c`, `kernel/exec.c`, `kernel/proc.c` | free pages, page tables, address spaces | `Vm` |
| buddy allocator | `kernel/buddy.c`, `kernel/list.c` | lab code; not called by the kernel as built | `Buddy` |
| strings, `printf` | `kernel/string.c`, `kernel/printf.c`, `user/ulib.c`, `user/printf.c` | copies and number formatting | `Strings` |
| mkfs | `mkfs/mkfs.c` | the initial file system | `Mkfs` |
| shell | `user/sh.c` | parser; processes and descriptors of a command | `ShParse`, `ShRun` |
| `malloc` | `user/umalloc.c` | first fit on a circular list | `Umalloc` |
| grep, primes | `user/grep.c`, `user/primes.c` | regular expressions over a buffer; a sieve of processes | `Grep`, `Primes` |

How they lean on each other: a file-system call runs between `begin_op` and
`end_op`; in between it locks inodes, reads blocks through the buffer cache (whose
buffers are guarded by sleep locks, which use sleep and wakeup, which use spin
locks) and hands changed blocks to `log_write`, which pins their buffers until the
commit. Pipes use the file table for their lifetime and sleep/wakeup for flow
control. `exit` closes files, gives children to init and wakes its parent, which
frees it. What one component needs of the next is the next one's property: `Log`
needs of the cache what `Bio` shows (a pinned buffer stays, one user per buffer),
`Bio` needs of the driver what `Virtio` shows (a call returns after its own
transfer), and every sleeping component needs of `sleep` what `Sched` shows (no
wakeup is lost between the test and the sleep).

`PROJECT.json` lists every component with its status, the source lines behind every
definition, and every hazard with the line at which it bites.

## 2. Modules

| module | contents |
|---|---|
| `Log`, `Bio`, `Pipe` | components with an abstract counterpart: `LogAbs` (a crash-safe store with group commit), `BufAbs` (one content and at most one user per block), `PipeAbs` (a bounded FIFO queue) |
| `Sched`, `Trap`, `Clock`, `Proc`, `Virtio`, `Console` | the concurrent kernel |
| `Vm`, `Dir`, `File`, `Buddy` | memory and the file system above the log |
| `Umalloc`, `ShParse`, `ShRun`, `Grep`, `Primes`, `Mkfs`, `Strings` | user programs and library code |
| `Machine` | the processes and harts that `Trap` and `Clock` share |
| `LogProofs`, `BioProofs`, `PipeProofs`, `SchedProofs`, `ProcProofs`, `TrapProofs` (also for `Clock`), `VirtioProofs`, `ConsoleProofs` | the inductive invariant of a component, a lemma per step, and the theorems |
| `MCLog`, `MCBio`, `MCPipe`, `MCDir` | symmetry sets and call lists for one component |
| `MCKernel`, `MCStore`, `MCUser`, `MCLive` | several components in one run |

The last four run one component at a time: `part`, chosen in the initial state, says
which, and the variables of the others stay put. A property of theirs is the
conjunction of one component's properties under `part = ...`; the conjuncts are
defined, each with its own comment, in the component's module.

Conventions. An action has the name of the C function it translates; a function
that can be interleaved in the middle is several actions (`exit_init`,
`exit_copy`, ...), and `PROJECT.json` maps each to its lines. `pc` says where a
process is. What runs inside a critical section of one spin lock is one step,
unless the section takes another lock that may be contended. A panic is a value of
`pc`, or a flag, with no way out. Definitions marked `Mutant` are faulty variants of
the definition that follows; no specification uses them.

**Log.** `home`, `dlog`, `dhead` are the disk; `lh`, `outstanding`, `committing`
are `struct log`; `cache` and `refcnt` are what `log.c` sees of the buffer cache.
A single block write is atomic, and a crash may come between any two. `modify`
stands for what a caller does to a buffer it holds; the buffer then stays held until
`log_write` has run. One caller in `fs.c` does otherwise: `writei` whose copy from user
space fails releases a buffer it may have changed in part without logging it
(`fs.c:500-503`); that is in `File`, not in `Log`. A call makes at most `MAXOPBLOCKS`
calls of `log_write`, the contract of `param.h`. `recycle` is `bget` taking a buffer with
`refcnt` 0 for some block outside `Block`, with the code's guard and no other: after a
recovery the count of a buffer can be 0 while a process holds it. It happens where
`CachePressure` is TRUE. `latest` and `unpinned` are history variables: what was last
written to each block, and which blocks this boot's recovery called `bunpin` on.

**Bio.** `want`, `buf`, `pc` are the callers; `pins` stands for the log header.
`bpin` and `bunpin` are the callers' sequences `modify; log_write` and `bwrite;
bunpin`. `refcnt` wraps at `RefMod`, which is more than there are processes, as
2^32 is. The unpinning that recovery does is in `Log`; here every `bunpin` follows a `bpin`.

**Sched.** The processes share one condition protected by a spin lock `lk` and use
it by the kernel's idiom, as `acquiresleep` and `releasesleep` do. `run[c]` is the
stack the CPU is on; `cpu[c].sie` the interrupt-enable bit. `yield` is a timer
interrupt, possible wherever that bit is set. Spurious wakeups come from `kill`.

**Trap, Clock.** `Trap` has the registers that a trap saves and restores (`sepc`,
`sstatus`, `stvec`, `sscratch`, `tp`, the stack, the rest as one value), on harts
between which processes migrate. `Clock` has the machine-mode timer, the software
interrupt it raises, `plic_claim` and `plic_complete`, and `sys_sleep` on `ticks`
that wrap. A handler may leave its device's line high (`virtio_disk_intr` acknowledges
nothing, `uartintr` empties the receiver), so a line is low, high with something to
report, or still high without.

**Proc.** RUNNABLE includes RUNNING. `fork` is one step since its slot is locked
throughout. init is slot 1 and may fork and wait like any process; `exit` by init is
its panic. `Killable` says on which slots `kill` is called, whatever their state: a
pid can match a free slot. Memory is in `Vm`, files in `File` and `Pipe`.

**Pipe.** `ends` are the descriptors of each process, `ref` the counts of the two
`struct file`s. A failing `copyin` ends a write early, a failing `copyout` loses
the byte. `sleep` puts a process to sleep in the same step in which it releases
`pi->lock`, which `Sched` shows to be what `sleep` amounts to. `eof` and `cut` are
history variables.

**Virtio.** A request is a chain of three descriptors; the device takes requests
from the avail ring, serves them in any order and raises an interrupt. Ring indices
wrap at `IdxMod`.

**Console.** Characters are classes of keys; `consoleintr` edits the ring `r..w..e`
under `cons.lock` while readers and writers take it in turns.

**Dir.** A step goes from one `ilock` to the next, so that two path walks interleave
wherever the code lets them; an `iput` that frees an inode is three steps. The inode
cache has a limit, and `iget` panics at it, also inside `dirlookup` and `dirlink`. A
walk that has followed ".." to a freed directory (disagreement 4 below) ends at its next
`ilock`, also where the inode has been handed out again and the code would go on
(`LockPanic`). `gone` and `stray` record what is known of removed directories.

**File.** A step is one `readi` or `writei`. A block's bytes are named after the file
that wrote them. `filewrite` goes chunk by chunk, the disk may be full, and a copy from
user space may fail at a byte of the chunk: what was copied before it is in the buffer,
in the middle of a block too, and the size does not grow over it.

**Vm.** The page tables are the code's, with `Fan` entries for 512. Each of `fork`,
`exec`, `sbrk` and `exit` with `wait` is one step, within which any subset of its
`kalloc`s may fail.

**ShParse, Grep, Strings, Mkfs, Buddy, Umalloc.** Sequential code, translated as
operators and checked over all small inputs or all sequences of calls, against a
definition of what the result should be. **ShRun, Primes** are trees of processes
with their descriptors.

## 3. Runs

The runs that pass:

| run | configuration | instance | properties |
|---|---|---|---|
| `log` | `MCLog` | 2 processes, 2 blocks, 2 values, 2 blocks per call, `LOGSIZE` 4, 2 data blocks on the disk, 2 crashes, recycling | `CommitAlone`, `SpaceReserved`, `PanicsOnlyIfFull`, `NoLostUpdate`, `CommitIsAtomic` |
| `bio` | `MCBio` | 3 processes, 3 blocks, 2 buffers, 1 pin | `BufferIsMine`, `RefcntExact`, `ReadsLatest`, `Bio` implements `BufAbs` |
| `pipe` | `MCPipe` | 3 processes, 2-byte pipe, calls of up to 2 bytes, counters modulo 4 | `NotFreedInUse`, `OpenUntilLastClose`, `SleepsOnlyIfBlocked`, `EofIsFinal`, `Pipe` implements `PipeAbs` |
| `kernel` | `MCKernel` | scheduler: 3 processes, 2 CPUs; disk: 3 processes, 6 descriptors; console: 2 processes, a ring of 2; traps: 2 processes, 2 harts; clock: 1 process, 2 harts, ticks modulo 4 | `OneStackOneCpu`, `InterruptsMatch`, `NoLostWakeup`, `TransfersSafe`, `InputKept`, `ContextKept`, `SleepsInTime`, `KernelResumes` |
| `store` | `MCStore` | memory: 2 processes, 14 pages, fan 2; directories: 2 processes, 3 inodes, 2 names; files: 2 files, 5 blocks of 2 bytes, 1 direct and 3 indirect, writes of 1 and 7 bytes, copies that fail at byte 3 of a chunk; log: as `LogAbs` sees it, without recycling | `PanicMeansStarved`, `MemorySound`, `InodesKept`, `InodeLocksSafe`, `BlocksAccounted`, `ReadsBack`, `LogImplementsAbs` |
| `user` | `MCUser` | process table: 4 slots, one of them killed; lines of up to 5 characters; 4 command trees; 12 heap units; a heap of 16 leaves; patterns of up to 3 and files of up to 4 characters; the numbers up to 35; images of up to 3 files | `ChildrenAwaited`, `FreedWhenDone`, `LineParsed`, `PipelinesRun`, `HeapIntact`, `BuddiesIntact`, `LinesFiltered`, `PrintsPrimes`, `ImageReadsBack`, `StringsKept` |
| `live` | `MCLive` | ten components with one or two processes each, the process table twice: 3 slots, and a chain of four processes (`heirs`); one slot, one user of the pipe and the users of the console can be killed | `EveryoneServed` |

Why the bounds are enough for the cases of interest. *Log*: two calls of two blocks
fill the reservation, so calls overlap in one transaction and wait in `begin_op`;
absorption, eviction and a crash in each stage of a commit and of a recovery all
occur, and two logged blocks fill the disk's log, so that the panic of `log_write`
is reached. *Bio*: three blocks compete for two buffers, so buffers with waiters,
pinned buffers and recycled buffers meet, and the panic of `bget` is reached.
*Sched*: with three processes on two CPUs a process can be waited for, woken and
scheduled by different CPUs at once. *Virtio*: six descriptors are two requests, so
the third process waits for descriptors while two requests complete in either order.
*Proc*: four slots are init, a parent, a child and a grandchild, the shortest chain
on which reparenting meets an exit of the parent and a reuse of a slot. *Pipe*:
counters that wrap (`CountMod` is a multiple of `PIPESIZE`, as 2^32 is of 512), calls
that wait in the middle, and two readers or two writers with one counterpart.
*Console, Clock*: counters that wrap several times. *Dir*: a directory, a directory
or file in it, and two processes of which one removes what the other walks through.
*File*: writes that go from the direct to the indirect blocks and fill the disk; 7 bytes
after 1 are a chunk of full length that starts in the middle of a block, and it logs
exactly `MAXOPBLOCKS` blocks; byte 3 is in the middle of a chunk's second block.
*Vm*: every level of the tables is filled and freed, and each `kalloc` of a call can
be the one that fails. *Primes*: the pipe holds 34 numbers, just what the first
stage writes (the real one holds 128 `int`s).

`MCStore` has a `VIEW` that identifies states which differ only in the numbers of
the pages or blocks in use, none of which the code compares. `MCLog`, `MCBio` and
`MCPipe` use symmetry (no liveness there).

Deadlock is checked in `kernel`: a CPU always has something to do, and the scheduler
never stops (the other parts of that run may be idle). It is not checked where the
system may really stop: in a panic (`log`, `bio`, `store`, init's exit in `Proc`),
with all processes asleep on a pipe that only they could fill, or at the end of a
program (`user`).

### Fairness

`live` assumes, of the part that runs:

- *Log*: every process inside a call goes on and recovery goes on (WF). A call reads
  and writes a bounded number of blocks and then reaches `end_op`; the model lets it
  read without bound, so the bound is stated as SF on `end_op`. SF on `commit` says
  that the committer gets a buffer which others release again and again: sleep locks
  have no queue, so this is an assumption.
- *Sched*: WF on what a CPU does. SF on the places where a CPU spins: an `amoswap`
  loop gets a lock that comes free again and again, which the hardware makes true
  with probability one and nothing else guarantees. SF on `yield`: the timer keeps
  ticking, and an interrupt that arrives while interrupts are off stays pending.
- *Proc*, *Pipe*, *Dir*: SF on the steps of a process inside `exit` and `wait`, a pipe
  call or a call on a path: the scheduler runs it and it gets the locks it wants.
  Nothing is assumed of what processes do in user space. What is promised of `exit` and
  `wait` ends where the circle of locks of disagreement 2 below is closed (`Circle`); the
  chain of four processes, the last of which may fork into a freed slot of the chain,
  reaches it.
- *Trap*: SF on the timer interrupt, on each hart's handlers and scheduler, and on the
  progress of the process a hart runs.
- *Virtio*: the device takes and serves requests (WF); callers get `vdisk_lock` and
  the interrupt handler runs (SF).
- *Clock*: `timervec` and `devintr` go on (WF); a pending interrupt is taken, each
  device's claim succeeds in its turn, and a process in `sys_sleep` runs (SF).
- *Console*: the transmitter drains (WF); the interrupt handler and the processes get
  `cons.lock` (SF). *ShRun*: every process goes on (WF).

## 4. Where the code and its comments disagree

Each has a run that ends in a counterexample and an entry in `PROJECT.json`.

1. `log_recovered`: `install_trans` calls `bunpin` also in recovery, on blocks
   nobody pinned (`log.c:78`). The unsigned count of such a block is one too low
   for the rest of the boot: once logged again, it can be recycled before the
   commit and its update is lost. By the same count `bget` can recycle a buffer under
   the process that holds it, and then pass the wrong count on to another block, so
   `NoLostUpdate` and `CommitIsAtomic` promise nothing of the contents in such a boot.
2. `proc_stale`: the parent that `exit` copied may be freed and its slot reused
   before `exit` locks it. The comment calls the consequence a harmless wakeup; it
   can be a cycle of spin locks.
3. `mem`: `proc_pagetable` ignores what `mappages` returns, so a process can run
   without trampoline or trapframe when memory runs out.
4. `dir`: the `..` of a removed directory that is still somebody's working directory
   can name a free inode, at which `ilock` panics.
5. `buddy`: `bd_init` can panic if the memory is exactly as large as its largest block.
   It then reads a bit past the end of an array; the memory of 128 leaves in the run is
   one where that bit is set (so is every power of two from 64 to 16384), 32 leaves are
   one where it is not.

Denied by a comment as well, but without a run of their own; the properties are stated so
as to allow them:

- `fork` that fails, and `exec` that fails before it has loaded a segment, call
  `proc_freepagetable` with `sz = 0`, which then does not call `uvmfree`: the page table
  and what is mapped in it are lost. `proc.c:175-176` says "Free a process's page table,
  and free the physical memory it refers to." So `PagesAccounted` says that no page is
  free and in use or in use twice, and not that every page is one or the other.
- `uvmcopy` that fails at the first page panics in `uvmunmap`, where `vm.c:317-318` says
  "returns 0 on success, -1 on failure. frees any allocated pages on failure."
  `PanicMeansStarved` says that memory must have run out for it.
- `begin_op` reserves up to `LOGSIZE` entries, `log_write` panics at `size - 1`, and mkfs
  makes `size` equal to `LOGSIZE`. Calls that together log `LOGSIZE` distinct blocks
  panic, although `param.h:10` calls `LOGSIZE` the "max data blocks in on-disk log" and
  `log.c:133` makes a call wait that "might exhaust log space". `PanicsOnlyIfFull` says
  that nothing else makes `log_write` panic.

Behaviours that no comment denies, and that the models have:

- `NBUF` equals `LOGSIZE`, so pinned blocks can leave `bget` without a buffer.
- `kill` can mark a free slot, and the mark outlives `allocproc`. init can miss a
  wakeup (`proc.c:345-349` says why that does no harm).
- A kill between the test of `killed` and `sleep` in a pipe or console call is missed
  until something else wakes the process. A writer killed at a full pipe returns
  without `wakeup(&pi->nread)` (`pipe.c:86-88`); `SleepsOnlyIfBlocked` holds with that
  exception, recorded in `cut`.
- `readi` and `writei` return `n` also when the copy failed. What `writei` copied before
  the failure stays in the cached block, not logged, until the block is recycled.
- Names made in a removed directory are lost with it.
- Ticks that arrive while one is pending are one tick. `plic.c` enables the first disk
  only. With `NUM` 8, callers waiting for descriptors also wake each other through
  the failure path of `alloc3_desc`.
- `grep` drops a last line without newline and stops at a line longer than its buffer;
  in the shell `>` and `>>` open alike and the first of two redirections of one
  descriptor wins; `mkfs` rounds the root directory's size up by a whole block even
  when it is a multiple of `BSIZE`; `malloc`'s `nunits` wraps for requests near 2^32;
  `printf`'s `%l` of user programs prints the low 32 bits.

## 5. Proofs

For any sets of processes, blocks and values and any sizes that satisfy the module's
named assumption (`LogAssumption`, `BioAssumption`, `PipeAssumption`,
`SchedAssumption`, `ProcAssumption`, and as a premise of the theorem `TrapAssumption`,
`ClockAssumption`, `VirtioAssumption`, `ConsoleAssumption`, which `MCKernel` assumes of its
instances; its properties of these names are the modules' own, under `part = ...`):

| module | theorem | states |
|---|---|---|
| `LogProofs` | `InductiveInv`, `TypeCorrect` | `Spec => []IInv`, `Spec => []TypeOK` |
| | `CommitsExcludeOps` | `Spec => []CommitAlone` |
| | `ReservationSuffices` | `Spec => []SpaceReserved` |
| | `PanicMeansFull` | `Spec => []PanicsOnlyIfFull` |
| | `UpdatesKept` | `Spec => []NoLostUpdate` |
| | `AtomicCommit` | `Spec => CommitIsAtomic` (an action property) |
| | `LogIsAtomic` | `~CachePressure => (Spec => ImplementsAbs)`: the log implements `LogAbs` |
| `BioProofs` | `BioInvariant` | `Spec => []BInv` |
| | `BuffersOwned` | `Spec => []BufferIsMine` |
| | `ReferencesCounted` | `Spec => []RefcntExact` |
| | `NothingStale` | `Spec => []ReadsLatest` |
| | `CacheIsTransparent` | `Spec => ImplementsAbs`: the cache implements `BufAbs` |
| `PipeProofs` | `PipeInvariant` | `Spec => []PInv` |
| | `PageOutlivesUsers` | `Spec => []NotFreedInUse` |
| | `EndsCounted` | `Spec => []OpenUntilLastClose` |
| | `PipeWakeupsKept` | `Spec => []SleepsOnlyIfBlocked` |
| | `EofStaysEof` | `Spec => []EofIsFinal` |
| | `PipeIsQueue` | `Spec => ImplementsAbs`: the pipe implements `PipeAbs` |
| `SchedProofs` | `SchedInvariant` | `Spec => []SInv` |
| | `StacksExclusive` | `Spec => []OneStackOneCpu` |
| | `LocksCounted` | `Spec => []InterruptsMatch` |
| | `WakeupsKept` | `Spec => []NoLostWakeup` |
| `ProcProofs` | `ProcInvariant` | `Spec => []PInv` |
| | `ParentsWait` | `Spec => []ChildrenAwaited` |
| | `SlotsFreedOnce` | `Spec => FreedWhenDone` (an action property) |
| `TrapProofs` | `TrapsKeepContext` | `TSpec => []ContextKept` |
| | `InterruptsReturn` | `TSpec => KernelResumes` (an action property) |
| | `SleepersWakeInTime` | `KSpec => []SleepsInTime` |
| `VirtioProofs` | `DiskTransfers` | `VSpec => []TransfersSafe` |
| `ConsoleProofs` | `ConsoleKeepsInput` | `CSpec => []InputKept` |

None of these properties is inductive as it stands.

**Log.** `NoLostUpdate` needs to know that an evicted block was clean, so that a
block differs from its home only while pinned or held (`CacheInv`), which needs exact
reference counts (`RefInv`), which need each block to be logged once and each buffer
to be held by one process (`HeadInv`, `LockInv`). `CommitIsAtomic` needs the log to
hold the latest contents by the time of `write_head` and home locations to equal the
log by the time the header is cleared (`TailInv`), and that the header is empty
outside a commit (`HeadInv`). `SpaceReserved` and `CommitAlone` rest on `outstanding`
being the number of calls under way (`CountInv`). `BootInv` says that recovery runs
alone and that what it will leave is what callers will see. `IInv` is their
conjunction, with a lemma per action. `AtomicCommit` then needs two facts:
`write_head` moves the recoverable contents to the latest, and no other step changes
them. What is said of contents is said of a boot whose recovery found an empty log
(`unpinned = {}`): without that it is false (disagreement 1 above). That what a crash
leaves changes only at a `write_head` with no call in progress holds in every boot.
`LogIsAtomic` has another premise instead, that no buffer is recycled; the invariant
covers both (`Trusted`), and under either the contents seen are `latest`. Every step is
then a step of `LogAbs` or a stutter: `modify` is `Write`, `write_head` is `Commit`, a
crash at any point is `Crash`.

**Bio.** A buffer keeps its label because its count is not 0, and the count is exact
because labels stay, so `BufferIsMine` and `RefcntExact` are proved together; the
count is a cardinality, and the assumption that there are fewer processes than
`RefMod` keeps it from wrapping. `WhereInv` says where the current contents of a
block are: in its valid buffer, and on the disk unless pinned. In the refinement the
contents are `latest` and the owner of a block is the one process that holds it.

**Pipe.** `PInv` says who is inside which call with what lock, that `ref` counts
descriptors, that the counters differ by at most `PIPESIZE` (modulo `CountMod`), and
which wakeup a sleeper can still expect. The refinement maps the bytes from `nread`
to `nwrite` to a sequence. The counters wrap, and the slot of a byte is its count
modulo `PIPESIZE`, so a good part of the module is arithmetic: because `PIPESIZE`
divides `CountMod`, the slots of different bytes in the pipe differ, also across the
wrap.

**Sched.** `SInv` says, for the CPU that has a process, what it holds between any two
steps: the process's lock in `sched` and until the process has released it, a nesting
count that is the number of locks held, interrupts off while it is not 0, and
`intena` as it was when the process last took a lock with interrupts on.

**Proc.** `PInv` says who holds which `p->lock` as a function of the program counters
(`LockInv`), that the parent `exit` copied is the current one unless the process has
been given to init (`CopyInv`), and what a scan of `wait` has passed (`ScanInv`). So a
child becomes a zombie only under the lock of its parent, never behind the back of a
scan, and wakes the parent it has: `SleepsForAReason` is inductive with that. A slot
that is freed was not locked, hence its process had left `sched`. Freedom from deadlock
needs the processes to form a tree, stated as a rank that grows from parent to child
(`TreeInv`): whoever holds a lock and waits for another waits for one of a higher rank,
and a finite set of locks has one of the highest rank. The premise of
`ParentThenChild`, that no copy is stale, cannot be dropped (disagreement 2 above).

**Trap, Clock.** `TInv` follows what a trap saves from one place to the next: for the
thread a hart runs it is in the registers, in the frame `kernelvec` pushed or in the
trapframe (`HartOK`), for a process that waits in its context and its kernel stack
(`ProcOK`). `ContextKept` speaks of the moments at which the state is in the registers, so
it is not inductive without the rest. A step touches one hart, the thread on it and at
most one process that no hart runs. `KInv` says that the unsigned difference that
`sys_sleep` computes is the number of ticks since the call until that reaches the width
of `ticks`, which is more than any time asked for.

**Virtio.** `VInv` says what lies in the two rings between the index of the one side and
that of the other: first descriptors of different requests, not yet served in the avail
ring, served in the used ring, and those the device works on in neither. Requests have
three descriptors each, so there are fewer than `NUM`; that keeps an index from catching
up with the other from behind, also where it wraps.

**Console.** What two indices enclose is a set of cells (`Cells`), and a good part of the
module says how moving an index changes it, across the wrap of the indices and of the
buffer; `INPUT_BUF` must divide the range of the indices for that, as 128 divides 2^32.

Only model-checked: liveness under fairness; what recursive operators compute
(`Grep`, `ShParse`, `Vm`, `Buddy`, `Strings`), which needs induction over data; and
the properties of the components without a proof module.

## 6. Not modelled

- Memory ordering: spin locks are sequentially consistent (the code has the fences).
  Data races outside locks are modelled where the code has them (`log_write`'s test,
  `wait`'s and `reparent`'s reads of `parent`).
- More than one log: `NDISK` logs share the channel `&log`; a wakeup meant for another
  device is a spurious one, and `begin_op` tests again.
- Torn block writes and device errors; permission bits of page tables other than
  valid, leaf and user; the kernel's own page table.
- Boot (`start.c`, `main.c`, `entry.S`): straight-line code before anything is
  concurrent. `ramdisk.c` is not built.
- `uthread.c`: unfinished (`YOUR CODE HERE`), it never switches. `nsh.c`, a second
  shell; `find`, `xargs` and the small utilities; the repository's tests.
- `fstat`, `mknod`'s device numbers, `getpid`, `uptime`, the contention counters of
  `spinlock.c` and everything that only prints.
