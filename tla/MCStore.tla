------------------------------ MODULE MCStore ------------------------------
(* Memory and files for TLC: page tables and the page allocator, directories *)
(* and the inode cache, blocks and open files, and the log beside its        *)
(* abstraction.  part names the one that runs; the variables of the others   *)
(* are 0, and the machine without page tables is one that has panicked.      *)
EXTENDS Vm, TLC

CONSTANTS Inode, NFILE, NOFILE, NBlocks, BSIZE, NDIRECT, NINDIRECT, MAXOPBLOCKS, BPB, Sizes, Faults,
          p1, p2, entryA, entryB, i1, i2, b1, b2, v1, v2, Nobody, Zero, NoVal, NoBlock

VARIABLES
  dtype, dnlink, ents, iref, ivalid, itype, inlink, ilocked, pr, drops, cwd, file, gone, stray, dpanic,
  bitmap, data, ind, addrs, size, named, ftable, ofile, writing, content, faulted, toobig, fpanic,
  home, dlog, dhead, lh, outstanding, committing, cache, refcnt, pc, hold, tail, nwrites, boot,
  crashes, latest, unpinned,
  part

dv == <<dtype, dnlink, ents, iref, ivalid, itype, inlink, ilocked, pr, drops, cwd, file, gone, stray, dpanic>>
fv == <<bitmap, data, ind, addrs, size, named, ftable, ofile, writing, content, faulted, toobig, fpanic>>
lv == <<home, dlog, dhead, lh, outstanding, committing, cache, refcnt, pc, hold, tail, nwrites, boot,
        crashes, latest, unpinned>>

storevars == <<mvars, dv, fv, lv, part>>

MCGrow == {3, -1, -3}

\* exec's programs: one segment; two, the second not readable to the end; two,
\* the second refused; one that is refused.
Seg(v, s, ok) == [vaddr |-> v, memsz |-> s, ok |-> ok]
MCPrograms == {<<Seg(0, 1, "yes")>>, <<Seg(0, 2, "yes"), Seg(2, 1, "late")>>,
               <<Seg(0, 1, "yes"), Seg(2, 1, "no")>>, <<Seg(0, 1, "no")>>}

\* The calls on paths: one process makes, moves into and leaves a directory
\* while the other makes and removes what is in it.
Call(op, path) == [op |-> op, abs |-> FALSE, path |-> path, path2 |-> <<>>]
Calls ==
  p1 :> {Call("mkdir", <<entryA>>), Call("create", <<entryA, entryB>>), Call("chdir", <<entryA>>),
         Call("chdir", <<"..">>), Call("open", <<entryB>>),
         [Call("link", <<entryA, entryB>>) EXCEPT !.path2 = <<entryB>>]}
  @@ p2 :> {Call("mkdir", <<entryA, entryB>>), Call("unlink", <<entryA>>), Call("unlink", <<entryB>>),
            Call("unlink", <<entryA, entryB>>), Call("unlink", <<entryA, ".">>)}

D == INSTANCE Dir WITH Proc <- {p1, p2}, NInodes <- 3, Names <- {entryA, entryB}, NINODE <- 3
F == INSTANCE File
L == INSTANCE Log WITH Proc <- {p1, p2}, Block <- {b1, b2}, Value <- {v1, v2}, MAXOPBLOCKS <- 1,
                       LOGSIZE <- 2, NLOG <- 3, RefMod <- 8, CachePressure <- FALSE, MaxCrash <- 1

MOff == mem = 0 /\ lost = 0 /\ pt = 0 /\ tfp = 0 /\ sz = 0 /\ mpanic = TRUE /\ starved = TRUE
DOff == /\ dtype = 0 /\ dnlink = 0 /\ ents = 0 /\ iref = 0 /\ ivalid = 0 /\ itype = 0 /\ inlink = 0
        /\ ilocked = 0 /\ pr = 0 /\ drops = 0 /\ cwd = 0 /\ file = 0 /\ gone = 0 /\ stray = 0 /\ dpanic = 0
FOff == /\ bitmap = 0 /\ data = 0 /\ ind = 0 /\ addrs = 0 /\ size = 0 /\ named = 0 /\ ftable = 0
        /\ ofile = 0 /\ writing = 0 /\ content = 0 /\ faulted = 0 /\ toobig = 0 /\ fpanic = 0
LOff == /\ home = 0 /\ dlog = 0 /\ dhead = 0 /\ lh = 0 /\ outstanding = 0 /\ committing = 0
        /\ cache = 0 /\ refcnt = 0 /\ pc = 0 /\ hold = 0 /\ tail = 0 /\ nwrites = 0 /\ boot = 0
        /\ crashes = 0 /\ latest = 0 /\ unpinned = 0

StoreInit ==
  /\ part \in {"memory", "dirs", "files", "log"}
  /\ IF part = "memory" THEN MInit ELSE MOff
  /\ IF part = "dirs" THEN D!DInit ELSE DOff
  /\ IF part = "files" THEN F!FInit ELSE FOff
  /\ IF part = "log" THEN L!Init ELSE LOff

StoreNext ==
  \/ part = "memory" /\ MNext /\ UNCHANGED <<dv, fv, lv, part>>
  \/ part = "dirs" /\ D!DNext /\ UNCHANGED <<mvars, fv, lv, part>>
  \/ part = "files" /\ F!FNext /\ UNCHANGED <<mvars, dv, lv, part>>
  \/ part = "log" /\ L!Next /\ UNCHANGED <<mvars, dv, fv, part>>

StoreSpec == StoreInit /\ [][StoreNext]_storevars

-----------------------------------------------------------------------------
(* States that differ only in which free pages or blocks were taken are one *)
(* state: no code looks at the number of a page or block, and the lists hand *)
(* them out as well in any order.                                            *)

RECURSIVE Tree(_)
Tree(table) ==
  [i \in DOMAIN mem[table].ptes |->
     LET pte == mem[table].ptes[i] IN
     IF ~pte.v THEN <<>> ELSE IF ~pte.leaf THEN <<Tree(pte.pa)>>
     ELSE IF pte.pa = Null THEN <<0>> ELSE <<mem[pte.pa].kind, pte.u>>]

Blk(i, bn) == IF bn < NDIRECT THEN addrs[i][bn]
              ELSE IF addrs[i][NDIRECT] = 0 THEN 0 ELSE ind[addrs[i][NDIRECT]][bn - NDIRECT]
Shape(i) ==
  LET Sees(b) == [k \in DOMAIN data[b] |-> <<data[b][k] = Zero, data[b][k] = i>>] IN
  <<size[i], addrs[i][NDIRECT] = 0,
    [bn \in 0..(F!MAXFILE - 1) |-> IF Blk(i, bn) = 0 THEN <<>> ELSE Sees(Blk(i, bn))],
    {Sees(k) : k \in {c \in F!Block \ bitmap : \A d \in F!Block \ bitmap : c <= d}},
    named[i], Len(content[i]), i \in faulted, {f \in F!File : ftable[f].ip = i}>>

View == <<mvars = mvars,
  CASE part = "memory" ->
         <<{<<Tree(pt[p]), sz[p]>> : p \in Live}, Cardinality(Live), mpanic, starved,
           Cardinality(lost), Cardinality({g \in DOMAIN mem : mem[g] = Is("free")}),
           Cardinality(UNION {Holds(p) : p \in Live})>>
    [] part = "files" ->
         <<{Shape(i) : i \in Inode}, {<<ofile[p], writing[p]>> : p \in Proc}, Cardinality(bitmap),
           [f \in F!File |-> <<ftable[f].ref, ftable[f].off>>], toobig, fpanic>>
    [] OTHER -> <<part, dv, lv>>>>

-----------------------------------------------------------------------------
(* The components' properties, by their names; Vm's are Vm's own.          *)

\* No page has two holders or is free while it is held, a process has exactly
\* the pages below its size and none that still holds another's data, and
\* copyin and copyout touch exactly the bytes they are asked for, also after
\* fork, exec and sbrk have failed half-way.  That a failed fork or exec gives
\* back all it took is not claimed: where proc_freepagetable is called with
\* sz = 0 it does not.
MemorySound == PagesAccounted /\ LayoutMatchesSize /\ UserPagesClean /\ CopyCoversBytes

\* iput frees no inode that something still refers to, ref is the number of
\* pointers to the inode, and nlink, between calls, the number of entries.
InodesKept == part = "dirs" => D!NoneFreedInUse /\ D!LinksExact /\ D!RefsExact

\* Calls that hold one inode and want another never wait in a circle, iput's
\* acquiresleep under icache.lock finds the lock free, an inode that nobody
\* has locked is the one on disk, and no race of calls makes the kernel panic
\* (only the lack of inodes and a stale ".." do).
InodeLocksSafe ==
  part = "dirs" => D!NoLockCycle /\ D!IputNeverBlocks /\ D!CacheMatchesDisk /\ D!PanicsKnown

\* A block in use is marked in the bitmap and belongs to one file, and no
\* chunk of filewrite logs more blocks than its operation has reserved.
BlocksAccounted == part = "files" => F!BlocksAccounted /\ F!ChunkFitsLog

\* read returns what was written and nothing old comes back past the end; an
\* offset stays inside its file, and f->ref is the number of descriptors.
ReadsBack ==
  part = "files" => F!ReadsBack /\ F!NothingOldPastEnd /\ F!OffsetInFile /\ F!FileRefsExact

\* Where no buffer has to be recycled, log.c implements LogAbs.
LogImplementsAbs ==
  /\ part = "log" => L!Abs!Init
  /\ [][part = "log" => [L!Abs!Next]_(L!Abs!vars)]_storevars

=============================================================================
