--------------------------------- MODULE Vm ---------------------------------
(***************************************************************************)
(* Memory: the page allocator of kernel/kalloc.c, the page tables of       *)
(* kernel/vm.c, and the operations of a process that change them: fork,    *)
(* sbrk and exit with wait (kernel/proc.c) and exec (kernel/exec.c).       *)
(*                                                                         *)
(* Page tables are the code's: three levels of pages, here with Fan        *)
(* entries each.  Addresses count units of PGSIZE = 2, so that sizes need  *)
(* not be multiples of a page.  A call works on its own tables and on      *)
(* kmem only, and is one action; what other processes do to kmem meanwhile *)
(* is in "deny", the calls of kalloc that find the list empty.             *)
(*                                                                         *)
(* The code's functions are operators on a record m: mem, the pages; got,  *)
(* the number of kallocs so far; deny; lost, the pages no one can free any *)
(* more; panic.  One with a result returns [m, r].                         *)
(***************************************************************************)
EXTENDS Integers, Sequences, FiniteSets, FiniteSetsExt

CONSTANTS Proc, NPAGES, Fan,
          Programs,    \* what exec may find: sequences of segments
          Grow,        \* the n of sbrk
          MaxKalloc    \* bound: a call's kallocs that deny tells apart

PGSIZE == 2
MAXVA == PGSIZE * Fan * Fan * Fan
TRAMPOLINE == MAXVA - PGSIZE
TRAPFRAME == TRAMPOLINE - PGSIZE
Page == 1..NPAGES
Null == 0               \* also the page of the trampoline's code: not in kmem
NoPte == [v |-> FALSE, pa |-> Null, leaf |-> FALSE, u |-> FALSE]
NoPtes == [i \in 0..(Fan - 1) |-> NoPte]
Is(kind) == [kind |-> kind, ptes |-> NoPtes]   \* a page; only a table has PTEs

VARIABLES
  mem,       \* the pages of kmem
  lost,
  pt, tfp, sz, \* p->pagetable, p->tf, p->sz
  mpanic, starved   \* panicked; a kalloc of the last call failed

mvars == <<mem, lost, pt, tfp, sz, mpanic, starved>>

PGROUNDUP(a) == ((a + PGSIZE - 1) \div PGSIZE) * PGSIZE
PGROUNDDOWN(a) == (a \div PGSIZE) * PGSIZE
PX(level, va) == ((va \div PGSIZE) \div Fan^level) % Fan

Ret(m, r) == [m |-> m, r |-> r]
Panic(m) == [m EXCEPT !.panic = TRUE]

-----------------------------------------------------------------------------
(* kalloc.c.  Which free page kalloc returns does not matter: the lowest.  *)

kalloc(m) ==
  LET free == {a \in Page : m.mem[a] = Is("free")}
      n == [m EXCEPT !.got = IF @ < MaxKalloc THEN @ + 1 ELSE @]
  IN IF free = {} \/ n.got \in m.deny THEN Ret([n EXCEPT !.starved = TRUE], Null)
     ELSE Ret([n EXCEPT !.mem[Min(free)] = Is("junk")], Min(free))

\* kinit: freerange gives every page to kfree.
kinit == [mem |-> [a \in Page |-> Is("free")], lost |-> {}, got |-> 0,
          deny |-> {}, starved |-> FALSE, panic |-> FALSE]

kfree(m, a) ==
  IF a \notin Page \/ m.mem[a] = Is("free") THEN Panic(m)
  ELSE [m EXCEPT !.mem[a] = Is("free")]

-----------------------------------------------------------------------------
(* vm.c.                                                                   *)

Pte(m, at) == m.mem[at[1]].ptes[at[2]]
SetPte(m, at, pte) == [m EXCEPT !.mem[at[1]].ptes[at[2]] = pte]

RECURSIVE WalkFrom(_, _, _, _, _)
WalkFrom(m, table, va, level, alloc) ==
  LET at == <<table, PX(level, va)>>
      grow(new) ==
        IF new.r = Null THEN Ret(new.m, <<>>)
        ELSE WalkFrom(SetPte([new.m EXCEPT !.mem[new.r] = Is("table")], at,
                             [NoPte EXCEPT !.v = TRUE, !.pa = new.r]),
                      new.r, va, level - 1, alloc)
  IN CASE level = 0 -> Ret(m, at)
       [] level > 0 /\ Pte(m, at).v -> WalkFrom(m, Pte(m, at).pa, va, level - 1, alloc)
       [] level > 0 /\ ~Pte(m, at).v /\ ~alloc -> Ret(m, <<>>)
       [] level > 0 /\ ~Pte(m, at).v /\ alloc -> grow(kalloc(m))

\* The place of the PTE of va, or <<>>.
walk(m, table, va, alloc) ==
  IF va >= MAXVA THEN Ret(Panic(m), <<>>) ELSE WalkFrom(m, table, va, 2, alloc)

walkaddr(m, table, va) ==
  LET page(at) == IF at = <<>> THEN Null
                  ELSE IF ~Pte(m, at).v \/ ~Pte(m, at).u THEN Null ELSE Pte(m, at).pa
  IN IF va >= MAXVA THEN Null ELSE page(walk(m, table, va, FALSE).r)

\* For one page, as every caller but kvmmap wants it.
mappages(m, table, va, pa, u) ==
  LET set(w) ==
        CASE w.r = <<>> -> Ret(w.m, -1)
          [] w.r # <<>> /\ Pte(w.m, w.r).v -> Ret(Panic(w.m), -1)
          [] OTHER -> Ret(SetPte(w.m, w.r, [v |-> TRUE, pa |-> pa, leaf |-> TRUE, u |-> u]), 0)
  IN set(walk(m, table, va, TRUE))

RECURSIVE UnmapFrom(_, _, _, _, _)
UnmapFrom(m, table, a, last, do_free) ==
  LET clear(n, at) ==
        IF n.panic THEN n
        ELSE IF a = last THEN SetPte(n, at, NoPte)
        ELSE UnmapFrom(SetPte(n, at, NoPte), table, a + PGSIZE, last, do_free)
      unmap(at, pte) ==
        IF ~pte.v \/ ~pte.leaf THEN Panic(m)
        ELSE clear(IF do_free THEN kfree(m, pte.pa) ELSE m, at)
      found(at) == IF at = <<>> THEN Panic(m) ELSE unmap(at, Pte(m, at))
  IN found(walk(m, table, a, FALSE).r)

uvmunmap(m, table, va, size, do_free) ==
  IF m.panic THEN m
  ELSE UnmapFrom(m, table, PGROUNDDOWN(va), PGROUNDDOWN(va + size - 1), do_free)

uvmcreate(m) ==
  LET clear(new) == IF new.r = Null THEN Ret(Panic(new.m), Null)
                    ELSE Ret([new.m EXCEPT !.mem[new.r] = Is("table")], new.r)
  IN clear(kalloc(m))

\* init's code, in a page at address 0.
uvminit(m, table) ==
  LET load(page) ==
        mappages([page.m EXCEPT !.mem[page.r] = Is("text")], table, 0, page.r, TRUE)
  IN load(kalloc(m))

\* Mutants: pages are unmapped though none is to go; the new end is rounded
\* down.
uvmdealloc_always(m, table, oldsz, newsz) ==
  IF newsz >= oldsz THEN Ret(m, oldsz)
  ELSE Ret(uvmunmap(m, table, PGROUNDUP(newsz), oldsz - PGROUNDUP(newsz), TRUE), newsz)
uvmdealloc_down(m, table, oldsz, newsz) ==
  IF newsz >= oldsz THEN Ret(m, oldsz)
  ELSE Ret(uvmunmap(m, table, PGROUNDDOWN(newsz), oldsz - PGROUNDDOWN(newsz), TRUE), newsz)

uvmdealloc(m, table, oldsz, newsz) ==
  LET newup == PGROUNDUP(newsz)
  IN CASE newsz >= oldsz -> Ret(m, oldsz)
       [] newsz < oldsz /\ newup < PGROUNDUP(oldsz) ->
            Ret(uvmunmap(m, table, newup, oldsz - newup, TRUE), newsz)
       [] OTHER -> Ret(m, newsz)

\* memset(mem, 0, PGSIZE).
Zeroed(m, a) == [m EXCEPT !.mem[a] = Is("zero")]

RECURSIVE AllocFrom(_, _, _, _, _)
AllocFrom(m, table, a, from, newsz) ==
  LET mapped(new, map) ==
        IF map.r # 0 THEN Ret(uvmdealloc(kfree(map.m, new.r), table, a, from).m, 0)
        ELSE AllocFrom(map.m, table, a + PGSIZE, from, newsz)
      page(new) ==
        IF new.r = Null THEN Ret(uvmdealloc(new.m, table, a, from).m, 0)
        ELSE mapped(new, mappages(Zeroed(new.m, new.r), table, a, new.r, TRUE))
  IN IF a >= newsz \/ m.panic THEN Ret(m, newsz) ELSE page(kalloc(m))

uvmalloc(m, table, oldsz, newsz) ==
  IF newsz < oldsz THEN Ret(m, oldsz)
  ELSE AllocFrom(m, table, PGROUNDUP(oldsz), PGROUNDUP(oldsz), newsz)

RECURSIVE freewalk(_, _)
freewalk(m, table) ==
  LET step(n, i) ==
        LET pte == n.mem[table].ptes[i]
        IN IF n.panic \/ ~pte.v THEN n
           ELSE IF pte.leaf THEN Panic(n)
           ELSE SetPte(freewalk(n, pte.pa), <<table, i>>, NoPte)
      RECURSIVE entries(_, _)
      entries(n, i) == IF i = Fan THEN n ELSE entries(step(n, i), i + 1)
      end(n) == IF n.panic THEN n ELSE kfree(n, table)
  IN end(entries(m, 0))

uvmfree(m, table, size) ==
  LET tables(n) == IF n.panic THEN n ELSE freewalk(n, table)
  IN tables(uvmunmap(m, table, 0, size, TRUE))

RECURSIVE CopyFrom(_, _, _, _, _)
CopyFrom(m, old, new, i, size) ==
  LET err(n) == Ret(uvmunmap(n, new, 0, i, TRUE), -1)
      mapped(page, map) ==
        IF map.r # 0 THEN err(kfree(map.m, page.r))
        ELSE CopyFrom(map.m, old, new, i + PGSIZE, size)
      copy(pte, page) ==
        IF page.r = Null THEN err(page.m)
        ELSE mapped(page, mappages([page.m EXCEPT !.mem[page.r] = m.mem[pte.pa]],
                                   new, i, page.r, pte.u))
      found(at) ==
        IF at = <<>> THEN Ret(Panic(m), -1)
        ELSE IF ~Pte(m, at).v THEN Ret(Panic(m), -1)
        ELSE copy(Pte(m, at), kalloc(m))
  IN IF i >= size THEN Ret(m, 0) ELSE found(walk(m, old, i, FALSE).r)

uvmcopy(m, old, new, size) == CopyFrom(m, old, new, 0, size)

uvmclear(m, table, va) ==
  LET clear(at) == IF at = <<>> THEN Panic(m)
                   ELSE SetPte(m, at, [Pte(m, at) EXCEPT !.u = FALSE])
  IN clear(walk(m, table, va, FALSE).r)

Chunk(va, len) == Min({PGSIZE - (va - PGROUNDDOWN(va)), len})

\* copyout, copyin: the bytes touched, page by page, or -1.
RECURSIVE Copy(_, _, _, _)
Copy(m, table, va, len) ==
  LET va0 == PGROUNDDOWN(va)
      pa0 == walkaddr(m, table, va0)
      n == Chunk(va, len)
      rest == Copy(m, table, va0 + PGSIZE, len - n)
  IN IF len = 0 THEN Ret(<<>>, 0)
     ELSE IF pa0 = Null THEN Ret(<<>>, -1)
     ELSE Ret([i \in 1..n |-> <<pa0, va - va0 + i - 1>>] \o rest.m, rest.r)

\* copyinstr of a string that ends at address nul.
RECURSIVE CopyStr(_, _, _, _, _)
CopyStr(m, table, va, max, nul) ==
  LET va0 == PGROUNDDOWN(va)
      pa0 == walkaddr(m, table, va0)
      n == Chunk(va, max)
      bytes(k) == [i \in 1..k |-> <<pa0, va - va0 + i - 1>>]
      rest == CopyStr(m, table, va0 + PGSIZE, max - n, nul)
  IN IF max = 0 \/ pa0 = Null THEN Ret(<<>>, -1)
     ELSE IF nul < va + n THEN Ret(bytes(nul - va + 1), 0)
     ELSE Ret(bytes(n) \o rest.m, rest.r)

-----------------------------------------------------------------------------
(* proc.c.                                                                 *)

\* The failure of a mappages is not looked at.
proc_pagetable(m, tf) ==
  LET one(new) == mappages(new.m, new.r, TRAMPOLINE, Null, FALSE)
      two(new) == mappages(one(new).m, new.r, TRAPFRAME, tf, FALSE)
      maps(new) == IF new.m.panic THEN new ELSE Ret(two(new).m, new.r)
  IN maps(uvmcreate(m))

\* The pages of a table and what it maps, the trapframe apart.
RECURSIVE Reach(_, _)
Reach(m, table) ==
  {table} \cup UNION {LET pte == m[table].ptes[i]
                      IN IF ~pte.v THEN {}
                         ELSE IF ~pte.leaf THEN Reach(m, pte.pa)
                         ELSE {pte.pa} : i \in 0..(Fan - 1)}

\* With sz = 0 nothing is freed, not even the table.
proc_freepagetable(m, table, size) ==
  LET free(n) == CASE n.panic -> n
                   [] ~n.panic /\ size > 0 -> uvmfree(n, table, size)
                   [] OTHER -> [n EXCEPT !.lost = @ \cup Reach(n.mem, table)]
  IN free(uvmunmap(uvmunmap(m, table, TRAMPOLINE, PGSIZE, FALSE),
                   table, TRAPFRAME, PGSIZE, FALSE))

freeproc(m, tf, table, size) ==
  LET rest(n) == IF n.panic THEN n ELSE proc_freepagetable(n, table, size)
  IN rest(kfree(m, tf))

\* A call starts with what deny it meets, and ends with m.
Start(deny) == [mem |-> mem, lost |-> lost, got |-> 0, deny |-> deny,
                starved |-> FALSE, panic |-> FALSE]
End(m) == mem' = m.mem /\ lost' = m.lost /\ mpanic' = m.panic /\ starved' = m.starved

\* All kallocs from the k-th on fail, or the k-th alone, or none.
Denies == {{}} \cup {{k} : k \in 1..MaxKalloc} \cup {k..MaxKalloc : k \in 1..MaxKalloc}

Live == {p \in Proc : pt[p] # Null}

Maps(p, va) ==
  LET valid(at) == at # <<>> /\ mem[at[1]].ptes[at[2]].v
  IN valid(walk(Start({}), pt[p], va, FALSE).r)

\* Without these two pages a process cannot get back to user space: userret
\* and then uservec fault for ever, and it makes no further call.
Runs(p) == p \in Live /\ Maps(p, TRAMPOLINE) /\ Maps(p, TRAPFRAME)

\* userinit, with memory enough.
MInit ==
  /\ \E p \in Proc, tf \in {kalloc(kinit)} :
     \E table \in {proc_pagetable([tf.m EXCEPT !.mem[tf.r] = Is("tf")], tf.r)} :
       /\ mem = uvminit(table.m, table.r).m.mem
       /\ pt = [q \in Proc |-> IF q = p THEN table.r ELSE Null]
       /\ tfp = [q \in Proc |-> IF q = p THEN tf.r ELSE Null]
       /\ sz = [q \in Proc |-> IF q = p THEN PGSIZE ELSE 0]
  /\ lost = {} /\ mpanic = FALSE /\ starved = FALSE

\* fork: allocproc, uvmcopy, and freeproc of the child if that fails (with
\* its sz still 0).
fork(p, np, deny) ==
  /\ Runs(p) /\ np \notin Live
  /\ \E tf \in {kalloc(Start(deny))} :
     IF tf.r = Null THEN End(tf.m) /\ UNCHANGED <<pt, tfp, sz>>
     ELSE \E table \in {proc_pagetable([tf.m EXCEPT !.mem[tf.r] = Is("tf")], tf.r)} :
     IF table.m.panic THEN End(table.m) /\ UNCHANGED <<pt, tfp, sz>>
     ELSE \E copy \in {uvmcopy(table.m, pt[p], table.r, sz[p])} :
     CASE copy.m.panic -> End(copy.m) /\ UNCHANGED <<pt, tfp, sz>>
       [] ~copy.m.panic /\ copy.r # 0 ->
            End(freeproc(copy.m, tf.r, table.r, 0)) /\ UNCHANGED <<pt, tfp, sz>>
       [] ~copy.m.panic /\ copy.r = 0 ->
            /\ End(copy.m)
            /\ pt' = [pt EXCEPT ![np] = table.r]
            /\ tfp' = [tfp EXCEPT ![np] = tf.r]
            /\ sz' = [sz EXCEPT ![np] = sz[p]]

\* sbrk.  sz + n wraps below 0 to a huge size, and nothing is unmapped; the
\* guard stands for memory that runs out before addresses do.
growproc(p, n, deny) ==
  /\ Runs(p) /\ sz[p] + n <= TRAPFRAME
  /\ \/ /\ n > 0
        /\ \E up \in {uvmalloc(Start(deny), pt[p], sz[p], sz[p] + n)} :
             End(up.m) /\ sz' = [sz EXCEPT ![p] = IF up.r = 0 THEN @ ELSE up.r]
     \/ /\ n <= 0 /\ sz[p] + n < 0
        /\ End(Start(deny)) /\ UNCHANGED sz
     \/ /\ n <= 0 /\ sz[p] + n >= 0
        /\ \E down \in {uvmdealloc(Start(deny), pt[p], sz[p], sz[p] + n)} :
             End(down.m) /\ sz' = [sz EXCEPT ![p] = down.r]
  /\ UNCHANGED <<pt, tfp>>

\* exit, and wait in the parent: freeproc.
exit(p) ==
  /\ Runs(p) /\ Cardinality(Live) > 1
  /\ End(freeproc(Start({}), tfp[p], pt[p], sz[p]))
  /\ pt' = [pt EXCEPT ![p] = Null]
  /\ tfp' = [tfp EXCEPT ![p] = Null]
  /\ sz' = [sz EXCEPT ![p] = 0]

-----------------------------------------------------------------------------
(* exec.c.                                                                 *)

\* A segment: vaddr, memsz, and ok: its header passes the checks before
\* uvmalloc ("no": it does not) and its contents can be read ("late": not).
\* Result: [m, sz, bad].
Loaded(m, size, bad) == [m |-> m, sz |-> size, bad |-> bad]

\* The segment's contents are read into the pages that its addresses map to.
loadseg(m, table, s) ==
  [m EXCEPT !.mem = [a \in Page |->
     IF \E va \in {s.vaddr + k : k \in 0..(s.memsz - 1)} :
          walkaddr(m, table, PGROUNDDOWN(va)) = a
     THEN Is("text") ELSE @[a]]]

RECURSIVE Load(_, _, _, _, _)
Load(m, table, size, prog, i) ==
  LET read(s, up) ==
        IF up.m.panic \/ up.r = 0 THEN Loaded(up.m, 0, TRUE)
        ELSE IF s.vaddr % PGSIZE # 0 \/ s.ok = "late" THEN Loaded(up.m, up.r, TRUE)
        ELSE Load(loadseg(up.m, table, s), table, up.r, prog, i + 1)
      segment(s) ==
        IF s.ok = "no" THEN Loaded(m, size, TRUE)
        ELSE read(s, uvmalloc(m, table, size, s.vaddr + s.memsz))
  IN IF i > Len(prog) THEN Loaded(m, size, FALSE) ELSE segment(prog[i])

\* proc_pagetable, the segments, two pages of which the lower becomes the
\* guard, the arguments (args: they fit), and the commit to the new image.
\* Every failure ends at bad, with what sz is by then.
exec(p, prog, args, deny) ==
  LET bad(table, m, size) ==
        /\ End(IF m.panic THEN m ELSE proc_freepagetable(m, table, size))
        /\ UNCHANGED <<pt, sz>>
  IN
  /\ Runs(p)
  /\ \E new \in {proc_pagetable(Start(deny), tfp[p])} :
     IF new.m.panic THEN End(new.m) /\ UNCHANGED <<pt, sz>>
     ELSE \E load \in {Load(new.m, new.r, 0, prog, 1)} :
     IF load.bad THEN bad(new.r, load.m, load.sz)
     ELSE \E stack \in {uvmalloc(load.m, new.r, PGROUNDUP(load.sz),
                                 PGROUNDUP(load.sz) + 2 * PGSIZE)} :
     IF stack.m.panic \/ stack.r = 0 THEN bad(new.r, stack.m, 0)
     ELSE \E guard \in {uvmclear(stack.m, new.r, stack.r - 2 * PGSIZE)} :
     IF ~args THEN bad(new.r, guard, stack.r)
     ELSE /\ End(proc_freepagetable(guard, pt[p], sz[p]))
          /\ pt' = [pt EXCEPT ![p] = new.r]
          /\ sz' = [sz EXCEPT ![p] = stack.r]
  /\ UNCHANGED tfp

MNext ==
  /\ ~mpanic
  /\ \E p \in Proc :
       \/ exit(p)
       \/ \E deny \in Denies :
            \/ \E np \in Proc : fork(p, np, deny)
            \/ \E n \in Grow : growproc(p, n, deny)
            \/ \E prog \in Programs, args \in BOOLEAN : exec(p, prog, args, deny)

MSpec == MInit /\ [][MNext]_mvars

-----------------------------------------------------------------------------
(* Properties.                                                             *)

\* What a live process holds: its trapframe, its table and its pages.
Holds(p) == {tfp[p]} \cup (Reach(mem, pt[p]) \ {Null})

\* Every page is free, or held by exactly one process, or lost: no page is in
\* two processes, a held page is never on the free list.  What is lost is what
\* proc_freepagetable leaves when it is called with sz = 0, as it is by a fork
\* that fails in uvmcopy and by an exec that fails before its first segment or
\* in uvmalloc; nothing else is, by failures or by success.
PagesAccounted ==
  ~mpanic =>
    /\ \A p, q \in Live : p # q => Holds(p) \cap Holds(q) = {}
    /\ \A p \in Live : Holds(p) \cap lost = {}
    /\ UNION {Holds(p) : p \in Live} \cup (lost \ {Null}) = {a \in Page : mem[a] # Is("free")}

\* A process has exactly the pages below its size, so that user code can use
\* all of sz and nothing beyond it, and fork and exit find all they walk.
LayoutMatchesSize ==
  ~mpanic => \A p \in Live : \A va \in {PGSIZE * k : k \in 0..((TRAPFRAME \div PGSIZE) - 1)} :
    Maps(p, va) <=> va < sz[p]

\* User code never sees what a page held before: a page it can reach was
\* zeroed, copied from its parent or loaded from its program, and is neither
\* a page table nor a trapframe.
UserPagesClean ==
  ~mpanic => \A p \in Live : \A va \in {PGSIZE * k : k \in 0..((MAXVA \div PGSIZE) - 1)} :
    LET pa == walkaddr(Start({}), pt[p], va)
    IN pa # Null => mem[pa].kind \in {"zero", "text"}

\* copyin and copyout touch exactly the bytes of the range, in order, each in
\* the page its address maps to, and fail if some byte is not the user's;
\* copyinstr does so up to the 0 that ends the string, and fails if that is
\* not among the first max bytes.
CopyCoversBytes ==
  ~mpanic => \A p \in Live, va \in 0..(MAXVA - 1), len \in 0..(2 * PGSIZE + 1) :
    LET m == Start({})
        page(i) == walkaddr(m, pt[p], PGROUNDDOWN(va + i - 1))
        covers(c, n) == IF \A i \in 1..n : page(i) # Null
                        THEN c = Ret([i \in 1..n |-> <<page(i), (va + i - 1) % PGSIZE>>], 0)
                        ELSE c.r = -1
    IN /\ covers(Copy(m, pt[p], va, len), len)
       /\ covers(CopyStr(m, pt[p], va, len + 1, va + len), len + 1)
       /\ CopyStr(m, pt[p], va, len, va + len).r = -1

\* None of the panics of vm.c is reached but in a call in which a kalloc
\* failed (uvmcopy's cleanup, for one, unmaps the empty range and panics when
\* it is the first kalloc that fails).
PanicMeansStarved == mpanic => starved

\* Stated by the comment on proc_pagetable: "Create a page table for a given
\* process, with no user pages, but with trampoline pages".
TrampolineMapped ==
  ~mpanic => \A p \in Live : Maps(p, TRAMPOLINE) /\ Maps(p, TRAPFRAME)
=============================================================================
