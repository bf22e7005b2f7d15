------------------------------- MODULE Buddy -------------------------------
(***************************************************************************)
(* The buddy allocator (kernel/buddy.c) with its lists (kernel/list.c).    *)
(* Addresses are counted in leaves of LEAF_SIZE bytes from bd_base.  The   *)
(* allocator's own data end at left and the memory ends at right, of a     *)
(* heap of 2^MAXSIZE leaves.                                               *)
(***************************************************************************)
EXTENDS Integers, Sequences, FiniteSets
LOCAL INSTANCE SequencesExt

CONSTANTS MAXSIZE,  \* the largest index in bd_sizes
          Lefts,    \* how many leaves the allocator's data may take
          MaxHeld   \* blocks callers hold at most

Size == 0..MAXSIZE
Heap == 2^MAXSIZE
BLK(k) == 2^k
NBLK(k) == 2^(MAXSIZE - k)
Nil == -1

VARIABLES
  left, right,
  free, alloc, split, \* bd_sizes: lists of addresses, sets of block indices
  held,      \* blocks given out: <<address, size>>
  dangling,  \* a list operation touched a block that was not on its list
  bpanic     \* bd_init: free mem

bvars == <<left, right, free, alloc, split, held, dangling, bpanic>>

firstk(n) == CHOOSE k \in 0..(MAXSIZE + 1) : 2^k >= n /\ \A j \in 0..(k - 1) : 2^j < n
blk_index(k, p) == p \div BLK(k)
addr(k, bi) == bi * BLK(k)
blk_index_next(k, p) == (p \div BLK(k)) + (IF p % BLK(k) # 0 THEN 1 ELSE 0)
Buddy(bi) == IF bi % 2 = 0 THEN bi + 1 ELSE bi - 1

-----------------------------------------------------------------------------
(* bd_init.                                                                *)

\* bd_mark of the allocator's data and of what the memory lacks: the blocks
\* of size k that [start, stop) touches.
bd_mark(k, start, stop) == blk_index(k, start)..(blk_index_next(k, stop) - 1)
Marked(l, r) == [k \in Size |-> bd_mark(k, 0, l) \cup bd_mark(k, r, Heap)]

\* bit_isset on the alloc array of size k, whose bytes are followed by those
\* of size k + 1 (the split arrays, in the end, follow alloc).
Bits(k) == ((NBLK(k) + 7) \div 8) * 8
bit_isset(a, k, i) == IF i < Bits(k) THEN i \in a[k]
                      ELSE LET n == IF k < MAXSIZE THEN k + 1 ELSE 1 IN i - Bits(k) \in a[n]

\* bd_initfree_pair: the block it puts on the list, if it does.
bd_initfree_pair(a, k, bi) ==
  IF bit_isset(a, k, bi) = bit_isset(a, k, Buddy(bi)) THEN <<>>
  ELSE <<addr(k, IF bit_isset(a, k, bi) THEN Buddy(bi) ELSE bi)>>

\* bd_initfree: the pairs of the two ends, for every size but the largest.
bd_initfree(a, l, r) ==
  [k \in Size |->
     LET lo == blk_index_next(k, l)
         hi == blk_index(k, r)
     IN IF k = MAXSIZE THEN <<>>
        ELSE (IF hi <= lo THEN <<>> ELSE bd_initfree_pair(a, k, hi)) \o bd_initfree_pair(a, k, lo)]

\* The bytes on the lists, in leaves.
Total(f) == FoldFunctionOnSet(LAMBDA x, y : x + y, 0, [k \in Size |-> Len(f[k]) * BLK(k)], Size)

BInit ==
  /\ left \in Lefts /\ right \in ((Heap \div 2) + 1)..Heap
  /\ alloc = Marked(left, right)
  /\ split = [k \in Size |-> IF k = 0 THEN {} ELSE alloc[k]]
  /\ free = bd_initfree(alloc, left, right)
  /\ bpanic = (Total(free) # right - left)
  /\ held = {} /\ dangling = FALSE

-----------------------------------------------------------------------------
(* The lists, and bd_malloc and bd_free under the lock.                    *)

lst_push(f, k, p) == [f EXCEPT ![k] = <<p>> \o @]
lst_remove(f, k, p) == [f EXCEPT ![k] = SelectSeq(@, LAMBDA x : x # p)]

\* Mutant: the buddy is taken one block too far.
Half_far(p, j) == p + 2 * BLK(j)

\* The second half of a block at p that is split into two of size j.
Half(p, j) == p + BLK(j)

\* The split of p from size k to fk: at each size p's half is allocated, its
\* buddy goes on the list.
bd_malloc(n) ==
  LET fk == firstk(n)
      ks == {k \in fk..MAXSIZE : free[k] # <<>>}
      k == CHOOSE x \in ks : \A y \in ks : x <= y
      p == Head(free[k])
  IN
  /\ ~bpanic /\ Cardinality(held) < MaxHeld /\ ks # {}
  /\ free' = [j \in Size |-> IF j = k THEN Tail(free[k])
                             ELSE IF fk <= j /\ j < k THEN <<Half(p, j)>> \o free[j] ELSE free[j]]
  /\ alloc' = [j \in Size |-> IF fk <= j /\ j <= k THEN alloc[j] \cup {blk_index(j, p)} ELSE alloc[j]]
  /\ split' = [j \in Size |-> IF fk < j /\ j <= k THEN split[j] \cup {blk_index(j, p)} ELSE split[j]]
  /\ held' = held \cup {<<p, fk>>}
  /\ UNCHANGED <<left, right, dangling, bpanic>>

\* size(p): the first size whose parent is split; Nil when the scan would
\* leave bd_sizes.
size(p) ==
  LET ks == {k \in 0..(MAXSIZE - 1) : blk_index(k + 1, p) \in split[k + 1]}
  IN IF ks = {} THEN Nil ELSE CHOOSE x \in ks : \A y \in ks : x <= y

\* bd_free's loop from size k with block p: the buddy is allocated, or the two
\* are merged one size up.
RECURSIVE Merge(_, _, _)
Merge(s, k, p) ==
  LET bi == blk_index(k, p)
      q == addr(k, Buddy(bi))
      c == [s EXCEPT !.alloc[k] = @ \ {bi}]
      up == IF Buddy(bi) % 2 = 0 THEN q ELSE p
  IN IF k = MAXSIZE THEN [s EXCEPT !.free = lst_push(s.free, k, p)]
     ELSE IF Buddy(bi) \in c.alloc[k] THEN [c EXCEPT !.free = lst_push(c.free, k, p)]
     ELSE Merge([c EXCEPT !.free = lst_remove(c.free, k, q),
                          !.split[k + 1] = @ \ {blk_index(k + 1, up)},
                          !.bad = @ \/ q \notin Range(c.free[k])], k + 1, up)

Freed(s, k, p) == Merge(s, k, p)

bd_free(b) ==
  LET p == b[1]
      s == Freed([free |-> free, alloc |-> alloc, split |-> split, bad |-> FALSE], size(p), p)
  IN
  /\ b \in held
  /\ free' = s.free /\ alloc' = s.alloc /\ split' = s.split
  /\ dangling' = (dangling \/ s.bad)
  /\ held' = held \ {b}
  /\ UNCHANGED <<left, right, bpanic>>

BNext ==
  \/ \E n \in 1..Heap : bd_malloc(n)
  \/ \E b \in held : bd_free(b)

BSpec == BInit /\ [][BNext]_bvars

-----------------------------------------------------------------------------
(* Properties.                                                             *)

Leaves(b) == b[1]..(b[1] + BLK(b[2]) - 1)
FreeBlocks == UNION {{<<free[k][i], k>> : i \in DOMAIN free[k]} : k \in Size}

\* Between the allocator's data and the end of memory every leaf is in one
\* block, given out or on a list, and never in two, after any sequence of
\* bd_malloc and bd_free; the blocks beyond the ends are never handed out.
HeapPartitioned ==
  ~bpanic => \A x \in 0..(Heap - 1) :
    Cardinality({b \in FreeBlocks \cup held : x \in Leaves(b)})
      = (IF left <= x /\ x < right THEN 1 ELSE 0)

\* bd_free is given only an address: size finds the size the block was given
\* out with from the split bits, and stops before the end of bd_sizes, though
\* its loop reads bd_sizes[k+1] up to k = nsizes - 1.
SizeFound == \A b \in held : size(b[1]) = b[2]

\* Two buddies are never free at once (they would have been merged), and the
\* buddy a merge takes off its list is on it.
Merged ==
  ~bpanic => /\ ~dangling
             /\ \A b \in FreeBlocks : b[2] < MAXSIZE =>
                  <<addr(b[2], Buddy(blk_index(b[2], b[1]))), b[2]>> \notin FreeBlocks

\* "Initialize the buddy allocator: it manages memory from [base, end).": its own count of the free
\* memory comes out, for every size of the memory.
InitCounts == ~bpanic

=============================================================================
