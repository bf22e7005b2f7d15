------------------------------ MODULE Umalloc ------------------------------
(***************************************************************************)
(* The user programs' malloc and free (user/umalloc.c): a circular list of *)
(* free blocks in the order of their addresses.  Addresses and sizes are   *)
(* counted in headers.  The list's base is at 0; the heap begins at 1 and  *)
(* ends before brk.  Another caller of sbrk may leave a gap.               *)
(***************************************************************************)
EXTENDS Integers, FiniteSets

CONSTANTS MinCore,  \* the least morecore asks for (4096)
          MaxBrk,   \* sbrk fails beyond
          Requests  \* sizes asked for, in headers, with the block's own

Base == 0
Nil == -1

VARIABLES
  node,    \* the free blocks: [ptr, size], by address
  freep, brk,
  given,   \* blocks in use: address and size
  gaps,    \* units of the heap that belong to another caller of sbrk
  endless  \* a loop of malloc or free would not end

uvars == <<node, freep, brk, given, gaps, endless>>

UInit ==
  /\ node = [a \in {} |-> 0] /\ freep = Nil /\ brk = 1
  /\ given = {} /\ gaps = {} /\ endless = FALSE

Put(f, a, ptr, size) == [x \in DOMAIN f \cup {a} |-> IF x = a THEN [ptr |-> ptr, size |-> size] ELSE f[x]]
Del(f, a) == [x \in DOMAIN f \ {a} |-> f[x]]

\* The place for bp after p: between p and the next, or at the wrap.
Place(f, p, bp) ==
  \/ bp > p /\ bp < f[p].ptr
  \/ p >= f[p].ptr /\ (bp > p \/ bp < f[p].ptr)

\* free's search from p, of at most n steps.
RECURSIVE Search(_, _, _, _)
Search(f, p, bp, n) ==
  IF Place(f, p, bp) THEN p ELSE IF n = 0 THEN Nil ELSE Search(f, f[p].ptr, bp, n - 1)

\* Mutant: a block is not joined to the one below it.
Join_up(f, p, bp, size) ==
  LET nx == f[p].ptr IN
  IF bp + size = nx THEN Put(Put(Del(f, nx), bp, f[nx].ptr, size + f[nx].size), p, bp, f[p].size)
  ELSE Put(Put(f, bp, nx, size), p, bp, f[p].size)

\* bp is linked after p, joined to the next and to p where they touch.
Join(f, p, bp, size) ==
  LET nx == f[p].ptr
      b == IF bp + size = nx THEN [ptr |-> f[nx].ptr, size |-> size + f[nx].size]
           ELSE [ptr |-> nx, size |-> size]
      g == IF bp + size = nx THEN Del(f, nx) ELSE f
  IN IF p + f[p].size = bp THEN Put(g, p, b.ptr, f[p].size + b.size)
     ELSE Put(Put(g, bp, b.ptr, b.size), p, bp, f[p].size)

\* free(bp): the list and freep, Nil when the search does not end.
Freed(f, fp, bp, size) ==
  LET p == Search(f, fp, bp, Cardinality(DOMAIN f))
  IN IF p = Nil THEN [f |-> f, freep |-> Nil] ELSE [f |-> Join(f, p, bp, size), freep |-> p]

free(b) ==
  LET r == Freed(node, freep, b[1], b[2]) IN
  /\ ~endless /\ b \in given
  /\ given' = given \ {b}
  /\ node' = r.f /\ freep' = r.freep /\ endless' = (r.freep = Nil)
  /\ UNCHANGED <<brk, gaps>>

\* The tail of a free block that is larger than needed.
Cut(p, size, nunits) == p + size - nunits

More(n) == IF n < MinCore THEN MinCore ELSE n

\* malloc's loop: prevp, p, and what morecore adds when it has come round.
\* s is the list, freep and brk; n is how many steps are left.
RECURSIVE Alloc(_, _, _, _, _)
Alloc(s, prevp, p, nunits, n) ==
  CASE n = 0 -> [s EXCEPT !.endless = TRUE]
    [] s.f[p].size = nunits ->
         [s EXCEPT !.f = Put(Del(s.f, p), prevp, s.f[p].ptr, s.f[prevp].size), !.freep = prevp, !.got = p]
    [] s.f[p].size > nunits ->
         [s EXCEPT !.f = Put(s.f, p, s.f[p].ptr, s.f[p].size - nunits), !.freep = prevp,
                   !.got = Cut(p, s.f[p].size, nunits)]
    [] s.f[p].size < nunits /\ p # s.freep -> Alloc(s, p, s.f[p].ptr, nunits, n - 1)
    [] OTHER ->
         IF s.brk + More(nunits) > MaxBrk THEN s
         ELSE LET r == Freed(s.f, s.freep, s.brk, More(nunits))
                  t == [s EXCEPT !.f = r.f, !.freep = r.freep, !.brk = @ + More(nunits)]
              IN IF r.freep = Nil THEN [t EXCEPT !.endless = TRUE]
                 ELSE Alloc(t, r.freep, r.f[r.freep].ptr, nunits, n - 1)

malloc(nunits) ==
  LET f == IF freep = Nil THEN Put(node, Base, Base, 0) ELSE node
      fp == IF freep = Nil THEN Base ELSE freep
      s == Alloc([f |-> f, freep |-> fp, brk |-> brk, got |-> Nil, endless |-> FALSE],
                 fp, f[fp].ptr, nunits, 2 * MaxBrk)
  IN
  /\ ~endless
  /\ node' = s.f /\ freep' = s.freep /\ brk' = s.brk /\ endless' = s.endless
  /\ given' = IF s.got = Nil THEN given ELSE given \cup {<<s.got, nunits>>}
  /\ UNCHANGED gaps

\* Another caller of sbrk.
sbrk ==
  /\ brk < MaxBrk
  /\ brk' = brk + 1 /\ gaps' = gaps \cup {brk}
  /\ UNCHANGED <<node, freep, given, endless>>

UNext ==
  \/ \E n \in Requests : malloc(n)
  \/ \E b \in given : free(b)
  \/ sbrk

USpec == UInit /\ [][UNext]_uvars

-----------------------------------------------------------------------------
(* Properties.                                                             *)

Units(a, n) == a..(a + n - 1)

\* Every unit of the heap is in one block, given out or free, and in no two:
\* splitting off the tail, joining and growing lose nothing.
UnitsAccounted ==
  ~endless => \A x \in 1..(brk - 1) :
    Cardinality({b \in given : x \in Units(b[1], b[2])})
    + Cardinality({a \in DOMAIN node : x \in Units(a, node[a].size)})
      = (IF x \in gaps THEN 0 ELSE 1)

\* The loops of malloc and free end, whatever freep is left at: the list is
\* one circle through all free blocks, rising but for one place, so that the
\* search in free finds the place of every block.
ListIsCircle ==
  /\ ~endless
  /\ freep # Nil =>
       /\ freep \in DOMAIN node
       /\ \A a \in DOMAIN node :
            LET above == {x \in DOMAIN node : x > a} IN
            node[a].ptr = IF above = {} THEN Base ELSE CHOOSE x \in above : \A y \in above : x <= y

\* Free blocks that touch have been joined.
Joined == ~endless => \A a \in DOMAIN node : a + node[a].size \notin DOMAIN node \/ a = Base

=============================================================================
