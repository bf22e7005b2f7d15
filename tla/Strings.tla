------------------------------ MODULE Strings ------------------------------
(***************************************************************************)
(* The loops the kernel and its programs copy, compare and print with:     *)
(* memmove of kernel/string.c and of user/ulib.c, strncpy, safestrcpy and  *)
(* strncmp, and printint of kernel/printf.c and user/printf.c.             *)
(*                                                                         *)
(* Memory is N cells of small numbers; 0 ends a string.  An int has Width  *)
(* bits.  A behaviour is one call on some memory.                          *)
(***************************************************************************)
EXTENDS Integers, Sequences, SequencesExt

CONSTANTS N, Chars, Width, Bases

VARIABLES before, cells, did   \* memory before and after the call; the call

tvars == <<before, cells, did>>

Cell == 0..(N - 1)
Ints == (-(2^(Width - 1)))..(2^(Width - 1) - 1)
None == [fn |-> "none"]

TInit == before \in [Cell -> Chars] /\ cells = before /\ did = None

\* for i = 1, ..., n or n, ..., 1: d[i] = s[i].
Ups(n) == [i \in 1..n |-> i - 1]
Copies(m, d, s, is) == FoldLeft(LAMBDA x, i : [x EXCEPT ![d + i] = x[s + i]], m, is)

\* Mutant: a target that starts inside the source is not told apart.
kmemmove_up(m, d, s, n) == Copies(m, d, s, Ups(n))

kmemmove(m, d, s, n) == Copies(m, d, s, IF s < d /\ s + n > d THEN Reverse(Ups(n)) ELSE Ups(n))
umemmove(m, d, s, n) == Copies(m, d, s, IF s > d THEN Ups(n) ELSE Reverse(Ups(n)))

\* Where the string at t ends, if it does within n cells.
RECURSIVE Length(_, _, _)
Length(m, t, n) == IF n = 0 THEN 0 ELSE IF m[t] = 0 THEN 0 ELSE 1 + Length(m, t + 1, n - 1)

strncpy(m, s, t, n) ==
  LET len == Length(m, t, n)
  IN [i \in Cell |-> IF i \in s..(s + len - 1) THEN m[t + i - s]
                     ELSE IF i \in (s + len)..(s + n - 1) THEN 0 ELSE m[i]]

safestrcpy(m, s, t, n) ==
  LET len == Length(m, t, n - 1)
  IN IF n <= 0 THEN m
     ELSE [i \in Cell |-> IF i \in s..(s + len - 1) THEN m[t + i - s]
                          ELSE IF i = s + len THEN 0 ELSE m[i]]

RECURSIVE strncmp(_, _, _, _)
strncmp(m, p, q, n) ==
  IF n > 0 /\ m[p] # 0 /\ m[p] = m[q] THEN strncmp(m, p + 1, q + 1, n - 1)
  ELSE IF n = 0 THEN 0 ELSE m[p] - m[q]

\* x of printint: unsigned.
Magnitude(xx, sign) == (IF sign /\ xx < 0 THEN -xx ELSE xx) % 2^Width

\* The digits, the last one first.
RECURSIVE Digits(_, _)
Digits(x, base) == IF x < base THEN <<x>> ELSE <<x % base>> \o Digits(x \div base, base)

printint(xx, base, sign) ==
  [neg |-> sign /\ xx < 0, digits |-> Reverse(Digits(Magnitude(xx, sign), base))]

-----------------------------------------------------------------------------

Does(fn, d, s, n, m) == cells' = m /\ did' = [fn |-> fn, d |-> d, s |-> s, n |-> n]

TNext ==
  /\ did = None /\ UNCHANGED before
  /\ \/ \E n \in 1..N : \E d, s \in 0..(N - n) :
          \/ Does("kmemmove", d, s, n, kmemmove(cells, d, s, n))
          \/ Does("umemmove", d, s, n, umemmove(cells, d, s, n))
          \/ /\ d + n <= s \/ s + n <= d
             /\ \/ Does("strncpy", d, s, n, strncpy(cells, d, s, n))
                \/ Does("safestrcpy", d, s, n, safestrcpy(cells, d, s, n))
     \/ \E xx \in Ints, base \in Bases, sign \in BOOLEAN :
          cells' = cells /\ did' = [fn |-> "printint", d |-> xx, s |-> base, n |-> sign]

TSpec == TInit /\ [][TNext]_tvars

-----------------------------------------------------------------------------
(* Properties.                                                             *)

\* Both memmoves leave at the target what the source held before the call,
\* however the two overlap, and change nothing else.
MovesWhole ==
  did.fn \in {"kmemmove", "umemmove"} =>
    cells = [i \in Cell |-> IF i \in did.d..(did.d + did.n - 1) THEN before[did.s + i - did.d]
                            ELSE before[i]]

\* A name that was copied compares equal to its source within n, and differs
\* from nothing else: directory entries (strncpy, no end if the name is full)
\* and process names (safestrcpy, always ended, cut to fit) are in bounds.
NamesKept ==
  did.fn \in {"strncpy", "safestrcpy"} =>
    LET d == did.d  s == did.s  n == did.n  safe == did.fn = "safestrcpy" IN
    /\ \A i \in Cell \ (d..(d + n - 1)) : cells[i] = before[i]
    /\ safe => \E i \in d..(d + n - 1) : cells[i] = 0
    /\ strncmp(cells, d, s, IF safe THEN n - 1 ELSE n) = 0

\* What printint prints reads back as the number, the least int included; a
\* number printed without its sign is the unsigned one with the same bits.
PrintsNumber ==
  did.fn = "printint" =>
    LET p == printint(did.d, did.s, did.n)
        value == FoldLeft(LAMBDA v, x : v * did.s + x, 0, p.digits)
    IN (IF p.neg THEN -value ELSE value) = IF did.n THEN did.d ELSE did.d % 2^Width
=============================================================================
