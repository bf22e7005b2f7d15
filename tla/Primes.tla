------------------------------- MODULE Primes -------------------------------
(***************************************************************************)
(* user/primes.c: a sieve of processes joined by pipes.  The parent always *)
(* waits for a child to have written everything before it reads, so all a  *)
(* child writes has to fit in the pipe.                                    *)
(*                                                                         *)
(* An end of pipe k is <<k, "r">> or <<k, "w">>; a number is one unit of a *)
(* pipe.  pipe() is assumed to succeed, fork() is not.                     *)
(***************************************************************************)
EXTENDS Integers, Sequences, SequencesExt

CONSTANTS MaxNum,     \* 35: the numbers are 2..MaxNum
          PIPESIZE,   \* numbers that fit in a pipe
          NOFILE

VARIABLES
  fds,       \* fds[p][n]: the end or Tty that n stands for, or Closed
  pcs,       \* where each of "parent" and "child" is
  pipes,     \* pipes[k]: what pipe k holds
  pd,        \* fd[0], fd[1] of the innermost call
  previous, next,
  printed,   \* the numbers printed
  short      \* a fork failed

sivars == <<fds, pcs, pipes, pd, previous, next, printed, short>>

FD == 0..(NOFILE - 1)
Tty == <<0, "tty">>
Closed == <<0, "closed">>
AllClosed == [n \in FD |-> Closed]

SInit ==
  /\ fds = [parent |-> [n \in FD |-> IF n < 3 THEN Tty ELSE Closed], child |-> AllClosed]
  /\ pcs = [parent |-> "pipe", child |-> "none"]
  /\ pipes = <<>> /\ pd = <<0, 0>> /\ previous = 0 /\ next = 2
  /\ printed = <<>> /\ short = FALSE

\* Does a process have this end open?
OpenEnd(e) == \E p \in DOMAIN fds : \E n \in FD : fds[p][n] = e

\* The lowest descriptor that is not in use.
Lowest(f) == CHOOSE n \in FD : f[n] = Closed /\ \A m \in FD : f[m] = Closed => n <= m

\* Mutant: pd[0] and pd[1] stay open.
mapping_open(n, f) ==
  LET g == [f EXCEPT ![n] = Closed] IN [g EXCEPT ![Lowest(g)] = g[pd[n + 1]]]

\* close(n); dup(pd[n]); close(pd[0]); close(pd[1]).
mapping(n, f) ==
  LET g == [f EXCEPT ![n] = Closed]
      h == [g EXCEPT ![Lowest(g)] = g[pd[n + 1]]]
  IN [h EXCEPT ![pd[1]] = Closed, ![pd[2]] = Closed]

-----------------------------------------------------------------------------
(* The parent: main, and each primes() of the recursion.                   *)

pipe ==
  LET f == fds.parent  k == Len(pipes) + 1  a == Lowest(f)
      g == [f EXCEPT ![a] = <<k, "r">>]
  IN /\ pcs.parent = "pipe"
     /\ fds' = [fds EXCEPT !.parent = [g EXCEPT ![Lowest(g)] = <<k, "w">>]]
     /\ pd' = <<a, Lowest(g)>>
     /\ pipes' = Append(pipes, <<>>)
     /\ pcs' = [pcs EXCEPT !.parent = "fork"]
     /\ UNCHANGED <<previous, next, printed, short>>

\* The child has copies of the descriptors; without one, wait returns at once.
fork ==
  /\ pcs.parent = "fork"
  /\ \/ /\ pcs' = [parent |-> "wait", child |-> "map"]
        /\ fds' = [fds EXCEPT !.child = fds.parent]
        /\ UNCHANGED short
     \/ /\ pcs' = [pcs EXCEPT !.parent = "map"]
        /\ short' = TRUE
        /\ UNCHANGED fds
  /\ UNCHANGED <<pipes, pd, previous, next, printed>>

\* wait(NULL) returns: the child has exited.
wait ==
  /\ pcs.parent = "wait" /\ pcs.child = "none"
  /\ pcs' = [pcs EXCEPT !.parent = "map"]
  /\ UNCHANGED <<fds, pipes, pd, previous, next, printed, short>>

map_parent ==
  /\ pcs.parent = "map"
  /\ fds' = [fds EXCEPT !.parent = mapping(0, fds.parent)]
  /\ pcs' = [pcs EXCEPT !.parent = "read"]
  /\ UNCHANGED <<pipes, pd, previous, next, printed, short>>

\* Can read(0) return a number?  Does it return 0, the end of file?
Source(p) == fds[p][0][1]
HasNumber(p) == pipes[Source(p)] # <<>>
AtEnd(p) == ~HasNumber(p) /\ ~OpenEnd(<<Source(p), "w">>)

primes ==
  /\ pcs.parent = "read"
  /\ \/ /\ HasNumber("parent")
        /\ previous' = Head(pipes[Source("parent")])
        /\ printed' = Append(printed, previous')
        /\ pipes' = [pipes EXCEPT ![Source("parent")] = Tail(@)]
        /\ pcs' = [pcs EXCEPT !.parent = "pipe"]
        /\ UNCHANGED fds
     \/ /\ AtEnd("parent")
        /\ pcs' = [pcs EXCEPT !.parent = "exited"]
        /\ fds' = [fds EXCEPT !.parent = AllClosed]
        /\ UNCHANGED <<previous, printed, pipes>>
  /\ UNCHANGED <<pd, next, short>>

-----------------------------------------------------------------------------
(* The children: the first one generates, the others filter.               *)

map_child ==
  /\ pcs.child = "map"
  /\ fds' = [fds EXCEPT !.child = mapping(1, fds.child)]
  /\ pcs' = [pcs EXCEPT !.child = IF previous = 0 THEN "write" ELSE "read"]
  /\ UNCHANGED <<pipes, pd, previous, next, printed, short>>

exit_child ==
  /\ \/ pcs.child = "read" /\ AtEnd("child")
     \/ pcs.child = "write" /\ next > MaxNum
  /\ fds' = [fds EXCEPT !.child = AllClosed]
  /\ pcs' = [pcs EXCEPT !.child = "none"]
  /\ UNCHANGED <<pipes, pd, previous, next, printed, short>>

Passes(n) == n % previous # 0

read_child ==
  /\ pcs.child = "read" /\ HasNumber("child")
  /\ next' = Head(pipes[Source("child")])
  /\ pipes' = [pipes EXCEPT ![Source("child")] = Tail(@)]
  /\ pcs' = [pcs EXCEPT !.child = IF Passes(next') THEN "write" ELSE "read"]
  /\ UNCHANGED <<fds, pd, previous, printed, short>>

\* write(1) sleeps while the pipe is full.
CanWrite == next <= MaxNum /\ Len(pipes[fds.child[1][1]]) < PIPESIZE

write_child ==
  /\ pcs.child = "write" /\ CanWrite
  /\ pipes' = [pipes EXCEPT ![fds.child[1][1]] = Append(@, next)]
  /\ IF previous = 0 THEN next' = next + 1 /\ UNCHANGED pcs
     ELSE pcs' = [pcs EXCEPT !.child = "read"] /\ UNCHANGED next
  /\ UNCHANGED <<fds, pd, previous, printed, short>>

SNext == \/ pipe \/ fork \/ wait \/ map_parent \/ primes
         \/ map_child \/ exit_child \/ read_child \/ write_child
SSpec == SInit /\ [][SNext]_sivars

-----------------------------------------------------------------------------
(* Properties.                                                             *)

Prime(n) == \A d \in 2..(n - 1) : n % d # 0
AllPrimes == SelectSeq([i \in 1..(MaxNum - 1) |-> i + 1], Prime)

\* primes prints the primes and nothing else, in order, and has printed them
\* all when it exits, unless a fork failed.
PrintsPrimes ==
  /\ IsPrefix(printed, AllPrimes)
  /\ pcs.parent = "exited" /\ ~short => printed = AllPrimes

\* The two processes never both wait: no child is stopped by a full pipe
\* whose only reader waits for it, and nobody waits for an end of file that a
\* descriptor it holds itself keeps away.
NeverStuck ==
  \/ pcs.parent \in {"pipe", "fork", "map", "exited"}
  \/ pcs.parent = "wait" /\ pcs.child = "none"
  \/ pcs.parent = "read" /\ (HasNumber("parent") \/ AtEnd("parent"))
  \/ pcs.child = "map"
  \/ pcs.child = "read" /\ (HasNumber("child") \/ AtEnd("child"))
  \/ pcs.child = "write" /\ (CanWrite \/ next > MaxNum)
=============================================================================
