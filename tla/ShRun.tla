------------------------------- MODULE ShRun -------------------------------
(***************************************************************************)
(* What the shell does with a command (user/sh.c, main and runcmd): the    *)
(* tree of processes it forks, and the file descriptors they hold.  Slot 1 *)
(* is the shell.  A process runs its own calls on its own descriptors, so  *)
(* one action takes it from one fork, wait or exec to the next.            *)
(***************************************************************************)
EXTENDS Integers, Sequences, FiniteSets
LOCAL INSTANCE FiniteSetsExt

\* Lines: the commands typed.  NPROC slots, NOFILE descriptors, NPIPE pipes.
CONSTANTS Lines, NPROC, NOFILE, NPIPE

\* starved: a fork has failed (for the properties).
VARIABLES procs, starved
rvars == <<procs, starved>>

Slot == 1..NPROC
Fd == 0..(NOFILE - 1)
\* What a descriptor refers to.
Closed == <<"none", 0>>
Console == <<"console", 0>>
File == <<"file", 0>>
ReadEnd(k) == <<"r", k>>
WriteEnd(k) == <<"w", k>>

NoCmd == <<"none">>
Unused == [at |-> "unused", cmd |-> NoCmd, fds |-> [f \in Fd |-> Closed], parent |-> 0,
         pipe |-> <<0, 0>>, want |-> <<Closed, Closed>>, bg |-> FALSE]
Shell == [Unused EXCEPT !.at = "getcmd", !.fds = [f \in Fd |-> IF f < 3 THEN Console ELSE Closed],
                      !.want = <<Console, Console>>]

RInit == procs = [x \in Slot |-> IF x = 1 THEN Shell ELSE Unused] /\ starved = FALSE

-----------------------------------------------------------------------------
(* System calls.                                                           *)

Live == {x \in Slot : procs[x].at \notin {"unused", "zombie"}}
Held(end) == \E x \in Live : end \in {procs[x].fds[f] : f \in Fd}

\* close, and open or dup: the lowest descriptor that is free.
close(fds, f) == [fds EXCEPT ![f] = Closed]
Lowest(fds) == {f \in Fd : fds[f] = Closed /\ \A g \in 0..(f - 1) : fds[g] # Closed}
open(fds, o) == [f \in Fd |-> IF f \in Lowest(fds) THEN o ELSE fds[f]]
dup(fds, f) == open(fds, fds[f])

\* exit: the descriptors are closed, the children go to init, and the slot is
\* a zombie until its parent waits, or free when that parent is init.
exit(x) ==
  procs' = [y \in Slot |->
    CASE y = x -> IF procs[x].parent = 0 THEN Unused ELSE [Unused EXCEPT !.at = "zombie", !.parent = procs[x].parent]
      [] y # x /\ procs[y].parent = x -> IF procs[y].at = "zombie" THEN Unused ELSE [procs[y] EXCEPT !.parent = 0]
      [] OTHER -> procs[y]]

\* fork1: the child goes on with cmd; without a free slot the caller panics.
fork1(x, at, child) ==
  LET free == {y \in Slot : procs[y].at = "unused"} IN
  IF free = {} THEN exit(x) /\ starved' = TRUE
  ELSE procs' = [procs EXCEPT ![x].at = at, ![Min(free)] = [child EXCEPT !.parent = x]] /\ UNCHANGED starved

Child(x, at, cmd) == [procs[x] EXCEPT !.at = at, !.cmd = cmd]

\* wait: reaps a zombie child; with no children it returns at once.
Children(x) == {y \in Slot : procs[y].parent = x /\ procs[y].at # "unused"}
wait(x, next) ==
  \/ \E y \in Children(x) : procs[y].at = "zombie" /\ procs' = [procs EXCEPT ![x] = next, ![y] = Unused]
  \/ Children(x) = {} /\ procs' = [procs EXCEPT ![x] = next]

-----------------------------------------------------------------------------
(* main and runcmd.                                                        *)

At(x, at) == procs[x].at = at
Runs(x, kind) == procs[x].at = "run" /\ procs[x].cmd[1] = kind

getcmd == At(1, "getcmd") /\ \E c \in Lines : fork1(1, "wait", Child(1, "run", c))
eof == At(1, "getcmd") /\ exit(1) /\ UNCHANGED starved
main_wait == At(1, "wait") /\ wait(1, [procs[1] EXCEPT !.at = "getcmd"]) /\ UNCHANGED starved

\* An empty command exits; exec may fail, and then the shell's child exits.
run_exec(x) ==
  /\ Runs(x, "exec")
  /\ \/ exit(x)
     \/ procs[x].cmd[2] # "" /\ procs' = [procs EXCEPT ![x].at = "program"]

run_redir(x) ==
  /\ Runs(x, "redir")
  /\ LET f == procs[x].cmd[3] IN
     \/ exit(x)
     \/ procs' = [procs EXCEPT ![x].fds = open(close(@, f), File), ![x].cmd = procs[x].cmd[2],
                               ![x].want[f + 1] = File]

run_list(x) == Runs(x, "list") /\ fork1(x, "list_wait", Child(x, "run", procs[x].cmd[2]))
list_wait(x) == At(x, "list_wait") /\ wait(x, Child(x, "run", procs[x].cmd[3]))

run_back(x) == Runs(x, "back") /\ fork1(x, "done", [Child(x, "run", procs[x].cmd[2]) EXCEPT !.bg = TRUE])

\* pipe: the two lowest free descriptors, read end first.
run_pipe(x) ==
  /\ Runs(x, "pipe")
  /\ LET ks == {k \in 1..NPIPE : ~Held(ReadEnd(k)) /\ ~Held(WriteEnd(k))}
         k == Min(ks)
         r == Lowest(procs[x].fds)
         w == Lowest(open(procs[x].fds, ReadEnd(k)))
     IN IF ks = {} \/ r = {} \/ w = {} THEN exit(x)
        ELSE procs' = [procs EXCEPT ![x].at = "pipe_left", ![x].pipe = <<Min(r), Min(w)>>,
                                    ![x].fds = open(open(@, ReadEnd(k)), WriteEnd(k))]

\* Mutant: the child keeps the end of the pipe that is not its own.
Connect_half(fds, p, i, f) == close(dup(close(fds, f), p[i]), p[i])

\* A child of the pipe: end p[i] becomes descriptor f, and both are closed.
Connect(fds, p, i, f) == close(close(dup(close(fds, f), p[i]), p[1]), p[2])

PipeChild(x, side, i, f) ==
  LET q == procs[x] IN
  [Child(x, "run", q.cmd[side]) EXCEPT !.fds = Connect(q.fds, q.pipe, i, f),
                                       !.want[f + 1] = q.fds[q.pipe[i]], !.pipe = <<0, 0>>]
pipe_left(x) == At(x, "pipe_left") /\ fork1(x, "pipe_right", PipeChild(x, 2, 2, 1))
pipe_right(x) == At(x, "pipe_right") /\ fork1(x, "pipe_close", PipeChild(x, 3, 1, 0))

pipe_close(x) ==
  /\ At(x, "pipe_close")
  /\ LET p == procs[x].pipe IN
     procs' = [procs EXCEPT ![x].at = "pipe_wait", ![x].fds = close(close(@, p[1]), p[2]), ![x].pipe = <<0, 0>>]
pipe_wait(x) == At(x, "pipe_wait") /\ wait(x, [procs[x] EXCEPT !.at = "pipe_wait2"])
pipe_wait2(x) == At(x, "pipe_wait2") /\ wait(x, [procs[x] EXCEPT !.at = "done"])

done(x) == At(x, "done") /\ exit(x)

\* The programs: "cat" reads its input to the end, "yes" writes until nobody
\* can read, "true" exits.
program(x) ==
  LET q == procs[x] IN
  /\ At(x, "program")
  /\ q.cmd[2] = "cat" /\ q.fds[0][1] = "r" => ~Held(WriteEnd(q.fds[0][2]))
  /\ q.cmd[2] = "yes" /\ q.fds[1][1] = "w" => ~Held(ReadEnd(q.fds[1][2]))
  /\ exit(x)

Step(x) ==
  \/ run_list(x) \/ run_back(x) \/ pipe_left(x) \/ pipe_right(x)
  \/ /\ \/ run_exec(x) \/ run_redir(x) \/ list_wait(x) \/ run_pipe(x)
        \/ pipe_close(x) \/ pipe_wait(x) \/ pipe_wait2(x) \/ done(x) \/ program(x)
     /\ UNCHANGED starved
RNext == getcmd \/ eof \/ main_wait \/ \E x \in Slot : Step(x)
RSpec == RInit /\ [][RNext]_rvars

\* The kernel runs every process that can run.
RFairness == WF_rvars(main_wait) /\ \A x \in Slot : WF_rvars(Step(x))

-----------------------------------------------------------------------------
(* Properties.                                                             *)

\* A program starts with exactly descriptors 0, 1 and 2, and 0 and 1 are what
\* the command line says: close, dup and open rely on the lowest free
\* descriptor, and every end of a pipe that is not used has been closed.
StdioConnected ==
  \A x \in Slot : At(x, "program") =>
    LET q == procs[x] IN
    /\ q.fds[0] = q.want[1] /\ q.fds[1] = q.want[2] /\ q.fds[2] = Console
    /\ \A f \in Fd : f > 2 => q.fds[f] = Closed

\* When the shell prompts again, every process of the command has ended, but
\* for those started with & ; only a command that could not fork one of its
\* parts leaves the others behind.
PromptMeansDone ==
  At(1, "getcmd") /\ ~starved => \A x \in Live \ {1} : procs[x].bg

\* A waiting shell keeps no descriptor that pipe returned to it (those above
\* 2): with a write end open a reader would not see the end of its input, and
\* with a read end a writer not that nobody reads.  What the shell itself has
\* as its input and output may be a pipe.
WaitersHoldNoPipe ==
  \A x \in Slot : procs[x].at \in {"wait", "list_wait", "pipe_wait", "pipe_wait2"} =>
    \A f \in Fd : f > 2 => procs[x].fds[f] = Closed

\* Every command line ends, and the shell prompts again, or has exited for
\* want of a process.
CommandsEnd == At(1, "wait") ~> ~At(1, "wait")

=============================================================================
