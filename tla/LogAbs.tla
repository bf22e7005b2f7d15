------------------------------- MODULE LogAbs -------------------------------
(***************************************************************************)
(* What kernel/log.c promises its callers: the file system is a map from   *)
(* block numbers to contents; the writes of a system call between          *)
(* begin_op and end_op become durable together with those of every call    *)
(* it overlapped, at one instant at which no call is in progress; a crash  *)
(* takes the contents back to the last such instant.                       *)
(***************************************************************************)
CONSTANTS Proc,    \* processes that make file-system calls
          Block,   \* block numbers outside the log
          Value    \* block contents

VARIABLES mem,     \* contents as the system calls see them
          stable,  \* contents a crash would leave
          ops      \* processes between begin_op and end_op

vars == <<mem, stable, ops>>

Init ==
  /\ mem \in [Block -> Value]
  /\ stable = mem
  /\ ops = {}

Begin(p) ==
  /\ p \notin ops
  /\ ops' = ops \cup {p}
  /\ UNCHANGED <<mem, stable>>

Write(p, b, v) ==
  /\ p \in ops
  /\ mem' = [mem EXCEPT ![b] = v]
  /\ UNCHANGED <<stable, ops>>

End(p) ==
  /\ p \in ops
  /\ ops' = ops \ {p}
  /\ UNCHANGED <<mem, stable>>

\* Only complete calls become durable, and all of them at once.
Commit ==
  /\ ops = {}
  /\ stable' = mem
  /\ UNCHANGED <<mem, ops>>

Crash ==
  /\ mem' = stable
  /\ ops' = {}
  /\ UNCHANGED stable

Next ==
  \/ \E p \in Proc : Begin(p) \/ End(p)
  \/ \E p \in Proc, b \in Block, v \in Value : Write(p, b, v)
  \/ Commit
  \/ Crash

Spec == Init /\ [][Next]_vars
=============================================================================
