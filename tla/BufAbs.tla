------------------------------- MODULE BufAbs -------------------------------
(***************************************************************************)
(* What bio.c promises its callers: every block has one set of contents,   *)
(* and the process that bread gave a block to is the only one to use it    *)
(* until it calls brelse.                                                  *)
(***************************************************************************)
CONSTANTS Proc, Block, Value, Nobody

VARIABLES contents, \* of each block, wherever it is kept
          owner     \* of each block: the process that uses it, or Nobody

vars == <<contents, owner>>

Init == /\ contents \in [Block -> Value]
        /\ owner = [b \in Block |-> Nobody]

Acquire(p, b) == /\ owner[b] = Nobody
                 /\ \A c \in Block : owner[c] # p
                 /\ owner' = [owner EXCEPT ![b] = p]
                 /\ UNCHANGED contents

Write(p, b, v) == /\ owner[b] = p
                  /\ contents' = [contents EXCEPT ![b] = v]
                  /\ UNCHANGED owner

Release(p, b) == /\ owner[b] = p
                 /\ owner' = [owner EXCEPT ![b] = Nobody]
                 /\ UNCHANGED contents

Next == \E p \in Proc, b \in Block :
          \/ Acquire(p, b)
          \/ \E v \in Value : Write(p, b, v)
          \/ Release(p, b)

Spec == Init /\ [][Next]_vars
=============================================================================
