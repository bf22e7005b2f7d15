------------------------------- MODULE MCDir -------------------------------
(* Directories made and left by one process and removed by another.  Only   *)
(* the calls that matter for ".." are made.                                 *)
EXTENDS Dir, TLC

CONSTANTS p1, p2, a, b

Call(op, path) == [op |-> op, abs |-> FALSE, path |-> path, path2 |-> <<>>]
MCCalls == p1 :> {Call("mkdir", <<a>>), Call("mkdir", <<a, b>>), Call("chdir", <<a>>),
                  Call("chdir", <<b>>), Call("chdir", <<"..">>)}
           @@ p2 :> {Call("unlink", <<a, b>>), Call("unlink", <<a>>)}
=============================================================================
