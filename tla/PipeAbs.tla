------------------------------ MODULE PipeAbs ------------------------------
(***************************************************************************)
(* What a pipe promises: a bounded first-in first-out queue of bytes with  *)
(* two ends, each open until it is closed for good.                        *)
(***************************************************************************)
EXTENDS Naturals, Sequences

CONSTANTS Byte, PIPESIZE

VARIABLES queue, ropen, wopen

vars == <<queue, ropen, wopen>>

Init == queue = <<>> /\ ropen = 0 /\ wopen = 0

Open ==
  /\ ropen = 0 /\ wopen = 0
  /\ queue' = <<>> /\ ropen' = 1 /\ wopen' = 1

\* Bytes go in only while a writer is there, and come out in order.
Put(ch) ==
  /\ wopen = 1 /\ Len(queue) < PIPESIZE
  /\ queue' = Append(queue, ch)
  /\ UNCHANGED <<ropen, wopen>>

Get ==
  /\ ropen = 1 /\ queue # <<>>
  /\ queue' = Tail(queue)
  /\ UNCHANGED <<ropen, wopen>>

\* The bytes left over go when both ends are closed.
CloseRead ==
  /\ ropen = 1 /\ ropen' = 0
  /\ queue' = IF wopen = 0 THEN <<>> ELSE queue
  /\ UNCHANGED wopen

CloseWrite ==
  /\ wopen = 1 /\ wopen' = 0
  /\ queue' = IF ropen = 0 THEN <<>> ELSE queue
  /\ UNCHANGED ropen

Next == Open \/ (\E ch \in Byte : Put(ch)) \/ Get \/ CloseRead \/ CloseWrite

Spec == Init /\ [][Next]_vars
=============================================================================
