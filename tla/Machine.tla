------------------------------ MODULE Machine -------------------------------
(***************************************************************************)
(* The processes and harts that traps (Trap) and the clock (Clock) share.  *)
(***************************************************************************)
CONSTANTS Proc,  \* the processes
          Hart   \* the harts

=============================================================================
