-------------------------------- MODULE Pipe --------------------------------
(***************************************************************************)
(* A pipe (kernel/pipe.c) and the two struct files it hangs from (filedup, *)
(* fileclose and the FD_PIPE branches of fileread and filewrite in         *)
(* kernel/file.c), used by several processes that inherit its ends.        *)
(*                                                                         *)
(* pi->lock is a variable; what a process does under it is one step per    *)
(* byte, so that kill, which does not take it, can come in between.  sleep *)
(* and wakeup are modelled by what Sched shows of them.                    *)
(***************************************************************************)
EXTENDS Integers, FiniteSets

CONSTANTS Proc, Byte,
          Nobody,    \* no process
          PIPESIZE,
          CountMod,  \* 2^32 in the code: nread and nwrite are uints
          MaxN       \* bound on the n of a read or a write

ASSUME PipeAssumption ==
  /\ IsFiniteSet(Proc) /\ Nobody \notin Proc
  /\ PIPESIZE \in Nat \ {0}
  /\ CountMod \in Nat /\ CountMod > PIPESIZE /\ CountMod % PIPESIZE = 0
  /\ MaxN \in Nat

End == {"r", "w"}

VARIABLES
  alive,               \* 1 while the page of the struct pipe is allocated
  data, nread, nwrite, readopen, writeopen, lock, \* struct pipe
  ref,                 \* f->ref of the two struct files
  ends,                \* the ends each process has a descriptor for
  killed,              \* p->killed
  pc,                  \* where each process is
  left,                \* bytes its read or write has still to move
  eof,                 \* history: a read has returned 0 at the end of file
  cut                  \* history: a write was cut short by kill

pipe == <<alive, data, nread, nwrite, readopen, writeopen>>
files == <<ref, ends>>
hist == <<eof, cut>>
vars == <<pipe, lock, files, killed, pc, left, hist>>

Init ==
  /\ alive = 0
  /\ \E ch \in Byte : data = [i \in 0..(PIPESIZE - 1) |-> ch]
  /\ nread = 0 /\ nwrite = 0
  /\ readopen = 0 /\ writeopen = 0
  /\ lock = Nobody
  /\ ref = [e \in End |-> 0]
  /\ ends = [p \in Proc |-> {}]
  /\ killed = [p \in Proc |-> 0]
  /\ pc = [p \in Proc |-> "user"]
  /\ left = [p \in Proc |-> 0]
  /\ eof = 0 /\ cut = 0

\* Mutant: one byte too many fits.
FullLate == nwrite = (nread + PIPESIZE + 1) % CountMod

Full == nwrite = (nread + PIPESIZE) % CountMod
Empty == nread = nwrite

\* A killed process makes no calls but those of exit.
Calls(p) == pc[p] = "user" /\ killed[p] = 0

Goto(p, l) == pc' = [pc EXCEPT ![p] = l]

\* wakeup(&pi->nread) or wakeup(&pi->nwrite): every sleeper is on its way.
Wake(f, from, to) == [p \in Proc |-> IF f[p] = from THEN to ELSE f[p]]
WakeReaders(f) == Wake(f, "r_asleep", "r_woken")
WakeWriters(f) == Wake(f, "w_asleep", "w_woken")

-----------------------------------------------------------------------------
(* Descriptors.                                                            *)

\* sys_pipe.  When a struct file or the page cannot be had, what was
\* allocated is given back and nothing changes.
pipealloc(p) ==
  /\ Calls(p) /\ alive = 0 /\ ref = [e \in End |-> 0]
  /\ alive' = 1
  /\ nread' = 0 /\ nwrite' = 0
  /\ readopen' = 1 /\ writeopen' = 1
  /\ lock' = Nobody
  /\ ref' = [e \in End |-> 1]
  /\ ends' = [ends EXCEPT ![p] = End]
  /\ eof' = 0 /\ cut' = 0
  /\ UNCHANGED <<data, killed, pc, left>>

filedup(S) == [e \in End |-> IF e \in S THEN ref[e] + 1 ELSE ref[e]]

\* fork: the child, a process that has no descriptor yet, gets the parent's,
\* with a filedup each.
fork(p, q) ==
  /\ Calls(p) /\ ends[p] # {}
  /\ pc[q] = "user" /\ ends[q] = {}
  /\ ref' = filedup(ends[p])
  /\ ends' = [ends EXCEPT ![q] = ends[p]]
  /\ killed' = [killed EXCEPT ![q] = 0]
  /\ UNCHANGED <<pipe, lock, pc, left, hist>>

\* Mutant: every close is the last.
fileclose_any(p, e) ==
  /\ pc[p] = "user" /\ e \in ends[p]
  /\ ends' = [ends EXCEPT ![p] = @ \ {e}]
  /\ ref' = [ref EXCEPT ![e] = @ - 1]
  /\ Goto(p, IF e = "w" THEN "close_w" ELSE "close_r")
  /\ UNCHANGED <<pipe, lock, killed, left, hist>>

\* fileclose, from close or exit: the part under ftable.lock.
fileclose(p, e) ==
  /\ pc[p] = "user" /\ e \in ends[p]
  /\ ends' = [ends EXCEPT ![p] = @ \ {e}]
  /\ ref' = [ref EXCEPT ![e] = @ - 1]
  /\ IF ref[e] > 1 THEN UNCHANGED pc
     ELSE Goto(p, IF e = "w" THEN "close_w" ELSE "close_r")
  /\ UNCHANGED <<pipe, lock, killed, left, hist>>

\* Mutant: the page is freed as soon as one end is closed.
pipeclose_or(p) ==
  /\ pc[p] \in {"close_r", "close_w"} /\ lock = Nobody
  /\ readopen' = IF pc[p] = "close_r" THEN 0 ELSE readopen
  /\ writeopen' = IF pc[p] = "close_w" THEN 0 ELSE writeopen
  /\ alive' = 0
  /\ pc' = LET f == [pc EXCEPT ![p] = "user"]
           IN IF pc[p] = "close_w" THEN WakeReaders(f) ELSE WakeWriters(f)
  /\ UNCHANGED <<data, nread, nwrite, lock, files, killed, left, hist>>

\* pipeclose: all of it runs under pi->lock, but for kfree, which only the
\* second closer reaches.
pipeclose(p) ==
  /\ pc[p] \in {"close_r", "close_w"} /\ lock = Nobody
  /\ LET r == IF pc[p] = "close_r" THEN 0 ELSE readopen
         w == IF pc[p] = "close_w" THEN 0 ELSE writeopen
     IN /\ readopen' = r
        /\ writeopen' = w
        /\ alive' = IF r = 0 /\ w = 0 THEN 0 ELSE alive
  /\ pc' = LET f == [pc EXCEPT ![p] = "user"]
           IN IF pc[p] = "close_w" THEN WakeReaders(f) ELSE WakeWriters(f)
  /\ UNCHANGED <<data, nread, nwrite, lock, files, killed, left, hist>>

\* kill, for a process that uses the pipe.
kill(q) ==
  /\ ends[q] # {} /\ killed[q] = 0
  /\ killed' = [killed EXCEPT ![q] = 1]
  /\ pc' = [pc EXCEPT ![q] = WakeReaders(WakeWriters(pc))[q]]
  /\ UNCHANGED <<pipe, lock, files, left, hist>>

-----------------------------------------------------------------------------
(* pipewrite.                                                              *)

pipewrite(p, n) ==
  /\ Calls(p) /\ "w" \in ends[p] /\ lock = Nobody
  /\ lock' = p
  /\ left' = [left EXCEPT ![p] = n]
  /\ Goto(p, "w_loop")
  /\ UNCHANGED <<pipe, files, killed, hist>>

\* Return, with or without the wakeup of readers.
Return(p, f) ==
  /\ pc' = [f EXCEPT ![p] = "user"]
  /\ left' = [left EXCEPT ![p] = 0]
  /\ lock' = Nobody

\* The pipe is full: give up, or wake the readers and prepare to sleep.
pipewrite_full(p) ==
  /\ pc[p] = "w_loop" /\ left[p] > 0 /\ Full
  /\ IF readopen = 0 \/ killed[p] = 1
     THEN /\ Return(p, pc)
          /\ cut' = IF readopen = 1 THEN 1 ELSE cut
     ELSE /\ pc' = [WakeReaders(pc) EXCEPT ![p] = "w_sleep"]
          /\ UNCHANGED <<left, lock, cut>>
  /\ UNCHANGED <<pipe, files, killed, eof>>

\* One byte; the loop ends early when copyin fails.
pipewrite_byte(p, ch) ==
  /\ pc[p] = "w_loop" /\ left[p] > 0 /\ ~Full
  /\ data' = [data EXCEPT ![nwrite % PIPESIZE] = ch]
  /\ nwrite' = (nwrite + 1) % CountMod
  /\ left' = [left EXCEPT ![p] = @ - 1]
  /\ UNCHANGED <<alive, nread, readopen, writeopen, lock, files, killed, pc, hist>>

\* Mutant: no wakeup(&pi->nread) at the end.
pipewrite_done_silent(p) ==
  /\ pc[p] = "w_loop" /\ (left[p] = 0 \/ ~Full)
  /\ Return(p, pc)
  /\ UNCHANGED <<pipe, files, killed, hist>>

pipewrite_done(p) ==
  /\ pc[p] = "w_loop" /\ (left[p] = 0 \/ ~Full)
  /\ Return(p, WakeReaders(pc))
  /\ UNCHANGED <<pipe, files, killed, hist>>

-----------------------------------------------------------------------------
(* piperead.                                                               *)

piperead(p, n) ==
  /\ Calls(p) /\ "r" \in ends[p] /\ lock = Nobody
  /\ lock' = p
  /\ left' = [left EXCEPT ![p] = n]
  /\ Goto(p, "r_wait")
  /\ UNCHANGED <<pipe, files, killed, hist>>

\* Mutant: an empty pipe is taken for the end of file.
piperead_nowait(p) ==
  /\ pc[p] = "r_wait"
  /\ Goto(p, "r_loop")
  /\ eof' = IF Empty /\ left[p] > 0 THEN 1 ELSE eof
  /\ UNCHANGED <<pipe, lock, files, killed, left, cut>>

piperead_wait(p) ==
  /\ pc[p] = "r_wait"
  /\ IF Empty /\ writeopen = 1
     THEN IF killed[p] = 1
          THEN Return(p, pc)
          ELSE Goto(p, "r_sleep") /\ UNCHANGED <<left, lock>>
     ELSE Goto(p, "r_loop") /\ UNCHANGED <<left, lock>>
  /\ eof' = IF Empty /\ writeopen = 0 /\ left[p] > 0 THEN 1 ELSE eof
  /\ UNCHANGED <<pipe, files, killed, cut>>

\* One byte; it is gone from the pipe when copyout fails, too.
piperead_byte(p) ==
  /\ pc[p] = "r_loop" /\ left[p] > 0 /\ ~Empty
  /\ nread' = (nread + 1) % CountMod
  /\ \/ left' = [left EXCEPT ![p] = @ - 1]
     \/ left' = [left EXCEPT ![p] = 0]
  /\ UNCHANGED <<alive, data, nwrite, readopen, writeopen, lock, files, killed, pc, hist>>

piperead_done(p) ==
  /\ pc[p] = "r_loop" /\ (left[p] = 0 \/ Empty)
  /\ Return(p, WakeWriters(pc))
  /\ UNCHANGED <<pipe, files, killed, hist>>

-----------------------------------------------------------------------------
\* sleep(chan, &pi->lock): released and asleep in one go, and after the
\* wakeup the lock again.
sleep(p) ==
  /\ pc[p] \in {"r_sleep", "w_sleep"}
  /\ Goto(p, IF pc[p] = "r_sleep" THEN "r_asleep" ELSE "w_asleep")
  /\ lock' = Nobody
  /\ UNCHANGED <<pipe, files, killed, left, hist>>

sleep_return(p) ==
  /\ pc[p] \in {"r_woken", "w_woken"} /\ lock = Nobody
  /\ Goto(p, IF pc[p] = "r_woken" THEN "r_wait" ELSE "w_loop")
  /\ lock' = p
  /\ UNCHANGED <<pipe, files, killed, left, hist>>

-----------------------------------------------------------------------------
\* What a process inside the kernel does next ...
InKernel(p) ==
  \/ pipeclose(p)
  \/ pipewrite_full(p) \/ (\E ch \in Byte : pipewrite_byte(p, ch)) \/ pipewrite_done(p)
  \/ piperead_wait(p) \/ piperead_byte(p) \/ piperead_done(p)
  \/ sleep(p) \/ sleep_return(p)

\* ... and the calls it may make.
Call(p) ==
  \/ pipealloc(p)
  \/ \E q \in Proc : fork(p, q)
  \/ \E e \in End : fileclose(p, e)
  \/ \E n \in 0..MaxN : pipewrite(p, n) \/ piperead(p, n)

Next == \E p \in Proc : InKernel(p) \/ Call(p) \/ kill(p)

Spec == Init /\ [][Next]_vars

-----------------------------------------------------------------------------
(* Properties.                                                             *)

\* The fields of struct pipe keep their types: both counters are unsigned and
\* wrap.
TypeOK ==
  /\ alive \in {0, 1} /\ readopen \in {0, 1} /\ writeopen \in {0, 1}
  /\ eof \in {0, 1} /\ cut \in {0, 1}
  /\ data \in [0..(PIPESIZE - 1) -> Byte]
  /\ nread \in 0..(CountMod - 1) /\ nwrite \in 0..(CountMod - 1)
  /\ lock \in Proc \cup {Nobody}
  /\ ref \in [End -> 0..Cardinality(Proc)]
  /\ ends \in [Proc -> SUBSET End]
  /\ killed \in [Proc -> {0, 1}]
  /\ pc \in [Proc -> {"user", "close_r", "close_w", "w_loop", "w_sleep", "w_asleep",
                      "w_woken", "r_wait", "r_loop", "r_sleep", "r_asleep", "r_woken"}]
  /\ left \in [Proc -> 0..MaxN]

\* The page of a pipe is there for whoever can reach it, and freed once: no
\* process is in piperead, pipewrite or pipeclose, and none has a descriptor,
\* once it is given back.
NotFreedInUse ==
  alive = 0 => \A p \in Proc : pc[p] = "user" /\ ends[p] = {}

\* f->ref counts the descriptors, and an end is open exactly until its last
\* descriptor is gone and pipeclose has run.
OpenUntilLastClose ==
  /\ \A e \in End : ref[e] = Cardinality({p \in Proc : e \in ends[p]})
  /\ readopen = 0 <=> ref["r"] = 0 /\ \A p \in Proc : pc[p] # "close_r"
  /\ writeopen = 0 <=> ref["w"] = 0 /\ \A p \in Proc : pc[p] # "close_w"

\* No wakeup is lost: whenever pi->lock is free, a reader is asleep only
\* beside an empty pipe that can still be written, a writer only beside a
\* full one that can still be read.  The one exception: a writer that kill
\* stops at a full pipe returns without the wakeup of the readers.
SleepsOnlyIfBlocked ==
  lock = Nobody =>
    \A p \in Proc : /\ pc[p] = "r_asleep" => writeopen = 1 /\ (Empty \/ cut = 1)
                    /\ pc[p] = "w_asleep" => Full /\ readopen = 1

\* End of file is final: when a read has returned 0 for it, all that was
\* written has been read and no byte can follow.
EofIsFinal == eof = 1 => Empty /\ writeopen = 0

\* A pipe is the bounded queue of PipeAbs, past the wrap-around of nread and
\* nwrite too.
Count == (nwrite - nread) % CountMod
Queue == IF alive = 0 THEN <<>>
         ELSE [i \in 1..Count |-> data[(nread + i - 1) % PIPESIZE]]
Abs == INSTANCE PipeAbs WITH queue <- Queue, ropen <- readopen, wopen <- writeopen

ImplementsAbs == Abs!Spec

-----------------------------------------------------------------------------
\* A process inside the kernel goes on; one that spins for pi->lock gets it.
FairSpec == Spec /\ \A p \in Proc : SF_vars(InKernel(p))

\* A call on a pipe whose other end has been closed for good returns.
Deserted(p) ==
  \/ pc[p] \in {"r_wait", "r_sleep", "r_asleep", "r_woken"} /\ writeopen = 0
  \/ pc[p] \in {"w_loop", "w_sleep", "w_asleep", "w_woken"} /\ readopen = 0
CallsReturn == \A p \in Proc : Deserted(p) ~> (pc[p] = "user")
=============================================================================
