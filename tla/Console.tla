------------------------------ MODULE Console ------------------------------
(***************************************************************************)
(* The console: the line discipline of kernel/console.c fed by the UART's  *)
(* receive interrupt (uartintr in kernel/uart.c), with processes that read *)
(* and write it.                                                           *)
(*                                                                         *)
(* A character is its class: "x" is any ordinary one.  cons.lock is a      *)
(* variable; the loops of consoleread and consolewrite take one step per   *)
(* character under it, so that kill, which does not take it, can come in   *)
(* between.  cons.buf is kept for the live indices r..e only.              *)
(***************************************************************************)
EXTENDS Integers, Sequences, FiniteSets

CONSTANTS Proc,
          Nobody,     \* no process
          INPUT_BUF,
          CountMod,   \* 2^32 in the code: r, w and e are uints
          FIFO,       \* characters the UART holds
          MaxN        \* bound on the n of a read or a write

Key == {"x", "nl", "cr", "eof", "erase", "kill", "dump", "nul"}
Dead == "dead"  \* a cell outside r..e

\* Of the constants: a cell has the same index before and after the uints wrap
\* around (128 divides 2^32), and they tell a full buffer from an empty one.
ConsoleAssumption ==
  /\ INPUT_BUF \in Nat \ {0} /\ CountMod \in Nat \ {0}
  /\ CountMod % INPUT_BUF = 0 /\ INPUT_BUF < CountMod
  /\ Nobody \notin Proc

VARIABLES
  buf, r, w, e,   \* cons
  clock,          \* cons.lock
  rx, thr,        \* the UART: received characters; the transmitter is busy
  cpc, left, got, \* where a process is, its n, target - n
  ckilled,        \* p->killed
  owed            \* history: ^D accepted and not yet reported to a reader

cons == <<buf, r, w, e>>
uart == <<rx, thr>>
reader == <<cpc, left, got>>
cvars == <<cons, clock, uart, reader, ckilled, owed>>

\* consoleinit.
CInit ==
  /\ buf = [i \in 0..(INPUT_BUF - 1) |-> Dead]
  /\ r = 0 /\ w = 0 /\ e = 0
  /\ clock = Nobody
  /\ rx = <<>> /\ thr = 0
  /\ cpc = [p \in Proc |-> "user"]
  /\ left = [p \in Proc |-> 0] /\ got = [p \in Proc |-> 0]
  /\ ckilled = [p \in Proc |-> 0]
  /\ owed = 0

\* Unsigned differences of two indices.
Minus(i, j) == (i - j + CountMod) % CountMod
Plus(i) == (i + 1) % CountMod
Cell(i) == buf[i % INPUT_BUF]
\* The cells from index i up to index j.
Cells(i, j) == {((i + k) % CountMod) % INPUT_BUF : k \in 0..(Minus(j, i) - 1)}
CGoto(p, l) == cpc' = [cpc EXCEPT ![p] = l]

\* wakeup(&cons.r).
WakeReaders(f) == [p \in Proc |-> IF f[p] = "r_asleep" THEN "r_woken" ELSE f[p]]

-----------------------------------------------------------------------------
(* The UART (external): a key arrives, a character has been sent.          *)

type(k) ==
  /\ Len(rx) < FIFO
  /\ rx' = Append(rx, k)
  /\ UNCHANGED <<cons, clock, thr, reader, ckilled, owed>>

transmit ==
  /\ thr = 1
  /\ thr' = 0
  /\ UNCHANGED <<cons, clock, rx, reader, ckilled, owed>>

\* uartputc waits for the transmitter.
uartputc == thr = 0 /\ thr' = 1

\* consputc: the character, or for BACKSPACE three of them, sent as one.
consputc == uartputc

-----------------------------------------------------------------------------
(* consoleintr, for the next character uartgetc returns.                   *)

\* ^P prints the process list, NUL and a character too many are dropped: no
\* change of cons.
intr_ignored(k) ==
  /\ k \in {"dump", "nul"} \/ (k \in {"x", "nl", "cr", "eof"} /\ Minus(e, r) >= INPUT_BUF)
  /\ UNCHANGED <<cons, thr, cpc, owed>>

\* ^U: back to w, or to just after a newline.
KillTo == CHOOSE i \in {(w + k) % CountMod : k \in 0..Minus(e, w)} :
            /\ i = w \/ Cell((i + CountMod - 1) % CountMod) = "nl"
            /\ \A k \in 1..Minus(e, i) : Cell((i + k - 1) % CountMod) # "nl"

EraseTo(k) == IF e = w THEN e
              ELSE IF k = "kill" THEN KillTo ELSE (e + CountMod - 1) % CountMod

\* ^U and ^H: nothing to erase, or e moves back with an echo.
intr_erase(k) ==
  /\ k \in {"kill", "erase"}
  /\ LET to == EraseTo(k)
     IN /\ e' = to
        /\ buf' = [i \in DOMAIN buf |-> IF i \in Cells(to, e) THEN Dead ELSE buf[i]]
        /\ IF to = e THEN UNCHANGED thr ELSE consputc
  /\ UNCHANGED <<r, w, cpc, owed>>

Commits(c) == c \in {"nl", "eof"} \/ Plus(e) = (r + INPUT_BUF) % CountMod

\* Any other character is echoed and stored; a whole line, ^D or a full
\* buffer goes to the readers.
intr_store(k) ==
  /\ k \in {"x", "nl", "cr", "eof"} /\ Minus(e, r) < INPUT_BUF
  /\ LET c == IF k = "cr" THEN "nl" ELSE k
     IN /\ consputc
        /\ buf' = [buf EXCEPT ![e % INPUT_BUF] = c]
        /\ e' = Plus(e)
        /\ owed' = IF c = "eof" THEN owed + 1 ELSE owed
        /\ IF Commits(c)
           THEN w' = Plus(e) /\ cpc' = WakeReaders(cpc)
           ELSE UNCHANGED <<w, cpc>>
  /\ UNCHANGED r

\* uartintr's loop: a character a step, cons.lock taken and released.
consoleintr ==
  /\ rx # <<>> /\ clock = Nobody
  /\ rx' = Tail(rx)
  /\ intr_ignored(Head(rx)) \/ intr_erase(Head(rx)) \/ intr_store(Head(rx))
  /\ UNCHANGED <<clock, left, got, ckilled>>

-----------------------------------------------------------------------------
(* consoleread.                                                            *)

consoleread(p, n) ==
  /\ cpc[p] = "user" /\ ckilled[p] = 0 /\ clock = Nobody
  /\ clock' = p
  /\ left' = [left EXCEPT ![p] = n]
  /\ CGoto(p, "r_loop")
  /\ UNCHANGED <<cons, uart, got, ckilled, owed>>

\* Release and return; the locals are forgotten.
CReturn(p) ==
  /\ clock' = Nobody
  /\ left' = [left EXCEPT ![p] = 0]
  /\ got' = [got EXCEPT ![p] = 0]
  /\ CGoto(p, "user")

\* Nothing to read: return -1 if killed, else sleep.  kill does not take
\* cons.lock, so that it may come between this test and the sleep.
read_wait(p) ==
  /\ cpc[p] = "r_loop" /\ left[p] > 0 /\ r = w
  /\ IF ckilled[p] = 1 THEN CReturn(p)
     ELSE CGoto(p, "r_sleep") /\ UNCHANGED <<clock, left, got>>
  /\ UNCHANGED <<cons, uart, ckilled, owed>>

\* sleep(&cons.r, &cons.lock).
read_sleep(p) ==
  /\ cpc[p] = "r_sleep"
  /\ clock' = Nobody
  /\ CGoto(p, "r_asleep")
  /\ UNCHANGED <<cons, uart, left, got, ckilled, owed>>

read_woken(p) ==
  /\ cpc[p] = "r_woken" /\ clock = Nobody
  /\ clock' = p
  /\ CGoto(p, "r_loop")
  /\ UNCHANGED <<cons, uart, left, got, ckilled, owed>>

read_full(p) ==
  /\ cpc[p] = "r_loop" /\ left[p] = 0
  /\ CReturn(p)
  /\ UNCHANGED <<cons, uart, ckilled, owed>>

Consume == r' = Plus(r) /\ buf' = [buf EXCEPT ![r % INPUT_BUF] = Dead]

\* Mutant: ^D is used up by a read that has data to return.
read_eof_lost(p) ==
  /\ cpc[p] = "r_loop" /\ left[p] > 0 /\ r # w /\ Cell(r) = "eof"
  /\ Consume
  /\ owed' = IF got[p] > 0 THEN owed ELSE owed - 1
  /\ CReturn(p)
  /\ UNCHANGED <<w, e, uart, ckilled>>

\* ^D ends the read; if it has data already, ^D stays for the next one.
read_eof(p) ==
  /\ cpc[p] = "r_loop" /\ left[p] > 0 /\ r # w /\ Cell(r) = "eof"
  /\ IF got[p] > 0 THEN UNCHANGED <<r, buf, owed>> ELSE Consume /\ owed' = owed - 1
  /\ CReturn(p)
  /\ UNCHANGED <<w, e, uart, ckilled>>

\* A byte; copyout can fail, which ends the read like a newline does.
read_char(p, copied) ==
  /\ cpc[p] = "r_loop" /\ left[p] > 0 /\ r # w /\ Cell(r) # "eof"
  /\ Consume
  /\ IF ~copied \/ Cell(r) = "nl" THEN CReturn(p)
     ELSE /\ left' = [left EXCEPT ![p] = @ - 1]
          /\ got' = [got EXCEPT ![p] = 1]
          /\ UNCHANGED <<clock, cpc>>
  /\ UNCHANGED <<w, e, uart, ckilled, owed>>

-----------------------------------------------------------------------------
(* consolewrite, which keeps cons.lock for the whole of it.                *)

consolewrite(p, n) ==
  /\ cpc[p] = "user" /\ ckilled[p] = 0 /\ clock = Nobody
  /\ clock' = p
  /\ left' = [left EXCEPT ![p] = n]
  /\ CGoto(p, "w_loop")
  /\ UNCHANGED <<cons, uart, got, ckilled, owed>>

write_char(p) ==
  /\ cpc[p] = "w_loop" /\ left[p] > 0
  /\ consputc
  /\ left' = [left EXCEPT ![p] = @ - 1]
  /\ UNCHANGED <<cons, clock, rx, cpc, got, ckilled, owed>>

\* All is written, or copyin failed.
write_end(p) ==
  /\ cpc[p] = "w_loop"
  /\ CReturn(p)
  /\ UNCHANGED <<cons, uart, ckilled, owed>>

\* kill; the process exits on its way back to user space, and its slot is
\* used again.
ckill(p) ==
  /\ ckilled[p] = 0
  /\ ckilled' = [ckilled EXCEPT ![p] = 1]
  /\ cpc' = [cpc EXCEPT ![p] = IF @ = "r_asleep" THEN "r_woken" ELSE @]
  /\ UNCHANGED <<cons, clock, uart, left, got, owed>>

cexit(p) ==
  /\ cpc[p] = "user" /\ ckilled[p] = 1
  /\ ckilled' = [ckilled EXCEPT ![p] = 0]
  /\ UNCHANGED <<cons, clock, uart, reader, owed>>

Reads(p) == \/ read_wait(p) \/ read_sleep(p) \/ read_woken(p) \/ read_full(p) \/ read_eof(p)
            \/ \E copied \in BOOLEAN : read_char(p, copied)
Writes(p) == write_char(p) \/ write_end(p)

CNext ==
  \/ \E k \in Key : type(k)
  \/ transmit \/ consoleintr
  \/ \E p \in Proc : \/ Reads(p) \/ Writes(p) \/ ckill(p) \/ cexit(p)
                     \/ \E n \in 0..MaxN : consoleread(p, n) \/ consolewrite(p, n)

CSpec == CInit /\ [][CNext]_cvars

CFairness ==
  /\ WF_cvars(transmit) /\ SF_cvars(consoleintr)
  /\ \A p \in Proc : SF_cvars(Reads(p)) /\ SF_cvars(Writes(p))

-----------------------------------------------------------------------------
(* Properties.                                                             *)

\* r, w and e stay in this order, a buffer apart at most, through the
\* wrap-around of the three uints, and exactly the cells between r and e hold
\* characters.
RingInOrder ==
  /\ Minus(w, r) + Minus(e, w) = Minus(e, r) /\ Minus(e, r) <= INPUT_BUF
  /\ Cells(r, e) = {i \in 0..(INPUT_BUF - 1) : buf[i] # Dead}

\* A full buffer can be read, so that typing cannot wedge the console: a
\* character is dropped only while there is input for a reader to take.
FullIsReadable == Minus(e, r) = INPUT_BUF => r # w

\* Lines are committed whole: what is still being edited has no newline and
\* no ^D, so that erasing never reaches into a line a reader may have.
EditIsOpen == \A i \in Cells(w, e) : buf[i] = "x"

\* Every ^D is reported to exactly one read, as a return of 0 bytes: none is
\* swallowed by a read that returns data first.
EveryEofReported == owed = Cardinality({i \in Cells(r, w) : buf[i] = "eof"})

\* No reader sleeps beside input it could take.
CNoLostWakeup == \A p \in Proc : cpc[p] = "r_asleep" => r = w

\* What is typed reaches the readers: all of the above.
InputKept == RingInOrder /\ FullIsReadable /\ EditIsOpen /\ EveryEofReported /\ CNoLostWakeup

\* A line that has come in is not left beside a sleeping reader, and a writer
\* comes back.
CAsleep(p) == cpc[p] \in {"r_asleep", "r_woken"}
CDue(p) == CAsleep(p) /\ r # w
ReadersWake == \A p \in Proc : (CDue(p) ~> ~CAsleep(p)) /\ ((cpc[p] = "w_loop") ~> (cpc[p] = "user"))
=============================================================================
