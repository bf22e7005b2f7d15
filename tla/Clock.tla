------------------------------- MODULE Clock -------------------------------
(***************************************************************************)
(* Interrupt dispatch and the clock: timervec (kernel/kernelvec.S) turns   *)
(* the timer into a software interrupt of its hart, devintr                *)
(* (kernel/trap.c) dispatches it and the device interrupts of the PLIC     *)
(* (kernel/plic.c), clockintr counts ticks, and sys_sleep                  *)
(* (kernel/sysproc.c) waits for them.                                      *)
(*                                                                         *)
(* ticks is a uint: it wraps at TickMod, and n, an int, is compared as a   *)
(* uint, so that a negative n is a huge one.                               *)
(***************************************************************************)
EXTENDS Integers, Machine

CONSTANTS Hart0,     \* the hart with cpuid() == 0
          Irq,       \* the lines plicinit and plicinithart enable
          NoIrq,
          TickMod    \* 2^32 in the code

\* Of the constants: ticks has a range.
ClockAssumption == TickMod \in Nat \ {0}

VARIABLES
  sip,              \* a hart's pending software interrupt
  line,             \* a device's interrupt line: 0 low, 1 high with something
                    \* to report, 2 still high with nothing new
  claimed,          \* what a hart has claimed
  hpc,              \* where a hart is in devintr
  ticks,
  spc, ticks0, dur, \* where a process is in sys_sleep, and its locals; it
                    \* holds tickslock at "loop" and "tested"
  skilled,
  since,            \* history: ticks since the call, at most TickMod
  slept             \* history: the last sleep of a process was long enough

plic == <<line, claimed>>
sleepers == <<spc, ticks0, dur, skilled, since, slept>>
kvars == <<sip, plic, hpc, ticks, sleepers>>

KInit ==
  /\ sip = [h \in Hart |-> 0]
  /\ line = [i \in Irq |-> 0] /\ claimed = [h \in Hart |-> NoIrq]
  /\ hpc = [h \in Hart |-> "run"]
  /\ ticks = 0
  /\ spc = [p \in Proc |-> "user"]
  /\ ticks0 = [p \in Proc |-> 0] /\ dur = [p \in Proc |-> 0]
  /\ skilled = [p \in Proc |-> 0]
  /\ since = [p \in Proc |-> 0] /\ slept = [p \in Proc |-> TRUE]

-----------------------------------------------------------------------------
(* Interrupts.                                                             *)

\* External: a device has something to report.
raise(i) ==
  /\ line[i] # 1
  /\ line' = [line EXCEPT ![i] = 1]
  /\ UNCHANGED <<sip, claimed, hpc, ticks, sleepers>>

timervec(h) ==
  /\ sip[h] = 0
  /\ sip' = [sip EXCEPT ![h] = 1]
  /\ UNCHANGED <<plic, hpc, ticks, sleepers>>

\* A line that no hart has claimed interrupts every hart.
Pending == {i \in Irq : line[i] # 0 /\ \A h \in Hart : claimed[h] # i}

external(h) ==
  /\ hpc[h] = "run" /\ Pending # {}
  /\ hpc' = [hpc EXCEPT ![h] = "claim"]
  /\ UNCHANGED <<sip, plic, ticks, sleepers>>

\* One hart gets the line, a later one 0.
plic_claim(h) ==
  /\ hpc[h] = "claim"
  /\ \/ Pending = {} /\ hpc' = [hpc EXCEPT ![h] = "run"] /\ UNCHANGED claimed
     \/ \E i \in Pending : /\ claimed' = [claimed EXCEPT ![h] = i]
                           /\ hpc' = [hpc EXCEPT ![h] = "serve"]
  /\ UNCHANGED <<sip, line, ticks, sleepers>>

\* uartintr or virtio_disk_intr, which looks at all there is to report.  The
\* UART lowers its line when it has been read empty; virtio_disk_intr does not
\* acknowledge the interrupt to the device, which may leave its line high.
serve(h) ==
  /\ hpc[h] = "serve"
  /\ \E level \in {0, 2} : line' = [line EXCEPT ![claimed[h]] = level]
  /\ hpc' = [hpc EXCEPT ![h] = "complete"]
  /\ UNCHANGED <<sip, claimed, ticks, sleepers>>

plic_complete(h) ==
  /\ hpc[h] = "complete"
  /\ claimed' = [claimed EXCEPT ![h] = NoIrq]
  /\ hpc' = [hpc EXCEPT ![h] = "run"]
  /\ UNCHANGED <<sip, line, ticks, sleepers>>

\* tickslock is free.
Unlocked == \A p \in Proc : spc[p] \notin {"loop", "tested"}

\* ticks++ and wakeup(&ticks), under tickslock.
clockintr ==
  /\ Unlocked
  /\ ticks' = (ticks + 1) % TickMod
  /\ spc' = [p \in Proc |-> IF spc[p] = "asleep" THEN "woken" ELSE spc[p]]
  /\ since' = [p \in Proc |-> IF spc[p] = "user" \/ since[p] = TickMod THEN since[p] ELSE since[p] + 1]

\* The software interrupt: hart 0 counts it; then SSIP is cleared, with what
\* timervec may have set meanwhile.
software(h) ==
  /\ hpc[h] = "run" /\ sip[h] = 1
  /\ IF h = Hart0 THEN clockintr ELSE UNCHANGED <<ticks, spc, since>>
  /\ hpc' = [hpc EXCEPT ![h] = "ack"]
  /\ UNCHANGED <<sip, plic, ticks0, dur, skilled, slept>>

software_ack(h) ==
  /\ hpc[h] = "ack"
  /\ sip' = [sip EXCEPT ![h] = 0]
  /\ hpc' = [hpc EXCEPT ![h] = "run"]
  /\ UNCHANGED <<plic, ticks, sleepers>>

-----------------------------------------------------------------------------
(* sys_sleep.  Its loop, under tickslock.                                  *)

\* Mutant: the wake-up time is computed once and compared with ticks.
Elapsed_deadline(p) == IF ticks >= (ticks0[p] + dur[p]) % TickMod THEN dur[p] ELSE 0

Elapsed(p) == (ticks - ticks0[p] + TickMod) % TickMod

SReturn(p, ok) ==
  /\ spc' = [spc EXCEPT ![p] = "user"]
  /\ slept' = [slept EXCEPT ![p] = ~ok \/ since[p] >= dur[p]]
  /\ ticks0' = [ticks0 EXCEPT ![p] = 0]
  /\ dur' = [dur EXCEPT ![p] = 0]
  /\ since' = [since EXCEPT ![p] = 0]

sys_sleep(p, n) ==
  /\ spc[p] = "user" /\ skilled[p] = 0 /\ Unlocked
  /\ IF n = 0 THEN UNCHANGED <<spc, ticks0, dur>>
     ELSE /\ ticks0' = [ticks0 EXCEPT ![p] = ticks]
          /\ dur' = [dur EXCEPT ![p] = n]
          /\ spc' = [spc EXCEPT ![p] = "loop"]
  /\ UNCHANGED <<sip, plic, hpc, ticks, skilled, since, slept>>

\* The process is at the top of the loop, with tickslock.
Looks(p) == spc[p] = "loop" \/ (spc[p] = "woken" /\ Unlocked)

\* It has tested p->killed.  kill does not take tickslock, so that it may come
\* between this test and the sleep.
sleep_test(p) ==
  /\ Looks(p) /\ Elapsed(p) < dur[p] /\ skilled[p] = 0
  /\ spc' = [spc EXCEPT ![p] = "tested"]
  /\ UNCHANGED <<sip, plic, hpc, ticks, ticks0, dur, skilled, since, slept>>

\* sleep(&ticks, &tickslock).
sleep_wait(p) ==
  /\ spc[p] = "tested"
  /\ spc' = [spc EXCEPT ![p] = "asleep"]
  /\ UNCHANGED <<sip, plic, hpc, ticks, ticks0, dur, skilled, since, slept>>

sleep_killed(p) ==
  /\ Looks(p) /\ Elapsed(p) < dur[p] /\ skilled[p] = 1
  /\ SReturn(p, FALSE)
  /\ UNCHANGED <<sip, plic, hpc, ticks, skilled>>

sleep_done(p) ==
  /\ Looks(p) /\ Elapsed(p) >= dur[p]
  /\ SReturn(p, TRUE)
  /\ UNCHANGED <<sip, plic, hpc, ticks, skilled>>

kkill(p) ==
  /\ skilled[p] = 0
  /\ skilled' = [skilled EXCEPT ![p] = 1]
  /\ spc' = [spc EXCEPT ![p] = IF @ = "asleep" THEN "woken" ELSE @]
  /\ UNCHANGED <<sip, plic, hpc, ticks, ticks0, dur, since, slept>>

\* A killed process exits; its slot is used again.
kexit(p) ==
  /\ spc[p] = "user" /\ skilled[p] = 1
  /\ skilled' = [skilled EXCEPT ![p] = 0]
  /\ slept' = [slept EXCEPT ![p] = TRUE]
  /\ UNCHANGED <<sip, plic, hpc, ticks, spc, ticks0, dur, since>>

Sleep(p) == sleep_test(p) \/ sleep_wait(p) \/ sleep_killed(p) \/ sleep_done(p)
Devintr(h) == plic_claim(h) \/ serve(h) \/ plic_complete(h) \/ software_ack(h)

KNext ==
  \/ \E i \in Irq : raise(i)
  \/ \E h \in Hart : timervec(h) \/ external(h) \/ software(h) \/ Devintr(h)
  \/ \E p \in Proc : \/ Sleep(p) \/ kkill(p) \/ kexit(p)
                     \/ \E n \in 0..(TickMod - 1) : sys_sleep(p, n)

KSpec == KInit /\ [][KNext]_kvars

\* The timer does not stop; handlers and processes go on; of a line and a
\* timer interrupt that keep coming each is taken; whoever waits for tickslock
\* gets it.
KFairness ==
  /\ \A h \in Hart : /\ WF_kvars(timervec(h)) /\ WF_kvars(Devintr(h))
                     /\ SF_kvars(external(h)) /\ SF_kvars(software(h))
  /\ \A h \in Hart, i \in Irq : SF_kvars(plic_claim(h) /\ claimed'[h] = i)
  /\ \A p \in Proc : SF_kvars(Sleep(p))

-----------------------------------------------------------------------------
(* Properties.                                                             *)

\* sleep(n) returns 0 only after n ticks, also when ticks wraps around during
\* the sleep and when the process gets to look at it late.
SleptLongEnough == \A p \in Proc : slept[p]

\* No sleeper is left asleep when its time is over.
SleepersDue ==
  \A p \in Proc : spc[p] = "asleep" => Elapsed(p) < dur[p]

\* The two together.
SleepsInTime == SleptLongEnough /\ SleepersDue

\* What a device has to report is looked at, whatever the other lines and the
\* timers do and though its line may stay high: no claim is kept.
DevicesServed == \A i \in Irq : (line[i] = 1) ~> (line[i] # 1)

\* A killed sleeper returns, however long it asked to sleep: a kill that came
\* just before it slept is seen at the next tick.
KilledSleepersReturn == \A p \in Proc : (skilled[p] = 1 /\ spc[p] # "user") ~> (spc[p] = "user")
=============================================================================
