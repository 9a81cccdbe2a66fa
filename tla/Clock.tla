-------------------------------- MODULE Clock --------------------------------
(***************************************************************************)
(* sys_sleep() against the clock interrupt.  ticks is unsigned and wraps   *)
(* at TWORD; n and the ticks that pass before a woken sleeper looks at the *)
(* clock are below TWORD / 2, as an int and any real delay are.            *)
(***************************************************************************)
EXTENDS Integers

CONSTANTS TWORD, Sleepers, Naps

ASSUME ClockAssumption == TWORD \in Nat \ {0} /\ Naps \subseteq Nat

VARIABLES ticks, sl

clockVars == <<ticks, sl>>

Awake == [pc |-> "user", n |-> 0, ticks0 |-> 0, passed |-> 0, killed |-> FALSE]

ClockInit == ticks = 0 /\ sl = [p \in Sleepers |-> Awake]

(* Mutant: nobody is woken.                                                  *)
TickSilent ==
  /\ \A p \in Sleepers : sl[p].passed < TWORD - 1
  /\ ticks' = (ticks + 1) % TWORD
  /\ sl' = [p \in Sleepers |-> IF sl[p].pc = "user" THEN sl[p] ELSE [sl[p] EXCEPT !.passed = @ + 1]]

(* trap(), IRQ_TIMER on CPU 0: the count, and wakeup(&ticks).  passed is not *)
(* in the code: the ticks since a sleeper's call.                            *)
Tick ==
  /\ \A p \in Sleepers : sl[p].passed < TWORD - 1
  /\ ticks' = (ticks + 1) % TWORD
  /\ sl' = [p \in Sleepers |->
       IF sl[p].pc = "user" THEN sl[p]
       ELSE [sl[p] EXCEPT !.passed = @ + 1, !.pc = "check"]]

SGo(p, r) == sl' = [sl EXCEPT ![p] = r] /\ UNCHANGED ticks

(* sleep() after the test of killed, under tickslock; kill() does not take   *)
(* the lock and may come between the two (k).                                *)
sleep(p, r) == \E k \in BOOLEAN : SGo(p, [r EXCEPT !.pc = "sleep", !.killed = k])

(* sys_sleep(): ticks0 is read, and the loop entered, under tickslock.       *)
SysSleep(p, n) ==
  /\ sl[p].pc = "user" /\ ~sl[p].killed
  /\ IF n = 0 THEN UNCHANGED clockVars ELSE sleep(p, [Awake EXCEPT !.n = n, !.ticks0 = ticks])

(* Mutant: a sleeper looks a tick ahead.                                     *)
NotYetEarly(r) == (ticks + 1 - r.ticks0) % TWORD < r.n

NotYet(r) == (ticks - r.ticks0) % TWORD < r.n

(* The conditions of the loop, after a wakeup.                               *)
Check(p) ==
  /\ sl[p].pc = "check"
  /\ IF NotYet(sl[p]) /\ ~sl[p].killed THEN sleep(p, sl[p])
     ELSE SGo(p, [Awake EXCEPT !.killed = sl[p].killed])

KillSleeper(p) ==
  /\ sl[p].pc # "user" /\ ~sl[p].killed
  /\ SGo(p, [sl[p] EXCEPT !.killed = TRUE, !.pc = "check"])

(* A killed process is replaced by another.                                  *)
NewSleeper(p) == sl[p].pc = "user" /\ sl[p].killed /\ SGo(p, Awake)

ClockNext ==
  \/ Tick
  \/ \E p \in Sleepers : (\E n \in Naps : SysSleep(p, n)) \/ Check(p) \/ KillSleeper(p) \/ NewSleeper(p)

(* The clock ticks, and a process that is woken runs.                        *)
ClockFairness == WF_clockVars(Tick) /\ \A p \in Sleepers : WF_clockVars(Check(p))

ClockSpec == ClockInit /\ [][ClockNext]_clockVars

-----------------------------------------------------------------------------
(* sleep(n) returns after n ticks at least, unless the process is killed,    *)
(* also when ticks wraps in between.                                         *)
SleptEnough ==
  [][\A p \in Sleepers : sl[p].pc = "check" /\ sl'[p].pc = "user" =>
       sl[p].passed >= sl[p].n \/ sl[p].killed]_clockVars

(* Every sleep ends, of a process killed too.                                *)
SleepEnds == \A p \in Sleepers : sl[p].pc = "sleep" ~> sl[p].pc = "user"
=============================================================================
