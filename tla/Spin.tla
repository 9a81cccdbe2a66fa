-------------------------------- MODULE Spin --------------------------------
(***************************************************************************)
(* Spin locks and the interrupt flag: acquire(), release(), pushcli() and  *)
(* popcli() of spinlock.c, step by step on several CPUs, under the clock   *)
(* interrupt, sleep(), yield() and the scheduler's context switches.       *)
(* Kernel code is a sequence of instructions: the locks it takes, sched(), *)
(* the scheduler's swtch() and the return from an interrupt.               *)
(***************************************************************************)
EXTENDS Integers, Sequences, FiniteSets, SequencesExt

CONSTANTS SCpus, Threads, MaxDepth

VARIABLES
  cur,      \* the context a CPU runs: a thread or, for CPU c, its scheduler c
  IF_,      \* FL_IF of a CPU
  ncli, intena,
  lk,       \* locked and cpu of a lock
  stack,    \* of a context: frames, the last one running
  saved,    \* sched()'s intena, on the stack of a thread
  ready,    \* threads in state RUNNABLE
  spanic

spinVars == <<cur, IF_, ncli, intena, lk, stack, saved, ready, spanic>>

Locks == {"tickslock", "ptable"}
Ctx == SCpus \cup Threads

acq(l) == [op |-> "acquire", lock |-> l]
rel(l) == [op |-> "release", lock |-> l]
Do(o) == [op |-> o, lock |-> "none"]

sys_uptime == <<acq("tickslock"), rel("tickslock")>>

(* Mutant: ptable.lock is taken first.                                       *)
sys_sleepSwapped == <<acq("ptable"), acq("tickslock"), rel("tickslock"), Do("sched"), rel("ptable"),
                      acq("tickslock"), rel("tickslock")>>

(* sys_sleep() with sleep(): ptable.lock is taken before lk is released.     *)
sys_sleep == <<acq("tickslock"), acq("ptable"), rel("tickslock"), Do("sched"), rel("ptable"),
               acq("tickslock"), rel("tickslock")>>

(* wakeup(&ticks) is called with tickslock held.                             *)
tick == <<acq("tickslock"), acq("ptable"), rel("ptable"), rel("tickslock")>>
yield == <<acq("ptable"), Do("sched"), rel("ptable")>>

(* trap(): CPU 0 counts the tick, a thread gives up the CPU.                 *)
trap(c, x) == (IF c = 0 THEN tick ELSE <<>>) \o (IF x \in Threads THEN yield ELSE <<>>) \o <<Do("iret")>>

scheduler == <<Do("sti"), acq("ptable"), Do("swtch"), rel("ptable")>>
forkret == <<rel("ptable"), Do("iret")>>

Frame(code, irq) == [code |-> code, i |-> 1, ph |-> 0, irq |-> irq]

SpinInit ==
  /\ cur = [c \in SCpus |-> c]
  /\ IF_ = [c \in SCpus |-> FALSE]
  /\ ncli = [c \in SCpus |-> 0] /\ intena = [c \in SCpus |-> FALSE]
  /\ lk = [l \in Locks |-> [locked |-> FALSE, cpu |-> -1]]
  /\ stack = [x \in Ctx |-> <<Frame(IF x \in SCpus THEN scheduler ELSE forkret, FALSE)>>]
  /\ saved = [t \in Threads |-> FALSE]
  /\ ready = Threads /\ spanic = FALSE

-----------------------------------------------------------------------------
Top(c) == Last(stack[cur[c]])
Busy(c) == stack[cur[c]] # <<>>
At(c, o, ph) == Busy(c) /\ Top(c).code[Top(c).i].op = o /\ Top(c).ph = ph
Lock(c) == Top(c).code[Top(c).i].lock
holding(c, l) == lk[l].locked /\ lk[l].cpu = c

(* The stack after the instruction: the next one, the scheduler's loop, or   *)
(* back to user mode or the interrupted frame.                               *)
Advance(s) ==
  LET f == Last(s)
  IN IF f.i < Len(f.code) THEN ReplaceAt(s, Len(s), [f EXCEPT !.i = @ + 1, !.ph = 0])
     ELSE IF f.code = scheduler THEN ReplaceAt(s, Len(s), Frame(scheduler, FALSE))
     ELSE Front(s)
Step(c) == stack' = [stack EXCEPT ![cur[c]] = Advance(@)]
Phase(c, ph) ==
  stack' = [stack EXCEPT ![cur[c]] = ReplaceAt(@, Len(@), [Last(@) EXCEPT !.ph = ph])]

(* pushcli(): the flag is remembered at the outermost level.                 *)
pushcli(c) ==
  /\ IF_' = [IF_ EXCEPT ![c] = FALSE]
  /\ intena' = IF ncli[c] = 0 THEN [intena EXCEPT ![c] = IF_[c]] ELSE intena
  /\ ncli' = [ncli EXCEPT ![c] = @ + 1]

(* acquire(): pushcli() and the check, then xchg, then lk->cpu.              *)
Acquire(c) ==
  /\ At(c, "acquire", 0)
  /\ pushcli(c)
  /\ spanic' = holding(c, Lock(c))
  /\ Phase(c, 1)
  /\ UNCHANGED <<cur, lk, saved, ready>>

Xchg(c) ==
  /\ At(c, "acquire", 1) /\ ~lk[Lock(c)].locked
  /\ lk' = [lk EXCEPT ![Lock(c)].locked = TRUE]
  /\ Phase(c, 2)
  /\ UNCHANGED <<cur, IF_, ncli, intena, saved, ready, spanic>>

Acquired(c) ==
  /\ At(c, "acquire", 2)
  /\ lk' = [lk EXCEPT ![Lock(c)].cpu = c]
  /\ Step(c)
  /\ UNCHANGED <<cur, IF_, ncli, intena, saved, ready, spanic>>

(* release(): lk->cpu is cleared before the lock, then popcli().             *)
Release(c) ==
  /\ At(c, "release", 0)
  /\ spanic' = ~holding(c, Lock(c))
  /\ lk' = [lk EXCEPT ![Lock(c)].cpu = -1]
  /\ Phase(c, 1)
  /\ UNCHANGED <<cur, IF_, ncli, intena, saved, ready>>

Unlock(c) ==
  /\ At(c, "release", 1)
  /\ lk' = [lk EXCEPT ![Lock(c)].locked = FALSE]
  /\ Phase(c, 2)
  /\ UNCHANGED <<cur, IF_, ncli, intena, saved, ready, spanic>>

Popcli(c) ==
  /\ At(c, "release", 2)
  /\ spanic' = (IF_[c] \/ ncli[c] = 0)
  /\ ncli' = [ncli EXCEPT ![c] = @ - 1]
  /\ IF_' = IF ncli[c] = 1 /\ intena[c] THEN [IF_ EXCEPT ![c] = TRUE] ELSE IF_
  /\ Step(c)
  /\ UNCHANGED <<cur, intena, lk, saved, ready>>

-----------------------------------------------------------------------------
(* scheduler(): sti(); then a thread is chosen and switched to, or none.     *)
Sti(c) ==
  /\ At(c, "sti", 0)
  /\ IF_' = [IF_ EXCEPT ![c] = TRUE]
  /\ Step(c)
  /\ UNCHANGED <<cur, ncli, intena, lk, saved, ready, spanic>>

(* A thread that was in sched() sets intena to what it was; forkret() does   *)
(* not.                                                                      *)
Swtch(c, t) ==
  LET resumed == Last(stack[t]).ph = 1
  IN /\ At(c, "swtch", 0) /\ t \in ready
     /\ ready' = ready \ {t}
     /\ cur' = [cur EXCEPT ![c] = t]
     /\ intena' = IF resumed THEN [intena EXCEPT ![c] = saved[t]] ELSE intena
     /\ saved' = [saved EXCEPT ![t] = FALSE]
     /\ stack' = [stack EXCEPT ![c] = Advance(@), ![t] = IF resumed THEN Advance(@) ELSE @]
     /\ UNCHANGED <<IF_, ncli, lk, spanic>>

(* No thread is RUNNABLE: those that are in no CPU are all asleep.           *)
Idle(c) ==
  /\ At(c, "swtch", 0) /\ \A t \in ready : Last(stack[t]).code = sys_sleep
  /\ Step(c)
  /\ UNCHANGED <<cur, IF_, ncli, intena, lk, saved, ready, spanic>>

(* Mutant: intena is not saved; the scheduler's stays, which is on.          *)
SchedKeepsIntena(c) ==
  LET t == cur[c]
  IN /\ At(c, "sched", 0)
     /\ spanic' = (~holding(c, "ptable") \/ ncli[c] # 1 \/ IF_[c])
     /\ Phase(c, 1)
     /\ ready' = ready \cup {t} /\ cur' = [cur EXCEPT ![c] = c]
     /\ saved' = [saved EXCEPT ![t] = TRUE]
     /\ UNCHANGED <<IF_, ncli, intena, lk>>

(* sched(): its checks, and back to the scheduler's context, which is past   *)
(* its swtch().  A sleeper counts as ready: it may be woken at any time.     *)
Sched(c) ==
  LET t == cur[c]
  IN /\ At(c, "sched", 0)
     /\ spanic' = (~holding(c, "ptable") \/ ncli[c] # 1 \/ IF_[c])
     /\ Phase(c, 1)
     /\ ready' = ready \cup {t} /\ cur' = [cur EXCEPT ![c] = c]
     /\ saved' = [saved EXCEPT ![t] = intena[c]]
     /\ UNCHANGED <<IF_, ncli, intena, lk>>

(* A thread in user mode makes a system call; its gate leaves FL_IF set.     *)
Syscall(c, code) ==
  /\ ~Busy(c)
  /\ stack' = [stack EXCEPT ![cur[c]] = <<Frame(code, FALSE)>>]
  /\ UNCHANGED <<cur, IF_, ncli, intena, lk, saved, ready, spanic>>

(* The clock interrupts where FL_IF is set; its gate clears it, iret sets it. *)
Interrupt(c) ==
  /\ IF_[c] /\ Len(stack[cur[c]]) < MaxDepth
  /\ IF_' = [IF_ EXCEPT ![c] = FALSE]
  /\ stack' = [stack EXCEPT ![cur[c]] = Append(@, Frame(trap(c, cur[c]), TRUE))]
  /\ UNCHANGED <<cur, ncli, intena, lk, saved, ready, spanic>>

Iret(c) ==
  /\ At(c, "iret", 0)
  /\ IF_' = [IF_ EXCEPT ![c] = TRUE]
  /\ Step(c)
  /\ UNCHANGED <<cur, ncli, intena, lk, saved, ready, spanic>>

SpinNext ==
  /\ ~spanic
  /\ \E c \in SCpus :
       \/ Acquire(c) \/ Xchg(c) \/ Acquired(c) \/ Release(c) \/ Unlock(c) \/ Popcli(c)
       \/ Sti(c) \/ Idle(c) \/ Sched(c) \/ Interrupt(c) \/ Iret(c)
       \/ \E t \in Threads : Swtch(c, t)
       \/ \E code \in {sys_uptime, sys_sleep} : Syscall(c, code)

SpinSpec == SpinInit /\ [][SpinNext]_spinVars

-----------------------------------------------------------------------------
(* The locks that the code of a frame holds where it stands, from the        *)
(* exchange to the store that unlocks; of forkret(), from the start.         *)
Before(f, o, l) == Cardinality({j \in 1..(f.i - 1) : f.code[j] = [op |-> o, lock |-> l]})
Here(f, o, l, ph) == f.code[f.i] = [op |-> o, lock |-> l] /\ f.ph >= ph
HoldsLock(f, l) ==
  LET given == IF f.code = forkret /\ l = "ptable" THEN 1 ELSE 0
  IN \/ given + Before(f, "acquire", l) > Before(f, "release", l) /\ ~Here(f, "release", l, 2)
     \/ Here(f, "acquire", l, 2)
Frames(c) == {stack[cur[c]][k] : k \in DOMAIN stack[cur[c]]}

(* At most one CPU is between acquire() and release() of a lock, though the  *)
(* lock is handed from thread to scheduler and back in swtch().              *)
LockExclusive ==
  \A l \in Locks : Cardinality({c \in SCpus : \E f \in Frames(c) : HoldsLock(f, l)}) <= 1

(* Interrupts are off while a CPU holds a lock or waits for one, and in a    *)
(* handler even after its thread slept and woke on another CPU; they are on  *)
(* again in a thread that holds nothing, so that the clock can preempt it.   *)
InterruptsMatch ==
  \A c \in SCpus :
    LET inirq == \E f \in Frames(c) : f.irq
    IN /\ IF_[c] => ncli[c] = 0 /\ ~inirq
       /\ cur[c] \in Threads /\ ncli[c] = 0 /\ ~inirq /\ ~At(c, "iret", 0) => IF_[c]

(* No CPU acquires what it holds, releases what it does not, or enters the   *)
(* scheduler with another lock held or interrupts on.                        *)
SpinNoPanic == ~spanic

(* Two CPUs never wait for each other's locks.                               *)
NoSpinCycle ==
  \A c, d \in SCpus :
    ~ /\ At(c, "acquire", 1) /\ At(d, "acquire", 1) /\ Lock(c) # Lock(d)
      /\ \E f \in Frames(d) : HoldsLock(f, Lock(c))
      /\ \E f \in Frames(c) : HoldsLock(f, Lock(d))
=============================================================================
