-------------------------------- MODULE Proc --------------------------------
(***************************************************************************)
(* The process table of proc.c: allocation of slots, fork, exit, wait,     *)
(* kill, nice, sleep/wakeup and the per-CPU scheduler, for any number of   *)
(* CPUs.  ptable.lock is a variable because it is held ACROSS swtch: the   *)
(* process that enters sched() takes it and the scheduler (or the process  *)
(* switched to) releases it.  A critical section without a swtch is one    *)
(* step, enabled when the lock is free.                                    *)
(***************************************************************************)
EXTENDS Integers

CONSTANTS
  NPROC,       \* slots in ptable.proc
  NCPU,        \* CPUs running scheduler()
  NCHAN,       \* sleep channels that are not process addresses
  MaxPid,      \* bound: no fork once nextpid exceeds it
  Priorities,  \* second arguments of nice()
  Pids         \* first arguments of kill() and nice()

ASSUME ProcAssumption ==
  /\ NPROC \in Nat \ {0}
  /\ NCPU \in Nat \ {0}
  /\ NCHAN \in Nat
  /\ MaxPid \in Nat
  /\ Priorities \subseteq -20..19   \* the range nice() accepts
  /\ Pids \subseteq Nat

Slots == 1..NPROC
Cpus  == 1..NCPU
Null  == 0                          \* null pointer, free lock, no channel
Chans == NPROC+1 .. NPROC+NCHAN     \* &ticks, &log, a buf, a pipe, ...
initproc == 1                       \* userinit() gets the first slot

VARIABLES
  state, pid, parent, chan, killed, nice, is_privileged,
  kstack, pgdir,   \* TRUE while the slot owns a kernel stack, a page table
  nextpid,
  lock,            \* the CPU that holds ptable.lock, or Null
  cproc,           \* cpus[c].proc
  pc,              \* what the process is executing
  frame,           \* the caller of sched() its saved context returns to
  child            \* local np of fork()

ptable == <<state, pid, parent, chan, killed, nice, is_privileged,
            kstack, pgdir, nextpid>>
vars == <<state, pid, parent, chan, killed, nice, is_privileged, kstack,
          pgdir, nextpid, lock, cproc, pc, frame, child>>

States == {"UNUSED", "EMBRYO", "SLEEPING", "RUNNABLE", "RUNNING", "ZOMBIE"}
PCs    == {"user", "syscall", "allocproc", "copyuvm", "forkpriv", "forkrun",
           "wait", "sys", "exiting", "dead", "panic"}
Frames == {"none", "forkret", "yield", "sleep", "wait", "exit"}

(* After userinit(): one process, RUNNABLE, about to return through         *)
(* forkret to user space.                                                   *)
Init ==
  /\ state  = [p \in Slots |-> IF p = initproc THEN "RUNNABLE" ELSE "UNUSED"]
  /\ pid    = [p \in Slots |-> IF p = initproc THEN 1 ELSE 0]
  /\ parent = [p \in Slots |-> Null]
  /\ chan   = [p \in Slots |-> Null]
  /\ killed = [p \in Slots |-> FALSE]
  /\ nice   = [p \in Slots |-> 0]
  /\ is_privileged = [p \in Slots |-> FALSE]
  /\ kstack = [p \in Slots |-> p = initproc]
  /\ pgdir  = [p \in Slots |-> p = initproc]
  /\ nextpid = 2
  /\ lock = Null
  /\ cproc = [c \in Cpus |-> Null]
  /\ pc    = [p \in Slots |-> IF p = initproc THEN "user" ELSE "dead"]
  /\ frame = [p \in Slots |-> IF p = initproc THEN "forkret" ELSE "none"]
  /\ child = [p \in Slots |-> Null]

-----------------------------------------------------------------------------
(* p executes its own code on c, outside sched().                           *)
OnCpu(c, p) == cproc[c] = p /\ frame[p] = "none"

(* p is in a system call that has not blocked yet.                          *)
InSyscall(c, p) == OnCpu(c, p) /\ pc[p] = "syscall"

SetPc(p, v) == pc' = [pc EXCEPT ![p] = v]

(* wakeup1: the state of every slot after waking the sleepers on ch.        *)
wakeup1(ch) ==
  [q \in Slots |-> IF state[q] = "SLEEPING" /\ chan[q] = ch
                   THEN "RUNNABLE" ELSE state[q]]

(* allocproc's scan stops at the first UNUSED slot.                         *)
FirstUnused(np) ==
  /\ state[np] = "UNUSED"
  /\ \A q \in Slots : q < np => state[q] # "UNUSED"

(* kill's and nice's scan stops at the first slot with the pid, whatever    *)
(* the slot's state.                                                        *)
FirstWithPid(q, k) ==
  /\ pid[q] = k
  /\ \A r \in Slots : r < q => pid[r] # k

HasKids(p)   == \E q \in Slots : parent[q] = p
Zombie(p, q) == parent[q] = p /\ state[q] = "ZOMBIE"   \* q, a child of p
NoZombies(p) == \A q \in Slots : ~Zombie(p, q)

(* What wait()'s loop finds when it goes to sleep.                          *)
MayWait(p) == NoZombies(p) /\ HasKids(p) /\ ~killed[p]

-----------------------------------------------------------------------------
(* The scheduler keeps the first RUNNABLE slot with the least nice.         *)
Best(p) ==
  /\ state[p] = "RUNNABLE"
  /\ \A q \in Slots : state[q] = "RUNNABLE" =>
        nice[p] < nice[q] \/ (nice[p] = nice[q] /\ p <= q)

(* scheduler() from acquire to swtch.                                       *)
Scheduler(c) ==
  /\ lock = Null /\ cproc[c] = Null
  /\ \E p \in Slots :
       /\ Best(p)
       /\ cproc' = [cproc EXCEPT ![c] = p]
       /\ state' = [state EXCEPT ![p] = "RUNNING"]
  /\ lock' = c
  /\ UNCHANGED <<pid, parent, chan, killed, nice, is_privileged, kstack,
                 pgdir, nextpid, pc, frame, child>>

(* The switched-to process returns from sched(): forkret and yield release  *)
(* the lock, sleep clears chan first, and sleep called by wait returns to   *)
(* wait's loop with the lock still held.                                    *)
Resume(c) ==
  \E p \in Slots :
    /\ lock = c /\ cproc[c] = p /\ state[p] = "RUNNING"
    /\ frame[p] \in {"forkret", "yield", "sleep", "wait"}
    /\ frame' = [frame EXCEPT ![p] = "none"]
    /\ chan' = IF frame[p] \in {"sleep", "wait"}
               THEN [chan EXCEPT ![p] = Null] ELSE chan
    /\ lock' = IF frame[p] = "wait" THEN c ELSE Null
    /\ UNCHANGED <<state, pid, parent, killed, nice, is_privileged, kstack,
                   pgdir, nextpid, cproc, pc, child>>

(* sched(): swtch back to the scheduler, which forgets the process and      *)
(* releases the lock.                                                       *)
Sched(c) ==
  \E p \in Slots :
    /\ lock = c /\ cproc[c] = p /\ state[p] # "RUNNING" /\ frame[p] # "none"
    /\ cproc' = [cproc EXCEPT ![c] = Null]
    /\ lock' = Null
    /\ UNCHANGED <<ptable, pc, frame, child>>

(* Mutant: the lock is released before swtch.                               *)
YieldUnlocked(c) ==
  \E p \in Slots :
    /\ lock = Null /\ OnCpu(c, p)
    /\ pc[p] # "panic" /\ (pc[p] = "user" => ~killed[p])
    /\ state' = [state EXCEPT ![p] = "RUNNABLE"]
    /\ frame' = [frame EXCEPT ![p] = "yield"]
    /\ UNCHANGED <<pid, parent, chan, killed, nice, is_privileged, kstack,
                   pgdir, nextpid, lock, cproc, pc, child>>

(* yield(), called by trap() on a timer interrupt in user or kernel mode,   *)
(* unless trap() finds the process killed in user mode and exits instead.   *)
(* No interrupt arrives while the CPU holds a spinlock or has panicked.     *)
Yield(c) ==
  \E p \in Slots :
    /\ lock = Null /\ OnCpu(c, p)
    /\ pc[p] # "panic" /\ (pc[p] = "user" => ~killed[p])
    /\ state' = [state EXCEPT ![p] = "RUNNABLE"]
    /\ frame' = [frame EXCEPT ![p] = "yield"]
    /\ lock' = c
    /\ UNCHANGED <<pid, parent, chan, killed, nice, is_privileged, kstack,
                   pgdir, nextpid, cproc, pc, child>>

-----------------------------------------------------------------------------
(* trap(): a system call starts only if the process is not killed; kill()   *)
(* may still come between this test and what the call does.                 *)
Syscall(c) ==
  \E p \in Slots :
    /\ OnCpu(c, p) /\ pc[p] = "user" /\ ~killed[p]
    /\ SetPc(p, "syscall")
    /\ UNCHANGED <<ptable, lock, cproc, frame, child>>

(* Mutant: a pid is handed out without advancing nextpid.                   *)
AllocprocSamePid(c) ==
  \E p \in Slots, np \in Slots :
    /\ lock = Null /\ InSyscall(c, p)
    /\ nextpid <= MaxPid
    /\ FirstUnused(np)
    /\ state' = [state EXCEPT ![np] = "EMBRYO"]
    /\ pid' = [pid EXCEPT ![np] = nextpid]
    /\ nice' = [nice EXCEPT ![np] = 0]
    /\ is_privileged' = [is_privileged EXCEPT ![np] = FALSE]
    /\ child' = [child EXCEPT ![p] = np]
    /\ SetPc(p, "allocproc")
    /\ UNCHANGED <<parent, chan, killed, kstack, pgdir, nextpid, lock, cproc,
                   frame>>

(* fork(): allocproc's critical section.                                    *)
Allocproc(c) ==
  \E p \in Slots, np \in Slots :
    /\ lock = Null /\ InSyscall(c, p)
    /\ nextpid <= MaxPid
    /\ FirstUnused(np)
    /\ state' = [state EXCEPT ![np] = "EMBRYO"]
    /\ pid' = [pid EXCEPT ![np] = nextpid]
    /\ nextpid' = nextpid + 1
    /\ nice' = [nice EXCEPT ![np] = 0]
    /\ is_privileged' = [is_privileged EXCEPT ![np] = FALSE]
    /\ child' = [child EXCEPT ![p] = np]
    /\ SetPc(p, "allocproc")
    /\ UNCHANGED <<parent, chan, killed, kstack, pgdir, lock, cproc, frame>>

(* allocproc's kalloc of the kernel stack, and the initial context.         *)
AllocStack(c) ==
  \E p \in Slots :
    /\ OnCpu(c, p) /\ pc[p] = "allocproc"
    /\ LET np == child[p] IN
       /\ kstack' = [kstack EXCEPT ![np] = TRUE]
       /\ frame' = [frame EXCEPT ![np] = "forkret"]
       /\ pc' = [pc EXCEPT ![p] = "copyuvm", ![np] = "user"]
    /\ UNCHANGED <<state, pid, parent, chan, killed, nice, is_privileged,
                   pgdir, nextpid, lock, cproc, child>>

(* kalloc returned 0: the slot is given back without the lock, pid kept.    *)
AllocStackFails(c) ==
  \E p \in Slots :
    /\ OnCpu(c, p) /\ pc[p] = "allocproc"
    /\ kstack' = [kstack EXCEPT ![child[p]] = FALSE]
    /\ state' = [state EXCEPT ![child[p]] = "UNUSED"]
    /\ child' = [child EXCEPT ![p] = Null]
    /\ SetPc(p, "user")
    /\ UNCHANGED <<pid, parent, chan, killed, nice, is_privileged, pgdir,
                   nextpid, lock, cproc, frame>>

(* copyuvm succeeded: page table, parent and nice, all without the lock.    *)
ForkCopy(c) ==
  \E p \in Slots :
    /\ OnCpu(c, p) /\ pc[p] = "copyuvm"
    /\ pgdir' = [pgdir EXCEPT ![child[p]] = TRUE]
    /\ parent' = [parent EXCEPT ![child[p]] = p]
    /\ nice' = [nice EXCEPT ![child[p]] = nice[p]]
    /\ SetPc(p, "forkpriv")
    /\ UNCHANGED <<state, pid, chan, killed, is_privileged, kstack, nextpid,
                   lock, cproc, frame, child>>

ForkCopyFails(c) ==
  \E p \in Slots :
    /\ OnCpu(c, p) /\ pc[p] = "copyuvm"
    /\ pgdir' = [pgdir EXCEPT ![child[p]] = FALSE]
    /\ kstack' = [kstack EXCEPT ![child[p]] = FALSE]
    /\ state' = [state EXCEPT ![child[p]] = "UNUSED"]
    /\ child' = [child EXCEPT ![p] = Null]
    /\ SetPc(p, "user")
    /\ UNCHANGED <<pid, parent, chan, killed, nice, is_privileged, nextpid,
                   lock, cproc, frame>>

(* The privilege flag is read after nice, so nice() may come in between.    *)
ForkPriv(c) ==
  \E p \in Slots :
    /\ OnCpu(c, p) /\ pc[p] = "forkpriv"
    /\ is_privileged' = [is_privileged EXCEPT ![child[p]] = is_privileged[p]]
    /\ SetPc(p, "forkrun")
    /\ UNCHANGED <<state, pid, parent, chan, killed, nice, kstack, pgdir,
                   nextpid, lock, cproc, frame, child>>

ForkRun(c) ==
  \E p \in Slots :
    /\ lock = Null /\ OnCpu(c, p) /\ pc[p] = "forkrun"
    /\ state' = [state EXCEPT ![child[p]] = "RUNNABLE"]
    /\ child' = [child EXCEPT ![p] = Null]
    /\ SetPc(p, "user")
    /\ UNCHANGED <<pid, parent, chan, killed, nice, is_privileged, kstack,
                   pgdir, nextpid, lock, cproc, frame>>

-----------------------------------------------------------------------------
(* exit(), by the system call or because trap() found the process killed.   *)
(* What follows up to the critical section closes files and may sleep.      *)
(* init exiting is a panic: its CPU spins for ever with interrupts off.     *)
Exit(c) ==
  \E p \in Slots :
    /\ InSyscall(c, p) \/ (OnCpu(c, p) /\ pc[p] = "user" /\ killed[p])
    /\ SetPc(p, IF p = initproc THEN "panic" ELSE "exiting")
    /\ UNCHANGED <<ptable, lock, cproc, frame, child>>

(* Mutant: children are not handed to init.                                 *)
ExitTableKeepsChildren(p) ==
  /\ state' = [q \in Slots |-> IF q = p THEN "ZOMBIE"
                               ELSE wakeup1(parent[p])[q]]
  /\ UNCHANGED parent

(* Mutant: init is not told of a ZOMBIE it inherits.                        *)
ExitTableSilent(p) ==
  /\ parent' = [q \in Slots |-> IF parent[q] = p THEN initproc ELSE parent[q]]
  /\ state' = [q \in Slots |-> IF q = p THEN "ZOMBIE"
                               ELSE wakeup1(parent[p])[q]]

(* Mutant: the parent is not told.                                          *)
ExitTableUntold(p) ==
  /\ parent' = [q \in Slots |-> IF parent[q] = p THEN initproc ELSE parent[q]]
  /\ state' = [q \in Slots |->
       IF q = p THEN "ZOMBIE"
       ELSE IF NoZombies(p) THEN state[q] ELSE wakeup1(initproc)[q]]

(* exit()'s critical section: wake the parent, hand the children to init,   *)
(* waking it when one of them is already a zombie, and become a ZOMBIE.     *)
ExitTable(p) ==
  /\ parent' = [q \in Slots |-> IF parent[q] = p THEN initproc ELSE parent[q]]
  /\ state' = [q \in Slots |->
       IF q = p THEN "ZOMBIE"
       ELSE IF ~NoZombies(p) /\ wakeup1(initproc)[q] = "RUNNABLE"
            THEN "RUNNABLE"
            ELSE wakeup1(parent[p])[q]]

(* Mutant: the lock is released before the last swtch.                      *)
ExitUnlocked(c) ==
  \E p \in Slots :
    /\ lock = Null /\ OnCpu(c, p) /\ pc[p] = "exiting"
    /\ ExitTable(p)
    /\ frame' = [frame EXCEPT ![p] = "exit"]
    /\ SetPc(p, "dead")
    /\ UNCHANGED <<pid, chan, killed, nice, is_privileged, kstack, pgdir,
                   nextpid, lock, cproc, child>>

ExitLocked(c) ==
  \E p \in Slots :
    /\ lock = Null /\ OnCpu(c, p) /\ pc[p] = "exiting"
    /\ ExitTable(p)
    /\ lock' = c
    /\ frame' = [frame EXCEPT ![p] = "exit"]
    /\ SetPc(p, "dead")
    /\ UNCHANGED <<pid, chan, killed, nice, is_privileged, kstack, pgdir,
                   nextpid, cproc, child>>

(* wait(): acquire, then the loop, entered again with the lock held each    *)
(* time the process wakes up.                                               *)
Wait(c) ==
  \E p \in Slots :
    /\ lock = Null /\ InSyscall(c, p)
    /\ lock' = c
    /\ SetPc(p, "wait")
    /\ UNCHANGED <<ptable, cproc, frame, child>>

(* The scan found a ZOMBIE child, the first in table order.                 *)
WaitReap(c) ==
  \E p \in Slots, q \in Slots :
    /\ lock = c /\ OnCpu(c, p) /\ pc[p] = "wait"
    /\ Zombie(p, q) /\ \A r \in Slots : r < q => ~Zombie(p, r)
    /\ kstack' = [kstack EXCEPT ![q] = FALSE]
    /\ pgdir' = [pgdir EXCEPT ![q] = FALSE]
    /\ pid' = [pid EXCEPT ![q] = 0]
    /\ parent' = [parent EXCEPT ![q] = Null]
    /\ killed' = [killed EXCEPT ![q] = FALSE]
    /\ state' = [state EXCEPT ![q] = "UNUSED"]
    /\ lock' = Null
    /\ SetPc(p, "user")
    /\ UNCHANGED <<chan, nice, is_privileged, nextpid, cproc, frame, child>>

(* No children, or killed: wait returns -1.                                 *)
WaitFails(c) ==
  \E p \in Slots :
    /\ lock = c /\ OnCpu(c, p) /\ pc[p] = "wait"
    /\ NoZombies(p)
    /\ ~HasKids(p) \/ killed[p]
    /\ lock' = Null
    /\ SetPc(p, "user")
    /\ UNCHANGED <<ptable, cproc, frame, child>>

(* sleep(curproc, &ptable.lock).                                            *)
WaitSleep(c) ==
  \E p \in Slots :
    /\ lock = c /\ OnCpu(c, p) /\ pc[p] = "wait"
    /\ MayWait(p)
    /\ chan' = [chan EXCEPT ![p] = p]
    /\ state' = [state EXCEPT ![p] = "SLEEPING"]
    /\ frame' = [frame EXCEPT ![p] = "wait"]
    /\ UNCHANGED <<pid, parent, killed, nice, is_privileged, kstack, pgdir,
                   nextpid, lock, cproc, pc, child>>

-----------------------------------------------------------------------------
(* sleep(chan, lk) with another lock: from a blocking system call, again    *)
(* from its loop, or while exit() closes files.                             *)
Sleep(c) ==
  \E p \in Slots, ch \in Chans :
    /\ lock = Null
    /\ OnCpu(c, p) /\ pc[p] \in {"syscall", "sys", "exiting"}
    /\ chan' = [chan EXCEPT ![p] = ch]
    /\ state' = [state EXCEPT ![p] = "SLEEPING"]
    /\ frame' = [frame EXCEPT ![p] = "sleep"]
    /\ lock' = c
    /\ pc' = [pc EXCEPT ![p] = IF @ = "syscall" THEN "sys" ELSE @]
    /\ UNCHANGED <<pid, parent, killed, nice, is_privileged, kstack, pgdir,
                   nextpid, cproc, child>>

(* Any other system call returns, having blocked or not.                    *)
SysReturn(c) ==
  \E p \in Slots :
    /\ OnCpu(c, p) /\ pc[p] \in {"syscall", "sys"}
    /\ SetPc(p, "user")
    /\ UNCHANGED <<ptable, lock, cproc, frame, child>>

(* wakeup(ch), by an interrupt handler or by another process.               *)
Wakeup(ch) ==
  /\ lock = Null
  /\ state' = wakeup1(ch)
  /\ UNCHANGED <<pid, parent, chan, killed, nice, is_privileged, kstack,
                 pgdir, nextpid, lock, cproc, pc, frame, child>>

Kill(c) ==
  \E p \in Slots, q \in Slots, k \in Pids :
    /\ lock = Null /\ InSyscall(c, p)
    /\ FirstWithPid(q, k)
    /\ killed' = [killed EXCEPT ![q] = TRUE]
    /\ state' = IF state[q] = "SLEEPING"
                THEN [state EXCEPT ![q] = "RUNNABLE"] ELSE state
    /\ SetPc(p, "user")
    /\ UNCHANGED <<pid, parent, chan, nice, is_privileged, kstack, pgdir,
                   nextpid, lock, cproc, frame, child>>

(* A negative priority is stored as its absolute value plus a flag.         *)
Nice(c) ==
  \E p \in Slots, q \in Slots, k \in Pids, priority \in Priorities :
    /\ lock = Null /\ InSyscall(c, p)
    /\ FirstWithPid(q, k)
    /\ nice' = [nice EXCEPT ![q] = IF priority < 0 THEN -priority ELSE priority]
    /\ is_privileged' = [is_privileged EXCEPT ![q] = priority < 0]
    /\ SetPc(p, "user")
    /\ UNCHANGED <<state, pid, parent, chan, killed, kstack, pgdir, nextpid,
                   lock, cproc, frame, child>>

(* trap(), default case: a fault in user mode marks the process killed.     *)
Fault(c) ==
  \E p \in Slots :
    /\ OnCpu(c, p) /\ pc[p] = "user"
    /\ killed' = [killed EXCEPT ![p] = TRUE]
    /\ UNCHANGED <<state, pid, parent, chan, nice, is_privileged, kstack,
                   pgdir, nextpid, lock, cproc, pc, frame, child>>

-----------------------------------------------------------------------------
Step(c) ==
  \/ Scheduler(c) \/ Resume(c) \/ Sched(c) \/ Yield(c)
  \/ Syscall(c) \/ Allocproc(c) \/ AllocStack(c) \/ AllocStackFails(c)
  \/ ForkCopy(c) \/ ForkCopyFails(c) \/ ForkPriv(c) \/ ForkRun(c)
  \/ Exit(c) \/ ExitLocked(c)
  \/ Wait(c) \/ WaitReap(c) \/ WaitFails(c) \/ WaitSleep(c)
  \/ Sleep(c) \/ SysReturn(c) \/ Kill(c) \/ Nice(c) \/ Fault(c)

(* can_access_procinfo walks target, target->parent, ... up to a null       *)
(* pointer; Chain(t)[n] is where n steps lead.                              *)
Chain(t) ==
  LET up[n \in 0..NPROC] ==
        IF n = 0 THEN t
        ELSE IF up[n-1] = Null THEN Null ELSE parent[up[n-1]]
  IN  up

can_access_procinfo(caller, target) ==
  \E n \in 0..NPROC : Chain(target)[n] = caller

Next == \/ \E c \in Cpus : Step(c)
        \/ \E ch \in Chans : Wakeup(ch)

Spec == Init /\ [][Next]_vars

(* Fairness.  A CPU in scheduler() or holding ptable.lock runs on (WF).  A  *)
(* pending interrupt is latched until the CPU can take it, so a process     *)
(* that is interruptible again and again is preempted, or exits if it was   *)
(* killed in user mode, and the handlers' wakeups happen (SF).  Timer ticks *)
(* are far apart: a process dispatched again and again executes its next    *)
(* step (SF).                                                               *)
TimerTick(c) ==
  \/ Yield(c)
  \/ Exit(c) /\ \E p \in Slots : OnCpu(c, p) /\ pc[p] = "user"

InitRuns(c) == cproc[c] = initproc

(* init.c: init keeps coming back to wait().                                *)
InitCallsWait(c) == InitRuns(c) /\ Wait(c)

(* The rest of a fork or an exit, which a process does not abandon.         *)
KernelStep(c) ==
  \/ AllocStack(c) \/ AllocStackFails(c) \/ ForkCopy(c) \/ ForkCopyFails(c)
  \/ ForkPriv(c) \/ ForkRun(c) \/ ExitLocked(c)

Fairness ==
  /\ \A c \in Cpus :
       /\ WF_vars((\/ Scheduler(c) \/ Resume(c) \/ Sched(c)
                               \/ WaitReap(c) \/ WaitFails(c) \/ WaitSleep(c)))
       /\ SF_vars(TimerTick(c))
       /\ SF_vars(InitRuns(c) /\ Syscall(c))
       /\ SF_vars(InitCallsWait(c))
       /\ SF_vars(KernelStep(c))
       /\ SF_vars(InitRuns(c) /\ SysReturn(c))
  /\ \A ch \in Chans : SF_vars(Wakeup(ch))

FairSpec == Spec /\ Fairness

-----------------------------------------------------------------------------
Live == {"RUNNABLE", "RUNNING", "SLEEPING"}

(* Every field of the process table, the lock and the CPUs has its type.    *)
TypeOK ==
  /\ state \in [Slots -> States]
  /\ pid \in [Slots -> Nat]
  /\ parent \in [Slots -> Slots \cup {Null}]
  /\ chan \in [Slots -> Slots \cup Chans \cup {Null}]
  /\ killed \in [Slots -> BOOLEAN]
  /\ nice \in [Slots -> 0..20]
  /\ is_privileged \in [Slots -> BOOLEAN]
  /\ kstack \in [Slots -> BOOLEAN]
  /\ pgdir \in [Slots -> BOOLEAN]
  /\ nextpid \in Nat
  /\ lock \in Cpus \cup {Null}
  /\ cproc \in [Cpus -> Slots \cup {Null}]
  /\ pc \in [Slots -> PCs]
  /\ frame \in [Slots -> Frames]
  /\ child \in [Slots -> Slots \cup {Null}]

(* A process is RUNNING exactly while one CPU has it as c->proc; the only   *)
(* other process a CPU has is one inside sched(), and that CPU then holds   *)
(* ptable.lock, so that nobody dispatches it on a stack still in use.       *)
CpuOwnsProc ==
  /\ \A c, d \in Cpus : cproc[c] # Null /\ cproc[c] = cproc[d] => c = d
  /\ \A p \in Slots : state[p] = "RUNNING" => \E c \in Cpus : cproc[c] = p
  /\ \A c \in Cpus : cproc[c] # Null =>
       \/ state[cproc[c]] = "RUNNING"
       \/ lock = c /\ frame[cproc[c]] # "none"

(* wait() frees the kernel stack and page table of a child only after the   *)
(* child's last swtch: whatever a CPU runs, or may be given to run, owns    *)
(* both, so switchuvm's panics on a null stack or page table cannot happen. *)
StackWhileInUse ==
  /\ \A c \in Cpus : cproc[c] # Null => kstack[cproc[c]] /\ pgdir[cproc[c]]
  /\ \A p \in Slots : state[p] \in Live \cup {"ZOMBIE"} => kstack[p] /\ pgdir[p]

(* exit() leaves no pointer to a process that is gone: a parent is alive    *)
(* and older than its child, and only initproc has none.                    *)
ParentAlive ==
  /\ \A q \in Slots : parent[q] # Null =>
       /\ state[parent[q]] \in Live
       /\ pid[parent[q]] < pid[q]
  /\ \A q \in Slots : state[q] \in Live \cup {"ZOMBIE"} /\ q # initproc =>
       parent[q] # Null

(* No wakeup is lost between exit() and wait(): a process asleep in wait()  *)
(* has a child to wait for, none of its children is a ZOMBIE already, and   *)
(* it has not been killed.                                                  *)
WaitHasReason ==
  \A p \in Slots : state[p] = "SLEEPING" /\ chan[p] = p => MayWait(p)

(* The walk of can_access_procinfo, made with ptable.lock held, ends, and   *)
(* initproc may read every process's information: the parent pointers form  *)
(* a tree rooted at initproc although exit() rewrites them.                 *)
AccessWalkEnds ==
  \A p \in Slots :
    /\ Chain(p)[NPROC] = Null
    /\ state[p] \in Live \cup {"ZOMBIE"} => can_access_procinfo(initproc, p)

(* kill(), nice() and getprocinfo() stop at the first slot with the pid:    *)
(* no two slots share one, not even one whose fork failed.                  *)
PidsUnique ==
  \A p, q \in Slots : pid[p] = pid[q] /\ pid[p] # 0 => p = q

(* A system call finds the process it is asked for: pids name one slot, and  *)
(* the walk that decides who may look at whom ends.                          *)
LookupsFind == PidsUnique /\ AccessWalkEnds

(* A ZOMBIE whose parent is initproc, handed over or its own child, is      *)
(* reaped in the end, unless init itself exits.                             *)
OrphanReaped ==
  \A q \in Slots :
    (state[q] = "ZOMBIE" /\ parent[q] = initproc)
      ~> (pc[initproc] = "panic" \/ state[q] = "UNUSED")

(* "Give up the CPU for one scheduling round" (yield): a RUNNABLE process   *)
(* gets the CPU in the end when all processes have the same nice.           *)
RunnableRuns ==
  \A p \in Slots : state[p] = "RUNNABLE" ~> (pc[initproc] = "panic" \/ state[p] = "RUNNING")

(* allocproc initialises the slot it hands out: a new process has not been  *)
(* killed by a kill() that was given another pid.                           *)
BornAlive ==
  [][\A p \in Slots : state[p] = "UNUSED" /\ state'[p] = "EMBRYO"
                        => ~killed'[p]]_vars

=============================================================================
