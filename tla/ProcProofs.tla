----------------------------- MODULE ProcProofs -----------------------------
(***************************************************************************)
(* The safety invariants of Proc hold for every number of slots, CPUs,     *)
(* channels and pids.  They are proved together: the strengthening IInv    *)
(* adds who holds ptable.lock and where, and what a fork in progress owns. *)
(***************************************************************************)
EXTENDS Proc, WellFoundedInduction, TLAPS

ForkPCs == {"allocproc", "copyuvm", "forkpriv", "forkrun"}
Started == Live \cup {"ZOMBIE"}

(* The lock and the CPUs.  ptable.lock is held only inside sched() or in    *)
(* wait()'s loop; a process off every CPU has a saved context.              *)
LockInv ==
  /\ \A c \in Cpus : lock = c => cproc[c] # Null
  /\ \A c \in Cpus : lock = c /\ frame[cproc[c]] = "none" =>
       pc[cproc[c]] = "wait"
  /\ \A c \in Cpus : cproc[c] # Null /\ lock # c =>
       frame[cproc[c]] = "none" /\ pc[cproc[c]] # "wait"
  /\ \A c \in Cpus : cproc[c] # Null => state[cproc[c]] \in Started
  /\ \A p \in Slots : state[p] \in {"RUNNABLE", "SLEEPING"} =>
       frame[p] \in {"forkret", "yield", "sleep", "wait"}
  /\ \A p \in Slots : state[p] \in Live /\ frame[p] # "none" =>
       (frame[p] = "wait" <=> pc[p] = "wait")
  /\ \A p \in Slots : state[p] = "RUNNING" => frame[p] # "exit"
  /\ \A p \in Slots : state[p] = "ZOMBIE" => frame[p] = "exit"

(* Pids: handed out in increasing order, and kept until the slot is reaped. *)
PidInv ==
  /\ nextpid > 1
  /\ \A p \in Slots : pid[p] < nextpid
  /\ \A p \in Slots : state[p] # "UNUSED" => pid[p] > 0

(* A fork in progress: its child is an EMBRYO of its own, which nobody else *)
(* touches, with what the steps so far have given it.                       *)
ForkInv ==
  /\ \A p \in Slots : state[p] \in Live => pc[p] # "dead"
  /\ \A p \in Slots : state[p] \notin Live => pc[p] \in {"user", "dead"}
  /\ \A p \in Slots : pc[p] \in ForkPCs =>
       /\ child[p] \in Slots
       /\ state[child[p]] = "EMBRYO"
       /\ pid[p] < pid[child[p]]
  /\ \A p, q \in Slots :
       pc[p] \in ForkPCs /\ pc[q] \in ForkPCs /\ child[p] = child[q] => p = q
  /\ \A p \in Slots : pc[p] \in {"allocproc", "copyuvm"} =>
       parent[child[p]] = Null
  /\ \A p \in Slots : pc[p] \in {"copyuvm", "forkpriv", "forkrun"} =>
       /\ kstack[child[p]]
       /\ frame[child[p]] = "forkret"
       /\ pc[child[p]] = "user"
  /\ \A p \in Slots : pc[p] \in {"forkpriv", "forkrun"} =>
       pgdir[child[p]] /\ parent[child[p]] = p

(* initproc is always alive and the root of the parent pointers.            *)
InitInv ==
  /\ state[initproc] \in Live
  /\ pid[initproc] = 1
  /\ pc[initproc] \notin {"exiting", "dead"}
  /\ parent[initproc] = Null
  /\ \A q \in Slots : state[q] = "UNUSED" => parent[q] = Null

IInv == /\ TypeOK /\ CpuOwnsProc /\ LockInv /\ PidInv /\ PidsUnique
        /\ ForkInv /\ InitInv /\ StackWhileInUse /\ ParentAlive
        /\ WaitHasReason

-----------------------------------------------------------------------------
(* Slots, CPUs, channels and the null pointer do not overlap.               *)
LEMMA Distinct ==
  /\ initproc \in Slots
  /\ Null \notin Slots /\ Null \notin Cpus
  /\ Slots \cap Chans = {}
  /\ Slots \subseteq Nat
BY SMTT(60), ProcAssumption DEF Slots, Cpus, Chans, Null, initproc

(* The state userinit() leaves satisfies the invariant.                     *)
LEMMA InitIInv == Init => IInv
<1> SUFFICES ASSUME Init PROVE IInv
  BY Zenon
<1>1. TypeOK
  BY SMTT(60), Distinct DEF Init, TypeOK, States, PCs, Frames
<1>2. CpuOwnsProc /\ LockInv
  BY Zenon, Distinct DEF Init, CpuOwnsProc, LockInv, Live, Started
<1>3. PidInv /\ PidsUnique
  BY SMTT(60), Distinct DEF Init, PidInv, PidsUnique
<1>4. ForkInv /\ InitInv
  BY Zenon, Distinct DEF Init, ForkInv, ForkPCs, InitInv, Live
<1>5. StackWhileInUse
  BY Zenon, Distinct DEF Init, StackWhileInUse, Live
<1>6. ParentAlive /\ WaitHasReason
  BY Zenon, Distinct DEF Init, ParentAlive, WaitHasReason, Live
<1> QED BY Zenon, <1>1, <1>2, <1>3, <1>4, <1>5, <1>6 DEF IInv

(* Every step of the kernel keeps the types of the process table.           *)
LEMMA TypeStep == IInv /\ [Next]_vars => TypeOK'
<1> SUFFICES ASSUME IInv, [Next]_vars PROVE TypeOK'
  BY Zenon
<1>1. /\ TypeOK /\ ForkInv
  BY Zenon DEF IInv, TypeOK
<1>2. CASE UNCHANGED vars
  BY Zenon, <1>1, <1>2 DEF TypeOK, vars
<1>3. ASSUME NEW c \in Cpus, Scheduler(c) PROVE TypeOK'
  BY SMTT(60), Distinct, <1>1, <1>3 DEF Scheduler, OnCpu, Best, TypeOK, States, PCs,
      Frames, SetPc
<1>4. ASSUME NEW c \in Cpus, Resume(c) PROVE TypeOK'
  BY SMTT(60), Distinct, <1>1, <1>4 DEF Resume, OnCpu, TypeOK, States, PCs, Frames,
      SetPc
<1>5. ASSUME NEW c \in Cpus, Sched(c) PROVE TypeOK'
  BY ZenonT(60), Distinct, <1>1, <1>5 DEF Sched, OnCpu, TypeOK, States, PCs, Frames,
      SetPc, ptable
<1>6. ASSUME NEW c \in Cpus, Yield(c) PROVE TypeOK'
  BY SMTT(60), Distinct, <1>1, <1>6 DEF Yield, OnCpu, TypeOK, States, PCs, Frames,
      SetPc
<1>7. ASSUME NEW c \in Cpus, Syscall(c) PROVE TypeOK'
  BY SMTT(60), Distinct, <1>1, <1>7 DEF Syscall, OnCpu, TypeOK, States, PCs, Frames,
      SetPc, ptable
<1>8. ASSUME NEW c \in Cpus, Allocproc(c) PROVE TypeOK'
  BY SMTT(60), Distinct, <1>1, <1>8 DEF Allocproc, OnCpu, FirstUnused, InSyscall,
      TypeOK, States, PCs, Frames, SetPc
<1>9. ASSUME NEW c \in Cpus, AllocStack(c) PROVE TypeOK'
  BY SMTT(60), Distinct, <1>1, <1>9 DEF AllocStack, OnCpu, TypeOK, States, PCs, Frames,
      SetPc, ForkInv, ForkPCs
<1>10. ASSUME NEW c \in Cpus, AllocStackFails(c) PROVE TypeOK'
  BY SMTT(60), Distinct, <1>1, <1>10 DEF AllocStackFails, OnCpu, TypeOK, States, PCs,
      Frames, SetPc, ForkInv, ForkPCs
<1>11. ASSUME NEW c \in Cpus, ForkCopy(c) PROVE TypeOK'
  BY SMTT(60), Distinct, <1>1, <1>11 DEF ForkCopy, OnCpu, TypeOK, States, PCs, Frames,
      SetPc, ForkInv, ForkPCs
<1>12. ASSUME NEW c \in Cpus, ForkCopyFails(c) PROVE TypeOK'
  BY SMTT(60), Distinct, <1>1, <1>12 DEF ForkCopyFails, OnCpu, TypeOK, States, PCs,
      Frames, SetPc, ForkInv, ForkPCs
<1>13. ASSUME NEW c \in Cpus, ForkPriv(c) PROVE TypeOK'
  BY SMTT(60), Distinct, <1>1, <1>13 DEF ForkPriv, OnCpu, TypeOK, States, PCs, Frames,
      SetPc, ForkInv, ForkPCs
<1>14. ASSUME NEW c \in Cpus, ForkRun(c) PROVE TypeOK'
  BY SMTT(60), Distinct, <1>1, <1>14 DEF ForkRun, OnCpu, TypeOK, States, PCs, Frames,
      SetPc, ForkInv, ForkPCs
<1>15. ASSUME NEW c \in Cpus, Exit(c) PROVE TypeOK'
  BY SMTT(60), Distinct, <1>1, <1>15 DEF Exit, OnCpu, InSyscall, TypeOK, States, PCs,
      Frames, SetPc, ptable
<1>16. ASSUME NEW c \in Cpus, ExitLocked(c) PROVE TypeOK'
  BY SMTT(60), Distinct, <1>1, <1>16 DEF ExitLocked, OnCpu, ExitTable, wakeup1,
      NoZombies, Zombie, TypeOK, States, PCs, Frames, SetPc
<1>17. ASSUME NEW c \in Cpus, Wait(c) PROVE TypeOK'
  BY SMTT(60), Distinct, <1>1, <1>17 DEF Wait, OnCpu, InSyscall, TypeOK, States, PCs,
      Frames, SetPc, ptable
<1>18. ASSUME NEW c \in Cpus, WaitReap(c) PROVE TypeOK'
  BY SMTT(60), Distinct, <1>1, <1>18 DEF WaitReap, OnCpu, Zombie, TypeOK, States, PCs,
      Frames, SetPc
<1>19. ASSUME NEW c \in Cpus, WaitFails(c) PROVE TypeOK'
  BY SMTT(60), Distinct, <1>1, <1>19 DEF WaitFails, OnCpu, TypeOK, States, PCs, Frames,
      SetPc, ptable
<1>20. ASSUME NEW c \in Cpus, WaitSleep(c) PROVE TypeOK'
  BY SMTT(60), Distinct, <1>1, <1>20 DEF WaitSleep, OnCpu, TypeOK, States, PCs, Frames,
      SetPc
<1>21. ASSUME NEW c \in Cpus, Sleep(c) PROVE TypeOK'
  BY SMTT(60), Distinct, <1>1, <1>21 DEF Sleep, OnCpu, TypeOK, States, PCs, Frames,
      SetPc, InSyscall
<1>22. ASSUME NEW c \in Cpus, SysReturn(c) PROVE TypeOK'
  BY SMTT(60), Distinct, <1>1, <1>22 DEF SysReturn, OnCpu, TypeOK, States, PCs, Frames,
      SetPc, ptable
<1>23. ASSUME NEW c \in Cpus, Kill(c) PROVE TypeOK'
  BY SMTT(60), Distinct, <1>1, <1>23 DEF Kill, OnCpu, InSyscall, TypeOK, States, PCs,
      Frames, SetPc
<1>24. ASSUME NEW c \in Cpus, Nice(c) PROVE TypeOK'
  BY SMTT(60), ProcAssumption, Distinct, <1>1, <1>24 DEF Nice, OnCpu, InSyscall,
      TypeOK, States, PCs, Frames, SetPc
<1>25. ASSUME NEW c \in Cpus, Fault(c) PROVE TypeOK'
  BY SMTT(60), Distinct, <1>1, <1>25 DEF Fault, OnCpu, TypeOK, States, PCs, Frames,
      SetPc
<1>26. ASSUME NEW ch \in Chans, Wakeup(ch) PROVE TypeOK'
  BY ZenonT(60), Distinct, <1>1, <1>26 DEF Wakeup, wakeup1, TypeOK, States, PCs, Frames,
      SetPc
<1> QED BY Zenon, <1>3, <1>4, <1>5, <1>6, <1>7, <1>8, <1>9, <1>10, <1>11, <1>12,
        <1>13, <1>14, <1>15, <1>16, <1>17, <1>18, <1>19, <1>20, <1>21, <1>22,
        <1>23, <1>24, <1>25, <1>26, <1>2
    DEF Next, Step

(* Every step keeps RUNNING processes and CPUs matched: a state changes     *)
(* only under ptable.lock or while its slot is on no CPU.                   *)
LEMMA CpuStep == IInv /\ [Next]_vars => CpuOwnsProc'
<1> SUFFICES ASSUME IInv, [Next]_vars PROVE CpuOwnsProc'
  BY Zenon
<1>1. /\ state \in [Slots -> States]
      /\ frame \in [Slots -> Frames]
      /\ cproc \in [Cpus -> Slots \cup {Null}]
      /\ lock \in Cpus \cup {Null}
      /\ CpuOwnsProc /\ LockInv /\ ForkInv
  BY Zenon DEF IInv, TypeOK
<1>2. CASE UNCHANGED <<state, cproc, lock, frame>>
  BY ZenonT(60), <1>1, <1>2 DEF CpuOwnsProc, ForkPCs, Started, Live
<1>3. ASSUME NEW c \in Cpus, Scheduler(c) PROVE CpuOwnsProc'
  BY SMTT(60), Distinct, <1>1, <1>3 DEF Scheduler, OnCpu, Best, CpuOwnsProc, LockInv,
      ForkInv, ForkPCs, Started, Live
<1>4. ASSUME NEW c \in Cpus, Resume(c) PROVE CpuOwnsProc'
  BY SMTT(60), Distinct, <1>1, <1>4 DEF Resume, OnCpu, CpuOwnsProc, LockInv, ForkInv,
      ForkPCs, Started, Live
<1>5. ASSUME NEW c \in Cpus, Sched(c) PROVE CpuOwnsProc'
  BY SMTT(60), Distinct, <1>1, <1>5 DEF Sched, OnCpu, CpuOwnsProc, LockInv, ForkInv,
      ForkPCs, Started, Live, ptable
<1>6. ASSUME NEW c \in Cpus, Yield(c) PROVE CpuOwnsProc'
  BY SMTT(60), Distinct, <1>1, <1>6 DEF Yield, OnCpu, CpuOwnsProc, LockInv, ForkInv,
      ForkPCs, Started, Live
<1>7. ASSUME NEW c \in Cpus, Allocproc(c) PROVE CpuOwnsProc'
  BY SMTT(60), Distinct, <1>1, <1>7 DEF Allocproc, OnCpu, FirstUnused, InSyscall,
      CpuOwnsProc, LockInv, ForkInv, ForkPCs, Started, Live
<1>8. ASSUME NEW c \in Cpus, AllocStack(c) PROVE CpuOwnsProc'
  BY SMTT(60), Distinct, <1>1, <1>8 DEF AllocStack, OnCpu, CpuOwnsProc, LockInv,
      ForkInv, ForkPCs, Started, Live
<1>9. ASSUME NEW c \in Cpus, AllocStackFails(c) PROVE CpuOwnsProc'
  BY SMTT(60), Distinct, <1>1, <1>9 DEF AllocStackFails, OnCpu, CpuOwnsProc, LockInv,
      ForkInv, ForkPCs, Started, Live
<1>10. ASSUME NEW c \in Cpus, ForkCopyFails(c) PROVE CpuOwnsProc'
  BY SMTT(60), Distinct, <1>1, <1>10 DEF ForkCopyFails, OnCpu, CpuOwnsProc, LockInv,
      ForkInv, ForkPCs, Started, Live
<1>11. ASSUME NEW c \in Cpus, ForkRun(c) PROVE CpuOwnsProc'
  BY SMTT(60), Distinct, <1>1, <1>11 DEF ForkRun, OnCpu, CpuOwnsProc, LockInv, ForkInv,
      ForkPCs, Started, Live
<1>12. ASSUME NEW c \in Cpus, ExitLocked(c) PROVE CpuOwnsProc'
  BY SMTT(60), Distinct, <1>1, <1>12 DEF ExitLocked, OnCpu, ExitTable, wakeup1,
      NoZombies, Zombie, CpuOwnsProc, LockInv, ForkInv, ForkPCs, Started,
      Live
<1>13. ASSUME NEW c \in Cpus, Wait(c) PROVE CpuOwnsProc'
  BY SMTT(60), Distinct, <1>1, <1>13 DEF Wait, OnCpu, InSyscall, CpuOwnsProc, LockInv,
      ForkInv, ForkPCs, Started, Live, ptable
<1>14. ASSUME NEW c \in Cpus, WaitReap(c) PROVE CpuOwnsProc'
  BY SMTT(60), Distinct, <1>1, <1>14 DEF WaitReap, OnCpu, Zombie, CpuOwnsProc, LockInv,
      ForkInv, ForkPCs, Started, Live
<1>15. ASSUME NEW c \in Cpus, WaitFails(c) PROVE CpuOwnsProc'
  BY SMTT(60), Distinct, <1>1, <1>15 DEF WaitFails, OnCpu, CpuOwnsProc, LockInv,
      ForkInv, ForkPCs, Started, Live, ptable
<1>16. ASSUME NEW c \in Cpus, WaitSleep(c) PROVE CpuOwnsProc'
  BY SMTT(60), Distinct, <1>1, <1>16 DEF WaitSleep, OnCpu, CpuOwnsProc, LockInv,
      ForkInv, ForkPCs, Started, Live
<1>17. ASSUME NEW c \in Cpus, Sleep(c) PROVE CpuOwnsProc'
  BY SMTT(60), Distinct, <1>1, <1>17 DEF Sleep, OnCpu, CpuOwnsProc, LockInv, ForkInv,
      ForkPCs, Started, Live
<1>18. ASSUME NEW c \in Cpus, Kill(c) PROVE CpuOwnsProc'
  BY SMTT(60), Distinct, <1>1, <1>18 DEF Kill, OnCpu, InSyscall, CpuOwnsProc, LockInv,
      ForkInv, ForkPCs, Started, Live
<1>19. ASSUME NEW ch \in Chans, Wakeup(ch) PROVE CpuOwnsProc'
  BY SMTT(60), Distinct, <1>1, <1>19 DEF Wakeup, wakeup1, CpuOwnsProc, LockInv,
      ForkInv, ForkPCs, Started, Live
<1>20. CASE UNCHANGED vars
  BY ZenonT(60), <1>2, <1>20 DEF vars
<1>21. ASSUME NEW c \in Cpus, Syscall(c) \/ ForkCopy(c) \/ ForkPriv(c) \/
                                 Exit(c) \/
                                 SysReturn(c) \/
                                 Nice(c) \/
                                 Fault(c)
      PROVE  CpuOwnsProc'
  BY SMTT(60), <1>2, <1>21 DEF Syscall, ForkCopy, ForkPriv, Exit, SysReturn, Nice,
      Fault, ptable
<1> QED BY ZenonT(60), <1>3, <1>4, <1>5, <1>6, <1>7, <1>8, <1>9, <1>10, <1>11, <1>12,
        <1>13, <1>14, <1>15, <1>16, <1>17, <1>18, <1>19, <1>20, <1>21
    DEF Next, Step

(* Every step leaves ptable.lock free, or with sched() or wait()'s loop.    *)
LEMMA LockStep == IInv /\ [Next]_vars => LockInv'
<1> SUFFICES ASSUME IInv, [Next]_vars PROVE LockInv'
  BY Zenon
<1>1. /\ state \in [Slots -> States]
      /\ frame \in [Slots -> Frames]
      /\ pc \in [Slots -> PCs]
      /\ cproc \in [Cpus -> Slots \cup {Null}]
      /\ lock \in Cpus \cup {Null}
      /\ CpuOwnsProc /\ LockInv /\ ForkInv
  BY ZenonT(60) DEF IInv, TypeOK
<1>2. CASE UNCHANGED <<state, cproc, lock, frame, pc>>
  BY ZenonT(60), <1>1, <1>2 DEF LockInv, ForkPCs, Started, Live
<1>3. ASSUME NEW c \in Cpus, Scheduler(c) PROVE LockInv'
  BY SMTT(60), Distinct, <1>1, <1>3 DEF Scheduler, OnCpu, Best, CpuOwnsProc, LockInv,
      ForkInv, ForkPCs, Started, Live, SetPc
<1>4. ASSUME NEW c \in Cpus, Resume(c) PROVE LockInv'
  BY SMTT(60), Distinct, <1>1, <1>4 DEF Resume, OnCpu, CpuOwnsProc, LockInv, ForkInv,
      ForkPCs, Started, Live, SetPc
<1>5. ASSUME NEW c \in Cpus, Sched(c) PROVE LockInv'
  BY SMTT(60), Distinct, <1>1, <1>5 DEF Sched, OnCpu, CpuOwnsProc, LockInv, ForkInv,
      ForkPCs, Started, Live, SetPc, ptable
<1>6. ASSUME NEW c \in Cpus, Yield(c) PROVE LockInv'
  BY SMTT(60), Distinct, <1>1, <1>6 DEF Yield, OnCpu, CpuOwnsProc, LockInv, ForkInv,
      ForkPCs, Started, Live, SetPc
<1>7. ASSUME NEW c \in Cpus, Syscall(c) PROVE LockInv'
  BY SMTT(60), Distinct, <1>1, <1>7 DEF Syscall, OnCpu, CpuOwnsProc, LockInv, ForkInv,
      ForkPCs, Started, Live, SetPc, ptable
<1>8. ASSUME NEW c \in Cpus, Allocproc(c) PROVE LockInv'
  BY SMTT(60), Distinct, <1>1, <1>8 DEF Allocproc, OnCpu, FirstUnused, InSyscall,
      CpuOwnsProc, LockInv, ForkInv, ForkPCs, Started, Live, SetPc
<1>9. ASSUME NEW c \in Cpus, AllocStack(c) PROVE LockInv'
  <2> PICK p \in Slots :
           /\ OnCpu(c, p) /\ pc[p] = "allocproc"
           /\ kstack' = [kstack EXCEPT ![child[p]] = TRUE]
           /\ frame' = [frame EXCEPT ![child[p]] = "forkret"]
           /\ pc' = [pc EXCEPT ![p] = "copyuvm", ![child[p]] = "user"]
           /\ UNCHANGED <<state, pid, parent, pgdir, lock, cproc, child>>
    BY <1>9, Zenon DEF AllocStack
  <2> DEFINE np == child[p]
  <2>1. np \in Slots /\ np # p /\ state[np] = "EMBRYO" /\ parent[np] = Null
    BY SMTT(60), <1>1 DEF ForkInv, ForkPCs, Live
  <2>2. /\ pc'[p] = "copyuvm" /\ pc'[np] = "user" /\ frame'[np] = "forkret"
        /\ \A q \in Slots : q # p /\ q # np => pc'[q] = pc[q]
        /\ \A q \in Slots : q # np => frame'[q] = frame[q]
    BY ZenonT(60), <1>1, <2>1
  <2>3. \A d \in Cpus : cproc[d] # np
    BY SMTT(60), Distinct, <1>1, <2>1 DEF LockInv, Started, Live
  <2>4. \A q \in Slots : q # np => (pc'[q] = "wait" <=> pc[q] = "wait")
    BY <2>2, Zenon
  <2>5. \A q \in Slots : state[q] \in Started \/ state[q] = "RUNNING" => q # np
    BY SMTT(60), <2>1 DEF Started, Live
  <2>6. \A d \in Cpus : cproc[d] # Null => cproc[d] \in Slots \ {np}
    BY ZenonT(60), <1>1, <2>3
  <2>7. UNCHANGED <<state, lock, cproc>>
    BY ZenonT(60)
  <2>8. /\ \A d \in Cpus : lock = d => cproc[d] # Null
        /\ \A d \in Cpus : lock = d /\ frame'[cproc[d]] = "none" =>
             pc'[cproc[d]] = "wait"
        /\ \A d \in Cpus : cproc[d] # Null /\ lock # d =>
             frame'[cproc[d]] = "none" /\ pc'[cproc[d]] # "wait"
    BY SMTT(60), <1>1, <2>2, <2>4, <2>6 DEF LockInv
  <2> QED BY SMTT(60), <1>1, <2>2, <2>4, <2>5, <2>7, <2>8 DEF LockInv, Started, Live
<1>10. ASSUME NEW c \in Cpus, AllocStackFails(c) PROVE LockInv'
  BY SMTT(60), Distinct, <1>1, <1>10 DEF AllocStackFails, OnCpu, CpuOwnsProc, LockInv,
      ForkInv, ForkPCs, Started, Live, SetPc
<1>11. ASSUME NEW c \in Cpus, ForkCopy(c) PROVE LockInv'
  BY SMTT(60), Distinct, <1>1, <1>11 DEF ForkCopy, OnCpu, CpuOwnsProc, LockInv,
      ForkInv, ForkPCs, Started, Live, SetPc
<1>12. ASSUME NEW c \in Cpus, ForkCopyFails(c) PROVE LockInv'
  BY SMTT(60), Distinct, <1>1, <1>12 DEF ForkCopyFails, OnCpu, CpuOwnsProc, LockInv,
      ForkInv, ForkPCs, Started, Live, SetPc
<1>13. ASSUME NEW c \in Cpus, ForkPriv(c) PROVE LockInv'
  BY SMTT(60), Distinct, <1>1, <1>13 DEF ForkPriv, OnCpu, CpuOwnsProc, LockInv,
      ForkInv, ForkPCs, Started, Live, SetPc
<1>14. ASSUME NEW c \in Cpus, ForkRun(c) PROVE LockInv'
  BY SMTT(60), Distinct, <1>1, <1>14 DEF ForkRun, OnCpu, CpuOwnsProc, LockInv, ForkInv,
      ForkPCs, Started, Live, SetPc
<1>15. ASSUME NEW c \in Cpus, Exit(c) PROVE LockInv'
  BY SMTT(60), Distinct, <1>1, <1>15 DEF Exit, OnCpu, InSyscall, CpuOwnsProc, LockInv,
      ForkInv, ForkPCs, Started, Live, SetPc, ptable
<1>16. ASSUME NEW c \in Cpus, ExitLocked(c) PROVE LockInv'
  BY SMTT(60), Distinct, <1>1, <1>16 DEF ExitLocked, OnCpu, ExitTable, wakeup1,
      NoZombies, Zombie, CpuOwnsProc, LockInv, ForkInv, ForkPCs, Started,
      Live, SetPc
<1>17. ASSUME NEW c \in Cpus, Wait(c) PROVE LockInv'
  BY SMTT(60), Distinct, <1>1, <1>17 DEF Wait, OnCpu, InSyscall, CpuOwnsProc, LockInv,
      ForkInv, ForkPCs, Started, Live, SetPc, ptable
<1>18. ASSUME NEW c \in Cpus, WaitReap(c) PROVE LockInv'
  BY SMTT(60), Distinct, <1>1, <1>18 DEF WaitReap, OnCpu, Zombie, CpuOwnsProc, LockInv,
      ForkInv, ForkPCs, Started, Live, SetPc
<1>19. ASSUME NEW c \in Cpus, WaitFails(c) PROVE LockInv'
  BY SMTT(60), Distinct, <1>1, <1>19 DEF WaitFails, OnCpu, CpuOwnsProc, LockInv,
      ForkInv, ForkPCs, Started, Live, SetPc, ptable
<1>20. ASSUME NEW c \in Cpus, WaitSleep(c) PROVE LockInv'
  BY SMTT(60), Distinct, <1>1, <1>20 DEF WaitSleep, OnCpu, CpuOwnsProc, LockInv,
      ForkInv, ForkPCs, Started, Live, SetPc
<1>21. ASSUME NEW c \in Cpus, Sleep(c) PROVE LockInv'
  BY SMTT(60), Distinct, <1>1, <1>21 DEF Sleep, OnCpu, CpuOwnsProc, LockInv, ForkInv,
      ForkPCs, Started, Live, SetPc
<1>22. ASSUME NEW c \in Cpus, SysReturn(c) PROVE LockInv'
  BY SMTT(60), Distinct, <1>1, <1>22 DEF SysReturn, OnCpu, CpuOwnsProc, LockInv,
      ForkInv, ForkPCs, Started, Live, SetPc, ptable
<1>23. ASSUME NEW c \in Cpus, Kill(c) PROVE LockInv'
  BY SMTT(60), Distinct, <1>1, <1>23 DEF Kill, OnCpu, InSyscall, CpuOwnsProc, LockInv,
      ForkInv, ForkPCs, Started, Live, SetPc
<1>24. ASSUME NEW c \in Cpus, Nice(c) PROVE LockInv'
  BY SMTT(60), Distinct, <1>1, <1>24 DEF Nice, OnCpu, InSyscall, CpuOwnsProc, LockInv,
      ForkInv, ForkPCs, Started, Live, SetPc
<1>25. ASSUME NEW ch \in Chans, Wakeup(ch) PROVE LockInv'
  BY SMTT(60), Distinct, <1>1, <1>25 DEF Wakeup, wakeup1, CpuOwnsProc, LockInv,
      ForkInv, ForkPCs, Started, Live
<1>26. CASE UNCHANGED vars
  BY Zenon, <1>2, <1>26 DEF vars
<1>27. ASSUME NEW c \in Cpus, Fault(c)
      PROVE  LockInv'
  BY SMTT(60), <1>2, <1>27 DEF Fault, ptable
<1> QED BY ZenonT(60), <1>3, <1>4, <1>5, <1>6, <1>7, <1>8, <1>9, <1>10, <1>11, <1>12,
        <1>13, <1>14, <1>15, <1>16, <1>17, <1>18, <1>19, <1>20, <1>21, <1>22,
        <1>23, <1>24, <1>25, <1>26, <1>27
    DEF Next, Step

(* Every step keeps the pids distinct and below nextpid.                    *)
LEMMA PidStep == IInv /\ [Next]_vars => (PidInv /\ PidsUnique)'
<1> SUFFICES ASSUME IInv, [Next]_vars PROVE (PidInv /\ PidsUnique)'
  BY Zenon
<1>1. /\ state \in [Slots -> States]
      /\ pid \in [Slots -> Nat]
      /\ nextpid \in Nat
      /\ CpuOwnsProc /\ PidInv /\ PidsUnique /\ ForkInv
  BY Zenon DEF IInv, TypeOK
<1>2. CASE UNCHANGED <<state, pid, nextpid>>
  BY Zenon, <1>1, <1>2 DEF PidInv, PidsUnique, ForkPCs, Live
<1>3. ASSUME NEW c \in Cpus, Scheduler(c) PROVE (PidInv /\ PidsUnique)'
  BY SMTT(60), Distinct, <1>1, <1>3 DEF Scheduler, OnCpu, Best, PidInv, PidsUnique,
      CpuOwnsProc, ForkInv, ForkPCs, Live
<1>4. ASSUME NEW c \in Cpus, Yield(c) PROVE (PidInv /\ PidsUnique)'
  BY SMTT(60), Distinct, <1>1, <1>4 DEF Yield, OnCpu, PidInv, PidsUnique, CpuOwnsProc,
      ForkInv, ForkPCs, Live
<1>5. ASSUME NEW c \in Cpus, Allocproc(c) PROVE (PidInv /\ PidsUnique)'
  BY SMTT(60), Distinct, <1>1, <1>5 DEF Allocproc, OnCpu, FirstUnused, InSyscall,
      PidInv, PidsUnique, CpuOwnsProc, ForkInv, ForkPCs, Live
<1>6. ASSUME NEW c \in Cpus, AllocStackFails(c) PROVE (PidInv /\ PidsUnique)'
  BY SMTT(60), Distinct, <1>1, <1>6 DEF AllocStackFails, OnCpu, PidInv, PidsUnique,
      CpuOwnsProc, ForkInv, ForkPCs, Live
<1>7. ASSUME NEW c \in Cpus, ForkCopyFails(c) PROVE (PidInv /\ PidsUnique)'
  BY SMTT(60), Distinct, <1>1, <1>7 DEF ForkCopyFails, OnCpu, PidInv, PidsUnique,
      CpuOwnsProc, ForkInv, ForkPCs, Live
<1>8. ASSUME NEW c \in Cpus, ForkRun(c) PROVE (PidInv /\ PidsUnique)'
  BY SMTT(60), Distinct, <1>1, <1>8 DEF ForkRun, OnCpu, PidInv, PidsUnique,
      CpuOwnsProc, ForkInv, ForkPCs, Live
<1>9. ASSUME NEW c \in Cpus, ExitLocked(c) PROVE (PidInv /\ PidsUnique)'
  BY SMTT(60), Distinct, <1>1, <1>9 DEF ExitLocked, OnCpu, ExitTable, wakeup1,
      NoZombies, Zombie, PidInv, PidsUnique, CpuOwnsProc, ForkInv, ForkPCs,
      Live
<1>10. ASSUME NEW c \in Cpus, WaitReap(c) PROVE (PidInv /\ PidsUnique)'
  BY SMTT(60), Distinct, <1>1, <1>10 DEF WaitReap, OnCpu, Zombie, PidInv, PidsUnique,
      CpuOwnsProc, ForkInv, ForkPCs, Live
<1>11. ASSUME NEW c \in Cpus, WaitSleep(c) PROVE (PidInv /\ PidsUnique)'
  BY SMTT(60), Distinct, <1>1, <1>11 DEF WaitSleep, OnCpu, PidInv, PidsUnique,
      CpuOwnsProc, ForkInv, ForkPCs, Live
<1>12. ASSUME NEW c \in Cpus, Sleep(c) PROVE (PidInv /\ PidsUnique)'
  BY SMTT(60), Distinct, <1>1, <1>12 DEF Sleep, OnCpu, PidInv, PidsUnique, CpuOwnsProc,
      ForkInv, ForkPCs, Live
<1>13. ASSUME NEW c \in Cpus, Kill(c) PROVE (PidInv /\ PidsUnique)'
  BY SMTT(60), Distinct, <1>1, <1>13 DEF Kill, OnCpu, InSyscall, PidInv, PidsUnique,
      CpuOwnsProc, ForkInv, ForkPCs, Live
<1>14. ASSUME NEW ch \in Chans, Wakeup(ch) PROVE (PidInv /\ PidsUnique)'
  BY ZenonT(60), Distinct, <1>1, <1>14 DEF Wakeup, wakeup1, PidInv, PidsUnique,
      CpuOwnsProc, ForkInv, ForkPCs, Live
<1>15. CASE UNCHANGED vars
  BY Zenon, <1>2, <1>15 DEF vars
<1>16. ASSUME NEW c \in Cpus, Resume(c) \/ Sched(c) \/ Syscall(c) \/
                                 AllocStack(c) \/
                                 ForkCopy(c) \/
                                 ForkPriv(c) \/
                                 Exit(c) \/
                                 Wait(c) \/
                                 WaitFails(c) \/
                                 SysReturn(c) \/
                                 Nice(c) \/
                                 Fault(c)
      PROVE  (PidInv /\ PidsUnique)'
  BY ZenonT(60), <1>2, <1>16 DEF Resume, Sched, Syscall, AllocStack, ForkCopy, ForkPriv,
      Exit, Wait, WaitFails, SysReturn, Nice, Fault, ptable
<1> QED BY Zenon, <1>3, <1>4, <1>5, <1>6, <1>7, <1>8, <1>9, <1>10, <1>11, <1>12,
        <1>13, <1>14, <1>15, <1>16
    DEF Next, Step

(* Every step leaves the child of a fork in progress to that fork.          *)
LEMMA ForkStep == IInv /\ [Next]_vars => ForkInv'
<1> SUFFICES ASSUME IInv, [Next]_vars PROVE ForkInv'
  BY Zenon
<1>1. /\ state \in [Slots -> States]
      /\ pid \in [Slots -> Nat]
      /\ parent \in [Slots -> Slots \cup {Null}]
      /\ kstack \in [Slots -> BOOLEAN]
      /\ pgdir \in [Slots -> BOOLEAN]
      /\ pc \in [Slots -> PCs]
      /\ frame \in [Slots -> Frames]
      /\ child \in [Slots -> Slots \cup {Null}]
      /\ nextpid \in Nat
      /\ CpuOwnsProc /\ LockInv /\ PidInv /\ ForkInv /\ InitInv /\ ParentAlive
  BY Zenon DEF IInv, TypeOK
<1>2. CASE UNCHANGED <<state, pid, parent, kstack, pgdir, pc, frame, child>>
  BY SMTT(60), <1>1, <1>2 DEF ForkInv, ForkPCs, Live, Started
<1>3. ASSUME NEW c \in Cpus, Scheduler(c) PROVE ForkInv'
  BY SMTT(60), Distinct, <1>1, <1>3 DEF Scheduler, OnCpu, Best, ForkInv, ForkPCs,
      CpuOwnsProc, LockInv, PidInv, InitInv, ParentAlive, Live, Started,
      SetPc
<1>4. ASSUME NEW c \in Cpus, Resume(c) PROVE ForkInv'
  BY SMTT(60), Distinct, <1>1, <1>4 DEF Resume, OnCpu, ForkInv, ForkPCs, CpuOwnsProc,
      LockInv, PidInv, InitInv, ParentAlive, Live, Started, SetPc
<1>5. ASSUME NEW c \in Cpus, Yield(c) PROVE ForkInv'
  BY SMTT(60), Distinct, <1>1, <1>5 DEF Yield, OnCpu, ForkInv, ForkPCs, CpuOwnsProc,
      LockInv, PidInv, InitInv, ParentAlive, Live, Started, SetPc
<1>6. ASSUME NEW c \in Cpus, Syscall(c) PROVE ForkInv'
  BY SMTT(60), Distinct, <1>1, <1>6 DEF Syscall, OnCpu, ForkInv, ForkPCs, CpuOwnsProc,
      LockInv, PidInv, InitInv, ParentAlive, Live, Started, SetPc, ptable
<1>7. ASSUME NEW c \in Cpus, Allocproc(c) PROVE ForkInv'
  BY SMTT(60), Distinct, <1>1, <1>7 DEF Allocproc, OnCpu, FirstUnused, InSyscall,
      ForkInv, ForkPCs, CpuOwnsProc, LockInv, PidInv, InitInv, ParentAlive,
      Live, Started, SetPc
<1>8. ASSUME NEW c \in Cpus, AllocStack(c) PROVE ForkInv'
  <2> PICK p \in Slots :
           /\ OnCpu(c, p) /\ pc[p] = "allocproc"
           /\ kstack' = [kstack EXCEPT ![child[p]] = TRUE]
           /\ frame' = [frame EXCEPT ![child[p]] = "forkret"]
           /\ pc' = [pc EXCEPT ![p] = "copyuvm", ![child[p]] = "user"]
           /\ UNCHANGED <<state, pid, parent, pgdir, lock, cproc, child>>
    BY <1>8, Zenon DEF AllocStack
  <2> DEFINE np == child[p]
  <2>1. np \in Slots /\ np # p /\ state[np] = "EMBRYO" /\ parent[np] = Null
    BY ZenonT(60), <1>1 DEF ForkInv, ForkPCs, Live
  <2>2. /\ pc'[p] = "copyuvm" /\ pc'[np] = "user" /\ frame'[np] = "forkret"
        /\ \A q \in Slots : q # p /\ q # np => pc'[q] = pc[q]
        /\ \A q \in Slots : q # np => frame'[q] = frame[q]
    BY ZenonT(60), <1>1, <2>1
  <2>3. kstack'[np] /\ \A q \in Slots : q # np => kstack'[q] = kstack[q]
    BY Zenon, <1>1, <2>1
  <2>4. /\ pc[np] \in {"user", "dead"}
        /\ \A q \in Slots : q # p /\ pc[q] \in ForkPCs => child[q] # np
    BY ZenonT(60), <1>1, <2>1 DEF ForkInv, ForkPCs, Live
  <2> QED BY SMTT(60), <1>1, <2>1, <2>2, <2>3, <2>4 DEF ForkInv, ForkPCs, Live
<1>9. ASSUME NEW c \in Cpus, AllocStackFails(c) PROVE ForkInv'
  BY SMTT(60), Distinct, <1>1, <1>9 DEF AllocStackFails, OnCpu, ForkInv, ForkPCs,
      CpuOwnsProc, LockInv, PidInv, InitInv, ParentAlive, Live, Started,
      SetPc
<1>10. ASSUME NEW c \in Cpus, ForkCopy(c) PROVE ForkInv'
  BY SMTT(60), Distinct, <1>1, <1>10 DEF ForkCopy, OnCpu, ForkInv, ForkPCs,
      CpuOwnsProc, LockInv, PidInv, InitInv, ParentAlive, Live, Started,
      SetPc
<1>11. ASSUME NEW c \in Cpus, ForkCopyFails(c) PROVE ForkInv'
  BY SMTT(60), Distinct, <1>1, <1>11 DEF ForkCopyFails, OnCpu, ForkInv, ForkPCs,
      CpuOwnsProc, LockInv, PidInv, InitInv, ParentAlive, Live, Started,
      SetPc
<1>12. ASSUME NEW c \in Cpus, ForkPriv(c) PROVE ForkInv'
  BY SMTT(60), Distinct, <1>1, <1>12 DEF ForkPriv, OnCpu, ForkInv, ForkPCs,
      CpuOwnsProc, LockInv, PidInv, InitInv, ParentAlive, Live, Started,
      SetPc
<1>13. ASSUME NEW c \in Cpus, ForkRun(c) PROVE ForkInv'
  BY SMTT(60), Distinct, <1>1, <1>13 DEF ForkRun, OnCpu, ForkInv, ForkPCs, CpuOwnsProc,
      LockInv, PidInv, InitInv, ParentAlive, Live, Started, SetPc
<1>14. ASSUME NEW c \in Cpus, Exit(c) PROVE ForkInv'
  BY SMTT(60), Distinct, <1>1, <1>14 DEF Exit, OnCpu, InSyscall, ForkInv, ForkPCs,
      CpuOwnsProc, LockInv, PidInv, InitInv, ParentAlive, Live, Started,
      SetPc, ptable
<1>15. ASSUME NEW c \in Cpus, ExitLocked(c) PROVE ForkInv'
  BY SMTT(60), Distinct, <1>1, <1>15 DEF ExitLocked, OnCpu, ExitTable, wakeup1,
      NoZombies, Zombie, ForkInv, ForkPCs, CpuOwnsProc, LockInv, PidInv,
      InitInv, ParentAlive, Live, Started, SetPc
<1>16. ASSUME NEW c \in Cpus, Wait(c) PROVE ForkInv'
  BY SMTT(60), Distinct, <1>1, <1>16 DEF Wait, OnCpu, InSyscall, ForkInv, ForkPCs,
      CpuOwnsProc, LockInv, PidInv, InitInv, ParentAlive, Live, Started,
      SetPc, ptable
<1>17. ASSUME NEW c \in Cpus, WaitReap(c) PROVE ForkInv'
  BY SMTT(60), Distinct, <1>1, <1>17 DEF WaitReap, OnCpu, Zombie, ForkInv, ForkPCs,
      CpuOwnsProc, LockInv, PidInv, InitInv, ParentAlive, Live, Started,
      SetPc
<1>18. ASSUME NEW c \in Cpus, WaitFails(c) PROVE ForkInv'
  BY SMTT(60), Distinct, <1>1, <1>18 DEF WaitFails, OnCpu, ForkInv, ForkPCs,
      CpuOwnsProc, LockInv, PidInv, InitInv, ParentAlive, Live, Started,
      SetPc, ptable
<1>19. ASSUME NEW c \in Cpus, WaitSleep(c) PROVE ForkInv'
  BY SMTT(60), Distinct, <1>1, <1>19 DEF WaitSleep, OnCpu, ForkInv, ForkPCs,
      CpuOwnsProc, LockInv, PidInv, InitInv, ParentAlive, Live, Started,
      SetPc
<1>20. ASSUME NEW c \in Cpus, Sleep(c) PROVE ForkInv'
  BY SMTT(60), Distinct, <1>1, <1>20 DEF Sleep, OnCpu, ForkInv, ForkPCs, CpuOwnsProc,
      LockInv, PidInv, InitInv, ParentAlive, Live, Started, SetPc
<1>21. ASSUME NEW c \in Cpus, SysReturn(c) PROVE ForkInv'
  BY SMTT(60), Distinct, <1>1, <1>21 DEF SysReturn, OnCpu, ForkInv, ForkPCs,
      CpuOwnsProc, LockInv, PidInv, InitInv, ParentAlive, Live, Started,
      SetPc, ptable
<1>22. ASSUME NEW c \in Cpus, Kill(c) PROVE ForkInv'
  BY SMTT(60), Distinct, <1>1, <1>22 DEF Kill, OnCpu, InSyscall, ForkInv, ForkPCs,
      CpuOwnsProc, LockInv, PidInv, InitInv, ParentAlive, Live, Started,
      SetPc
<1>23. ASSUME NEW c \in Cpus, Nice(c) PROVE ForkInv'
  BY SMTT(60), Distinct, <1>1, <1>23 DEF Nice, OnCpu, InSyscall, ForkInv, ForkPCs,
      CpuOwnsProc, LockInv, PidInv, InitInv, ParentAlive, Live, Started,
      SetPc
<1>24. ASSUME NEW ch \in Chans, Wakeup(ch) PROVE ForkInv'
  BY SMTT(60), Distinct, <1>1, <1>24 DEF Wakeup, wakeup1, ForkInv, ForkPCs,
      CpuOwnsProc, LockInv, PidInv, InitInv, ParentAlive, Live, Started
<1>25. CASE UNCHANGED vars
  BY ZenonT(60), <1>2, <1>25 DEF vars
<1>26. ASSUME NEW c \in Cpus, Sched(c) \/ Fault(c)
      PROVE  ForkInv'
  BY ZenonT(60), <1>2, <1>26 DEF Sched, Fault, ptable
<1> QED BY Zenon, <1>3, <1>4, <1>5, <1>6, <1>7, <1>8, <1>9, <1>10, <1>11, <1>12,
        <1>13, <1>14, <1>15, <1>16, <1>17, <1>18, <1>19, <1>20, <1>21, <1>22,
        <1>23, <1>24, <1>25, <1>26
    DEF Next, Step

(* No step ends initproc or gives it a parent, and a slot given back has no *)
(* parent.                                                                  *)
LEMMA InitStep == IInv /\ [Next]_vars => InitInv'
<1> SUFFICES ASSUME IInv, [Next]_vars PROVE InitInv'
  BY Zenon
<1>1. /\ state \in [Slots -> States]
      /\ pid \in [Slots -> Nat]
      /\ pc \in [Slots -> PCs]
      /\ parent \in [Slots -> Slots \cup {Null}]
      /\ CpuOwnsProc /\ ForkInv /\ InitInv /\ ParentAlive
  BY ZenonT(60) DEF IInv, TypeOK
<1>2. CASE UNCHANGED <<state, pid, pc, parent>>
  BY ZenonT(60), <1>1, <1>2 DEF InitInv, ForkPCs, Live
<1>3. ASSUME NEW c \in Cpus, Scheduler(c) PROVE InitInv'
  BY SMTT(60), Distinct, <1>1, <1>3 DEF Scheduler, OnCpu, Best, InitInv, CpuOwnsProc,
      ForkInv, ForkPCs, ParentAlive, Live, SetPc
<1>4. ASSUME NEW c \in Cpus, Yield(c) PROVE InitInv'
  BY SMTT(60), Distinct, <1>1, <1>4 DEF Yield, OnCpu, InitInv, CpuOwnsProc, ForkInv,
      ForkPCs, ParentAlive, Live, SetPc
<1>5. ASSUME NEW c \in Cpus, Syscall(c) PROVE InitInv'
  BY SMTT(60), Distinct, <1>1, <1>5 DEF Syscall, OnCpu, InitInv, CpuOwnsProc, ForkInv,
      ForkPCs, ParentAlive, Live, SetPc, ptable
<1>6. ASSUME NEW c \in Cpus, Allocproc(c) PROVE InitInv'
  BY SMTT(60), Distinct, <1>1, <1>6 DEF Allocproc, OnCpu, FirstUnused, InSyscall,
      InitInv, CpuOwnsProc, ForkInv, ForkPCs, ParentAlive, Live, SetPc
<1>7. ASSUME NEW c \in Cpus, AllocStack(c) PROVE InitInv'
  BY SMTT(60), Distinct, <1>1, <1>7 DEF AllocStack, OnCpu, InitInv, CpuOwnsProc,
      ForkInv, ForkPCs, ParentAlive, Live, SetPc
<1>8. ASSUME NEW c \in Cpus, AllocStackFails(c) PROVE InitInv'
  BY SMTT(60), Distinct, <1>1, <1>8 DEF AllocStackFails, OnCpu, InitInv, CpuOwnsProc,
      ForkInv, ForkPCs, ParentAlive, Live, SetPc
<1>9. ASSUME NEW c \in Cpus, ForkCopy(c) PROVE InitInv'
  BY SMTT(60), Distinct, <1>1, <1>9 DEF ForkCopy, OnCpu, InitInv, CpuOwnsProc, ForkInv,
      ForkPCs, ParentAlive, Live, SetPc
<1>10. ASSUME NEW c \in Cpus, ForkCopyFails(c) PROVE InitInv'
  BY SMTT(60), Distinct, <1>1, <1>10 DEF ForkCopyFails, OnCpu, InitInv, CpuOwnsProc,
      ForkInv, ForkPCs, ParentAlive, Live, SetPc
<1>11. ASSUME NEW c \in Cpus, ForkPriv(c) PROVE InitInv'
  BY SMTT(60), Distinct, <1>1, <1>11 DEF ForkPriv, OnCpu, InitInv, CpuOwnsProc,
      ForkInv, ForkPCs, ParentAlive, Live, SetPc
<1>12. ASSUME NEW c \in Cpus, ForkRun(c) PROVE InitInv'
  BY SMTT(60), Distinct, <1>1, <1>12 DEF ForkRun, OnCpu, InitInv, CpuOwnsProc, ForkInv,
      ForkPCs, ParentAlive, Live, SetPc
<1>13. ASSUME NEW c \in Cpus, Exit(c) PROVE InitInv'
  BY SMTT(60), Distinct, <1>1, <1>13 DEF Exit, OnCpu, InSyscall, InitInv, CpuOwnsProc,
      ForkInv, ForkPCs, ParentAlive, Live, SetPc, ptable
<1>14. ASSUME NEW c \in Cpus, ExitLocked(c) PROVE InitInv'
  BY SMTT(60), Distinct, <1>1, <1>14 DEF ExitLocked, OnCpu, ExitTable, wakeup1,
      NoZombies, Zombie, InitInv, CpuOwnsProc, ForkInv, ForkPCs, ParentAlive,
      Live, SetPc
<1>15. ASSUME NEW c \in Cpus, Wait(c) PROVE InitInv'
  BY SMTT(60), Distinct, <1>1, <1>15 DEF Wait, OnCpu, InSyscall, InitInv, CpuOwnsProc,
      ForkInv, ForkPCs, ParentAlive, Live, SetPc, ptable
<1>16. ASSUME NEW c \in Cpus, WaitReap(c) PROVE InitInv'
  BY SMTT(60), Distinct, <1>1, <1>16 DEF WaitReap, OnCpu, Zombie, InitInv, CpuOwnsProc,
      ForkInv, ForkPCs, ParentAlive, Live, SetPc
<1>17. ASSUME NEW c \in Cpus, WaitFails(c) PROVE InitInv'
  BY SMTT(60), Distinct, <1>1, <1>17 DEF WaitFails, OnCpu, InitInv, CpuOwnsProc,
      ForkInv, ForkPCs, ParentAlive, Live, SetPc, ptable
<1>18. ASSUME NEW c \in Cpus, WaitSleep(c) PROVE InitInv'
  BY SMTT(60), Distinct, <1>1, <1>18 DEF WaitSleep, OnCpu, InitInv, CpuOwnsProc,
      ForkInv, ForkPCs, ParentAlive, Live, SetPc
<1>19. ASSUME NEW c \in Cpus, Sleep(c) PROVE InitInv'
  BY SMTT(60), Distinct, <1>1, <1>19 DEF Sleep, OnCpu, InitInv, CpuOwnsProc, ForkInv,
      ForkPCs, ParentAlive, Live, SetPc
<1>20. ASSUME NEW c \in Cpus, SysReturn(c) PROVE InitInv'
  BY SMTT(60), Distinct, <1>1, <1>20 DEF SysReturn, OnCpu, InitInv, CpuOwnsProc,
      ForkInv, ForkPCs, ParentAlive, Live, SetPc, ptable
<1>21. ASSUME NEW c \in Cpus, Kill(c) PROVE InitInv'
  BY SMTT(60), Distinct, <1>1, <1>21 DEF Kill, OnCpu, InSyscall, InitInv, CpuOwnsProc,
      ForkInv, ForkPCs, ParentAlive, Live, SetPc
<1>22. ASSUME NEW c \in Cpus, Nice(c) PROVE InitInv'
  BY SMTT(60), Distinct, <1>1, <1>22 DEF Nice, OnCpu, InSyscall, InitInv, CpuOwnsProc,
      ForkInv, ForkPCs, ParentAlive, Live, SetPc
<1>23. ASSUME NEW ch \in Chans, Wakeup(ch) PROVE InitInv'
  BY ZenonT(60), Distinct, <1>1, <1>23 DEF Wakeup, wakeup1, InitInv, CpuOwnsProc,
      ForkInv, ForkPCs, ParentAlive, Live
<1>24. CASE UNCHANGED vars
  BY ZenonT(60), <1>2, <1>24 DEF vars
<1>25. ASSUME NEW c \in Cpus, Resume(c) \/ Sched(c) \/ Fault(c)
      PROVE  InitInv'
  BY ZenonT(60), <1>2, <1>25 DEF Resume, Sched, Fault, ptable
<1> QED BY ZenonT(60), <1>3, <1>4, <1>5, <1>6, <1>7, <1>8, <1>9, <1>10, <1>11, <1>12,
        <1>13, <1>14, <1>15, <1>16, <1>17, <1>18, <1>19, <1>20, <1>21, <1>22,
        <1>23, <1>24, <1>25
    DEF Next, Step

(* No step frees a stack or a page table still in use.                      *)
LEMMA StackStep == IInv /\ [Next]_vars => StackWhileInUse'
<1> SUFFICES ASSUME IInv, [Next]_vars PROVE StackWhileInUse'
  BY Zenon
<1>1. /\ state \in [Slots -> States]
      /\ kstack \in [Slots -> BOOLEAN]
      /\ pgdir \in [Slots -> BOOLEAN]
      /\ cproc \in [Cpus -> Slots \cup {Null}]
      /\ CpuOwnsProc /\ LockInv /\ ForkInv /\ StackWhileInUse
  BY ZenonT(60) DEF IInv, TypeOK
<1>2. CASE UNCHANGED <<state, cproc, kstack, pgdir>>
  BY ZenonT(60), <1>1, <1>2 DEF StackWhileInUse, ForkPCs, Started, Live
<1>3. ASSUME NEW c \in Cpus, Scheduler(c) PROVE StackWhileInUse'
  BY SMTT(60), Distinct, <1>1, <1>3 DEF Scheduler, OnCpu, Best, StackWhileInUse,
      CpuOwnsProc, LockInv, ForkInv, ForkPCs, Started, Live
<1>4. ASSUME NEW c \in Cpus, Sched(c) PROVE StackWhileInUse'
  BY SMTT(60), Distinct, <1>1, <1>4 DEF Sched, OnCpu, StackWhileInUse, CpuOwnsProc,
      LockInv, ForkInv, ForkPCs, Started, Live, ptable
<1>5. ASSUME NEW c \in Cpus, Yield(c) PROVE StackWhileInUse'
  BY SMTT(60), Distinct, <1>1, <1>5 DEF Yield, OnCpu, StackWhileInUse, CpuOwnsProc,
      LockInv, ForkInv, ForkPCs, Started, Live
<1>6. ASSUME NEW c \in Cpus, Allocproc(c) PROVE StackWhileInUse'
  BY SMTT(60), Distinct, <1>1, <1>6 DEF Allocproc, OnCpu, FirstUnused, InSyscall,
      StackWhileInUse, CpuOwnsProc, LockInv, ForkInv, ForkPCs, Started, Live
<1>7. ASSUME NEW c \in Cpus, AllocStack(c) PROVE StackWhileInUse'
  BY SMTT(60), Distinct, <1>1, <1>7 DEF AllocStack, OnCpu, StackWhileInUse,
      CpuOwnsProc, LockInv, ForkInv, ForkPCs, Started, Live
<1>8. ASSUME NEW c \in Cpus, AllocStackFails(c) PROVE StackWhileInUse'
  BY SMTT(60), Distinct, <1>1, <1>8 DEF AllocStackFails, OnCpu, StackWhileInUse,
      CpuOwnsProc, LockInv, ForkInv, ForkPCs, Started, Live
<1>9. ASSUME NEW c \in Cpus, ForkCopy(c) PROVE StackWhileInUse'
  BY SMTT(60), Distinct, <1>1, <1>9 DEF ForkCopy, OnCpu, StackWhileInUse, CpuOwnsProc,
      LockInv, ForkInv, ForkPCs, Started, Live
<1>10. ASSUME NEW c \in Cpus, ForkCopyFails(c) PROVE StackWhileInUse'
  BY SMTT(60), Distinct, <1>1, <1>10 DEF ForkCopyFails, OnCpu, StackWhileInUse,
      CpuOwnsProc, LockInv, ForkInv, ForkPCs, Started, Live
<1>11. ASSUME NEW c \in Cpus, ForkRun(c) PROVE StackWhileInUse'
  BY SMTT(60), Distinct, <1>1, <1>11 DEF ForkRun, OnCpu, StackWhileInUse, CpuOwnsProc,
      LockInv, ForkInv, ForkPCs, Started, Live
<1>12. ASSUME NEW c \in Cpus, ExitLocked(c) PROVE StackWhileInUse'
  BY SMTT(60), Distinct, <1>1, <1>12 DEF ExitLocked, OnCpu, ExitTable, wakeup1,
      NoZombies, Zombie, StackWhileInUse, CpuOwnsProc, LockInv, ForkInv,
      ForkPCs, Started, Live
<1>13. ASSUME NEW c \in Cpus, WaitReap(c) PROVE StackWhileInUse'
  BY SMTT(60), Distinct, <1>1, <1>13 DEF WaitReap, OnCpu, Zombie, StackWhileInUse,
      CpuOwnsProc, LockInv, ForkInv, ForkPCs, Started, Live
<1>14. ASSUME NEW c \in Cpus, WaitSleep(c) PROVE StackWhileInUse'
  BY SMTT(60), Distinct, <1>1, <1>14 DEF WaitSleep, OnCpu, StackWhileInUse,
      CpuOwnsProc, LockInv, ForkInv, ForkPCs, Started, Live
<1>15. ASSUME NEW c \in Cpus, Sleep(c) PROVE StackWhileInUse'
  BY SMTT(60), Distinct, <1>1, <1>15 DEF Sleep, OnCpu, StackWhileInUse, CpuOwnsProc,
      LockInv, ForkInv, ForkPCs, Started, Live
<1>16. ASSUME NEW c \in Cpus, Kill(c) PROVE StackWhileInUse'
  BY SMTT(60), Distinct, <1>1, <1>16 DEF Kill, OnCpu, InSyscall, StackWhileInUse,
      CpuOwnsProc, LockInv, ForkInv, ForkPCs, Started, Live
<1>17. ASSUME NEW ch \in Chans, Wakeup(ch) PROVE StackWhileInUse'
  BY SMTT(60), Distinct, <1>1, <1>17 DEF Wakeup, wakeup1, StackWhileInUse, CpuOwnsProc,
      LockInv, ForkInv, ForkPCs, Started, Live
<1>18. CASE UNCHANGED vars
  BY Zenon, <1>2, <1>18 DEF vars
<1>19. ASSUME NEW c \in Cpus, Resume(c) \/ Syscall(c) \/ ForkPriv(c) \/ Exit(c)
                                 \/ Wait(c) \/
                                 WaitFails(c) \/
                                 SysReturn(c) \/
                                 Nice(c) \/
                                 Fault(c)
      PROVE  StackWhileInUse'
  BY SMTT(60), <1>2, <1>19 DEF Resume, Syscall, ForkPriv, Exit, Wait, WaitFails,
      SysReturn, Nice, Fault, ptable
<1> QED BY ZenonT(60), <1>3, <1>4, <1>5, <1>6, <1>7, <1>8, <1>9, <1>10, <1>11, <1>12,
        <1>13, <1>14, <1>15, <1>16, <1>17, <1>18, <1>19
    DEF Next, Step

(* Every step keeps the parent pointers on living, older processes.         *)
LEMMA ParentStep == IInv /\ [Next]_vars => ParentAlive'
<1> SUFFICES ASSUME IInv, [Next]_vars PROVE ParentAlive'
  BY Zenon
<1>1. /\ state \in [Slots -> States]
      /\ parent \in [Slots -> Slots \cup {Null}]
      /\ pid \in [Slots -> Nat]
      /\ nextpid \in Nat
      /\ CpuOwnsProc /\ ForkInv /\ InitInv /\ PidInv /\ ParentAlive
  BY Zenon DEF IInv, TypeOK
<1>2. CASE UNCHANGED <<state, parent, pid>>
  BY Zenon, <1>1, <1>2 DEF ForkPCs, ParentAlive, Live
<1>3. ASSUME NEW c \in Cpus, Scheduler(c) PROVE ParentAlive'
  BY SMTT(60), Distinct, <1>1, <1>3 DEF Scheduler, OnCpu, Best, CpuOwnsProc, ForkInv,
      ForkPCs, InitInv, PidInv, ParentAlive, Live
<1>4. ASSUME NEW c \in Cpus, Yield(c) PROVE ParentAlive'
  BY SMTT(60), Distinct, <1>1, <1>4 DEF Yield, OnCpu, CpuOwnsProc, ForkInv, ForkPCs,
      InitInv, PidInv, ParentAlive, Live
<1>5. ASSUME NEW c \in Cpus, Allocproc(c) PROVE ParentAlive'
  BY SMTT(60), Distinct, <1>1, <1>5 DEF Allocproc, OnCpu, FirstUnused, InSyscall,
      CpuOwnsProc, ForkInv, ForkPCs, InitInv, PidInv, ParentAlive, Live
<1>6. ASSUME NEW c \in Cpus, AllocStackFails(c) PROVE ParentAlive'
  BY SMTT(60), Distinct, <1>1, <1>6 DEF AllocStackFails, OnCpu, CpuOwnsProc, ForkInv,
      ForkPCs, InitInv, PidInv, ParentAlive, Live
<1>7. ASSUME NEW c \in Cpus, ForkCopy(c) PROVE ParentAlive'
  BY SMTT(60), Distinct, <1>1, <1>7 DEF ForkCopy, OnCpu, CpuOwnsProc, ForkInv, ForkPCs,
      InitInv, PidInv, ParentAlive, Live
<1>8. ASSUME NEW c \in Cpus, ForkCopyFails(c) PROVE ParentAlive'
  BY SMTT(60), Distinct, <1>1, <1>8 DEF ForkCopyFails, OnCpu, CpuOwnsProc, ForkInv,
      ForkPCs, InitInv, PidInv, ParentAlive, Live
<1>9. ASSUME NEW c \in Cpus, ForkRun(c) PROVE ParentAlive'
  BY SMTT(60), Distinct, <1>1, <1>9 DEF ForkRun, OnCpu, CpuOwnsProc, ForkInv, ForkPCs,
      InitInv, PidInv, ParentAlive, Live
<1>10. ASSUME NEW c \in Cpus, ExitLocked(c) PROVE ParentAlive'
  BY SMTT(60), Distinct, <1>1, <1>10 DEF ExitLocked, OnCpu, ExitTable, wakeup1,
      NoZombies, Zombie, CpuOwnsProc, ForkInv, ForkPCs, InitInv, PidInv,
      ParentAlive, Live
<1>11. ASSUME NEW c \in Cpus, WaitReap(c) PROVE ParentAlive'
  BY SMTT(60), Distinct, <1>1, <1>11 DEF WaitReap, OnCpu, Zombie, CpuOwnsProc, ForkInv,
      ForkPCs, InitInv, PidInv, ParentAlive, Live
<1>12. ASSUME NEW c \in Cpus, WaitSleep(c) PROVE ParentAlive'
  BY SMTT(60), Distinct, <1>1, <1>12 DEF WaitSleep, OnCpu, CpuOwnsProc, ForkInv,
      ForkPCs, InitInv, PidInv, ParentAlive, Live
<1>13. ASSUME NEW c \in Cpus, Sleep(c) PROVE ParentAlive'
  BY SMTT(60), Distinct, <1>1, <1>13 DEF Sleep, OnCpu, CpuOwnsProc, ForkInv, ForkPCs,
      InitInv, PidInv, ParentAlive, Live
<1>14. ASSUME NEW c \in Cpus, Kill(c) PROVE ParentAlive'
  BY SMTT(60), Distinct, <1>1, <1>14 DEF Kill, OnCpu, InSyscall, CpuOwnsProc, ForkInv,
      ForkPCs, InitInv, PidInv, ParentAlive, Live
<1>15. ASSUME NEW ch \in Chans, Wakeup(ch) PROVE ParentAlive'
  BY SMTT(60), Distinct, <1>1, <1>15 DEF Wakeup, wakeup1, CpuOwnsProc, ForkInv,
      ForkPCs, InitInv, PidInv, ParentAlive, Live
<1>16. CASE UNCHANGED vars
  BY Zenon, <1>2, <1>16 DEF vars
<1>17. ASSUME NEW c \in Cpus, Resume(c) \/ Sched(c) \/ Syscall(c) \/
                                 AllocStack(c) \/
                                 ForkPriv(c) \/
                                 Exit(c) \/
                                 Wait(c) \/
                                 WaitFails(c) \/
                                 SysReturn(c) \/
                                 Nice(c) \/
                                 Fault(c)
      PROVE  ParentAlive'
  BY ZenonT(60), <1>2, <1>17 DEF Resume, Sched, Syscall, AllocStack, ForkPriv, Exit,
      Wait, WaitFails, SysReturn, Nice, Fault, ptable
<1> QED BY Zenon, <1>3, <1>4, <1>5, <1>6, <1>7, <1>8, <1>9, <1>10, <1>11, <1>12,
        <1>13, <1>14, <1>15, <1>16, <1>17
    DEF Next, Step

(* No step makes a process sleep in wait() without a reason.                *)
LEMMA WaitStep == IInv /\ [Next]_vars => WaitHasReason'
<1> SUFFICES ASSUME IInv, [Next]_vars PROVE WaitHasReason'
  BY Zenon
<1> SUFFICES ASSUME NEW p \in Slots, state'[p] = "SLEEPING", chan'[p] = p
             PROVE  MayWait(p)'
  BY Zenon DEF WaitHasReason
<1>1. /\ state \in [Slots -> States]
      /\ pid \in [Slots -> Nat]
      /\ chan \in [Slots -> Slots \cup Chans \cup {Null}]
      /\ parent \in [Slots -> Slots \cup {Null}]
      /\ killed \in [Slots -> BOOLEAN]
      /\ CpuOwnsProc /\ ForkInv /\ ParentAlive /\ WaitHasReason
  BY Zenon DEF IInv, TypeOK
<1>2. CASE UNCHANGED <<state, chan, parent, killed>>
  BY ZenonT(60), <1>1, <1>2 DEF WaitHasReason, MayWait, HasKids, NoZombies, Zombie,
      ForkPCs, Live
<1>3. ASSUME NEW c \in Cpus, Scheduler(c) PROVE MayWait(p)'
  BY SMTT(60), Distinct, <1>1, <1>3 DEF Scheduler, OnCpu, Best, WaitHasReason, MayWait,
      HasKids, NoZombies, Zombie, CpuOwnsProc, ForkInv, ForkPCs, Live
<1>4. ASSUME NEW c \in Cpus, Resume(c) PROVE MayWait(p)'
  BY SMTT(60), Distinct, <1>1, <1>4 DEF Resume, OnCpu, WaitHasReason, MayWait, HasKids,
      NoZombies, Zombie, CpuOwnsProc, ForkInv, ForkPCs, Live
<1>5. ASSUME NEW c \in Cpus, Yield(c) PROVE MayWait(p)'
  BY SMTT(60), Distinct, <1>1, <1>5 DEF Yield, OnCpu, WaitHasReason, MayWait, HasKids,
      NoZombies, Zombie, CpuOwnsProc, ForkInv, ForkPCs, Live
<1>6. ASSUME NEW c \in Cpus, Allocproc(c) PROVE MayWait(p)'
  BY SMTT(60), Distinct, <1>1, <1>6 DEF Allocproc, OnCpu, FirstUnused, InSyscall,
      WaitHasReason, MayWait, HasKids, NoZombies, Zombie, CpuOwnsProc,
      ForkInv, ForkPCs, Live
<1>7. ASSUME NEW c \in Cpus, AllocStackFails(c) PROVE MayWait(p)'
  BY SMTT(60), Distinct, <1>1, <1>7 DEF AllocStackFails, OnCpu, WaitHasReason, MayWait,
      HasKids, NoZombies, Zombie, CpuOwnsProc, ForkInv, ForkPCs, Live
<1>8. ASSUME NEW c \in Cpus, ForkCopy(c) PROVE MayWait(p)'
  BY SMTT(60), Distinct, <1>1, <1>8 DEF ForkCopy, OnCpu, WaitHasReason, MayWait,
      HasKids, NoZombies, Zombie, CpuOwnsProc, ForkInv, ForkPCs, Live
<1>9. ASSUME NEW c \in Cpus, ForkCopyFails(c) PROVE MayWait(p)'
  BY SMTT(60), Distinct, <1>1, <1>9 DEF ForkCopyFails, OnCpu, WaitHasReason, MayWait,
      HasKids, NoZombies, Zombie, CpuOwnsProc, ForkInv, ForkPCs, Live
<1>10. ASSUME NEW c \in Cpus, ForkRun(c) PROVE MayWait(p)'
  BY SMTT(60), Distinct, <1>1, <1>10 DEF ForkRun, OnCpu, WaitHasReason, MayWait,
      HasKids, NoZombies, Zombie, CpuOwnsProc, ForkInv, ForkPCs, Live
<1>11. ASSUME NEW c \in Cpus, ExitLocked(c) PROVE MayWait(p)'
  <2> PICK r \in Slots : OnCpu(c, r) /\ ExitTable(r)
    BY ZenonT(60), <1>11 DEF ExitLocked
  <2>1. UNCHANGED <<chan, killed>>
    BY ZenonT(60), <1>11 DEF ExitLocked
  <2>2. p # r /\ state[p] = "SLEEPING" /\ chan[p] = p /\ parent[r] # p
    BY ZenonT(60), <1>1, <2>1 DEF ExitTable, wakeup1
  <2>3. p = initproc => NoZombies(r)
    BY ZenonT(60), <1>1, <2>2 DEF ExitTable, wakeup1
  <2>4. HasKids(p) /\ NoZombies(p) /\ ~killed[p]
    BY ZenonT(60), <1>1, <2>2 DEF WaitHasReason, MayWait
  <2>5. \A q \in Slots : 
          parent'[q] = IF parent[q] = r THEN initproc ELSE parent[q]
    BY ZenonT(60) DEF ExitTable
  <2>6. HasKids(p)'
    BY Zenon, <2>2, <2>4, <2>5 DEF HasKids
  <2>7. parent[r] # r
    BY SMTT(60), <1>1, Distinct DEF ParentAlive
  <2>8. ASSUME NEW q \in Slots, parent'[q] = p, state'[q] = "ZOMBIE"
        PROVE  FALSE
    <3>1. CASE q = r
      BY Zenon, <2>2, <2>5, <2>7, <2>8, <3>1
    <3>2. CASE q # r
      <4>1. state[q] = "ZOMBIE"
        BY ZenonT(60), <2>8, <3>2 DEF ExitTable, wakeup1
      <4> QED BY ZenonT(60), <2>3, <2>4, <2>5, <2>8, <4>1 DEF NoZombies, Zombie
    <3> QED BY Zenon, <3>1, <3>2
  <2> QED BY Zenon, <2>1, <2>4, <2>6, <2>8 DEF MayWait, NoZombies, Zombie
<1>12. ASSUME NEW c \in Cpus, WaitReap(c) PROVE MayWait(p)'
  BY SMTT(60), Distinct, <1>1, <1>12 DEF WaitReap, OnCpu, Zombie, WaitHasReason,
      MayWait, HasKids, NoZombies, CpuOwnsProc, ForkInv, ForkPCs, Live
<1>13. ASSUME NEW c \in Cpus, WaitSleep(c) PROVE MayWait(p)'
  BY SMTT(60), Distinct, <1>1, <1>13 DEF WaitSleep, OnCpu, WaitHasReason, MayWait,
      HasKids, NoZombies, Zombie, CpuOwnsProc, ForkInv, ForkPCs, Live
<1>14. ASSUME NEW c \in Cpus, Sleep(c) PROVE MayWait(p)'
  BY SMTT(60), Distinct, <1>1, <1>14 DEF Sleep, OnCpu, WaitHasReason, MayWait, HasKids,
      NoZombies, Zombie, CpuOwnsProc, ForkInv, ForkPCs, Live
<1>15. ASSUME NEW c \in Cpus, Kill(c) PROVE MayWait(p)'
  BY SMTT(60), Distinct, <1>1, <1>15 DEF Kill, OnCpu, InSyscall, WaitHasReason,
      MayWait, HasKids, NoZombies, Zombie, CpuOwnsProc, ForkInv, ForkPCs,
      Live
<1>16. ASSUME NEW c \in Cpus, Fault(c) PROVE MayWait(p)'
  BY SMTT(60), Distinct, <1>1, <1>16 DEF Fault, OnCpu, WaitHasReason, MayWait, HasKids,
      NoZombies, Zombie, CpuOwnsProc, ForkInv, ForkPCs, Live
<1>17. ASSUME NEW ch \in Chans, Wakeup(ch) PROVE MayWait(p)'
  BY SMTT(60), Distinct, <1>1, <1>17 DEF Wakeup, wakeup1, WaitHasReason, MayWait,
      HasKids, NoZombies, Zombie, CpuOwnsProc, ForkInv, ForkPCs, Live
<1>18. CASE UNCHANGED vars
  BY Zenon, <1>2, <1>18 DEF vars
<1>19. ASSUME NEW c \in Cpus, Sched(c) \/ Syscall(c) \/ AllocStack(c) \/
                                 ForkPriv(c) \/
                                 Exit(c) \/
                                 Wait(c) \/
                                 WaitFails(c) \/
                                 SysReturn(c) \/
                                 Nice(c)
      PROVE  MayWait(p)'
  BY SMTT(60), <1>2, <1>19 DEF Sched, Syscall, AllocStack, ForkPriv, Exit, Wait,
      WaitFails, SysReturn, Nice, ptable
<1> QED BY ZenonT(60), <1>3, <1>4, <1>5, <1>6, <1>7, <1>8, <1>9, <1>10, <1>11, <1>12,
        <1>13, <1>14, <1>15, <1>16, <1>17, <1>18, <1>19
    DEF Next, Step

(* The strengthened invariant holds in every execution of proc.c's          *)
(* operations, whatever the number of slots, CPUs, channels and pids.       *)
THEOREM IInvHolds == Spec => []IInv
<1>1. IInv /\ [Next]_vars => IInv'
  BY ZenonT(60), TypeStep, CpuStep, LockStep, PidStep, ForkStep, InitStep, StackStep,
     ParentStep, WaitStep DEF IInv
<1> QED BY <1>1, InitIInv, PTL DEF Spec

(* Types: proc.c's tables hold what their declarations say.                 *)
THEOREM TypeCorrect == Spec => []TypeOK
<1>1. IInv => TypeOK
  BY ZenonT(60) DEF IInv
<1> QED BY <1>1, IInvHolds, PTL

(* scheduler(), sched(), yield(), sleep(), exit(), kill() and wakeup()      *)
(* never let two CPUs run one process, nor lose a RUNNING one.              *)
THEOREM CpuOwnsProcHolds == Spec => []CpuOwnsProc
<1>1. IInv => CpuOwnsProc
  BY ZenonT(60) DEF IInv
<1> QED BY <1>1, IInvHolds, PTL

(* wait() and fork()'s error paths never free what a CPU runs on.           *)
THEOREM StackWhileInUseHolds == Spec => []StackWhileInUse
<1>1. IInv => StackWhileInUse
  BY ZenonT(60) DEF IInv
<1> QED BY <1>1, IInvHolds, PTL

(* fork() and exit() keep every parent pointer on a living, older process.  *)
THEOREM ParentAliveHolds == Spec => []ParentAlive
<1>1. IInv => ParentAlive
  BY ZenonT(60) DEF IInv
<1> QED BY <1>1, IInvHolds, PTL

(* exit() and kill() never leave a process asleep in wait() for nothing.    *)
THEOREM WaitHasReasonHolds == Spec => []WaitHasReason
<1>1. IInv => WaitHasReason
  BY ZenonT(60) DEF IInv
<1> QED BY <1>1, IInvHolds, PTL

(* allocproc() never gives two slots the same pid.                          *)
THEOREM PidsUniqueHolds == Spec => []PidsUnique
<1>1. IInv => PidsUnique
  BY ZenonT(60) DEF IInv
<1> QED BY <1>1, IInvHolds, PTL


-----------------------------------------------------------------------------
(* A nonempty set of numbers has a least one.                               *)
LEMMA Least ==
  ASSUME NEW N \in SUBSET Nat, N # {}
  PROVE  \E n \in N : \A m \in N : m >= n
<1> DEFINE Lt == {ss \in Nat \X Nat : ss[1] < ss[2]}
<1>1. IsWellFoundedOn(Lt, Nat)
  BY NatLessThanWellFounded, Zenon DEF OpToRel
<1>2. PICK n \in N : \A m \in N : <<m, n>> \notin Lt
  <2> HIDE DEF Lt
  <2>1. QED
    BY Zenon, <1>1, WFMin
<1>3. ASSUME NEW m \in N PROVE m >= n
  <2>1. m \in Nat /\ n \in Nat /\ <<m, n>> \in Nat \X Nat
    BY ZenonT(60)
  <2>2. ~(m < n)
    BY ZenonT(60), <1>2, <2>1
  <2>3. QED
    BY SMTT(60), <2>1, <2>2
<1>4. QED
  BY ZenonT(60), <1>3

(* n+1 numbers do not go into n places one by one.                          *)
LEMMA Pigeonholes ==
  ASSUME NEW k \in Nat, NEW g0 \in [0..k -> 1..k]
  PROVE  \E x, y \in 0..k : x # y /\ g0[x] = g0[y]
<1> DEFINE Apart(g, n) == \A x, y \in 0..n : x # y => g[x] # g[y]
           Bad == {n \in Nat : \E g \in [0..n -> 1..n] : Apart(g, n)}
<1>1. SUFFICES ASSUME Bad # {} PROVE FALSE
  BY SMTT(60)
<1>2. PICK n \in Bad : \A m \in Bad : m >= n
  <2>1. Bad \in SUBSET Nat
    BY Zenon
  <2> HIDE DEF Bad
  <2>2. QED
    BY Zenon, <1>1, <2>1, Least
<1>3. PICK g \in [0..n -> 1..n] : Apart(g, n)
  BY Zenon, <1>2
<1>4. n \in Nat /\ n # 0
  <2>1. n \in Nat
    BY Zenon, <1>2
  <2>2. 0 \in 0..n /\ n \in 0..n
    BY SMTT(60), <2>1
  <2>3. g[0] \in 1..n
    BY Zenon, <2>2
  <2>4. QED
    BY SMTT(60), <2>1, <2>3
<1>5. n - 1 \in Nat /\ n - 1 \notin Bad
  <2>1. n - 1 \in Nat /\ ~(n - 1 >= n)
    BY SMTT(60), <1>4
  <2>2. QED
    BY Zenon, <1>2, <2>1
<1>6. PICK h : h = [i \in 0..(n-1) |-> IF g[i] = n THEN g[n] ELSE g[i]]
  BY Zenon
<1>7. \A i \in 0..(n-1) : /\ i \in 0..n /\ i # n /\ n \in 0..n
                         /\ h[i] = IF g[i] = n THEN g[n] ELSE g[i]
  BY SMTT(60), <1>4, <1>6
<1>8. \A i \in 0..(n-1) : g[i] \in 1..n /\ g[n] \in 1..n /\ g[i] # g[n]
  BY ZenonT(60), <1>3, <1>7
<1>9. h \in [0..(n-1) -> 1..(n-1)]
  <2>1. SUFFICES ASSUME NEW i \in 0..(n-1) PROVE h[i] \in 1..(n-1)
    BY ZenonT(60), <1>6
  <2>2. h[i] \in 1..n /\ h[i] # n
    BY Zenon, <1>7, <1>8
  <2>3. \A v \in 1..n : v # n => v \in 1..(n-1)
    BY SMTT(60), <1>4
  <2>4. QED
    BY Zenon, <2>2, <2>3
<1>10. Apart(h, n - 1)
  <2>1. SUFFICES ASSUME NEW x \in 0..(n-1), NEW y \in 0..(n-1), x # y
                 PROVE  h[x] # h[y]
    BY ZenonT(60)
  <2>2. g[x] # g[y]
    BY ZenonT(60), <1>3, <1>7, <2>1
  <2>3. QED
    BY Zenon, <1>7, <1>8, <2>2
<1>11. QED
  BY Zenon, <1>5, <1>9, <1>10

(* A walk of n steps from t along the parent pointers.                      *)
Up(f, n) == IF f[n-1] = Null THEN Null ELSE parent[f[n-1]]
IsWalk(f, t, n) == f[0] = t /\ \A m \in 1..n : f[m] = Up(f, m)

(* There is one.                                                            *)
LEMMA WalkExists ==
  ASSUME NEW t, NEW k \in Nat
  PROVE  \E f : IsWalk(f, t, k)
<1> DEFINE Bad == {n \in Nat : ~\E f : IsWalk(f, t, n)}
<1>1. SUFFICES ASSUME Bad # {} PROVE FALSE
  BY ZenonT(60)
<1>2. PICK n \in Bad : \A m \in Bad : m >= n
  <2>1. Bad \in SUBSET Nat
    BY ZenonT(60)
  <2> HIDE DEF Bad
  <2>2. QED
    BY ZenonT(60), <1>1, <2>1, Least
<1>3. n \in Nat /\ n # 0
  <2>1. IsWalk([m \in Nat |-> t], t, 0)
    BY SMTT(60) DEF IsWalk
  <2>2. QED
    BY ZenonT(60), <2>1
<1>4. n - 1 \in Nat /\ n - 1 \notin Bad
  BY SMTT(60), <1>2, <1>3
<1>5. PICK f : IsWalk(f, t, n - 1)
  BY ZenonT(60), <1>4
<1>6. PICK g : g = [m \in 0..n |-> IF m = n THEN Up(f, n) ELSE f[m]]
  BY ZenonT(60)
<1>7. \A m \in 0..(n-1) : g[m] = f[m]
  BY SMTT(60), <1>3, <1>6
<1>8. g[n] = Up(f, n)
  BY SMTT(60), <1>3, <1>6
<1>9. IsWalk(g, t, n)
  <2>1. g[0] = t
    BY SMTT(60), <1>3, <1>5, <1>7 DEF IsWalk
  <2>2. ASSUME NEW m \in 1..n PROVE g[m] = Up(g, m)
    <3>1. g[m-1] = f[m-1]
      BY SMTT(60), <1>3, <1>7
    <3>2. Up(g, m) = Up(f, m)
      BY ZenonT(60), <3>1 DEF Up
    <3>3. CASE m = n
      BY SMTT(60), <1>8, <3>2, <3>3
    <3>4. CASE m # n
      <4>1. m \in 1..(n-1) /\ m \in 0..(n-1)
        BY SMTT(60), <1>3, <3>4
      <4>2. QED
        BY ZenonT(60), <1>5, <1>7, <3>2, <4>1 DEF IsWalk
    <3>5. QED
      BY ZenonT(60), <3>3, <3>4
  <2>3. QED
    BY ZenonT(60), <2>1, <2>2 DEF IsWalk
<1>10. QED
  BY ZenonT(60), <1>2, <1>9

(* What can_access_procinfo() walks.                                        *)
LEMMA ChainWalk ==
  ASSUME NEW t
  PROVE  IsWalk(Chain(t), t, NPROC)
<1> DEFINE Turns(u) == [n \in 0..NPROC |->
                          IF n = 0 THEN t ELSE IF u[n-1] = Null THEN Null ELSE parent[u[n-1]]]
<1>1. NPROC \in Nat
  BY Zenon, ProcAssumption
<1>2. PICK f : IsWalk(f, t, NPROC)
  BY Zenon, <1>1, WalkExists
<1>3. PICK g : g = [n \in 0..NPROC |-> f[n]]
  BY Zenon
<1>4. \A n \in 0..NPROC : g[n] = IF n = 0 THEN t ELSE Up(g, n)
  <2>1. SUFFICES ASSUME NEW n \in 0..NPROC
                 PROVE  g[n] = IF n = 0 THEN t ELSE Up(g, n)
    BY Zenon
  <2>2. g[n] = f[n]
    BY Zenon, <1>3
  <2>3. CASE n = 0
    BY Zenon, <1>2, <2>2, <2>3 DEF IsWalk
  <2>4. CASE n # 0
    <3>1. n \in 1..NPROC /\ n - 1 \in 0..NPROC
      BY SMTT(60), <1>1, <2>4
    <3>2. g[n-1] = f[n-1]
      BY Zenon, <1>3, <3>1
    <3>3. f[n] = Up(f, n)
      BY Zenon, <1>2, <3>1 DEF IsWalk
    <3>4. QED
      BY Zenon, <2>2, <2>4, <3>2, <3>3 DEF Up
  <2>5. QED
    BY Zenon, <2>3, <2>4
<1>5. g = Turns(g)
  <2>1. \A n \in 0..NPROC : g[n] = Turns(g)[n]
    BY Zenon, <1>4 DEF Up
  <2>2. QED
    BY Zenon, <1>3, <2>1
<1>6. Chain(t) = CHOOSE u : u = Turns(u)
  BY Zenon DEF Chain
<1>7. PICK c : c = Chain(t)
  BY Zenon
<1>8. c = Turns(c)
  <2> HIDE DEF Turns
  <2>1. QED
    BY Zenon, <1>5, <1>6, <1>7
<1>9. c[0] = t
  BY SMTT(60), <1>1, <1>8
<1>10. ASSUME NEW n \in 1..NPROC PROVE c[n] = Up(c, n)
  <2>1. n \in 0..NPROC /\ n # 0
    BY SMTT(60), <1>1
  <2>2. c[n] = IF n = 0 THEN t ELSE IF c[n-1] = Null THEN Null ELSE parent[c[n-1]]
    BY Zenon, <1>8, <2>1
  <2>3. QED
    BY Zenon, <2>1, <2>2 DEF Up
<1>11. QED
  BY Zenon, <1>7, <1>9, <1>10 DEF IsWalk

(* A walk goes to older processes: where it has not ended yet it is at a    *)
(* slot, older than all it has come through.                                *)
Older(f, n) ==
  f[n] # Null => /\ f[n] \in Slots
                 /\ \A m \in 0..(n-1) : f[m] \in Slots /\ pid[f[n]] < pid[f[m]]

LEMMA WalkOlder ==
  ASSUME IInv, NEW t \in Slots, NEW k \in Nat, NEW f, IsWalk(f, t, k)
  PROVE  \A n \in 0..k : Older(f, n)
<1>a. /\ parent \in [Slots -> Slots \cup {Null}] /\ pid \in [Slots -> Nat]
      /\ \A q \in Slots : parent[q] # Null => pid[parent[q]] < pid[q]
  BY Zenon DEF IInv, TypeOK, ParentAlive
<1> DEFINE Bad == {n \in 0..k : ~Older(f, n)}
<1>1. SUFFICES ASSUME Bad # {} PROVE FALSE
  BY Zenon
<1>2. PICK n \in Bad : \A m \in Bad : m >= n
  <2>1. Bad \in SUBSET Nat
    BY SMTT(60)
  <2> HIDE DEF Bad
  <2>2. QED
    BY Zenon, <1>1, <2>1, Least
<1>3. n \in Nat /\ n \in 0..k
  BY SMTT(60)
<1>4. CASE n = 0
  <2>1. f[0] = t
    BY Zenon DEF IsWalk
  <2>2. Older(f, 0)
    BY SMTT(60), <2>1 DEF Older
  <2>3. QED
    BY Zenon, <1>2, <1>4, <2>2
<1>5. CASE n # 0
  <2>1. n - 1 \in 0..k /\ n \in 1..k /\ n - 1 \in Nat
    BY SMTT(60), <1>3, <1>5
  <2>2. Older(f, n - 1)
    BY SMTT(60), <1>2, <1>3, <2>1
  <2>3. f[n] = Up(f, n)
    BY Zenon, <2>1 DEF IsWalk
  <2>4. Older(f, n)
    <3>1. SUFFICES ASSUME f[n] # Null
                   PROVE  /\ f[n] \in Slots
                          /\ \A m \in 0..(n-1) : f[m] \in Slots /\ pid[f[n]] < pid[f[m]]
      BY Zenon DEF Older
    <3>2. f[n-1] # Null /\ f[n] = parent[f[n-1]]
      BY Zenon, <2>3, <3>1 DEF Up
    <3>3. /\ f[n-1] \in Slots
          /\ \A m \in 0..((n-1)-1) : f[m] \in Slots /\ pid[f[n-1]] < pid[f[m]]
      BY Zenon, <2>2, <3>2 DEF Older
    <3>4. f[n] \in Slots /\ pid[f[n]] < pid[f[n-1]]
      BY Zenon, <1>a, <3>1, <3>2, <3>3
    <3>5. ASSUME NEW m \in 0..(n-1) PROVE f[m] \in Slots /\ pid[f[n]] < pid[f[m]]
      <4>1. CASE m = n - 1
        BY Zenon, <3>3, <3>4, <4>1
      <4>2. CASE m # n - 1
        <5>1. m \in 0..((n-1)-1)
          BY SMTT(60), <2>1, <4>2
        <5>2. f[m] \in Slots /\ pid[f[n-1]] < pid[f[m]]
          BY Zenon, <3>3, <5>1
        <5>3. pid[f[n]] \in Nat /\ pid[f[n-1]] \in Nat /\ pid[f[m]] \in Nat
          BY Zenon, <1>a, <3>3, <3>4, <5>2
        <5>4. QED
          BY SMTT(60), <3>4, <5>2, <5>3
      <4>3. QED
        BY Zenon, <4>1, <4>2
    <3>6. QED
      BY Zenon, <3>4, <3>5
  <2>5. QED
    BY Zenon, <1>2, <2>4
<1>6. QED
  BY Zenon, <1>4, <1>5

(* So it ends: there are not that many slots.                               *)
LEMMA WalkEnds ==
  ASSUME IInv, NEW t \in Slots, NEW f, IsWalk(f, t, NPROC)
  PROVE  f[NPROC] = Null
<1>1. NPROC \in Nat /\ Slots = 1..NPROC
  BY Zenon, ProcAssumption DEF Slots
<1>2. SUFFICES ASSUME f[NPROC] # Null PROVE FALSE
  BY Zenon
<1>3. \A n \in 0..NPROC : Older(f, n)
  BY Zenon, <1>1, WalkOlder
<1>4. \A n \in 0..NPROC : f[n] \in Slots
  <2>1. /\ f[NPROC] \in Slots
        /\ \A m \in 0..(NPROC-1) : f[m] \in Slots
    <3>1. NPROC \in 0..NPROC
      BY SMTT(60), <1>1
    <3>2. Older(f, NPROC)
      BY Zenon, <1>3, <3>1
    <3>3. QED
      BY Zenon, <1>2, <3>2 DEF Older
  <2>2. \A n \in 0..NPROC : n = NPROC \/ n \in 0..(NPROC-1)
    BY SMTT(60), <1>1
  <2>3. QED
    BY Zenon, <2>1, <2>2
<1>5. PICK g \in [0..NPROC -> Slots] : \A n \in 0..NPROC : g[n] = f[n]
  <2>1. [n \in 0..NPROC |-> f[n]] \in [0..NPROC -> Slots]
    BY Zenon, <1>4
  <2>2. QED
    BY Zenon, <2>1
<1>7. PICK x \in 0..NPROC, y \in 0..NPROC : x # y /\ g[x] = g[y]
  BY Zenon, <1>1, Pigeonholes
<1>8. \A m, n \in 0..NPROC : m < n => pid[f[n]] < pid[f[m]]
  <2>1. SUFFICES ASSUME NEW m \in 0..NPROC, NEW n \in 0..NPROC, m < n
                 PROVE  pid[f[n]] < pid[f[m]]
    BY Zenon
  <2>2. m \in 0..(n-1)
    BY SMTT(60), <1>1, <2>1
  <2>3. f[n] # Null
    BY Zenon, <1>4, Distinct
  <2>4. QED
    BY Zenon, <1>3, <2>2, <2>3 DEF Older
<1>9. pid[f[x]] = pid[f[y]] /\ pid[f[x]] \in Nat /\ pid[f[y]] \in Nat
  BY Zenon, <1>4, <1>5, <1>7 DEF IInv, TypeOK
<1>10. x < y \/ y < x
  BY SMTT(60), <1>1, <1>7
<1>11. QED
  BY SMTT(60), <1>8, <1>9, <1>10

(* And it ends at initproc.                                                 *)
LEMMA WalkFindsInit ==
  ASSUME IInv, NEW t \in Slots, state[t] \in Started, NEW f, IsWalk(f, t, NPROC)
  PROVE  \E n \in 0..NPROC : f[n] = initproc
<1>1. NPROC \in Nat
  BY Zenon, ProcAssumption
<1>2. f[NPROC] = Null /\ f[0] = t /\ t # Null
  BY Zenon, WalkEnds, Distinct DEF IsWalk
<1> DEFINE Ended == {n \in 0..NPROC : f[n] = Null}
<1>3. PICK n \in Ended : \A m \in Ended : m >= n
  <2>1. Ended \in SUBSET Nat /\ NPROC \in Ended
    BY SMTT(60), <1>1, <1>2
  <2> HIDE DEF Ended
  <2>2. QED
    BY Zenon, <2>1, Least
<1>4. n \in 0..NPROC /\ f[n] = Null /\ n # 0
  BY Zenon, <1>2
<1>5. PICK k \in Nat : k = n - 1
  BY SMTT(60), <1>1, <1>4
<1>6. k \in 0..NPROC /\ k < n /\ n \in 1..NPROC /\ \A m \in 0..k : f[m] # Null
  <2>1. k \in 0..NPROC /\ k < n /\ n \in 1..NPROC
    BY SMTT(60), <1>1, <1>4, <1>5
  <2>2. ASSUME NEW m \in 0..k PROVE f[m] # Null
    <3>1. m \in 0..NPROC /\ ~(m >= n)
      BY SMTT(60), <1>1, <1>4, <2>1
    <3>2. QED
      BY Zenon, <1>3, <3>1
  <2>3. QED
    BY ZenonT(60), <2>1, <2>2
<1>7. PICK q : q = f[k]
  BY Zenon
<1>8. q \in Slots /\ q # Null
  <2>1. Older(f, k)
    BY ZenonT(60), <1>1, <1>6, WalkOlder
  <2>2. QED
    BY SMTT(60), <1>6, <1>7, <2>1 DEF Older
<1>9. parent[q] = Null
  <2>1. f[n] = Up(f, n)
    BY Zenon, <1>6 DEF IsWalk
  <2>2. QED
    BY ZenonT(60), <1>4, <1>5, <1>7, <1>8, <2>1 DEF Up
<1>10. state[q] \in Started
  <2>1. CASE k = 0
    BY ZenonT(60), <1>2, <1>7, <2>1
  <2>2. CASE k # 0
    <3>1. k \in 1..NPROC /\ k - 1 \in 0..NPROC /\ k - 1 \in 0..k
      BY SMTT(60), <1>1, <1>6, <2>2
    <3>2. f[k] = Up(f, k) /\ f[k-1] # Null
      BY ZenonT(60), <1>6, <3>1 DEF IsWalk
    <3>3. f[k-1] \in Slots
      <4>1. Older(f, k - 1)
        BY ZenonT(60), <1>1, <3>1, WalkOlder
      <4>2. QED
        BY ZenonT(60), <3>2, <4>1 DEF Older
    <3>4. q = parent[f[k-1]]
      BY ZenonT(60), <1>7, <3>2 DEF Up
    <3>5. state[q] \in Live
      BY ZenonT(60), <1>8, <3>3, <3>4 DEF IInv, ParentAlive
    <3>6. QED
      BY Zenon, <3>5 DEF Started
  <2>3. QED
    BY ZenonT(60), <2>1, <2>2
<1>11. q = initproc
  BY ZenonT(60), <1>8, <1>9, <1>10 DEF IInv, ParentAlive, Started
<1>12. QED
  BY Zenon, <1>6, <1>7, <1>11

(* kill(), nice() and getprocinfo() find the process that has the pid, and  *)
(* the walk along the parent pointers that decides who may read whose       *)
(* information ends, at initproc, for every number of processes, whatever   *)
(* forks, exits and waits have made of the pointers.                        *)
THEOREM LookupsFindHolds == Spec => []LookupsFind
<1>1. IInv => LookupsFind
  <2>1. SUFFICES ASSUME IInv PROVE AccessWalkEnds
    BY Zenon DEF IInv, LookupsFind
  <2>2. SUFFICES ASSUME NEW p \in Slots
                 PROVE  /\ Chain(p)[NPROC] = Null
                        /\ state[p] \in Live \cup {"ZOMBIE"} =>
                             can_access_procinfo(initproc, p)
    BY Zenon DEF AccessWalkEnds
  <2>3. PICK f : f = Chain(p) /\ IsWalk(f, p, NPROC)
    BY ZenonT(60), ChainWalk
  <2>4. f[NPROC] = Null
    BY ZenonT(60), <2>1, <2>3, WalkEnds
  <2>5. state[p] \in Started => \E n \in 0..NPROC : f[n] = initproc
    BY ZenonT(60), <2>1, <2>3, WalkFindsInit
  <2>6. QED
    BY ZenonT(60), <2>3, <2>4, <2>5 DEF can_access_procinfo, Started
<1>2. QED
  BY <1>1, IInvHolds, PTL
====
