------------------------------ MODULE MCKernel ------------------------------
(* Memory, Files, Spin, Console and Pipe side by side for TLC, small        *)
(* instances of each; in a behaviour one of them moves, the part.           *)
EXTENDS Memory, Files, Console

CONSTANTS
  SCpus, Threads, MaxDepth,
  Procs, Readers, Writers, Vals, PIPESIZE, Wrap, MaxLen, Kills

VARIABLES
  part,
  cur, IF_, ncli, intena, lk, stack, saved, ready, spanic,
  data, nread, nwrite, readopen, writeopen, lock, rfd, wfd, kfrees, pc, killed, todo, addr, n

Spi == INSTANCE Spin
Pip == INSTANCE Pipe

spiv == <<cur, IF_, ncli, intena, lk, stack, saved, ready, spanic>>
pipv == <<data, nread, nwrite, readopen, writeopen, lock, rfd, wfd, kfrees, pc, killed, todo, addr, n>>

MCSbrks == {3, -1, -2}
MCPrograms == {<<1>>, <<3, 1>>}

Init ==
  /\ part \in {"memory", "files", "spin", "console", "pipe"}
  /\ MemoryInit /\ FilesInit /\ Spi!SpinInit /\ ConsoleInit /\ Pip!Init

(* The processes at a pipe may stop: both ends closed, or one that holds    *)
(* both asleep in its own read.  The other parts go on for ever.            *)
PipeStops == part = "pipe" /\ UNCHANGED <<memoryVars, filesVars, spiv, consoleVars, pipv>>

Next ==
  /\ UNCHANGED part
  /\ \/ part = "memory" /\ MemoryNext /\ UNCHANGED <<filesVars, spiv, consoleVars, pipv>>
     \/ part = "files" /\ FilesNext /\ UNCHANGED <<memoryVars, spiv, consoleVars, pipv>>
     \/ part = "spin" /\ Spi!SpinNext /\ UNCHANGED <<memoryVars, filesVars, consoleVars, pipv>>
     \/ part = "console" /\ ConsoleNext /\ UNCHANGED <<memoryVars, filesVars, spiv, pipv>>
     \/ part = "pipe" /\ Pip!Next /\ UNCHANGED <<memoryVars, filesVars, spiv, consoleVars>>
     \/ PipeStops

Spec == Init /\ [][Next]_<<part, memoryVars, filesVars, spiv, consoleVars, pipv>>

(* Spin: one CPU at a time is inside a lock, with interrupts off and on     *)
(* again after; acquire(), release(), popcli() and sched() do not panic.    *)
LocksKept ==
  part = "spin" => Spi!LockExclusive /\ Spi!InterruptsMatch /\ Spi!SpinNoPanic
(* Spin: two CPUs never wait for each other's locks.                        *)
NoSpinCycle == part = "spin" => Spi!NoSpinCycle
(* Pipe, Console: no wakeup is lost, of two readers and two writers at a    *)
(* pipe or of two readers at the console, and a pipe is freed once, with    *)
(* nobody inside.                                                           *)
SleepersHaveReason ==
  /\ part = "pipe" => Pip!TypeOK /\ Pip!FreedOnce /\ Pip!SleepersHaveReason
  /\ part = "console" => SleepJustified
=============================================================================
