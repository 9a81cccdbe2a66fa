-------------------------------- MODULE Pipe --------------------------------
(***************************************************************************)
(* The pipe of pipe.c: a ring of PIPESIZE bytes with counters nread and    *)
(* nwrite that wrap around, used by any number of processes that hold its  *)
(* ends, close them and are killed.  The lock p->lock is held from acquire *)
(* to release or sleep, and only kill() comes in between.                  *)
(***************************************************************************)
EXTENDS Integers, Sequences

CONSTANTS
  Procs,
  Readers, Writers,   \* processes that hold an end after pipe() and fork()
  Vals,               \* bytes
  PIPESIZE,
  Wrap,               \* 2^32: the counters are uints
  MaxLen,             \* bound: bytes per read or write call
  Kills               \* processes that may be killed

ASSUME PipeAssumption ==
  /\ Readers \subseteq Procs /\ Writers \subseteq Procs
  /\ Kills \subseteq Procs
  /\ PIPESIZE \in Nat \ {0} /\ MaxLen \in Nat
  /\ Wrap \in Nat /\ PIPESIZE < Wrap /\ Wrap % PIPESIZE = 0

None == "none"        \* a value no process has: the lock is free
ASSUME NoneAssumption == None \notin Procs

VARIABLES
  data, nread, nwrite, readopen, writeopen,
  lock,               \* the process that holds p->lock, or None
  rfd, wfd,           \* processes with a descriptor of the end open
  kfrees,             \* times the pipe's page was given to kfree
  pc, killed,
  todo,               \* addr[i..n-1] of pipewrite
  addr, n             \* of piperead: bytes copied so far, and the argument

ring == <<data, nread, nwrite>>
vars == <<data, nread, nwrite, readopen, writeopen, lock, rfd, wfd, kfrees,
          pc, killed, todo, addr, n>>

(* pipealloc(), and the descriptors inherited or closed since.              *)
Init ==
  /\ \E v \in Vals : data = [i \in 0..PIPESIZE-1 |-> v]
  /\ nread = 0 /\ nwrite = 0
  /\ readopen = TRUE /\ writeopen = TRUE
  /\ lock = None
  /\ rfd = Readers /\ wfd = Writers
  /\ kfrees = 0
  /\ pc = [p \in Procs |-> "user"]
  /\ killed = [p \in Procs |-> FALSE]
  /\ todo = [p \in Procs |-> <<>>]
  /\ addr = [p \in Procs |-> <<>>]
  /\ n = [p \in Procs |-> 0]

(* Mutant: the sum is not reduced to a uint.                                *)
FullUnwrapped == nwrite = nread + PIPESIZE

Full  == nwrite = (nread + PIPESIZE) % Wrap
Empty == nread = nwrite

SetPc(p, v) == pc' = [pc EXCEPT ![p] = v]

(* wakeup(&nread) or wakeup(&nwrite), with p going on to v: who slept takes *)
(* the lock again.                                                          *)
WakeAndSet(from, to, p, v) ==
  pc' = [q \in Procs |-> IF q = p THEN v
                         ELSE IF pc[q] = from THEN to ELSE pc[q]]
WakeReaders(p, v) == WakeAndSet("rsleep", "read", p, v)
WakeWriters(p, v) == WakeAndSet("wsleep", "write", p, v)

-----------------------------------------------------------------------------
(* A system call starts only if the process is not killed (trap()).         *)
CallWrite(p, bytes) ==
  /\ pc[p] = "user" /\ p \in wfd /\ ~killed[p]
  /\ todo' = [todo EXCEPT ![p] = bytes]
  /\ SetPc(p, "write")
  /\ UNCHANGED <<ring, readopen, writeopen, lock, rfd, wfd, kfrees, killed,
                 addr, n>>

CallRead(p, k) ==
  /\ pc[p] = "user" /\ p \in rfd /\ ~killed[p]
  /\ n' = [n EXCEPT ![p] = k]
  /\ SetPc(p, "read")
  /\ UNCHANGED <<ring, readopen, writeopen, lock, rfd, wfd, kfrees, killed,
                 todo, addr>>

(* acquire(&p->lock), at the start of a call and at the end of sleep().     *)
Acquire(p) ==
  /\ pc[p] \in {"write", "read"} /\ lock = None
  /\ lock' = p
  /\ SetPc(p, IF pc[p] = "write" THEN "writing" ELSE "reading")
  /\ UNCHANGED <<ring, readopen, writeopen, rfd, wfd, kfrees, killed, todo,
                 addr, n>>

PutByte(p) ==
  /\ pc[p] = "writing" /\ todo[p] # <<>> /\ ~Full
  /\ data' = [data EXCEPT ![nwrite % PIPESIZE] = Head(todo[p])]
  /\ nwrite' = (nwrite + 1) % Wrap
  /\ todo' = [todo EXCEPT ![p] = Tail(@)]
  /\ UNCHANGED <<nread, readopen, writeopen, lock, rfd, wfd, kfrees, pc,
                 killed, addr, n>>

(* Mutant: the readers are not told before the writer sleeps.               *)
WriteFullSilent(p) ==
  /\ pc[p] = "writing" /\ todo[p] # <<>> /\ Full
  /\ IF ~readopen \/ killed[p]
     THEN /\ lock' = None
          /\ todo' = [todo EXCEPT ![p] = <<>>]
          /\ SetPc(p, "user")
     ELSE /\ SetPc(p, "wfull")
          /\ UNCHANGED <<lock, todo>>
  /\ UNCHANGED <<ring, readopen, writeopen, rfd, wfd, kfrees, killed, addr, n>>

(* The pipe is full: return -1, or wake the readers and go to sleep.        *)
WriteFull(p) ==
  /\ pc[p] = "writing" /\ todo[p] # <<>> /\ Full
  /\ IF ~readopen \/ killed[p]
     THEN /\ lock' = None
          /\ todo' = [todo EXCEPT ![p] = <<>>]
          /\ SetPc(p, "user")
     ELSE /\ WakeReaders(p, "wfull")
          /\ UNCHANGED <<lock, todo>>
  /\ UNCHANGED <<ring, readopen, writeopen, rfd, wfd, kfrees, killed, addr, n>>

WriteDone(p) ==
  /\ pc[p] = "writing" /\ todo[p] = <<>>
  /\ WakeReaders(p, "user")
  /\ lock' = None
  /\ UNCHANGED <<ring, readopen, writeopen, rfd, wfd, kfrees, killed, todo,
                 addr, n>>

(* sleep(&p->nwrite, &p->lock), or sleep(&p->nread, &p->lock).              *)
Sleep(p) ==
  /\ pc[p] \in {"wfull", "rempty"}
  /\ lock' = None
  /\ SetPc(p, IF pc[p] = "wfull" THEN "wsleep" ELSE "rsleep")
  /\ UNCHANGED <<ring, readopen, writeopen, rfd, wfd, kfrees, killed, todo,
                 addr, n>>

ReadEmpty(p) ==
  /\ pc[p] = "reading" /\ Empty /\ writeopen
  /\ IF killed[p]
     THEN /\ lock' = None
          /\ n' = [n EXCEPT ![p] = 0]
          /\ SetPc(p, "user")
     ELSE /\ SetPc(p, "rempty")
          /\ UNCHANGED <<lock, n>>
  /\ UNCHANGED <<ring, readopen, writeopen, rfd, wfd, kfrees, killed, todo,
                 addr>>

ReadStart(p) ==
  /\ pc[p] = "reading" /\ (~Empty \/ ~writeopen)
  /\ SetPc(p, "copying")
  /\ UNCHANGED <<ring, readopen, writeopen, lock, rfd, wfd, kfrees, killed,
                 todo, addr, n>>

GetByte(p) ==
  /\ pc[p] = "copying" /\ Len(addr[p]) < n[p] /\ ~Empty
  /\ addr' = [addr EXCEPT ![p] = Append(@, data[nread % PIPESIZE])]
  /\ nread' = (nread + 1) % Wrap
  /\ UNCHANGED <<data, nwrite, readopen, writeopen, lock, rfd, wfd, kfrees, pc,
                 killed, todo, n>>

(* wakeup(&p->nwrite), release, return i; user space takes the bytes.       *)
ReadDone(p) ==
  /\ pc[p] = "copying" /\ (Len(addr[p]) = n[p] \/ Empty)
  /\ WakeWriters(p, "user")
  /\ lock' = None
  /\ addr' = [addr EXCEPT ![p] = <<>>]
  /\ n' = [n EXCEPT ![p] = 0]
  /\ UNCHANGED <<ring, readopen, writeopen, rfd, wfd, kfrees, killed, todo>>

-----------------------------------------------------------------------------
(* fileclose() of a descriptor, by close() or exit(): the last one of an    *)
(* end goes on to pipeclose().                                              *)
CloseRead(p) ==
  /\ pc[p] = "user" /\ p \in rfd
  /\ rfd' = rfd \ {p}
  /\ SetPc(p, IF rfd' = {} THEN "rclose" ELSE "user")
  /\ UNCHANGED <<ring, readopen, writeopen, lock, wfd, kfrees, killed, todo,
                 addr, n>>

CloseWrite(p) ==
  /\ pc[p] = "user" /\ p \in wfd
  /\ wfd' = wfd \ {p}
  /\ SetPc(p, IF wfd' = {} THEN "wclose" ELSE "user")
  /\ UNCHANGED <<ring, readopen, writeopen, lock, rfd, kfrees, killed, todo,
                 addr, n>>

(* Mutant: whoever closes wakes its own kind.                               *)
PipeCloseSwapped(p) ==
  /\ pc[p] \in {"rclose", "wclose"} /\ lock = None
  /\ readopen' = (readopen /\ pc[p] # "rclose")
  /\ writeopen' = (writeopen /\ pc[p] # "wclose")
  /\ LET next == IF readopen' \/ writeopen' THEN "user" ELSE "kfree"
     IN IF pc[p] = "wclose" THEN WakeWriters(p, next) ELSE WakeReaders(p, next)
  /\ UNCHANGED <<ring, lock, rfd, wfd, kfrees, killed, todo, addr, n>>

(* Mutant: the other end's flag is read from before the critical section.   *)
PipeCloseEager(p) ==
  /\ pc[p] \in {"rclose", "wclose"} /\ lock = None
  /\ readopen' = (readopen /\ pc[p] # "rclose")
  /\ writeopen' = (writeopen /\ pc[p] # "wclose")
  /\ LET next == IF rfd # {} \/ wfd # {} THEN "user" ELSE "kfree"
     IN IF pc[p] = "wclose" THEN WakeReaders(p, next) ELSE WakeWriters(p, next)
  /\ UNCHANGED <<ring, lock, rfd, wfd, kfrees, killed, todo, addr, n>>

(* pipeclose(): the critical section; then kfree() if both ends are closed. *)
PipeClose(p) ==
  /\ pc[p] \in {"rclose", "wclose"} /\ lock = None
  /\ readopen' = (readopen /\ pc[p] # "rclose")
  /\ writeopen' = (writeopen /\ pc[p] # "wclose")
  /\ LET next == IF readopen' \/ writeopen' THEN "user" ELSE "kfree"
     IN IF pc[p] = "wclose" THEN WakeReaders(p, next) ELSE WakeWriters(p, next)
  /\ UNCHANGED <<ring, lock, rfd, wfd, kfrees, killed, todo, addr, n>>

Kfree(p) ==
  /\ pc[p] = "kfree"
  /\ kfrees' = kfrees + 1
  /\ SetPc(p, "user")
  /\ UNCHANGED <<ring, readopen, writeopen, lock, rfd, wfd, killed, todo,
                 addr, n>>

(* kill(): the victim may be anywhere; it is woken if it is asleep.         *)
Kill(p) ==
  /\ ~killed[p]
  /\ killed' = [killed EXCEPT ![p] = TRUE]
  /\ pc' = [pc EXCEPT ![p] = CASE @ = "rsleep" -> "read"
                               [] @ = "wsleep" -> "write"
                               [] OTHER -> @]
  /\ UNCHANGED <<ring, readopen, writeopen, lock, rfd, wfd, kfrees, todo,
                 addr, n>>

-----------------------------------------------------------------------------
Bytes == UNION {[1..k -> Vals] : k \in 1..MaxLen}

KernelStep(p) ==
  \/ Acquire(p) \/ PutByte(p) \/ WriteFull(p) \/ WriteDone(p) \/ Sleep(p)
  \/ ReadEmpty(p) \/ ReadStart(p) \/ GetByte(p) \/ ReadDone(p)
  \/ PipeClose(p) \/ Kfree(p)

UserStep(p) ==
  \/ \E bytes \in Bytes : CallWrite(p, bytes)
  \/ \E k \in 1..MaxLen : CallRead(p, k)
  \/ CloseRead(p) \/ CloseWrite(p)

Next ==
  \/ \E p \in Procs : KernelStep(p) \/ UserStep(p)
  \/ \E p \in Kills : Kill(p)

Spec == Init /\ [][Next]_vars

(* A process in the kernel goes on; a process that holds an end uses or     *)
(* closes it in the end (exit() closes it at the latest).                   *)
FairSpec ==
  /\ Spec
  /\ \A p \in Procs : WF_vars(KernelStep(p)) /\ WF_vars(UserStep(p))

-----------------------------------------------------------------------------
PCs == {"user", "write", "writing", "wfull", "wsleep", "read", "reading",
        "rempty", "rsleep", "copying", "rclose", "wclose", "kfree"}

(* The pipe's fields, the descriptors and the calls have their types.       *)
TypeOK ==
  /\ data \in [0..PIPESIZE-1 -> Vals]
  /\ nread \in 0..Wrap-1 /\ nwrite \in 0..Wrap-1
  /\ readopen \in BOOLEAN /\ writeopen \in BOOLEAN
  /\ lock \in Procs \cup {None}
  /\ rfd \subseteq Procs /\ wfd \subseteq Procs
  /\ kfrees \in Nat
  /\ pc \in [Procs -> PCs] /\ killed \in [Procs -> BOOLEAN]
  /\ todo \in [Procs -> Seq(Vals)] /\ addr \in [Procs -> Seq(Vals)]
  /\ n \in [Procs -> Nat]

InWrite == {"write", "writing", "wfull", "wsleep"}
InRead  == {"read", "reading", "rempty", "rsleep", "copying"}

F == INSTANCE Fifo WITH
       Capacity <- PIPESIZE,
       queue    <- [i \in 1..((nwrite - nread) % Wrap) |->
                      data[(nread + i - 1) % PIPESIZE]],
       call     <- [p \in Procs |-> IF pc[p] \in InWrite THEN "write"
                                    ELSE IF pc[p] \in InRead THEN "read"
                                    ELSE "none"],
       readable <- readopen,
       writable <- writeopen

(* The pipe implements a bounded queue, over any number of wraps of its     *)
(* counters: bytes come out once and in order, a write loses bytes only     *)
(* when nobody can read or its process is killed, and a read returns        *)
(* nothing only at end of file or when its process is killed.               *)
FifoSpec == F!Spec

(* No wakeup is lost: whenever p->lock is free, a reader sleeps only on an  *)
(* empty pipe with a writer left, a writer only on a full pipe with a       *)
(* reader left.  A writer that was killed and finds the pipe full returns   *)
(* without waking the readers: Kills contains no writer here.               *)
SleepersHaveReason ==
  lock = None => \A p \in Procs :
    /\ pc[p] = "rsleep" => Empty /\ writeopen
    /\ pc[p] = "wsleep" => Full /\ readopen

(* The page is freed once, and after that nobody is inside the pipe.        *)
FreedOnce ==
  /\ kfrees <= 1
  /\ kfrees = 1 => \A p \in Procs : pc[p] = "user"

(* A call returns in the end, if the processes at the other end use it or   *)
(* close it, with one process at each end.                                  *)
CallsReturn ==
  \A p \in Procs : pc[p] \in InRead \cup InWrite ~> pc[p] = "user"

(* kill(): "Wake process from sleep if necessary": a killed process does    *)
(* not sleep in a pipe.                                                     *)
KilledAwake == \A p \in Procs : killed[p] => pc[p] \notin {"rsleep", "wsleep"}

=============================================================================
