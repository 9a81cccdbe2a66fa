-------------------------------- MODULE Bio --------------------------------
(***************************************************************************)
(* The buffer cache of bio.c on top of the disk queue of ide.c: processes  *)
(* that read, modify, pin and write blocks through NBUF buffers, and the   *)
(* interrupt handler that answers their requests.  The critical sections   *)
(* of bcache.lock, of a buffer's sleep lock and of idelock are one step    *)
(* each; they end where the code releases the lock or sleeps.              *)
(***************************************************************************)
EXTENDS Naturals, Sequences

CONSTANTS
  Procs,
  Blocks,        \* block numbers of the one disk
  Vals,          \* contents of a block
  NBUF,
  None,          \* no process, no block
  Errors         \* whether the drive may report errors

ASSUME BioAssumption ==
  /\ NBUF \in Nat \ {0} /\ Errors \in BOOLEAN /\ Vals # {}
  /\ None \notin Procs /\ None \notin Blocks

Bufs == 1..NBUF

VARIABLES
  blockno, valid, dirty, refcnt, owner, data,   \* fields of struct buf
  lru,           \* the list from head.next, most recently used first
  idequeue,
  drive,         \* the command the drive is executing
  disk,
  pc,
  buf            \* local b

bfields == <<blockno, valid, dirty, refcnt, owner, data, lru>>
vars == <<blockno, valid, dirty, refcnt, owner, data, lru, idequeue, drive,
          disk, pc, buf>>

NoCmd == [cmd |-> "none"]

(* binit(): buffer b is pushed on the list after b-1.                       *)
Init ==
  /\ blockno = [b \in Bufs |-> None]
  /\ valid = [b \in Bufs |-> FALSE] /\ dirty = [b \in Bufs |-> FALSE]
  /\ refcnt = [b \in Bufs |-> 0]
  /\ owner = [b \in Bufs |-> None]
  /\ \E v \in Vals : /\ data = [b \in Bufs |-> v]
                     /\ disk = [k \in Blocks |-> v]
  /\ lru = [i \in 1..NBUF |-> NBUF + 1 - i]
  /\ idequeue = <<>> /\ drive = NoCmd
  /\ pc = [p \in Procs |-> "user"]
  /\ buf = [p \in Procs |-> 1]

SetPc(p, v) == pc' = [pc EXCEPT ![p] = v]

-----------------------------------------------------------------------------
(* panic("bget: no buffers") stops a CPU that holds bcache.lock.            *)
BcacheFree == \A q \in Procs : pc[q] # "panic"

Cached(k) == \E b \in Bufs : blockno[b] = k

(* Mutant: only the reference count is looked at.                           *)
UnusedUnpinned(b) == refcnt[b] = 0

(* A buffer bget may recycle.                                               *)
Unused(b) == refcnt[b] = 0 /\ ~dirty[b]

BgetHit(p, k) ==
  /\ pc[p] = "user" /\ BcacheFree
  /\ \E b \in Bufs :
       /\ blockno[b] = k
       /\ refcnt' = [refcnt EXCEPT ![b] = @ + 1]
       /\ buf' = [buf EXCEPT ![p] = b]
  /\ SetPc(p, "lock")
  /\ UNCHANGED <<blockno, valid, dirty, owner, data, lru, idequeue, drive, disk>>

Recycle(b, k) ==
  /\ blockno' = [blockno EXCEPT ![b] = k]
  /\ valid' = [valid EXCEPT ![b] = FALSE]
  /\ dirty' = [dirty EXCEPT ![b] = FALSE]
  /\ refcnt' = [refcnt EXCEPT ![b] = 1]

(* Recycle the least recently used of the unused buffers.                   *)
BgetMiss(p, k) ==
  /\ pc[p] = "user" /\ BcacheFree /\ ~Cached(k)
  /\ \E i \in 1..NBUF :
       /\ Unused(lru[i]) /\ \A j \in i+1..NBUF : ~Unused(lru[j])
       /\ Recycle(lru[i], k)
       /\ buf' = [buf EXCEPT ![p] = lru[i]]
  /\ SetPc(p, "lock")
  /\ UNCHANGED <<owner, data, lru, idequeue, drive, disk>>

(* panic("bget: no buffers").                                               *)
BgetPanic(p, k) ==
  /\ pc[p] = "user" /\ BcacheFree /\ ~Cached(k) /\ \A b \in Bufs : ~Unused(b)
  /\ SetPc(p, "panic")
  /\ UNCHANGED <<bfields, idequeue, drive, disk, buf>>

(* acquiresleep(&b->lock), again after each wakeup, and bread's test.       *)
LockBuf(p) ==
  /\ pc[p] = "lock" /\ owner[buf[p]] = None
  /\ owner' = [owner EXCEPT ![buf[p]] = p]
  /\ SetPc(p, IF valid[buf[p]] THEN "using" ELSE "iderw")
  /\ UNCHANGED <<blockno, valid, dirty, refcnt, data, lru, idequeue, drive,
                 disk, buf>>

LockSleep(p) ==
  /\ pc[p] = "lock" /\ owner[buf[p]] # None
  /\ SetPc(p, "lksleep")
  /\ UNCHANGED <<bfields, idequeue, drive, disk, buf>>

(* The holder changes the data, and then gives the buffer to log_write or   *)
(* to bwrite.                                                               *)
Modify(p, v) ==
  /\ pc[p] = "using"
  /\ data' = [data EXCEPT ![buf[p]] = v]
  /\ SetPc(p, "modified")
  /\ UNCHANGED <<blockno, valid, dirty, refcnt, owner, lru, idequeue, drive,
                 disk, buf>>

(* log_write: B_DIRTY keeps the buffer in the cache.                        *)
Pin(p) ==
  /\ pc[p] = "modified"
  /\ dirty' = [dirty EXCEPT ![buf[p]] = TRUE]
  /\ SetPc(p, "using")
  /\ UNCHANGED <<blockno, valid, refcnt, owner, data, lru, idequeue, drive,
                 disk, buf>>

Bwrite(p) ==
  /\ pc[p] \in {"using", "modified"}
  /\ dirty' = [dirty EXCEPT ![buf[p]] = TRUE]
  /\ SetPc(p, "iderw")
  /\ UNCHANGED <<blockno, valid, refcnt, owner, data, lru, idequeue, drive,
                 disk, buf>>

(* brelse: releasesleep wakes who waits for the lock ...                    *)
Unlock(p) ==
  /\ pc[p] = "using"
  /\ owner' = [owner EXCEPT ![buf[p]] = None]
  /\ pc' = [q \in Procs |->
              IF q = p THEN "brelse"
              ELSE IF pc[q] = "lksleep" /\ buf[q] = buf[p] THEN "lock"
              ELSE pc[q]]
  /\ UNCHANGED <<blockno, valid, dirty, refcnt, data, lru, idequeue, drive,
                 disk, buf>>

(* The list with buffer b unlinked and put behind the head.                 *)
MoveToFront(b) ==
  LET k == CHOOSE i \in 1..NBUF : lru[i] = b
  IN [i \in 1..NBUF |-> IF i = 1 THEN b ELSE IF i <= k THEN lru[i-1] ELSE lru[i]]

(* ... and a buffer nobody waits for becomes the most recently used.        *)
Brelse(p) ==
  /\ pc[p] = "brelse" /\ BcacheFree
  /\ refcnt' = [refcnt EXCEPT ![buf[p]] = @ - 1]
  /\ lru' = IF refcnt[buf[p]] = 1 THEN MoveToFront(buf[p]) ELSE lru
  /\ SetPc(p, "user")
  /\ UNCHANGED <<blockno, valid, dirty, owner, data, idequeue, drive, disk, buf>>

-----------------------------------------------------------------------------
(* idestart: the command, and for a write the data, go to the drive.        *)
idestart(b) ==
  IF dirty[b] THEN [cmd |-> "write", block |-> blockno[b], data |-> data[b]]
  ELSE [cmd |-> "read", block |-> blockno[b]]

(* Mutant: the request goes to the front of the queue.                      *)
IderwInFront(p) ==
  /\ pc[p] = "iderw"
  /\ idequeue' = <<buf[p]>> \o idequeue
  /\ drive' = IF idequeue = <<>> THEN idestart(buf[p]) ELSE drive
  /\ SetPc(p, "rwsleep")
  /\ UNCHANGED <<bfields, disk, buf>>

(* iderw: panics when there is nothing to do; else appends the buffer,      *)
(* starts the drive if it is idle, and sleeps.                              *)
Iderw(p) ==
  /\ pc[p] = "iderw"
  /\ IF valid[buf[p]] /\ ~dirty[buf[p]]
     THEN SetPc(p, "panic") /\ UNCHANGED <<idequeue, drive>>
     ELSE /\ idequeue' = Append(idequeue, buf[p])
          /\ drive' = IF idequeue = <<>> THEN idestart(buf[p]) ELSE drive
          /\ SetPc(p, "rwsleep")
  /\ UNCHANGED <<bfields, disk, buf>>

(* After sleep(): return when the request is done, else sleep again.        *)
IderwWoken(p) ==
  /\ pc[p] = "rwwoken"
  /\ SetPc(p, IF valid[buf[p]] /\ ~dirty[buf[p]] THEN "using" ELSE "rwsleep")
  /\ UNCHANGED <<bfields, idequeue, drive, disk, buf>>

(* kill() wakes a sleeper; both sleeps are loops.                           *)
Kill(p) ==
  /\ pc[p] \in {"lksleep", "rwsleep"}
  /\ SetPc(p, IF pc[p] = "lksleep" THEN "lock" ELSE "rwwoken")
  /\ UNCHANGED <<bfields, idequeue, drive, disk, buf>>

(* Mutant: the next request is not started.                                 *)
IdeintrStops(ok) ==
  /\ idequeue # <<>> /\ drive # NoCmd /\ (ok \/ Errors)
  /\ LET b == Head(idequeue) IN
     /\ disk' = IF drive.cmd = "write" /\ ok
                THEN [disk EXCEPT ![drive.block] = drive.data] ELSE disk
     /\ data' = IF ~dirty[b] /\ ok
                THEN [data EXCEPT ![b] = disk[drive.block]] ELSE data
     /\ valid' = [valid EXCEPT ![b] = TRUE]
     /\ dirty' = [dirty EXCEPT ![b] = FALSE]
     /\ pc' = [q \in Procs |-> IF pc[q] = "rwsleep" /\ buf[q] = b
                               THEN "rwwoken" ELSE pc[q]]
     /\ idequeue' = Tail(idequeue)
     /\ drive' = NoCmd
  /\ UNCHANGED <<blockno, refcnt, owner, lru, buf>>

(* The drive has executed its command, or failed, and interrupts: ideintr   *)
(* takes the head of the queue, wakes its owner and starts the next one.    *)
Ideintr(ok) ==
  /\ idequeue # <<>> /\ drive # NoCmd /\ (ok \/ Errors)
  /\ LET b == Head(idequeue) IN
     /\ disk' = IF drive.cmd = "write" /\ ok
                THEN [disk EXCEPT ![drive.block] = drive.data] ELSE disk
     /\ data' = IF ~dirty[b] /\ ok
                THEN [data EXCEPT ![b] = disk[drive.block]] ELSE data
     /\ valid' = [valid EXCEPT ![b] = TRUE]
     /\ dirty' = [dirty EXCEPT ![b] = FALSE]
     /\ pc' = [q \in Procs |-> IF pc[q] = "rwsleep" /\ buf[q] = b
                               THEN "rwwoken" ELSE pc[q]]
     /\ idequeue' = Tail(idequeue)
     /\ drive' = IF idequeue' = <<>> THEN NoCmd ELSE idestart(Head(idequeue'))
  /\ UNCHANGED <<blockno, refcnt, owner, lru, buf>>

-----------------------------------------------------------------------------
Next ==
  \/ \E p \in Procs :
       \/ LockBuf(p) \/ LockSleep(p) \/ Pin(p) \/ Unlock(p) \/ Brelse(p)
       \/ Bwrite(p) \/ Iderw(p) \/ IderwWoken(p) \/ Kill(p)
       \/ \E k \in Blocks : BgetHit(p, k) \/ BgetMiss(p, k) \/ BgetPanic(p, k)
       \/ \E v \in Vals : Modify(p, v)
  \/ \E ok \in BOOLEAN : Ideintr(ok)

Spec == Init /\ [][Next]_vars

(* The drive answers, and a process whose request it answered goes on.      *)
FairSpec ==
  /\ Spec
  /\ WF_vars(Ideintr(TRUE))
  /\ \A p \in Procs : WF_vars(Iderw(p) \/ IderwWoken(p))

-----------------------------------------------------------------------------
PCs == {"user", "lock", "lksleep", "using", "modified", "iderw", "rwsleep",
        "rwwoken", "brelse", "panic"}

(* Buffers, queue, drive and processes have their types.                    *)
TypeOK ==
  /\ blockno \in [Bufs -> Blocks \cup {None}]
  /\ valid \in [Bufs -> BOOLEAN] /\ dirty \in [Bufs -> BOOLEAN]
  /\ refcnt \in [Bufs -> Nat] /\ owner \in [Bufs -> Procs \cup {None}]
  /\ data \in [Bufs -> Vals] /\ disk \in [Blocks -> Vals]
  /\ lru \in [1..NBUF -> Bufs] /\ idequeue \in Seq(Bufs)
  /\ pc \in [Procs -> PCs] /\ buf \in [Procs -> Bufs]

BufOf(k) == CHOOSE b \in Bufs : blockno[b] = k

S == INSTANCE BlockStore WITH
       mem  <- [k \in Blocks |-> IF Cached(k) /\ valid[BufOf(k)]
                                 THEN data[BufOf(k)] ELSE disk[k]],
       user <- [k \in Blocks |-> IF Cached(k) THEN owner[BufOf(k)] ELSE None]

(* The cache implements one copy of every block, used by one process at a   *)
(* time, although buffers are recycled and written behind its back.         *)
StoreSpec == S!Spec

(* "One buffer per block": otherwise two processes would each have a lock.  *)
(* A buffer in use or pinned keeps its block, and its count is the number   *)
(* of processes that have it.                                               *)
OneBuffer ==
  /\ \A a, b \in Bufs : blockno[a] = blockno[b] /\ blockno[a] # None => a = b
  /\ \A b \in Bufs : refcnt[b] > 0 <=>
       \E p \in Procs : buf[p] = b /\ pc[p] \notin {"user", "panic"}

(* "B_VALID: the buffer data has been read from the disk": a valid buffer   *)
(* that is neither pinned nor locked equals its block on disk.              *)
ValidIsRead ==
  \A b \in Bufs : valid[b] /\ ~dirty[b] /\ owner[b] = None =>
    data[b] = disk[blockno[b]]

(* The drive executes the request at the head of the queue, whose owner     *)
(* holds the buffer and waits for it; iderw never has nothing to do.        *)
DriveServesHead ==
  /\ (drive = NoCmd) = (idequeue = <<>>)
  /\ idequeue # <<>> => drive = idestart(Head(idequeue))
  /\ \A i \in 1..Len(idequeue) : \E p \in Procs :
       /\ buf[p] = idequeue[i] /\ owner[buf[p]] = p
       /\ pc[p] \in {"rwsleep", "rwwoken"}
  /\ \A p \in Procs : pc[p] = "iderw" => ~(valid[buf[p]] /\ ~dirty[buf[p]])

(* A block has one buffer, a valid one its contents, and the drive works on  *)
(* the oldest request, whatever is recycled, pinned or woken meanwhile.      *)
BuffersSound == TypeOK /\ OneBuffer /\ ValidIsRead /\ DriveServesHead

(* A request is answered in the end, behind any others and however often    *)
(* kill() wakes the process that waits for it.                              *)
RequestAnswered ==
  \A p \in Procs : pc[p] \in {"iderw", "rwsleep", "rwwoken"} ~> pc[p] = "using"

=============================================================================
