-------------------------------- MODULE Log --------------------------------
(***************************************************************************)
(* The write-ahead log of log.c: begin_op, log_write, end_op with group    *)
(* commit, and recovery at boot, with a crash possible between any two     *)
(* disk writes.  A disk block is one sector, written atomically.  The disk *)
(* is addressed as mkfs lays it out, the log area followed directly by the *)
(* home blocks, so that a log too long lands where it would on the disk.   *)
(***************************************************************************)
EXTENDS Naturals, Sequences, FiniteSets

CONSTANTS
  Procs,        \* processes in file system calls
  Vals,         \* contents of a block
  MAXOPBLOCKS,  \* blocks begin_op reserves for an operation
  LOGSIZE,      \* length of logheader.block
  size,         \* sb.nlog: blocks of the log area, header included
  NHOME,        \* blocks after the log area that operations write
  OpBlocks      \* bound: distinct blocks an operation writes

ASSUME LogAssumption ==
  /\ MAXOPBLOCKS \in Nat \ {0} /\ LOGSIZE \in Nat /\ NHOME \in Nat
  /\ size \in Nat \ {0} /\ OpBlocks \in 0..MAXOPBLOCKS
  /\ Vals # {}

start == 2                               \* sb.logstart
None  == 0                               \* no block
Addrs == start+1 .. start+size-1+NHOME   \* every block but the header
Home  == start+size .. start+size-1+NHOME
LogAddr(i) == start + i                  \* log block of lh.block[i-1]

VARIABLES
  disk,         \* blocks on disk
  head,         \* header block on disk
  cache,        \* their contents in the buffer cache
  dirty,        \* buffers pinned by B_DIRTY
  lh,           \* log.lh, as the sequence of its blocks
  outstanding,
  committing,
  pc,           \* per process
  blk,          \* buffer the process holds locked
  written,      \* blocks its operation has written
  tail,         \* loop counter of write_log and install_trans
  boot          \* progress of initlog()

mem  == <<outstanding, committing, pc, blk, written>>
vars == <<disk, head, cache, dirty, lh, outstanding, committing, pc, blk,
          written, tail, boot>>

(* As mkfs leaves the disk; initlog() runs first.                           *)
Init ==
  /\ \E v0 \in Vals : disk = [a \in Addrs |-> v0]
  /\ cache = disk
  /\ head = <<>> /\ lh = <<>> /\ dirty = {}
  /\ outstanding = 0 /\ committing = FALSE
  /\ pc = [p \in Procs |-> "idle"]
  /\ blk = [p \in Procs |-> None]
  /\ written = [p \in Procs |-> {}]
  /\ tail = 1 /\ boot = "read_head"

SetPc(p, v) == pc' = [pc EXCEPT ![p] = v]

(* wakeup(&log), with p going on to v.                                      *)
WakeAll(p, v) ==
  pc' = [q \in Procs |-> IF q = p THEN v
                         ELSE IF pc[q] = "sleep" THEN "begin" ELSE pc[q]]

(* Mutant: the new operation is left out of the reservation.                *)
NoSpaceForOthers == Len(lh) + outstanding * MAXOPBLOCKS > LOGSIZE

(* begin_op's estimate: every operation may write MAXOPBLOCKS more blocks.  *)
NoSpace == Len(lh) + (outstanding + 1) * MAXOPBLOCKS > LOGSIZE

-----------------------------------------------------------------------------
BeginOp(p) ==
  /\ boot = "ready" /\ pc[p] \in {"idle", "begin"}
  /\ ~committing /\ ~NoSpace
  /\ outstanding' = outstanding + 1
  /\ SetPc(p, "op")
  /\ UNCHANGED <<disk, head, cache, dirty, lh, committing, blk, written, tail,
                 boot>>

BeginSleep(p) ==
  /\ boot = "ready" /\ pc[p] \in {"idle", "begin"}
  /\ committing \/ NoSpace
  /\ SetPc(p, "sleep")
  /\ UNCHANGED <<disk, head, cache, dirty, lh, outstanding, committing, blk,
                 written, tail, boot>>

(* The caller of log_write: bread, modify the data, keep the buffer lock.   *)
Modify(p, a, v) ==
  /\ pc[p] = "op"
  /\ \A q \in Procs : blk[q] # a
  /\ Cardinality(written[p] \cup {a}) <= OpBlocks
  /\ cache' = [cache EXCEPT ![a] = v]
  /\ blk' = [blk EXCEPT ![p] = a]
  /\ written' = [written EXCEPT ![p] = @ \cup {a}]
  /\ SetPc(p, "modified")
  /\ UNCHANGED <<disk, head, dirty, lh, outstanding, committing, tail, boot>>

(* log_write's bound checks, made before it takes log.lock.                 *)
LogCheck(p) ==
  /\ pc[p] = "modified"
  /\ SetPc(p, IF Len(lh) >= LOGSIZE \/ Len(lh) >= size - 1 \/ outstanding < 1
              THEN "panic" ELSE "checked")
  /\ UNCHANGED <<disk, head, cache, dirty, lh, outstanding, committing, blk,
                 written, tail, boot>>

(* Mutant: the scan for absorption stops at the first block.                *)
LogWriteOverwrites(p) ==
  /\ pc[p] = "checked"
  /\ lh' = IF lh = <<>> THEN <<blk[p]>> ELSE [lh EXCEPT ![1] = blk[p]]
  /\ dirty' = dirty \cup {blk[p]}
  /\ blk' = [blk EXCEPT ![p] = None]
  /\ SetPc(p, "op")
  /\ UNCHANGED <<disk, head, cache, outstanding, committing, written, tail,
                 boot>>

(* log_write's critical section, absorbing a block already in the log, and  *)
(* the caller's brelse.                                                     *)
LogWrite(p) ==
  /\ pc[p] = "checked"
  /\ lh' = IF \E i \in 1..Len(lh) : lh[i] = blk[p] THEN lh
           ELSE Append(lh, blk[p])
  /\ dirty' = dirty \cup {blk[p]}
  /\ blk' = [blk EXCEPT ![p] = None]
  /\ SetPc(p, "op")
  /\ UNCHANGED <<disk, head, cache, outstanding, committing, written, tail,
                 boot>>

(* Mutant: an operation that is not the last one wakes nobody.              *)
EndOpSilent(p) ==
  /\ pc[p] = "op"
  /\ outstanding' = outstanding - 1
  /\ written' = [written EXCEPT ![p] = {}]
  /\ IF outstanding' = 0
     THEN /\ committing' = TRUE
          /\ SetPc(p, IF Len(lh) > 0 THEN "write_log" ELSE "committed")
          /\ tail' = 1
     ELSE /\ SetPc(p, "idle")
          /\ UNCHANGED <<committing, tail>>
  /\ UNCHANGED <<disk, head, cache, dirty, lh, blk, boot>>

(* Mutant: every operation commits when it ends.                            *)
EndOpCommits(p) ==
  /\ pc[p] = "op" /\ ~committing
  /\ outstanding' = outstanding - 1
  /\ written' = [written EXCEPT ![p] = {}]
  /\ committing' = TRUE
  /\ SetPc(p, IF Len(lh) > 0 THEN "write_log" ELSE "committed")
  /\ tail' = 1
  /\ UNCHANGED <<disk, head, cache, dirty, lh, blk, boot>>

(* end_op: the last operation commits, any other one wakes begin_op.        *)
EndOp(p) ==
  /\ pc[p] = "op"
  /\ outstanding' = outstanding - 1
  /\ written' = [written EXCEPT ![p] = {}]
  /\ IF outstanding' = 0
     THEN /\ committing' = TRUE
          /\ SetPc(p, IF Len(lh) > 0 THEN "write_log" ELSE "committed")
          /\ tail' = 1
     ELSE /\ WakeAll(p, "idle")
          /\ UNCHANGED <<committing, tail>>
  /\ UNCHANGED <<disk, head, cache, dirty, lh, blk, boot>>

-----------------------------------------------------------------------------
(* write_log: one iteration copies a cached block to the log.               *)
WriteLog(p) ==
  /\ pc[p] = "write_log"
  /\ disk' = [disk EXCEPT ![LogAddr(tail)] = cache[lh[tail]]]
  /\ cache' = [cache EXCEPT ![LogAddr(tail)] = cache[lh[tail]]]
  /\ tail' = tail + 1
  /\ SetPc(p, IF tail = Len(lh) THEN "write_head" ELSE "write_log")
  /\ UNCHANGED <<head, dirty, lh, outstanding, committing, blk, written, boot>>

(* write_head: "the true point at which the current transaction commits".   *)
WriteHead(p) ==
  /\ pc[p] = "write_head"
  /\ head' = lh
  /\ tail' = 1
  /\ SetPc(p, "install")
  /\ UNCHANGED <<disk, cache, dirty, lh, outstanding, committing, blk,
                 written, boot>>

(* install_trans: one iteration copies a log block to its home, through     *)
(* the home block's buffer, which bwrite leaves clean.                      *)
InstallOne ==
  /\ disk' = [disk EXCEPT ![lh[tail]] = disk[LogAddr(tail)]]
  /\ cache' = [cache EXCEPT ![lh[tail]] = disk[LogAddr(tail)]]
  /\ dirty' = dirty \ {lh[tail]}
  /\ tail' = tail + 1

Install(p) ==
  /\ pc[p] = "install"
  /\ InstallOne
  /\ SetPc(p, IF tail = Len(lh) THEN "erase" ELSE "install")
  /\ UNCHANGED <<head, lh, outstanding, committing, blk, written, boot>>

EraseHead(p) ==
  /\ pc[p] = "erase"
  /\ lh' = <<>> /\ head' = <<>>
  /\ SetPc(p, "committed")
  /\ UNCHANGED <<disk, cache, dirty, outstanding, committing, blk, written,
                 tail, boot>>

(* end_op after commit().                                                   *)
Committed(p) ==
  /\ pc[p] = "committed"
  /\ committing' = FALSE
  /\ WakeAll(p, "idle")
  /\ UNCHANGED <<disk, head, cache, dirty, lh, outstanding, blk, written,
                 tail, boot>>

-----------------------------------------------------------------------------
(* bget recycles a buffer that is neither pinned nor locked; the next bread *)
(* reads the block again.                                                   *)
Evict(a) ==
  /\ boot = "ready" /\ a \notin dirty /\ \A q \in Procs : blk[q] # a
  /\ cache' = [cache EXCEPT ![a] = disk[a]]
  /\ UNCHANGED <<disk, head, dirty, lh, mem, tail, boot>>

(* Power failure: memory is lost and the machine boots.                     *)
Crash ==
  /\ cache' = disk /\ dirty' = {} /\ lh' = <<>>
  /\ outstanding' = 0 /\ committing' = FALSE
  /\ pc' = [p \in Procs |-> "idle"]
  /\ blk' = [p \in Procs |-> None]
  /\ written' = [p \in Procs |-> {}]
  /\ tail' = 1 /\ boot' = "read_head"
  /\ UNCHANGED <<disk, head>>

(* recover_from_log, before the first process reaches user space.           *)
ReadHead ==
  /\ boot = "read_head"
  /\ lh' = head
  /\ tail' = 1
  /\ boot' = IF Len(head) > 0 THEN "install" ELSE "erase"
  /\ UNCHANGED <<disk, head, cache, dirty, mem>>

RecoverInstall ==
  /\ boot = "install"
  /\ InstallOne
  /\ boot' = IF tail = Len(lh) THEN "erase" ELSE "install"
  /\ UNCHANGED <<head, lh, mem>>

RecoverErase ==
  /\ boot = "erase"
  /\ lh' = <<>> /\ head' = <<>>
  /\ boot' = "ready"
  /\ UNCHANGED <<disk, cache, dirty, mem, tail>>

-----------------------------------------------------------------------------
CommitStep(p) ==
  WriteLog(p) \/ WriteHead(p) \/ Install(p) \/ EraseHead(p) \/ Committed(p)

OpStep(p) == LogCheck(p) \/ LogWrite(p) \/ CommitStep(p)

Recovery == ReadHead \/ RecoverInstall \/ RecoverErase

Next ==
  \/ \E p \in Procs :
       \/ BeginOp(p) \/ BeginSleep(p) \/ OpStep(p) \/ EndOp(p)
       \/ \E a \in Home, v \in Vals : Modify(p, a, v)
  \/ \E a \in Home : Evict(a)
  \/ Crash \/ Recovery

Spec == Init /\ [][Next]_vars

-----------------------------------------------------------------------------
PCs == {"idle", "begin", "sleep", "op", "modified", "checked", "panic",
        "write_log", "write_head", "install", "erase", "committed"}

(* The log's variables have their types.                                    *)
TypeOK ==
  /\ disk \in [Addrs -> Vals] /\ cache \in [Addrs -> Vals]
  /\ head \in Seq(Home) /\ lh \in Seq(Home)
  /\ dirty \subseteq Home
  /\ outstanding \in Nat /\ committing \in BOOLEAN
  /\ pc \in [Procs -> PCs]
  /\ blk \in [Procs -> Home \cup {None}]
  /\ written \in [Procs -> SUBSET Home]
  /\ tail \in Nat \ {0}
  /\ boot \in {"read_head", "install", "erase", "ready"}

(* What recovery would make of the disk as it is.                           *)
Recovered ==
  [a \in Home |-> IF \E i \in 1..Len(head) : head[i] = a
                  THEN disk[LogAddr(CHOOSE i \in 1..Len(head) : head[i] = a)]
                  ELSE disk[a]]

Tx == INSTANCE TxDisk WITH
        Blocks  <- Home,
        durable <- Recovered,
        current <- IF boot = "ready" THEN [a \in Home |-> cache[a]]
                   ELSE Recovered,
        active  <- outstanding

(* The log implements a transactional disk: wherever a crash falls, even    *)
(* within recovery, the disk recovers to the contents of the last commit,   *)
(* and a commit takes in whole operations only.                             *)
TxSpec == Tx!Spec

(* Whatever a finished group of operations wrote is on disk: when no        *)
(* operation is active and none is committing, a crash loses nothing.       *)
IdleIsDurable ==
  boot = "ready" /\ outstanding = 0 /\ ~committing =>
    \A a \in Home : Recovered[a] = cache[a]

(* No wakeup of begin_op is lost: a process asleep in it would not be       *)
(* admitted now.                                                            *)
SleepersHaveReason ==
  \A p \in Procs : pc[p] = "sleep" => committing \/ NoSpace

(* begin_op's reservation works: an operation it admits never finds the log *)
(* full in log_write ("too big a transaction").                             *)
NoPanic == \A p \in Procs : pc[p] # "panic"

(* write_log stays inside the log area.                                     *)
LogFits == Len(lh) <= size - 1

(* No mix of operations that each keep to MAXOPBLOCKS panics in log_write,   *)
(* or writes past the log area.                                              *)
LogSound == TypeOK /\ LogFits /\ NoPanic

=============================================================================
