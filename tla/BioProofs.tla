----------------------------- MODULE BioProofs -----------------------------
(***************************************************************************)
(* The safety properties of Bio, for any number of processes, blocks and   *)
(* buffers, with a drive that reports no errors, and that the cache        *)
(* implements BlockStore.                                                  *)
(***************************************************************************)
EXTENDS Bio, FiniteSetTheorems, TLAPS

(* Finitely many processes, so that a count of references is a number, and  *)
(* no errors: ideintr() marks a buffer valid even when its read failed.     *)
Sane == IsFiniteSet(Procs) /\ ~Errors

(* Where a process has its buffer locked, and where it waits for the drive. *)
Locked == {"using", "modified", "iderw", "rwsleep", "rwwoken"}
Waiting == {"rwsleep", "rwwoken"}

Refs(b) == {p \in Procs : buf[p] = b /\ pc[p] \notin {"user", "panic"}}

(* bcache.head's list has every buffer on it.                               *)
ListInv == \A b \in Bufs : \E i \in 1..NBUF : lru[i] = b

OwnInv ==
  /\ \A p \in Procs, b \in Bufs : owner[b] = p <=> buf[p] = b /\ pc[p] \in Locked
  /\ \A b \in Bufs : refcnt[b] = Cardinality(Refs(b))

(* What the flags of a buffer say about it.                                 *)
FlagInv ==
  /\ \A a, b \in Bufs : blockno[a] = blockno[b] /\ blockno[a] # None => a = b
  /\ \A b \in Bufs : blockno[b] = None => ~valid[b] /\ refcnt[b] = 0
  /\ \A b \in Bufs : dirty[b] => valid[b]
  /\ \A p \in Procs : pc[p] \in {"using", "modified"} => valid[buf[p]]
  /\ \A p \in Procs : pc[p] = "iderw" => ~(valid[buf[p]] /\ ~dirty[buf[p]])

(* A queued buffer is locked by a process that waits, and is not done yet.  *)
QueueInv ==
  /\ \A i \in 1..Len(idequeue) :
       /\ owner[idequeue[i]] \in Procs /\ pc[owner[idequeue[i]]] \in Waiting
       /\ ~(valid[idequeue[i]] /\ ~dirty[idequeue[i]])
  /\ \A i, j \in 1..Len(idequeue) : idequeue[i] = idequeue[j] => i = j
  /\ drive = IF idequeue = <<>> THEN NoCmd ELSE idestart(idequeue[1])

(* A valid buffer equals its block unless it is dirty, or about to be.      *)
DataInv ==
  \A b \in Bufs :
    valid[b] /\ ~dirty[b] /\ (\A p \in Procs : pc[p] = "modified" => buf[p] # b) =>
      data[b] = disk[blockno[b]]

IInv == TypeOK /\ ListInv /\ OwnInv /\ FlagInv /\ QueueInv /\ DataInv

-----------------------------------------------------------------------------
(* refcnt counts: a buffer has references exactly when some process has it. *)
LEMMA RefFacts ==
  ASSUME Sane, TypeOK, OwnInv, NEW b \in Bufs
  PROVE  /\ IsFiniteSet(Refs(b)) /\ refcnt[b] = Cardinality(Refs(b))
         /\ refcnt[b] \in Nat /\ (refcnt[b] = 0 <=> Refs(b) = {})
<1>1. IsFiniteSet(Refs(b))
  BY Zenon, FS_Subset DEF Refs, Sane
<1>2. QED
  BY SMTT(60), <1>1, FS_CardinalityType, FS_EmptySet DEF OwnInv

(* A process that has its buffer locked is its owner, and the buffer holds  *)
(* a block.                                                                 *)
LEMMA LockedFacts ==
  ASSUME Sane, IInv, NEW p \in Procs, pc[p] \in Locked
  PROVE  /\ buf[p] \in Bufs /\ owner[buf[p]] = p
         /\ blockno[buf[p]] \in Blocks
         /\ \A q \in Procs : pc[q] \in Locked /\ buf[q] = buf[p] => q = p
<1>1. buf[p] \in Bufs /\ blockno[buf[p]] \in Blocks \cup {None}
  BY Zenon DEF IInv, TypeOK
<1>2. p \in Refs(buf[p])
  BY Zenon DEF Refs, Locked
<1>3. owner[buf[p]] = p
  BY Zenon, <1>1 DEF IInv, OwnInv
<1>4. ASSUME NEW q \in Procs, pc[q] \in Locked, buf[q] = buf[p] PROVE q = p
  BY Zenon, <1>1, <1>3, <1>4 DEF IInv, OwnInv
<1>5. refcnt[buf[p]] # 0
  BY Zenon, <1>1, <1>2, RefFacts DEF IInv
<1>6. QED
  BY Zenon, <1>1, <1>3, <1>4, <1>5 DEF IInv, FlagInv

(* An answer of the drive is about the head of the queue: a write carried   *)
(* out what the buffer holds, a read filled it.                             *)
LEMMA Answer ==
  ASSUME Sane, IInv, NEW ok \in BOOLEAN, Ideintr(ok)
  PROVE  \E b \in Bufs :
           /\ idequeue # <<>> /\ b = idequeue[1] /\ b = Head(idequeue)
           /\ owner[b] \in Procs /\ buf[owner[b]] = b
           /\ pc[owner[b]] \in Waiting
           /\ blockno[b] \in Blocks
           /\ \/ /\ dirty[b] /\ data' = data
                 /\ disk' = [disk EXCEPT ![blockno[b]] = data[b]]
              \/ /\ ~valid[b] /\ ~dirty[b] /\ disk' = disk
                 /\ data' = [data EXCEPT ![b] = disk[blockno[b]]]
<1>1. idequeue # <<>> /\ idequeue \in Seq(Bufs)
  BY Zenon DEF Ideintr, IInv, TypeOK
<1>2. PICK b \in Bufs : b = Head(idequeue) /\ b = idequeue[1]
  BY SMTT(60), <1>1
<1>3. 1 \in 1..Len(idequeue)
  BY SMTT(60), <1>1
<1>4. /\ owner[b] \in Procs /\ pc[owner[b]] \in Waiting
      /\ ~(valid[b] /\ ~dirty[b]) /\ drive = idestart(b)
  BY Zenon, <1>1, <1>2, <1>3 DEF IInv, QueueInv
<1>5. buf[owner[b]] = b /\ pc[owner[b]] \in Locked
  BY Zenon, <1>4 DEF IInv, OwnInv
<1>6. blockno[b] \in Blocks
  BY Zenon, <1>4, <1>5, LockedFacts
<1>7. ok = TRUE
  BY Zenon DEF Ideintr, Sane
<1>8. CASE dirty[b]
  <2>1. drive = [cmd |-> "write", block |-> blockno[b], data |-> data[b]]
    BY Zenon, <1>4, <1>8 DEF idestart
  <2>2. drive.cmd = "write" /\ drive.block = blockno[b] /\ drive.data = data[b]
    BY Zenon, <2>1
  <2>3. data' = data /\ disk' = [disk EXCEPT ![blockno[b]] = data[b]]
    BY Zenon, <1>2, <1>7, <1>8, <2>2 DEF Ideintr
  <2>4. QED
    BY Zenon, <1>1, <1>2, <1>4, <1>5, <1>6, <1>8, <2>3
<1>9. CASE ~dirty[b]
  <2>1. drive = [cmd |-> "read", block |-> blockno[b]]
    BY Zenon, <1>4, <1>9 DEF idestart
  <2>2. drive.cmd = "read" /\ drive.block = blockno[b]
    BY Zenon, <2>1
  <2>3. disk' = disk /\ data' = [data EXCEPT ![b] = disk[blockno[b]]]
    BY Zenon, <1>2, <1>7, <1>9, <2>2 DEF Ideintr
  <2>4. QED
    BY Zenon, <1>1, <1>2, <1>4, <1>5, <1>6, <1>9, <2>3
<1>10. QED
  BY Zenon, <1>8, <1>9

(* bget() recycles a buffer that nobody has and that is not pinned.         *)
LEMMA Recycled ==
  ASSUME Sane, IInv, NEW p \in Procs, NEW k \in Blocks, BgetMiss(p, k)
  PROVE  \E b \in Bufs :
           /\ Refs(b) = {} /\ ~dirty[b] /\ refcnt[b] = 0
           /\ Recycle(b, k) /\ buf' = [buf EXCEPT ![p] = b]
           /\ \A a \in Bufs : blockno[a] # k
<1>1. PICK i \in 1..NBUF : /\ Unused(lru[i]) /\ Recycle(lru[i], k)
                           /\ buf' = [buf EXCEPT ![p] = lru[i]]
  BY Zenon DEF BgetMiss
<1>2. lru[i] \in Bufs
  BY Zenon DEF IInv, TypeOK
<1>3. Refs(lru[i]) = {}
  BY Zenon, <1>1, <1>2, RefFacts DEF IInv, Unused
<1>4. QED
  BY Zenon, <1>1, <1>2, <1>3 DEF BgetMiss, Cached, Unused

(* A buffer that a process has locked and does not wait for is not queued.  *)
LEMMA NotQueued ==
  ASSUME Sane, IInv, NEW p \in Procs, pc[p] \in Locked \ Waiting
  PROVE  \A i \in 1..Len(idequeue) : idequeue[i] # buf[p]
BY SMTT(60), LockedFacts DEF IInv, QueueInv

(* A step that leaves the queue, the drive and the queued buffers as they   *)
(* are and whose owners go on waiting keeps what is known of the queue.     *)
LEMMA QueueKeeps ==
  ASSUME IInv, UNCHANGED <<idequeue, drive>>,
         \A i \in 1..Len(idequeue) :
           LET b == idequeue[i]
           IN /\ owner'[b] = owner[b] /\ pc'[owner[b]] \in Waiting
              /\ valid'[b] = valid[b] /\ dirty'[b] = dirty[b]
              /\ blockno'[b] = blockno[b] /\ data'[b] = data[b]
  PROVE  QueueInv'
<1>1. QueueInv /\ idequeue \in Seq(Bufs)
  BY Zenon DEF IInv, TypeOK
<1>2. ASSUME idequeue # <<>> PROVE idestart(idequeue[1])' = idestart(idequeue[1])
  <2>1. PICK b : b = idequeue[1]
    BY Zenon
  <2>2. 1 \in 1..Len(idequeue)
    BY SMTT(60), <1>1, <1>2
  <2>3. dirty'[b] = dirty[b] /\ blockno'[b] = blockno[b] /\ data'[b] = data[b]
    BY Zenon, <2>1, <2>2
  <2>4. QED
    BY Zenon, <2>1, <2>3 DEF idestart
<1>3. drive' = IF idequeue' = <<>> THEN NoCmd ELSE idestart(idequeue[1])'
  BY Zenon, <1>1, <1>2 DEF QueueInv
<1>4. QED
  BY ZenonT(60), <1>1, <1>3 DEF QueueInv, NoCmd

(* iderw() never finds that it has nothing to do.                           *)
LEMMA Queued ==
  ASSUME IInv, NEW p \in Procs, Iderw(p)
  PROVE  /\ idequeue' = Append(idequeue, buf[p])
         /\ drive' = IF idequeue = <<>> THEN idestart(buf[p]) ELSE drive
         /\ pc' = [pc EXCEPT ![p] = "rwsleep"]
         /\ ~(valid[buf[p]] /\ ~dirty[buf[p]])
BY Zenon DEF Iderw, IInv, FlagInv, SetPc

(* Every step keeps the types.                                             *)
LEMMA TypeStep ==
  ASSUME Sane, IInv, [Next]_vars
  PROVE  TypeOK'
<1> USE DEF TypeOK, PCs, SetPc
<1>a. TypeOK BY Zenon DEF IInv
<1>1. ASSUME NEW p \in Procs, LockBuf(p) PROVE TypeOK'
  BY ZenonT(60), <1>1, <1>a DEF LockBuf, bfields
<1>2. ASSUME NEW p \in Procs, LockSleep(p) PROVE TypeOK'
  BY ZenonT(60), <1>2, <1>a DEF LockSleep, bfields
<1>3. ASSUME NEW p \in Procs, Pin(p) PROVE TypeOK'
  BY ZenonT(60), <1>3, <1>a DEF Pin, bfields
<1>4. ASSUME NEW p \in Procs, Unlock(p) PROVE TypeOK'
  BY ZenonT(60), <1>4, <1>a DEF Unlock
<1>5. ASSUME NEW p \in Procs, Brelse(p) PROVE TypeOK'
  <2>1. p \in Refs(buf[p])
    BY ZenonT(60), <1>5 DEF Brelse, Refs
  <2>2. refcnt[buf[p]] - 1 \in Nat
    BY SMTT(60), <2>1, <1>a, RefFacts DEF IInv
  <2>3. MoveToFront(buf[p]) \in [1..NBUF -> Bufs]
    <3> DEFINE k == CHOOSE i \in 1..NBUF : lru[i] = buf[p]
    <3>1. ASSUME NEW i \in 1..NBUF
          PROVE  (IF i = 1 THEN buf[p] ELSE IF i <= k THEN lru[i-1] ELSE lru[i]) \in Bufs
      <4>1. buf[p] \in Bufs /\ lru[i] \in Bufs /\ (i # 1 => lru[i-1] \in Bufs)
        <5>1. i # 1 => i-1 \in 1..NBUF
          BY SMTT(60), BioAssumption
        <5>2. QED
          BY Zenon, <1>a, <5>1
      <4>2. QED
        BY ZenonT(60), <4>1
    <3>2. QED
      BY Zenon, <3>1 DEF MoveToFront
  <2>4. QED
    BY ZenonT(60), <1>5, <1>a, <2>2, <2>3 DEF Brelse
<1>6. ASSUME NEW p \in Procs, Bwrite(p) PROVE TypeOK'
  BY Zenon, <1>6, <1>a DEF Bwrite, bfields
<1>7. ASSUME NEW p \in Procs, Iderw(p) PROVE TypeOK'
  <2>1. /\ idequeue' = Append(idequeue, buf[p])
        /\ pc' = [pc EXCEPT ![p] = "rwsleep"]
    BY Zenon, <1>7, Queued
  <2>2. QED
    BY SMTT(60), <1>7, <1>a, <2>1 DEF Iderw, bfields
<1>8. ASSUME NEW p \in Procs, IderwWoken(p) PROVE TypeOK'
  BY Zenon, <1>8, <1>a DEF IderwWoken, bfields
<1>9. ASSUME NEW p \in Procs, Kill(p) PROVE TypeOK'
  BY ZenonT(60), <1>9, <1>a DEF Kill, bfields
<1>10. ASSUME NEW p \in Procs, NEW k \in Blocks, BgetHit(p, k) PROVE TypeOK'
  <2>1. PICK b \in Bufs : /\ refcnt' = [refcnt EXCEPT ![b] = @ + 1]
                            /\ buf' = [buf EXCEPT ![p] = b]
    BY Zenon, <1>10 DEF BgetHit
  <2>2. refcnt' \in [Bufs -> Nat] /\ buf' \in [Procs -> Bufs]
    BY SMTT(60), <1>a, <2>1
  <2>3. QED
    BY ZenonT(60), <1>10, <1>a, <2>2 DEF BgetHit
<1>11. ASSUME NEW p \in Procs, NEW k \in Blocks, BgetMiss(p, k) PROVE TypeOK'
  <2>1. PICK b \in Bufs : Recycle(b, k) /\ buf' = [buf EXCEPT ![p] = b]
    BY ZenonT(60), <1>11, Recycled
  <2>2. QED
    BY Zenon, <1>11, <1>a, <2>1 DEF BgetMiss, Recycle
<1>12. ASSUME NEW p \in Procs, NEW k \in Blocks, BgetPanic(p, k) PROVE TypeOK'
  BY ZenonT(60), <1>12, <1>a DEF BgetPanic, bfields
<1>13. ASSUME NEW p \in Procs, NEW v \in Vals, Modify(p, v) PROVE TypeOK'
  BY ZenonT(60), <1>13, <1>a DEF Modify, bfields
<1>14. ASSUME NEW ok \in BOOLEAN, Ideintr(ok) PROVE TypeOK'
  <2>1. PICK b \in Bufs :
          /\ b = Head(idequeue) /\ idequeue # <<>> /\ blockno[b] \in Blocks
          /\ \/ data' = data /\ disk' = [disk EXCEPT ![blockno[b]] = data[b]]
             \/ disk' = disk /\ data' = [data EXCEPT ![b] = disk[blockno[b]]]
    BY ZenonT(60), <1>14, Answer
  <2>2. data' \in [Bufs -> Vals] /\ disk' \in [Blocks -> Vals]
    BY Zenon, <1>a, <2>1
  <2>3. /\ valid' = [valid EXCEPT ![b] = TRUE] /\ dirty' = [dirty EXCEPT ![b] = FALSE]
        /\ pc' = [q \in Procs |-> IF pc[q] = "rwsleep" /\ buf[q] = b
                                  THEN "rwwoken" ELSE pc[q]]
        /\ idequeue' = Tail(idequeue)
        /\ UNCHANGED <<blockno, refcnt, owner, lru, buf>>
    BY <1>14, <2>1, Zenon DEF Ideintr
  <2>4. valid' \in [Bufs -> BOOLEAN] /\ dirty' \in [Bufs -> BOOLEAN]
    BY ZenonT(60), <1>a, <2>3
  <2>5. pc' \in [Procs -> PCs]
    BY ZenonT(60), <1>a, <2>3 DEF PCs
  <2>6. idequeue' \in Seq(Bufs)
    BY SMTT(60), <1>a, <2>1, <2>3
  <2>7. QED
    BY ZenonT(60), <1>a, <2>2, <2>3, <2>4, <2>5, <2>6
<1>15. CASE UNCHANGED vars
  BY Zenon, <1>15, <1>a DEF vars, bfields
<1>16. QED
  BY ZenonT(60), <1>1, <1>2, <1>3, <1>4, <1>5, <1>6, <1>7, <1>8, <1>9, <1>10, <1>11,
     <1>12, <1>13, <1>14, <1>15
     DEF Next

(* Every step keeps all buffers on the list.                               *)
LEMMA ListStep ==
  ASSUME Sane, IInv, [Next]_vars
  PROVE  ListInv'
<1>a. ListInv BY ZenonT(60) DEF IInv
<1>1. ASSUME NEW p \in Procs, LockBuf(p) PROVE ListInv'
  BY ZenonT(60), <1>1, <1>a DEF LockBuf, bfields, ListInv
<1>2. ASSUME NEW p \in Procs, LockSleep(p) PROVE ListInv'
  BY ZenonT(60), <1>2, <1>a DEF LockSleep, bfields, ListInv
<1>3. ASSUME NEW p \in Procs, Pin(p) PROVE ListInv'
  BY ZenonT(60), <1>3, <1>a DEF Pin, bfields, ListInv
<1>4. ASSUME NEW p \in Procs, Unlock(p) PROVE ListInv'
  BY ZenonT(60), <1>4, <1>a DEF Unlock, bfields, ListInv
<1>5. ASSUME NEW p \in Procs, Brelse(p) PROVE ListInv'
  <2>1. CASE lru' = lru
    BY ZenonT(60), <1>a, <2>1 DEF ListInv
  <2>2. CASE lru' = MoveToFront(buf[p])
    <3> DEFINE k == CHOOSE i \in 1..NBUF : lru[i] = buf[p]
    <3>1. k \in 1..NBUF /\ lru[k] = buf[p]
      BY Zenon, <1>a DEF ListInv, IInv, TypeOK
    <3>2. lru' = [i \in 1..NBUF |-> IF i = 1 THEN buf[p]
                                   ELSE IF i <= k THEN lru[i-1] ELSE lru[i]]
      BY ZenonT(60), <2>2 DEF MoveToFront
    <3> HIDE DEF k
    <3>3. SUFFICES ASSUME NEW b \in Bufs PROVE \E i \in 1..NBUF : lru'[i] = b
      BY Zenon DEF ListInv
    <3>4. PICK j \in 1..NBUF : lru[j] = b
      BY ZenonT(60), <1>a DEF ListInv
    <3>5. CASE j = k
      BY SMTT(60), <3>1, <3>2, <3>4, <3>5, BioAssumption
    <3>6. CASE j < k
      <4>1. j+1 \in 1..NBUF /\ j+1 # 1 /\ j+1 <= k /\ (j+1)-1 = j
        BY SMTT(60), <3>1, <3>6, BioAssumption
      <4>2. lru'[j+1] = lru[j]
        BY ZenonT(60), <3>2, <4>1
      <4>3. QED
        BY Zenon, <3>4, <4>1, <4>2
    <3>7. CASE j > k
      <4>1. j # 1 /\ ~(j <= k)
        BY SMTT(60), <3>1, <3>7, BioAssumption
      <4>2. lru'[j] = lru[j]
        BY ZenonT(60), <3>2, <4>1
      <4>3. QED
        BY ZenonT(60), <3>4, <4>2
    <3>8. QED
      BY SMTT(60), <3>1, <3>5, <3>6, <3>7, BioAssumption
  <2>3. QED
    BY ZenonT(60), <1>5, <2>1, <2>2 DEF Brelse
<1>6. ASSUME NEW p \in Procs, Bwrite(p) PROVE ListInv'
  BY ZenonT(60), <1>6, <1>a DEF Bwrite, bfields, ListInv
<1>7. ASSUME NEW p \in Procs, Iderw(p) PROVE ListInv'
  BY ZenonT(60), <1>7, <1>a DEF Iderw, bfields, ListInv
<1>8. ASSUME NEW p \in Procs, IderwWoken(p) PROVE ListInv'
  BY ZenonT(60), <1>8, <1>a DEF IderwWoken, bfields, ListInv
<1>9. ASSUME NEW p \in Procs, Kill(p) PROVE ListInv'
  BY ZenonT(60), <1>9, <1>a DEF Kill, bfields, ListInv
<1>10. ASSUME NEW p \in Procs, NEW k \in Blocks, BgetHit(p, k) PROVE ListInv'
  BY ZenonT(60), <1>10, <1>a DEF BgetHit, bfields, ListInv
<1>11. ASSUME NEW p \in Procs, NEW k \in Blocks, BgetMiss(p, k) PROVE ListInv'
  BY ZenonT(60), <1>11, <1>a DEF BgetMiss, bfields, ListInv
<1>12. ASSUME NEW p \in Procs, NEW k \in Blocks, BgetPanic(p, k) PROVE ListInv'
  BY ZenonT(60), <1>12, <1>a DEF BgetPanic, bfields, ListInv
<1>13. ASSUME NEW p \in Procs, NEW v \in Vals, Modify(p, v) PROVE ListInv'
  BY ZenonT(60), <1>13, <1>a DEF Modify, bfields, ListInv
<1>14. ASSUME NEW ok \in BOOLEAN, Ideintr(ok) PROVE ListInv'
  BY ZenonT(60), <1>14, <1>a DEF Ideintr, bfields, ListInv
<1>15. CASE UNCHANGED vars
  BY ZenonT(60), <1>15, <1>a DEF vars, bfields, ListInv
<1>16. QED
  BY ZenonT(60), <1>1, <1>2, <1>3, <1>4, <1>5, <1>6, <1>7, <1>8, <1>9, <1>10, <1>11,
     <1>12, <1>13, <1>14, <1>15
     DEF Next

(* Every step keeps owners and reference counts.                           *)
LEMMA OwnStep ==
  ASSUME Sane, IInv, [Next]_vars
  PROVE  OwnInv'
<1>a. TypeOK /\ TypeOK' BY Zenon, TypeStep DEF IInv
<1>b. OwnInv BY Zenon DEF IInv
<1> USE DEF TypeOK, PCs, SetPc, Locked
<1>1. ASSUME NEW p \in Procs, LockBuf(p) PROVE OwnInv'
  <2>1. \A b \in Bufs : Refs(b)' = Refs(b)
    BY Zenon, <1>1, <1>a DEF LockBuf, Refs
  <2>2. refcnt' = refcnt
    BY Zenon, <1>1 DEF LockBuf, bfields
  <2>3. \A q \in Procs, b \in Bufs : owner'[b] = q <=> buf'[q] = b /\ pc'[q] \in Locked
    BY SMTT(60), <1>1, <1>a, <1>b, BioAssumption DEF LockBuf, OwnInv, bfields
  <2>4. QED
    BY SMTT(60), <1>b, <2>1, <2>2, <2>3 DEF OwnInv
<1>2. ASSUME NEW p \in Procs, LockSleep(p) PROVE OwnInv'
  <2>1. \A b \in Bufs : Refs(b)' = Refs(b)
    BY Zenon, <1>2, <1>a DEF LockSleep, Refs
  <2>2. refcnt' = refcnt
    BY Zenon, <1>2 DEF LockSleep, bfields
  <2>3. \A q \in Procs, b \in Bufs : owner'[b] = q <=> buf'[q] = b /\ pc'[q] \in Locked
    BY SMTT(60), <1>2, <1>a, <1>b, BioAssumption DEF LockSleep, OwnInv, bfields
  <2>4. QED
    BY SMTT(60), <1>b, <2>1, <2>2, <2>3 DEF OwnInv
<1>3. ASSUME NEW p \in Procs, Pin(p) PROVE OwnInv'
  <2>1. \A b \in Bufs : Refs(b)' = Refs(b)
    BY Zenon, <1>3, <1>a DEF Pin, Refs
  <2>2. refcnt' = refcnt
    BY Zenon, <1>3 DEF Pin, bfields
  <2>3. \A q \in Procs, b \in Bufs : owner'[b] = q <=> buf'[q] = b /\ pc'[q] \in Locked
    BY SMTT(60), <1>3, <1>a, <1>b, BioAssumption DEF Pin, OwnInv, bfields
  <2>4. QED
    BY SMTT(60), <1>b, <2>1, <2>2, <2>3 DEF OwnInv
<1>4. ASSUME NEW p \in Procs, Unlock(p) PROVE OwnInv'
  <2>1. \A b \in Bufs : Refs(b)' = Refs(b)
    BY Zenon, <1>4, <1>a DEF Unlock, Refs
  <2>2. refcnt' = refcnt
    BY Zenon, <1>4 DEF Unlock, bfields
  <2>3. \A q \in Procs, b \in Bufs : owner'[b] = q <=> buf'[q] = b /\ pc'[q] \in Locked
    BY SMTT(60), <1>4, <1>a, <1>b, BioAssumption DEF Unlock, OwnInv, bfields
  <2>4. QED
    BY SMTT(60), <1>b, <2>1, <2>2, <2>3 DEF OwnInv
<1>5. ASSUME NEW p \in Procs, Brelse(p) PROVE OwnInv'
  <2>1. PICK b \in Bufs : b = buf[p]
    BY Zenon, <1>a
  <2>2. /\ p \in Refs(b) /\ Refs(b)' = Refs(b) \ {p}
        /\ \A c \in Bufs \ {b} : Refs(c)' = Refs(c)
    BY SMTT(60), <1>5, <1>a, <2>1 DEF Brelse, Refs
  <2>3. \A c \in Bufs : refcnt'[c] = Cardinality(Refs(c)')
    <3>1. Cardinality(Refs(b) \ {p}) = refcnt[b] - 1
      <4>1. IsFiniteSet(Refs(b)) /\ refcnt[b] = Cardinality(Refs(b))
        BY ZenonT(60), <1>a, <1>b, RefFacts
      <4>2. QED
        BY ZenonT(60), <2>2, <4>1, FS_RemoveElement
    <3>2. refcnt'[b] = refcnt[b] - 1 /\ \A c \in Bufs \ {b} : refcnt'[c] = refcnt[c]
      BY ZenonT(60), <1>5, <1>a, <2>1 DEF Brelse
    <3>3. QED
      BY SMTT(60), <1>b, <2>2, <3>1, <3>2 DEF OwnInv
  <2>4. \A q \in Procs, c \in Bufs : owner'[c] = q <=> buf'[q] = c /\ pc'[q] \in Locked
    BY SMTT(60), <1>5, <1>a, <1>b, <2>1 DEF Brelse, OwnInv
  <2>5. QED
    BY Zenon, <2>3, <2>4 DEF OwnInv
<1>6. ASSUME NEW p \in Procs, Bwrite(p) PROVE OwnInv'
  <2>1. \A b \in Bufs : Refs(b)' = Refs(b)
    BY ZenonT(60), <1>6, <1>a DEF Bwrite, Refs
  <2>2. refcnt' = refcnt
    BY ZenonT(60), <1>6 DEF Bwrite, bfields
  <2>3. \A q \in Procs, b \in Bufs : owner'[b] = q <=> buf'[q] = b /\ pc'[q] \in Locked
    BY SMTT(60), <1>6, <1>a, <1>b, BioAssumption DEF Bwrite, OwnInv, bfields
  <2>4. QED
    BY SMTT(60), <1>b, <2>1, <2>2, <2>3 DEF OwnInv
<1>7. ASSUME NEW p \in Procs, Iderw(p) PROVE OwnInv'
  <2>1. \A b \in Bufs : Refs(b)' = Refs(b)
    BY SMTT(60), <1>7, <1>a, Queued DEF Iderw, Refs
  <2>2. refcnt' = refcnt
    BY Zenon, <1>7 DEF Iderw, bfields
  <2>3. \A q \in Procs, b \in Bufs : owner'[b] = q <=> buf'[q] = b /\ pc'[q] \in Locked
    BY SMTT(60), <1>7, <1>a, <1>b, BioAssumption, Queued DEF Iderw, OwnInv, bfields
  <2>4. QED
    BY SMTT(60), <1>b, <2>1, <2>2, <2>3 DEF OwnInv
<1>8. ASSUME NEW p \in Procs, IderwWoken(p) PROVE OwnInv'
  <2>1. \A b \in Bufs : Refs(b)' = Refs(b)
    BY ZenonT(60), <1>8, <1>a DEF IderwWoken, Refs
  <2>2. refcnt' = refcnt
    BY ZenonT(60), <1>8 DEF IderwWoken, bfields
  <2>3. \A q \in Procs, b \in Bufs : owner'[b] = q <=> buf'[q] = b /\ pc'[q] \in Locked
    BY SMTT(60), <1>8, <1>a, <1>b, BioAssumption DEF IderwWoken, OwnInv, bfields
  <2>4. QED
    BY SMTT(60), <1>b, <2>1, <2>2, <2>3 DEF OwnInv
<1>9. ASSUME NEW p \in Procs, Kill(p) PROVE OwnInv'
  <2>1. \A b \in Bufs : Refs(b)' = Refs(b)
    BY ZenonT(60), <1>9, <1>a DEF Kill, Refs
  <2>2. refcnt' = refcnt
    BY ZenonT(60), <1>9 DEF Kill, bfields
  <2>3. \A q \in Procs, b \in Bufs : owner'[b] = q <=> buf'[q] = b /\ pc'[q] \in Locked
    BY SMTT(60), <1>9, <1>a, <1>b, BioAssumption DEF Kill, OwnInv, bfields
  <2>4. QED
    BY SMTT(60), <1>b, <2>1, <2>2, <2>3 DEF OwnInv
<1>10. ASSUME NEW p \in Procs, NEW k \in Blocks, BgetHit(p, k) PROVE OwnInv'
  <2>1. PICK b \in Bufs : /\ refcnt' = [refcnt EXCEPT ![b] = @ + 1]
                            /\ buf' = [buf EXCEPT ![p] = b]
    BY Zenon, <1>10 DEF BgetHit
  <2>2. /\ p \notin Refs(b) /\ Refs(b)' = Refs(b) \cup {p}
        /\ \A c \in Bufs \ {b} : Refs(c)' = Refs(c)
    BY SMTT(60), <1>10, <1>a, <2>1 DEF BgetHit, Refs
  <2>3. \A c \in Bufs : refcnt'[c] = Cardinality(Refs(c)')
    <3>1. Cardinality(Refs(b) \cup {p}) = refcnt[b] + 1
      <4>1. IsFiniteSet(Refs(b)) /\ refcnt[b] = Cardinality(Refs(b))
        BY Zenon, <1>a, <1>b, RefFacts
      <4>2. QED
        BY ZenonT(60), <2>2, <4>1, FS_AddElement
    <3>2. refcnt'[b] = refcnt[b] + 1 /\ \A c \in Bufs \ {b} : refcnt'[c] = refcnt[c]
      BY ZenonT(60), <1>a, <2>1
    <3>3. QED
      BY SMTT(60), <1>b, <2>2, <3>1, <3>2 DEF OwnInv
  <2>4. \A q \in Procs, c \in Bufs : owner'[c] = q <=> buf'[q] = c /\ pc'[q] \in Locked
    BY SMTT(60), <1>10, <1>a, <1>b, <2>1 DEF BgetHit, OwnInv
  <2>5. QED
    BY Zenon, <2>3, <2>4 DEF OwnInv
<1>11. ASSUME NEW p \in Procs, NEW k \in Blocks, BgetMiss(p, k) PROVE OwnInv'
  <2>1. PICK b \in Bufs : /\ Refs(b) = {} /\ Recycle(b, k)
                            /\ buf' = [buf EXCEPT ![p] = b]
    BY ZenonT(60), <1>11, Recycled
  <2>2. /\ Refs(b)' = {p}
        /\ \A c \in Bufs \ {b} : Refs(c)' = Refs(c)
    BY SMTT(60), <1>11, <1>a, <2>1 DEF BgetMiss, Refs
  <2>3. \A c \in Bufs : refcnt'[c] = Cardinality(Refs(c)')
    <3>1. Cardinality({p}) = 1
      BY ZenonT(60), FS_Singleton
    <3>2. refcnt'[b] = 1 /\ \A c \in Bufs \ {b} : refcnt'[c] = refcnt[c]
      BY SMTT(60), <1>a, <2>1 DEF Recycle
    <3>3. QED
      BY SMTT(60), <1>b, <2>2, <3>1, <3>2 DEF OwnInv
  <2>4. \A q \in Procs, c \in Bufs : owner'[c] = q <=> buf'[q] = c /\ pc'[q] \in Locked
    BY SMTT(60), <1>11, <1>a, <1>b, <2>1 DEF BgetMiss, OwnInv
  <2>5. QED
    BY Zenon, <2>3, <2>4 DEF OwnInv
<1>12. ASSUME NEW p \in Procs, NEW k \in Blocks, BgetPanic(p, k) PROVE OwnInv'
  <2>1. \A b \in Bufs : Refs(b)' = Refs(b)
    BY ZenonT(60), <1>12, <1>a DEF BgetPanic, Refs
  <2>2. refcnt' = refcnt
    BY Zenon, <1>12 DEF BgetPanic, bfields
  <2>3. \A q \in Procs, b \in Bufs : owner'[b] = q <=> buf'[q] = b /\ pc'[q] \in Locked
    BY SMTT(60), <1>12, <1>a, <1>b, BioAssumption DEF BgetPanic, OwnInv, bfields
  <2>4. QED
    BY SMTT(60), <1>b, <2>1, <2>2, <2>3 DEF OwnInv
<1>13. ASSUME NEW p \in Procs, NEW v \in Vals, Modify(p, v) PROVE OwnInv'
  <2>1. \A b \in Bufs : Refs(b)' = Refs(b)
    BY ZenonT(60), <1>13, <1>a DEF Modify, Refs
  <2>2. refcnt' = refcnt
    BY ZenonT(60), <1>13 DEF Modify, bfields
  <2>3. \A q \in Procs, b \in Bufs : owner'[b] = q <=> buf'[q] = b /\ pc'[q] \in Locked
    BY SMTT(60), <1>13, <1>a, <1>b, BioAssumption DEF Modify, OwnInv, bfields
  <2>4. QED
    BY SMTT(60), <1>b, <2>1, <2>2, <2>3 DEF OwnInv
<1>14. ASSUME NEW ok \in BOOLEAN, Ideintr(ok) PROVE OwnInv'
  <2>1. \A q \in Procs : pc'[q] = pc[q] \/ {pc[q], pc'[q]} \subseteq Waiting
    BY ZenonT(60), <1>14, <1>a DEF Ideintr, Waiting
  <2>2. \A q \in Procs : pc'[q] \in Locked <=> pc[q] \in Locked
    BY ZenonT(60), <2>1 DEF Waiting
  <2>3. \A b \in Bufs : Refs(b)' = Refs(b)
    BY ZenonT(60), <1>14, <2>1 DEF Ideintr, Refs, Waiting
  <2>4. QED
    BY ZenonT(60), <1>14, <1>b, <2>2, <2>3 DEF Ideintr, OwnInv
<1>15. CASE UNCHANGED vars
  <2>1. \A b \in Bufs : Refs(b)' = Refs(b)
    BY Zenon, <1>15, <1>a DEF vars, Refs
  <2>2. refcnt' = refcnt
    BY ZenonT(60), <1>15 DEF vars, bfields
  <2>3. \A q \in Procs, b \in Bufs : owner'[b] = q <=> buf'[q] = b /\ pc'[q] \in Locked
    BY SMTT(60), <1>15, <1>a, <1>b, BioAssumption DEF vars, OwnInv, bfields
  <2>4. QED
    BY SMTT(60), <1>b, <2>1, <2>2, <2>3 DEF OwnInv
<1>16. QED
  BY ZenonT(60), <1>1, <1>2, <1>3, <1>4, <1>5, <1>6, <1>7, <1>8, <1>9, <1>10, <1>11,
     <1>12, <1>13, <1>14, <1>15
     DEF Next

(* Every step keeps what the flags of the buffers say.                     *)
LEMMA FlagStep ==
  ASSUME Sane, IInv, [Next]_vars
  PROVE  FlagInv'
<1>a. TypeOK /\ FlagInv BY ZenonT(60) DEF IInv
<1> USE DEF TypeOK, PCs, SetPc
<1>1. ASSUME NEW p \in Procs, LockBuf(p) PROVE FlagInv'
  BY SMTT(60), <1>1, <1>a DEF LockBuf, FlagInv
<1>2. ASSUME NEW p \in Procs, LockSleep(p) PROVE FlagInv'
  BY SMTT(60), <1>2, <1>a DEF LockSleep, FlagInv, bfields
<1>3. ASSUME NEW p \in Procs, Pin(p) PROVE FlagInv'
  BY SMTT(60), <1>3, <1>a DEF Pin, FlagInv, bfields
<1>4. ASSUME NEW p \in Procs, Unlock(p) PROVE FlagInv'
  BY ZenonT(60), <1>4, <1>a DEF Unlock, FlagInv, bfields
<1>5. ASSUME NEW p \in Procs, Brelse(p) PROVE FlagInv'
  <2>1. \A b \in Bufs : refcnt[b] = 0 => refcnt'[b] = 0
    <3>1. p \in Refs(buf[p])
      BY ZenonT(60), <1>5 DEF Brelse, Refs
    <3>2. refcnt[buf[p]] # 0
      BY ZenonT(60), <1>a, <3>1, RefFacts DEF IInv
    <3>3. QED
      BY Zenon, <1>5, <1>a, <3>2 DEF Brelse
  <2>2. QED
    BY SMTT(60), <1>5, <1>a, <2>1 DEF Brelse, FlagInv
<1>6. ASSUME NEW p \in Procs, Bwrite(p) PROVE FlagInv'
  BY SMTT(60), <1>6, <1>a DEF Bwrite, FlagInv, bfields
<1>7. ASSUME NEW p \in Procs, Iderw(p) PROVE FlagInv'
  BY SMTT(60), <1>7, <1>a, Queued DEF Iderw, FlagInv, bfields
<1>8. ASSUME NEW p \in Procs, IderwWoken(p) PROVE FlagInv'
  BY SMTT(60), <1>8, <1>a DEF IderwWoken, FlagInv, bfields
<1>9. ASSUME NEW p \in Procs, Kill(p) PROVE FlagInv'
  BY SMTT(60), <1>9, <1>a DEF Kill, FlagInv, bfields
<1>10. ASSUME NEW p \in Procs, NEW k \in Blocks, BgetHit(p, k) PROVE FlagInv'
  <2>1. PICK b \in Bufs : /\ blockno[b] = k /\ buf' = [buf EXCEPT ![p] = b]
                            /\ refcnt' = [refcnt EXCEPT ![b] = @ + 1]
    BY Zenon, <1>10 DEF BgetHit
  <2>2. \A c \in Bufs : blockno[c] = None => refcnt'[c] = refcnt[c]
    BY ZenonT(60), <1>a, <2>1, BioAssumption
  <2>3. \A q \in Procs : pc'[q] \in {"using", "modified", "iderw"} =>
          pc'[q] = pc[q] /\ buf'[q] = buf[q]
    BY SMTT(60), <1>10, <1>a, <2>1 DEF BgetHit
  <2>4. QED
    BY SMTT(60), <1>10, <1>a, <2>2, <2>3 DEF BgetHit, FlagInv
<1>11. ASSUME NEW p \in Procs, NEW k \in Blocks, BgetMiss(p, k) PROVE FlagInv'
  <2>1. PICK b \in Bufs : /\ Refs(b) = {} /\ Recycle(b, k) /\ buf' = [buf EXCEPT ![p] = b]
                            /\ \A a \in Bufs : blockno[a] # k
    BY ZenonT(60), <1>11, Recycled
  <2>2. \A q \in Procs : pc'[q] \in {"using", "modified", "iderw"} =>
          pc'[q] = pc[q] /\ buf'[q] = buf[q] /\ buf[q] # b
    BY Zenon, <1>11, <1>a, <2>1 DEF BgetMiss, Refs
  <2>3. /\ blockno'[b] = k /\ ~valid'[b] /\ ~dirty'[b]
        /\ \A c \in Bufs \ {b} : /\ blockno'[c] = blockno[c] /\ valid'[c] = valid[c]
                                  /\ dirty'[c] = dirty[c]
                                  /\ refcnt'[c] = refcnt[c]
    BY ZenonT(60), <1>a, <2>1 DEF Recycle
  <2>4. \A c, d \in Bufs : blockno'[c] = blockno'[d] /\ blockno'[c] # None => c = d
    <3>1. \A c \in Bufs \ {b} : blockno'[c] = blockno[c] /\ blockno[c] # k
      BY ZenonT(60), <2>1, <2>3
    <3>2. blockno'[b] = k
      BY ZenonT(60), <2>3
    <3>3. ASSUME NEW c \in Bufs, NEW d \in Bufs, blockno'[c] = blockno'[d],
                 blockno'[c] # None
          PROVE  c = d
      <4>1. \A a, e \in Bufs : blockno[a] = blockno[e] /\ blockno[a] # None => a = e
        BY ZenonT(60), <1>a DEF FlagInv
      <4>2. QED
        BY ZenonT(60), <3>1, <3>2, <3>3, <4>1
    <3>4. QED
      BY ZenonT(60), <3>3
  <2>5. \A c \in Bufs : blockno'[c] = None => ~valid'[c] /\ refcnt'[c] = 0
    BY SMTT(60), <1>a, <2>3, BioAssumption DEF FlagInv
  <2>6. \A c \in Bufs : dirty'[c] => valid'[c]
    BY ZenonT(60), <1>a, <2>3 DEF FlagInv
  <2>7. QED
    BY SMTT(60), <1>a, <2>2, <2>3, <2>4, <2>5, <2>6 DEF FlagInv
<1>12. ASSUME NEW p \in Procs, NEW k \in Blocks, BgetPanic(p, k) PROVE FlagInv'
  BY SMTT(60), <1>12, <1>a DEF BgetPanic, FlagInv, bfields
<1>13. ASSUME NEW p \in Procs, NEW v \in Vals, Modify(p, v) PROVE FlagInv'
  BY SMTT(60), <1>13, <1>a DEF Modify, FlagInv, bfields
<1>14. ASSUME NEW ok \in BOOLEAN, Ideintr(ok) PROVE FlagInv'
  <2>1. PICK b \in Bufs : /\ b = Head(idequeue) /\ blockno[b] \in Blocks
                            /\ owner[b] \in Procs /\ buf[owner[b]] = b
                            /\ pc[owner[b]] \in Waiting
    BY ZenonT(60), <1>14, Answer
  <2>2. \A q \in Procs : pc'[q] \in {"using", "modified", "iderw"} => pc'[q] = pc[q]
    BY ZenonT(60), <1>14, <1>a DEF Ideintr
  <2>3. \A q \in Procs : pc[q] = "iderw" => buf[q] # b
    BY ZenonT(60), <2>1, LockedFacts DEF Waiting, Locked
  <2>4. /\ valid'[b] /\ ~dirty'[b]
        /\ \A c \in Bufs \ {b} : valid'[c] = valid[c] /\ dirty'[c] = dirty[c]
    BY ZenonT(60), <1>14, <1>a, <2>1 DEF Ideintr
  <2>5. QED
    BY SMTT(60), <1>14, <1>a, <2>1, <2>2, <2>3, <2>4, BioAssumption DEF Ideintr, FlagInv
<1>15. CASE UNCHANGED vars
  BY ZenonT(60), <1>15, <1>a DEF vars, FlagInv, bfields
<1>16. QED
  BY Zenon, <1>1, <1>2, <1>3, <1>4, <1>5, <1>6, <1>7, <1>8, <1>9, <1>10, <1>11,
     <1>12, <1>13, <1>14, <1>15
     DEF Next

(* Every step keeps what is known of the queue and of the drive.           *)
LEMMA QueueStep ==
  ASSUME Sane, IInv, [Next]_vars
  PROVE  QueueInv'
<1>a. TypeOK BY Zenon DEF IInv
<1> USE DEF TypeOK, PCs, SetPc
<1>1. ASSUME NEW p \in Procs, LockBuf(p) PROVE QueueInv'
  <2>1. \A i \in 1..Len(idequeue) : /\ owner[idequeue[i]] \in Procs
                                     /\ pc[owner[idequeue[i]]] \in Waiting
    BY Zenon DEF IInv, QueueInv
  <2>2. QED
    BY SMTT(60), <1>1, <1>a, <2>1, QueueKeeps, BioAssumption DEF LockBuf, bfields, Waiting
<1>2. ASSUME NEW p \in Procs, LockSleep(p) PROVE QueueInv'
  <2>1. \A i \in 1..Len(idequeue) : /\ owner[idequeue[i]] \in Procs
                                     /\ pc[owner[idequeue[i]]] \in Waiting
    BY Zenon DEF IInv, QueueInv
  <2>2. QED
    BY Zenon, <1>2, <1>a, <2>1, QueueKeeps DEF LockSleep, bfields, Waiting
<1>3. ASSUME NEW p \in Procs, Pin(p) PROVE QueueInv'
  <2>1. \A i \in 1..Len(idequeue) : /\ owner[idequeue[i]] \in Procs
                                     /\ pc[owner[idequeue[i]]] \in Waiting
                                     /\ idequeue[i] \in Bufs
    BY SMTT(60), <1>a DEF IInv, QueueInv
  <2>2. pc[p] \in Locked \ Waiting /\ buf[p] \in Bufs
    BY Zenon, <1>3, <1>a DEF Pin, Locked, Waiting
  <2>3. \A i \in 1..Len(idequeue) : idequeue[i] # buf[p] /\ owner[idequeue[i]] # p
    BY Zenon, <2>1, <2>2, NotQueued
  <2>4. QED
    BY ZenonT(60), <1>3, <1>a, <2>1, <2>2, <2>3, QueueKeeps DEF Pin, Waiting
<1>4. ASSUME NEW p \in Procs, Unlock(p) PROVE QueueInv'
  <2>1. \A i \in 1..Len(idequeue) : /\ owner[idequeue[i]] \in Procs
                                     /\ pc[owner[idequeue[i]]] \in Waiting
                                     /\ idequeue[i] \in Bufs
    BY SMTT(60), <1>a DEF IInv, QueueInv
  <2>2. pc[p] \in Locked \ Waiting /\ buf[p] \in Bufs
    BY ZenonT(60), <1>4, <1>a DEF Unlock, Locked, Waiting
  <2>3. \A i \in 1..Len(idequeue) : idequeue[i] # buf[p] /\ owner[idequeue[i]] # p
    BY Zenon, <2>1, <2>2, NotQueued
  <2>4. QED
    BY Zenon, <1>4, <1>a, <2>1, <2>2, <2>3, QueueKeeps DEF Unlock, Waiting
<1>5. ASSUME NEW p \in Procs, Brelse(p) PROVE QueueInv'
  <2>1. \A i \in 1..Len(idequeue) : /\ owner[idequeue[i]] \in Procs
                                     /\ pc[owner[idequeue[i]]] \in Waiting
    BY Zenon DEF IInv, QueueInv
  <2>2. QED
    BY ZenonT(60), <1>5, <1>a, <2>1, QueueKeeps DEF Brelse, bfields, Waiting
<1>6. ASSUME NEW p \in Procs, Bwrite(p) PROVE QueueInv'
  <2>1. \A i \in 1..Len(idequeue) : /\ owner[idequeue[i]] \in Procs
                                     /\ pc[owner[idequeue[i]]] \in Waiting
                                     /\ idequeue[i] \in Bufs
    BY SMTT(60), <1>a DEF IInv, QueueInv
  <2>2. pc[p] \in Locked \ Waiting /\ buf[p] \in Bufs
    BY ZenonT(60), <1>6, <1>a DEF Bwrite, Locked, Waiting
  <2>3. \A i \in 1..Len(idequeue) : idequeue[i] # buf[p] /\ owner[idequeue[i]] # p
    BY Zenon, <2>1, <2>2, NotQueued
  <2>4. QED
    BY ZenonT(60), <1>6, <1>a, <2>1, <2>2, <2>3, QueueKeeps DEF Bwrite, Waiting
<1>7. ASSUME NEW p \in Procs, Iderw(p) PROVE QueueInv'
  <2>1. /\ idequeue' = Append(idequeue, buf[p])
        /\ drive' = IF idequeue = <<>> THEN idestart(buf[p]) ELSE drive
        /\ pc' = [pc EXCEPT ![p] = "rwsleep"]
        /\ ~(valid[buf[p]] /\ ~dirty[buf[p]])
        /\ UNCHANGED <<bfields, disk, buf>>
    BY ZenonT(60), <1>7, Queued DEF Iderw
  <2>2. pc[p] \in Locked \ Waiting /\ buf[p] \in Bufs /\ owner[buf[p]] = p
    BY ZenonT(60), <1>7, <1>a, LockedFacts DEF Iderw, Locked, Waiting
  <2>3. \A i \in 1..Len(idequeue) : idequeue[i] # buf[p]
    BY ZenonT(60), <2>2, NotQueued
  <2>4. QueueInv BY Zenon DEF IInv
  <2>5. /\ Len(idequeue') = Len(idequeue) + 1 /\ Len(idequeue) \in Nat
        /\ idequeue'[Len(idequeue')] = buf[p]
        /\ \A i \in 1..Len(idequeue) : idequeue'[i] = idequeue[i]
    BY SMTT(60), <1>a, <2>1, <2>2
  <2>6. ASSUME NEW i \in 1..Len(idequeue')
        PROVE  /\ owner'[idequeue'[i]] \in Procs
               /\ pc'[owner'[idequeue'[i]]] \in Waiting
               /\ ~(valid'[idequeue'[i]] /\ ~dirty'[idequeue'[i]])
    <3>1. CASE i = Len(idequeue')
      BY SMTT(60), <1>a, <2>1, <2>2, <2>5, <3>1 DEF bfields, Waiting
    <3>2. CASE i \in 1..Len(idequeue)
      <4>1. idequeue'[i] = idequeue[i] /\ owner[idequeue[i]] \in Procs
        BY ZenonT(60), <2>4, <2>5, <3>2 DEF QueueInv
      <4>2. pc'[owner[idequeue[i]]] \in Waiting
        BY ZenonT(60), <1>a, <2>1, <2>4, <3>2, <4>1 DEF QueueInv, Waiting
      <4>3. QED
        BY ZenonT(60), <2>1, <2>4, <3>2, <4>1, <4>2 DEF QueueInv, bfields
    <3>3. QED
      BY SMTT(60), <2>5, <3>1, <3>2
  <2>7. \A i, j \in 1..Len(idequeue') : idequeue'[i] = idequeue'[j] => i = j
    BY SMTT(60), <2>3, <2>4, <2>5 DEF QueueInv
  <2>8. drive' = IF idequeue' = <<>> THEN NoCmd ELSE idestart(idequeue[1])'
    <3>1. PICK b : b = idequeue'[1]
      BY Zenon
    <3>2. idestart(b)' = idestart(b)
      BY ZenonT(60), <2>1 DEF idestart, bfields
    <3>3. idestart(idequeue[1])' = idestart(b)
      BY ZenonT(60), <3>1, <3>2 DEF idestart
    <3>4. b = IF idequeue = <<>> THEN buf[p] ELSE idequeue[1]
      BY SMTT(60), <1>a, <2>1, <2>2, <3>1
    <3>5. drive' = idestart(b)
      BY Zenon, <2>1, <2>4, <3>4 DEF QueueInv
    <3>6. idequeue' # <<>>
      BY SMTT(60), <1>a, <2>1, <2>2
    <3>7. QED
      BY Zenon, <3>3, <3>5, <3>6
  <2>9. QED
    BY ZenonT(60), <2>6, <2>7, <2>8 DEF QueueInv, NoCmd
<1>8. ASSUME NEW p \in Procs, IderwWoken(p) PROVE QueueInv'
  <2>1. \A i \in 1..Len(idequeue) : /\ owner[idequeue[i]] \in Procs
                                     /\ pc[owner[idequeue[i]]] \in Waiting
                                     /\ idequeue[i] = buf[owner[idequeue[i]]]
                                     /\ ~(valid[idequeue[i]] /\ ~dirty[idequeue[i]])
    BY SMTT(60), <1>a DEF IInv, QueueInv, OwnInv
  <2>2. ASSUME NEW i \in 1..Len(idequeue) PROVE pc'[owner[idequeue[i]]] \in Waiting
    BY ZenonT(60), <1>8, <1>a, <2>1 DEF IderwWoken, Waiting
  <2>3. QED
    BY Zenon, <1>8, <2>2, QueueKeeps DEF IderwWoken, bfields
<1>9. ASSUME NEW p \in Procs, Kill(p) PROVE QueueInv'
  <2>1. \A i \in 1..Len(idequeue) : /\ owner[idequeue[i]] \in Procs
                                     /\ pc[owner[idequeue[i]]] \in Waiting
    BY Zenon DEF IInv, QueueInv
  <2>2. QED
    BY ZenonT(60), <1>9, <1>a, <2>1, QueueKeeps DEF Kill, bfields, Waiting
<1>10. ASSUME NEW p \in Procs, NEW k \in Blocks, BgetHit(p, k) PROVE QueueInv'
  <2>1. \A i \in 1..Len(idequeue) : /\ owner[idequeue[i]] \in Procs
                                     /\ pc[owner[idequeue[i]]] \in Waiting
    BY ZenonT(60) DEF IInv, QueueInv
  <2>2. QED
    BY ZenonT(60), <1>10, <1>a, <2>1, QueueKeeps DEF BgetHit, bfields, Waiting
<1>11. ASSUME NEW p \in Procs, NEW k \in Blocks, BgetMiss(p, k) PROVE QueueInv'
  <2>1. PICK b \in Bufs : Refs(b) = {} /\ Recycle(b, k)
    BY ZenonT(60), <1>11, Recycled
  <2>2. \A i \in 1..Len(idequeue) : /\ owner[idequeue[i]] \in Procs
                                     /\ pc[owner[idequeue[i]]] \in Waiting
                                     /\ idequeue[i] = buf[owner[idequeue[i]]]
                                     /\ idequeue[i] \in Bufs
    BY SMTT(60), <1>a DEF IInv, QueueInv, OwnInv
  <2>3. \A i \in 1..Len(idequeue) : idequeue[i] # b
    <3>1. SUFFICES ASSUME NEW i \in 1..Len(idequeue) PROVE idequeue[i] # b
      BY Zenon
    <3>2. PICK q \in Procs : pc[q] \in Waiting /\ idequeue[i] = buf[q]
      BY ZenonT(60), <2>2
    <3>3. pc[q] \notin {"user", "panic"}
      BY ZenonT(60), <3>2 DEF Waiting
    <3>4. QED
      BY Zenon, <2>1, <3>2, <3>3 DEF Refs
  <2>4. ASSUME NEW i \in 1..Len(idequeue), NEW b1, b1 = idequeue[i]
        PROVE  /\ owner'[b1] = owner[b1] /\ pc'[owner[b1]] \in Waiting
               /\ valid'[b1] = valid[b1] /\ dirty'[b1] = dirty[b1]
               /\ blockno'[b1] = blockno[b1] /\ data'[b1] = data[b1]
    <3>1. /\ b1 \in Bufs /\ b1 # b /\ owner[b1] \in Procs
          /\ pc[owner[b1]] \in Waiting
      BY ZenonT(60), <2>2, <2>3, <2>4
    <3>2. /\ pc'[owner[b1]] \in Waiting /\ owner'[b1] = owner[b1]
          /\ data'[b1] = data[b1]
      BY ZenonT(60), <1>11, <1>a, <3>1 DEF BgetMiss, Waiting
    <3>3. QED
      BY ZenonT(60), <1>a, <2>1, <3>1, <3>2 DEF Recycle
  <2>5. QED
    BY ZenonT(60), <1>11, <2>4, QueueKeeps DEF BgetMiss
<1>12. ASSUME NEW p \in Procs, NEW k \in Blocks, BgetPanic(p, k) PROVE QueueInv'
  <2>1. \A i \in 1..Len(idequeue) : /\ owner[idequeue[i]] \in Procs
                                     /\ pc[owner[idequeue[i]]] \in Waiting
    BY Zenon DEF IInv, QueueInv
  <2>2. QED
    BY ZenonT(60), <1>12, <1>a, <2>1, QueueKeeps DEF BgetPanic, bfields, Waiting
<1>13. ASSUME NEW p \in Procs, NEW v \in Vals, Modify(p, v) PROVE QueueInv'
  <2>1. \A i \in 1..Len(idequeue) : /\ owner[idequeue[i]] \in Procs
                                     /\ pc[owner[idequeue[i]]] \in Waiting
                                     /\ idequeue[i] \in Bufs
    BY SMTT(60), <1>a DEF IInv, QueueInv
  <2>2. pc[p] \in Locked \ Waiting /\ buf[p] \in Bufs
    BY Zenon, <1>13, <1>a DEF Modify, Locked, Waiting
  <2>3. \A i \in 1..Len(idequeue) : idequeue[i] # buf[p] /\ owner[idequeue[i]] # p
    BY Zenon, <2>1, <2>2, NotQueued
  <2>4. QED
    BY ZenonT(60), <1>13, <1>a, <2>1, <2>2, <2>3, QueueKeeps DEF Modify, Waiting
<1>14. ASSUME NEW ok \in BOOLEAN, Ideintr(ok) PROVE QueueInv'
  <2>1. PICK b \in Bufs : /\ b = Head(idequeue) /\ idequeue # <<>> /\ b = idequeue[1]
    BY ZenonT(60), <1>14, Answer
  <2>2. QueueInv BY ZenonT(60) DEF IInv
  <2>3. /\ Len(idequeue') \in Nat /\ Len(idequeue) = Len(idequeue') + 1
        /\ idequeue' \in Seq(Bufs)
        /\ \A i \in 1..Len(idequeue') : idequeue'[i] = idequeue[i+1] /\ i+1 \in 1..Len(idequeue)
    BY SMTT(60), <1>14, <1>a, <2>1 DEF Ideintr
  <2>4. \A i \in 1..Len(idequeue') : idequeue'[i] # b
    BY SMTT(60), <2>1, <2>2, <2>3 DEF QueueInv
  <2>5. ASSUME NEW i \in 1..Len(idequeue')
        PROVE  /\ owner'[idequeue'[i]] \in Procs
               /\ pc'[owner'[idequeue'[i]]] \in Waiting
               /\ ~(valid'[idequeue'[i]] /\ ~dirty'[idequeue'[i]])
    <3>1. PICK j \in 1..Len(idequeue) : idequeue'[i] = idequeue[j] /\ idequeue[j] # b
      BY ZenonT(60), <2>3, <2>4
    <3>2. /\ owner[idequeue[j]] \in Procs /\ pc[owner[idequeue[j]]] \in Waiting
          /\ ~(valid[idequeue[j]] /\ ~dirty[idequeue[j]])
          /\ idequeue[j] \in Bufs
      BY SMTT(60), <1>a, <2>2 DEF QueueInv
    <3>3. pc'[owner[idequeue[j]]] \in Waiting
      BY Zenon, <1>14, <1>a, <3>2 DEF Ideintr, Waiting
    <3>4. /\ valid'[idequeue[j]] = valid[idequeue[j]]
          /\ dirty'[idequeue[j]] = dirty[idequeue[j]]
      BY ZenonT(60), <1>14, <1>a, <2>1, <3>1, <3>2 DEF Ideintr
    <3>5. QED
      BY ZenonT(60), <1>14, <3>1, <3>2, <3>3, <3>4 DEF Ideintr
  <2>6. \A i, j \in 1..Len(idequeue') : idequeue'[i] = idequeue'[j] => i = j
    BY SMTT(60), <2>2, <2>3 DEF QueueInv
  <2>7. drive' = IF idequeue' = <<>> THEN NoCmd ELSE idestart(idequeue[1])'
    <3>1. CASE idequeue' = <<>>
      BY Zenon, <1>14, <3>1 DEF Ideintr
    <3>2. CASE idequeue' # <<>>
      <4>1. PICK c \in Bufs : c = Head(idequeue') /\ c = idequeue'[1] /\ c # b
        BY SMTT(60), <2>3, <2>4, <3>2
      <4>2. drive' = idestart(c)
        BY ZenonT(60), <1>14, <3>2, <4>1 DEF Ideintr
      <4>3. dirty'[c] = dirty[c] /\ blockno'[c] = blockno[c]
        BY Zenon, <1>14, <1>a, <2>1, <4>1 DEF Ideintr
      <4>4. data'[c] = data[c]
        BY ZenonT(60), <1>14, <1>a, <2>1, <4>1, Answer
      <4>5. idestart(idequeue[1])' = idestart(c)
        BY ZenonT(60), <4>1, <4>3, <4>4 DEF idestart
      <4>6. QED
        BY ZenonT(60), <3>2, <4>2, <4>5
    <3>3. QED
      BY Zenon, <3>1, <3>2
  <2>8. QED
    BY ZenonT(60), <2>5, <2>6, <2>7 DEF QueueInv, NoCmd
<1>15. CASE UNCHANGED vars
  <2>1. \A i \in 1..Len(idequeue) : /\ owner[idequeue[i]] \in Procs
                                     /\ pc[owner[idequeue[i]]] \in Waiting
    BY ZenonT(60) DEF IInv, QueueInv
  <2>2. QED
    BY ZenonT(60), <1>15, <1>a, <2>1, QueueKeeps DEF vars, bfields, Waiting
<1>16. QED
  BY ZenonT(60), <1>1, <1>2, <1>3, <1>4, <1>5, <1>6, <1>7, <1>8, <1>9, <1>10, <1>11,
     <1>12, <1>13, <1>14, <1>15
     DEF Next

(* Every step keeps clean buffers equal to their blocks.                   *)
LEMMA DataStep ==
  ASSUME Sane, IInv, [Next]_vars
  PROVE  DataInv'
<1>a. TypeOK /\ DataInv BY ZenonT(60) DEF IInv
<1> USE DEF TypeOK, PCs, SetPc
<1>1. ASSUME NEW p \in Procs, LockBuf(p) PROVE DataInv'
  BY ZenonT(60), <1>1, <1>a DEF LockBuf, DataInv, bfields
<1>2. ASSUME NEW p \in Procs, LockSleep(p) PROVE DataInv'
  BY ZenonT(60), <1>2, <1>a DEF LockSleep, DataInv, bfields
<1>3. ASSUME NEW p \in Procs, Pin(p) PROVE DataInv'
  BY ZenonT(60), <1>3, <1>a DEF Pin, DataInv, bfields
<1>4. ASSUME NEW p \in Procs, Unlock(p) PROVE DataInv'
  BY ZenonT(60), <1>4, <1>a DEF Unlock, DataInv, bfields
<1>5. ASSUME NEW p \in Procs, Brelse(p) PROVE DataInv'
  BY ZenonT(60), <1>5, <1>a DEF Brelse, DataInv, bfields
<1>6. ASSUME NEW p \in Procs, Bwrite(p) PROVE DataInv'
  BY ZenonT(60), <1>6, <1>a DEF Bwrite, DataInv, bfields
<1>7. ASSUME NEW p \in Procs, Iderw(p) PROVE DataInv'
  BY SMTT(60), <1>7, <1>a, Queued DEF Iderw, DataInv, bfields
<1>8. ASSUME NEW p \in Procs, IderwWoken(p) PROVE DataInv'
  BY ZenonT(60), <1>8, <1>a DEF IderwWoken, DataInv, bfields
<1>9. ASSUME NEW p \in Procs, Kill(p) PROVE DataInv'
  BY ZenonT(60), <1>9, <1>a DEF Kill, DataInv, bfields
<1>10. ASSUME NEW p \in Procs, NEW k \in Blocks, BgetHit(p, k) PROVE DataInv'
  <2>1. \A q \in Procs : pc[q] = "modified" => pc'[q] = "modified" /\ buf'[q] = buf[q]
    BY SMTT(60), <1>10, <1>a DEF BgetHit
  <2>2. QED
    BY SMTT(60), <1>10, <1>a, <2>1 DEF BgetHit, DataInv
<1>11. ASSUME NEW p \in Procs, NEW k \in Blocks, BgetMiss(p, k) PROVE DataInv'
  <2>1. PICK b \in Bufs : Recycle(b, k) /\ buf' = [buf EXCEPT ![p] = b]
    BY ZenonT(60), <1>11, Recycled
  <2>2. \A q \in Procs : pc[q] = "modified" => pc'[q] = "modified" /\ buf'[q] = buf[q]
    BY ZenonT(60), <1>11, <1>a, <2>1 DEF BgetMiss
  <2>3. /\ ~valid'[b]
        /\ \A c \in Bufs \ {b} : /\ blockno'[c] = blockno[c] /\ valid'[c] = valid[c]
                                  /\ dirty'[c] = dirty[c]
    BY ZenonT(60), <1>a, <2>1 DEF Recycle
  <2>4. data' = data /\ disk' = disk
    BY ZenonT(60), <1>11 DEF BgetMiss
  <2>5. ASSUME NEW c \in Bufs, valid'[c], ~dirty'[c],
               \A q \in Procs : pc'[q] = "modified" => buf'[q] # c
        PROVE  data'[c] = disk'[blockno'[c]]
    <3>1. c # b /\ valid[c] /\ ~dirty[c] /\ blockno'[c] = blockno[c]
      BY ZenonT(60), <2>3, <2>5
    <3>2. \A q \in Procs : pc[q] = "modified" => buf[q] # c
      BY ZenonT(60), <2>2, <2>5
    <3>3. QED
      BY ZenonT(60), <1>a, <2>4, <3>1, <3>2 DEF DataInv
  <2>6. QED
    BY Zenon, <2>5 DEF DataInv
<1>12. ASSUME NEW p \in Procs, NEW k \in Blocks, BgetPanic(p, k) PROVE DataInv'
  BY ZenonT(60), <1>12, <1>a DEF BgetPanic, DataInv, bfields
<1>13. ASSUME NEW p \in Procs, NEW v \in Vals, Modify(p, v) PROVE DataInv'
  BY ZenonT(60), <1>13, <1>a DEF Modify, DataInv, bfields
<1>14. ASSUME NEW ok \in BOOLEAN, Ideintr(ok) PROVE DataInv'
  <2>1. PICK b \in Bufs :
          /\ b = Head(idequeue) /\ blockno[b] \in Blocks
          /\ \/ data' = data /\ disk' = [disk EXCEPT ![blockno[b]] = data[b]]
             \/ disk' = disk /\ data' = [data EXCEPT ![b] = disk[blockno[b]]]
    BY ZenonT(60), <1>14, Answer
  <2>2. data'[b] = disk'[blockno[b]] /\ \A c \in Bufs \ {b} : data'[c] = data[c]
    BY SMTT(60), <1>a, <2>1
  <2>3. \A q \in Procs : pc[q] = "modified" => pc'[q] = "modified"
    BY Zenon, <1>14, <1>a DEF Ideintr
  <2>4. \A c \in Bufs \ {b} : valid'[c] = valid[c] /\ dirty'[c] = dirty[c]
    BY ZenonT(60), <1>14, <1>a, <2>1 DEF Ideintr
  <2>5. \A c \in Bufs \ {b} : valid[c] => disk'[blockno[c]] = disk[blockno[c]]
    <3>1. ASSUME NEW c \in Bufs \ {b}, valid[c]
          PROVE  blockno[c] \in Blocks /\ blockno[c] # blockno[b]
      BY ZenonT(60), <1>a, <2>1, <3>1 DEF IInv, FlagInv
    <3>2. QED
      BY ZenonT(60), <1>a, <2>1, <3>1
  <2>6. blockno' = blockno /\ buf' = buf
    BY ZenonT(60), <1>14 DEF Ideintr
  <2>7. ASSUME NEW c \in Bufs, c # b, valid'[c], ~dirty'[c],
               \A q \in Procs : pc'[q] = "modified" => buf'[q] # c
        PROVE  data'[c] = disk'[blockno'[c]]
    <3>1. valid[c] /\ ~dirty[c]
      BY ZenonT(60), <2>4, <2>7
    <3>2. \A q \in Procs : pc[q] = "modified" => buf[q] # c
      BY ZenonT(60), <2>3, <2>6, <2>7
    <3>3. data[c] = disk[blockno[c]]
      BY ZenonT(60), <1>a, <3>1, <3>2 DEF DataInv
    <3>4. QED
      BY ZenonT(60), <2>2, <2>5, <2>6, <2>7, <3>1, <3>3
  <2>8. data'[b] = disk'[blockno'[b]]
    BY ZenonT(60), <2>2, <2>6
  <2>9. QED
    BY Zenon, <2>7, <2>8 DEF DataInv
<1>15. CASE UNCHANGED vars
  BY ZenonT(60), <1>15, <1>a DEF vars, DataInv, bfields
<1>16. QED
  BY Zenon, <1>1, <1>2, <1>3, <1>4, <1>5, <1>6, <1>7, <1>8, <1>9, <1>10, <1>11,
     <1>12, <1>13, <1>14, <1>15
     DEF Next

(* The inductive invariant holds in every state.                            *)
LEMMA BioInductive ==
  ASSUME Sane
  PROVE  Spec => []IInv
<1>1. Init => IInv
  <2> SUFFICES ASSUME Init PROVE IInv
    BY Zenon
  <2> USE DEF Init
  <2>1. PICK v \in Vals : /\ data = [b \in Bufs |-> v]
                          /\ disk = [k \in Blocks |-> v]
    BY ZenonT(60)
  <2>2. TypeOK
    <3>1. \A i \in 1..NBUF : NBUF + 1 - i \in 1..NBUF
      BY SMTT(60), BioAssumption
    <3>2. lru \in [1..NBUF -> Bufs] /\ buf \in [Procs -> Bufs]
      BY SMTT(60), <3>1, BioAssumption DEF Bufs
    <3>3. idequeue \in Seq(Bufs)
      BY SMTT(60)
    <3>4. QED
      BY ZenonT(60), <2>1, <3>2, <3>3 DEF TypeOK, PCs
  <2>3. ListInv
    <3>1. ASSUME NEW b \in Bufs
          PROVE  NBUF + 1 - b \in 1..NBUF /\ NBUF + 1 - (NBUF + 1 - b) = b
      BY SMTT(60), BioAssumption DEF Bufs
    <3>2. ASSUME NEW b \in Bufs PROVE lru[NBUF + 1 - b] = b
      BY Zenon, <3>1
    <3>3. QED
      BY Zenon, <3>1, <3>2 DEF ListInv
  <2>4. OwnInv
    <3>1. \A b \in Bufs : Refs(b) = {}
      BY Zenon DEF Refs
    <3>2. QED
      BY Zenon, <3>1, FS_EmptySet, BioAssumption DEF OwnInv, Locked
  <2>5. FlagInv /\ DataInv
    BY Zenon DEF FlagInv, DataInv
  <2>6. QueueInv
    BY SMTT(60) DEF QueueInv
  <2>7. QED
    BY ZenonT(60), <2>2, <2>3, <2>4, <2>5, <2>6 DEF IInv
<1>2. IInv /\ [Next]_vars => IInv'
  BY Zenon, TypeStep, ListStep, OwnStep, FlagStep, QueueStep, DataStep DEF IInv
<1>3. QED
  BY <1>1, <1>2, PTL DEF Spec

(* A block has one buffer whose count is right, a clean and unlocked one    *)
(* equals the disk, and the drive works for the head of the queue, whose    *)
(* owner waits: bget, brelse, iderw and ideintr keep bcache and the queue.  *)
THEOREM BioStaysSound ==
  ASSUME Sane
  PROVE  Spec => []BuffersSound
<1>1. ASSUME IInv PROVE BuffersSound
  <2>1. TypeOK /\ OwnInv /\ FlagInv /\ QueueInv /\ DataInv
    BY Zenon, <1>1 DEF IInv
  <2>2. OneBuffer
    <3>1. \A b \in Bufs : refcnt[b] > 0 <=> Refs(b) # {}
      <4>1. ASSUME NEW b \in Bufs PROVE refcnt[b] > 0 <=> Refs(b) # {}
        BY SMTT(60), <2>1, RefFacts
      <4>2. QED
        BY Zenon, <4>1
    <3>2. QED
      BY ZenonT(60), <2>1, <3>1 DEF OneBuffer, FlagInv, Refs
  <2>3. ValidIsRead
    <3>1. \A p \in Procs : pc[p] = "modified" => owner[buf[p]] = p
      BY Zenon, <1>1, LockedFacts DEF Locked
    <3>2. QED
      BY SMTT(60), <2>1, <3>1, BioAssumption DEF ValidIsRead, DataInv
  <2>4. DriveServesHead
    <3>1. /\ idequeue \in Seq(Bufs)
          /\ (idequeue # <<>> => Head(idequeue) = idequeue[1])
      BY SMTT(60), <2>1 DEF TypeOK
    <3>2. drive = NoCmd <=> idequeue = <<>>
      <4>1. ASSUME NEW b PROVE idestart(b) # NoCmd
        <5>1. idestart(b).cmd \in {"read", "write"}
          BY Zenon DEF idestart
        <5>2. NoCmd.cmd = "none"
          BY Zenon DEF NoCmd
        <5>3. QED
          BY Zenon, <5>1, <5>2
      <4>2. QED
        BY Zenon, <2>1, <4>1 DEF QueueInv
    <3>3. idequeue # <<>> => drive = idestart(Head(idequeue))
      BY Zenon, <2>1, <3>1 DEF QueueInv
    <3>4. ASSUME NEW i \in 1..Len(idequeue)
          PROVE  \E p \in Procs : /\ buf[p] = idequeue[i] /\ owner[buf[p]] = p
                                  /\ pc[p] \in {"rwsleep", "rwwoken"}
      <4>1. idequeue[i] \in Bufs /\ owner[idequeue[i]] \in Procs
        BY SMTT(60), <2>1, <3>1 DEF QueueInv
      <4>2. /\ buf[owner[idequeue[i]]] = idequeue[i]
            /\ pc[owner[idequeue[i]]] \in Waiting
        BY SMTT(60), <2>1, <4>1 DEF QueueInv, OwnInv
      <4>3. QED
        BY Zenon, <4>1, <4>2 DEF Waiting
    <3>5. QED
      BY Zenon, <2>1, <3>2, <3>3, <3>4 DEF DriveServesHead, FlagInv
  <2>5. QED
    BY Zenon, <2>1, <2>2, <2>3, <2>4 DEF BuffersSound
<1>2. QED
  BY <1>1, BioInductive, PTL

(* brelse() never loses a buffer: every one stays on bcache.head's list,    *)
(* where bget() looks for a block and for a buffer to recycle.              *)
THEOREM BioListComplete ==
  ASSUME Sane
  PROVE  Spec => []ListInv
<1>1. IInv => ListInv
  BY Zenon DEF IInv
<1>2. QED
  BY <1>1, BioInductive, PTL

-----------------------------------------------------------------------------
(* BlockStore's variables, as the mapping S defines them.                   *)
Mem == [k \in Blocks |-> IF Cached(k) /\ valid[BufOf(k)]
                         THEN data[BufOf(k)] ELSE disk[k]]
User == [k \in Blocks |-> IF Cached(k) THEN owner[BufOf(k)] ELSE None]

(* The buffer of a block is the one that bget() finds.                      *)
LEMMA TheBuffer ==
  ASSUME NEW f, NEW b \in Bufs, f[b] # None,
         \A a, c \in Bufs : f[a] = f[c] /\ f[a] # None => a = c
  PROVE  (CHOOSE c \in Bufs : f[c] = f[b]) = b
BY Zenon

(* A cached block is in its buffer once that is valid, any other on disk.   *)
LEMMA View ==
  ASSUME FlagInv, NEW k \in Blocks
  PROVE  /\ \A b \in Bufs : blockno[b] = k =>
              /\ Mem[k] = (IF valid[b] THEN data[b] ELSE disk[k])
              /\ User[k] = owner[b]
         /\ (\A b \in Bufs : blockno[b] # k) => Mem[k] = disk[k] /\ User[k] = None
<1>1. ASSUME NEW b \in Bufs, blockno[b] = k PROVE Cached(k) /\ BufOf(k) = b
  BY ZenonT(60), <1>1, TheBuffer, BioAssumption DEF FlagInv, Cached, BufOf
<1>2. QED
  BY Zenon, <1>1 DEF Mem, User, Cached

(* The same after a step.                                                   *)
LEMMA ViewNext ==
  ASSUME FlagInv', NEW k \in Blocks
  PROVE  /\ \A b \in Bufs : blockno'[b] = k =>
              /\ Mem'[k] = (IF valid'[b] THEN data'[b] ELSE disk'[k])
              /\ User'[k] = owner'[b]
         /\ (\A b \in Bufs : blockno'[b] # k) => Mem'[k] = disk'[k] /\ User'[k] = None
<1>1. ASSUME NEW b \in Bufs, blockno'[b] = k PROVE Cached(k)' /\ BufOf(k)' = b
  BY ZenonT(60), <1>1, TheBuffer, BioAssumption DEF FlagInv, Cached, BufOf
<1>2. QED
  BY Zenon, <1>1 DEF Mem, User, Cached

(* A step that moves no block between buffers changes the store as it       *)
(* changes the buffers.                                                     *)
LEMMA ViewKeeps ==
  ASSUME FlagInv, FlagInv', blockno' = blockno, NEW k \in Blocks,
         \A b \in Bufs : blockno[b] = k =>
           (IF valid'[b] THEN data'[b] ELSE disk'[k]) =
             (IF valid[b] THEN data[b] ELSE disk[k]),
         (\A b \in Bufs : blockno[b] # k) => disk'[k] = disk[k]
  PROVE  Mem'[k] = Mem[k]
BY SMTT(60), View, ViewNext

(* A block whose buffer keeps its sleeplock keeps its user.                 *)
LEMMA UserKeepsAt ==
  ASSUME FlagInv, FlagInv', blockno' = blockno, NEW k \in Blocks,
         \A b \in Bufs : blockno[b] = k => owner'[b] = owner[b]
  PROVE  User'[k] = User[k]
BY SMTT(60), View, ViewNext

(* A step that leaves buffers and sleeplocks alone leaves the users of the  *)
(* blocks alone.                                                            *)
LEMMA UserKeeps ==
  ASSUME FlagInv, FlagInv', blockno' = blockno, owner' = owner
  PROVE  User' = User
<1>1. ASSUME NEW k \in Blocks PROVE User'[k] = User[k]
  BY ZenonT(60), UserKeepsAt
<1>2. QED
  BY Zenon, <1>1 DEF User

(* A step that leaves buffers and disk alone leaves the store alone.        *)
LEMMA MemSame ==
  ASSUME FlagInv, FlagInv', UNCHANGED <<blockno, valid, data, disk>>
  PROVE  Mem' = Mem
<1>1. ASSUME NEW k \in Blocks PROVE Mem'[k] = Mem[k]
  BY ZenonT(60), ViewKeeps
<1>2. QED
  BY ZenonT(60), <1>1 DEF Mem

(* Every step of the cache is a step of the store or leaves it unchanged.  *)
LEMMA StoreStep ==
  ASSUME Sane, IInv, [Next]_vars
  PROVE  [S!Next]_(S!bsvars)
<1>a. FlagInv /\ FlagInv' BY ZenonT(60), FlagStep DEF IInv
<1>b. TypeOK /\ TypeOK' BY ZenonT(60), TypeStep DEF IInv
<1>1. ASSUME NEW p \in Procs, LockBuf(p) PROVE [S!Next]_(S!bsvars)
  <2>1. PICK b \in Bufs : b = buf[p]
    BY ZenonT(60), <1>b DEF TypeOK
  <2>2. p \in Refs(b) /\ owner[b] = None
    BY ZenonT(60), <1>1, <2>1 DEF LockBuf, Refs
  <2>3. PICK k \in Blocks : blockno[b] = k
    BY ZenonT(60), <1>a, <1>b, <2>2, RefFacts DEF FlagInv, IInv, TypeOK
  <2>4. /\ UNCHANGED <<blockno, valid, data, disk>>
        /\ owner' = [owner EXCEPT ![b] = p]
    BY Zenon, <1>1, <2>1 DEF LockBuf
  <2>5. Mem' = Mem
    BY ZenonT(60), <1>a, <2>4, MemSame
  <2>6. User[k] = None
    BY ZenonT(60), <1>a, <2>2, <2>3, View
  <2>7. User' = [User EXCEPT ![k] = p]
    <3>1. User'[k] = p
      BY SMTT(60), <1>a, <1>b, <2>3, <2>4, ViewNext DEF TypeOK
    <3>2. ASSUME NEW a \in Blocks, a # k PROVE User'[a] = User[a]
      BY Zenon, <1>a, <1>b, <2>3, <2>4, <3>2, UserKeepsAt DEF TypeOK
    <3>3. /\ User' = [a \in Blocks |-> User'[a]]
          /\ User = [a \in Blocks |-> User[a]]
      BY ZenonT(60) DEF User
    <3> HIDE DEF User
    <3>4. QED
      BY ZenonT(60), <3>1, <3>2, <3>3
  <2>8. S!Lock(p, k)
    BY ZenonT(60), <2>5, <2>6, <2>7 DEF S!Lock, Mem, User
  <2>9. QED
    BY ZenonT(60), <2>8 DEF S!Next
<1>2. ASSUME NEW p \in Procs, LockSleep(p) PROVE [S!Next]_(S!bsvars)
  <2>1. UNCHANGED <<blockno, valid, data, disk>> /\ owner' = owner
    BY ZenonT(60), <1>2 DEF LockSleep, bfields
  <2>2. Mem' = Mem /\ User' = User
    BY ZenonT(60), <1>a, <2>1, MemSame, UserKeeps
  <2>3. QED
    BY Zenon, <2>2 DEF Mem, User, S!bsvars
<1>3. ASSUME NEW p \in Procs, Pin(p) PROVE [S!Next]_(S!bsvars)
  <2>1. UNCHANGED <<blockno, valid, data, disk>> /\ owner' = owner
    BY ZenonT(60), <1>3 DEF Pin, bfields
  <2>2. Mem' = Mem /\ User' = User
    BY Zenon, <1>a, <2>1, MemSame, UserKeeps
  <2>3. QED
    BY Zenon, <2>2 DEF Mem, User, S!bsvars
<1>4. ASSUME NEW p \in Procs, Unlock(p) PROVE [S!Next]_(S!bsvars)
  <2>1. PICK b \in Bufs : b = buf[p]
    BY Zenon, <1>b DEF TypeOK
  <2>2. pc[p] \in Locked
    BY ZenonT(60), <1>4 DEF Unlock, Locked
  <2>3. PICK k \in Blocks : blockno[b] = k /\ owner[b] = p
    BY ZenonT(60), <2>1, <2>2, LockedFacts
  <2>4. /\ UNCHANGED <<blockno, valid, data, disk>>
        /\ owner' = [owner EXCEPT ![b] = None]
    BY ZenonT(60), <1>4, <2>1 DEF Unlock
  <2>5. Mem' = Mem
    BY ZenonT(60), <1>a, <2>4, MemSame
  <2>6. User[k] = p
    BY ZenonT(60), <1>a, <2>3, View
  <2>7. User' = [User EXCEPT ![k] = None]
    <3>1. User'[k] = None
      BY SMTT(60), <1>a, <1>b, <2>3, <2>4, ViewNext DEF TypeOK
    <3>2. ASSUME NEW a \in Blocks, a # k PROVE User'[a] = User[a]
      BY Zenon, <1>a, <1>b, <2>3, <2>4, <3>2, UserKeepsAt DEF TypeOK
    <3>3. /\ User' = [a \in Blocks |-> User'[a]]
          /\ User = [a \in Blocks |-> User[a]]
      BY Zenon DEF User
    <3>4. QED
      BY ZenonT(60), <3>1, <3>2, <3>3
  <2>8. S!Unlock(p, k)
    BY ZenonT(60), <2>5, <2>6, <2>7 DEF S!Unlock, Mem, User
  <2>9. QED
    BY ZenonT(60), <2>8 DEF S!Next
<1>5. ASSUME NEW p \in Procs, Brelse(p) PROVE [S!Next]_(S!bsvars)
  <2>1. UNCHANGED <<blockno, valid, data, disk>> /\ owner' = owner
    BY ZenonT(60), <1>5 DEF Brelse, bfields
  <2>2. Mem' = Mem /\ User' = User
    BY Zenon, <1>a, <2>1, MemSame, UserKeeps
  <2>3. QED
    BY Zenon, <2>2 DEF Mem, User, S!bsvars
<1>6. ASSUME NEW p \in Procs, Bwrite(p) PROVE [S!Next]_(S!bsvars)
  <2>1. UNCHANGED <<blockno, valid, data, disk>> /\ owner' = owner
    BY ZenonT(60), <1>6 DEF Bwrite, bfields
  <2>2. Mem' = Mem /\ User' = User
    BY Zenon, <1>a, <2>1, MemSame, UserKeeps
  <2>3. QED
    BY Zenon, <2>2 DEF Mem, User, S!bsvars
<1>7. ASSUME NEW p \in Procs, Iderw(p) PROVE [S!Next]_(S!bsvars)
  <2>1. UNCHANGED <<blockno, valid, data, disk>> /\ owner' = owner
    BY ZenonT(60), <1>7 DEF Iderw, bfields
  <2>2. Mem' = Mem /\ User' = User
    BY Zenon, <1>a, <2>1, MemSame, UserKeeps
  <2>3. QED
    BY Zenon, <2>2 DEF Mem, User, S!bsvars
<1>8. ASSUME NEW p \in Procs, IderwWoken(p) PROVE [S!Next]_(S!bsvars)
  <2>1. UNCHANGED <<blockno, valid, data, disk>> /\ owner' = owner
    BY ZenonT(60), <1>8 DEF IderwWoken, bfields
  <2>2. Mem' = Mem /\ User' = User
    BY Zenon, <1>a, <2>1, MemSame, UserKeeps
  <2>3. QED
    BY Zenon, <2>2 DEF Mem, User, S!bsvars
<1>9. ASSUME NEW p \in Procs, Kill(p) PROVE [S!Next]_(S!bsvars)
  <2>1. UNCHANGED <<blockno, valid, data, disk>> /\ owner' = owner
    BY ZenonT(60), <1>9 DEF Kill, bfields
  <2>2. Mem' = Mem /\ User' = User
    BY Zenon, <1>a, <2>1, MemSame, UserKeeps
  <2>3. QED
    BY Zenon, <2>2 DEF Mem, User, S!bsvars
<1>10. ASSUME NEW p \in Procs, NEW k \in Blocks, BgetHit(p, k)
      PROVE  [S!Next]_(S!bsvars)
  <2>1. UNCHANGED <<blockno, valid, data, disk>> /\ owner' = owner
    BY ZenonT(60), <1>10 DEF BgetHit, bfields
  <2>2. Mem' = Mem /\ User' = User
    BY ZenonT(60), <1>a, <2>1, MemSame, UserKeeps
  <2>3. QED
    BY Zenon, <2>2 DEF Mem, User, S!bsvars
<1>11. ASSUME NEW p \in Procs, NEW k \in Blocks, BgetMiss(p, k)
      PROVE  [S!Next]_(S!bsvars)
  <2>1. PICK b \in Bufs :
          /\ Refs(b) = {} /\ ~dirty[b] /\ Recycle(b, k)
          /\ \A a \in Bufs : blockno[a] # k
    BY ZenonT(60), <1>11, Recycled
  <2>2. owner[b] = None
    <3>1. owner[b] \in Procs \cup {None}
      BY ZenonT(60), <1>b DEF TypeOK
    <3>2. ASSUME NEW q \in Procs, owner[b] = q PROVE FALSE
      <4>1. buf[q] = b /\ pc[q] \in Locked
        BY ZenonT(60), <3>2 DEF IInv, OwnInv
      <4>2. QED
        BY ZenonT(60), <2>1, <4>1 DEF Refs, Locked
    <3>3. QED
      BY ZenonT(60), <3>1, <3>2
  <2>3. valid[b] => data[b] = disk[blockno[b]]
    <3>1. \A q \in Procs : pc[q] = "modified" => buf[q] # b
      BY Zenon, <2>1 DEF Refs
    <3>2. QED
      BY ZenonT(60), <2>1, <3>1 DEF IInv, DataInv
  <2>4. UNCHANGED <<owner, data, disk>>
    BY ZenonT(60), <1>11 DEF BgetMiss
  <2>5. /\ blockno'[b] = k /\ ~valid'[b]
        /\ \A c \in Bufs \ {b} : blockno'[c] = blockno[c] /\ valid'[c] = valid[c]
    BY SMTT(60), <1>b, <2>1 DEF Recycle, TypeOK
  <2>6. ASSUME NEW a \in Blocks PROVE Mem'[a] = Mem[a] /\ User'[a] = User[a]
    <3>1. CASE a = k
      BY SMTT(60), <1>a, <2>1, <2>2, <2>4, <2>5, <3>1, View, ViewNext
    <3>2. CASE a # k /\ a = blockno[b]
      <4>1. \A c \in Bufs : blockno'[c] # a
        <5>1. ASSUME NEW c \in Bufs, c # b PROVE blockno'[c] # a
          <6>1. blockno'[c] = blockno[c] /\ a # None
            BY ZenonT(60), <2>5, <5>1, BioAssumption
          <6>2. blockno[c] = blockno[b] /\ blockno[c] # None => c = b
            BY ZenonT(60), <1>a DEF FlagInv
          <6>3. QED
            BY ZenonT(60), <3>2, <5>1, <6>1, <6>2
        <5>2. QED
          BY ZenonT(60), <2>5, <3>2, <5>1
      <4>2. Mem'[a] = disk[a] /\ User'[a] = None
        BY ZenonT(60), <1>a, <2>4, <4>1, ViewNext
      <4>3. Mem[a] = disk[a] /\ User[a] = None
        BY ZenonT(60), <1>a, <2>2, <2>3, <3>2, View
      <4>4. QED
        BY ZenonT(60), <4>2, <4>3
    <3>3. CASE a # k /\ \E c \in Bufs \ {b} : blockno[c] = a
      <4>1. PICK c \in Bufs \ {b} : blockno[c] = a
        BY ZenonT(60), <3>3
      <4>2. blockno'[c] = a /\ valid'[c] = valid[c]
        BY ZenonT(60), <2>5, <4>1
      <4>3. QED
        BY SMTT(60), <1>a, <2>4, <4>1, <4>2, View, ViewNext
    <3>4. CASE a # k /\ \A c \in Bufs : blockno[c] # a
      <4>1. \A c \in Bufs : blockno'[c] # a
        BY ZenonT(60), <2>5, <3>4
      <4>2. QED
        BY SMTT(60), <1>a, <2>4, <3>4, <4>1, View, ViewNext
    <3>5. QED
      BY Zenon, <3>1, <3>2, <3>3, <3>4
  <2>7. Mem' = Mem /\ User' = User
    BY ZenonT(60), <2>6 DEF Mem, User
  <2>8. QED
    BY ZenonT(60), <2>7 DEF Mem, User, S!bsvars
<1>12. ASSUME NEW p \in Procs, NEW k \in Blocks, BgetPanic(p, k)
      PROVE  [S!Next]_(S!bsvars)
  <2>1. UNCHANGED <<blockno, valid, data, disk>> /\ owner' = owner
    BY ZenonT(60), <1>12 DEF BgetPanic, bfields
  <2>2. Mem' = Mem /\ User' = User
    BY Zenon, <1>a, <2>1, MemSame, UserKeeps
  <2>3. QED
    BY Zenon, <2>2 DEF Mem, User, S!bsvars
<1>13. ASSUME NEW p \in Procs, NEW v \in Vals, Modify(p, v)
      PROVE  [S!Next]_(S!bsvars)
  <2>1. PICK b \in Bufs : b = buf[p]
    BY ZenonT(60), <1>b DEF TypeOK
  <2>2. pc[p] \in Locked /\ valid[b]
    BY ZenonT(60), <1>13, <1>a, <2>1 DEF Modify, Locked, FlagInv
  <2>3. PICK k \in Blocks : blockno[b] = k /\ owner[b] = p
    BY ZenonT(60), <2>1, <2>2, LockedFacts
  <2>4. /\ UNCHANGED <<blockno, valid, owner, disk>>
        /\ data' = [data EXCEPT ![b] = v]
    BY ZenonT(60), <1>13, <2>1 DEF Modify
  <2>5. User' = User
    BY ZenonT(60), <1>a, <2>4, UserKeeps
  <2>6. User[k] = p
    BY ZenonT(60), <1>a, <2>3, View
  <2>7. Mem' = [Mem EXCEPT ![k] = v]
    <3>1. Mem'[k] = v
      BY ZenonT(60), <1>a, <1>b, <2>2, <2>3, <2>4, ViewNext DEF TypeOK
    <3>2. ASSUME NEW a \in Blocks, a # k PROVE Mem'[a] = Mem[a]
      BY ZenonT(60), <1>a, <1>b, <2>3, <2>4, <3>2, ViewKeeps DEF TypeOK
    <3>3. Mem' = [a \in Blocks |-> Mem'[a]] /\ Mem = [a \in Blocks |-> Mem[a]]
      BY ZenonT(60) DEF Mem
    <3>4. QED
      BY ZenonT(60), <3>1, <3>2, <3>3
  <2>8. S!Write(p, k, v)
    BY ZenonT(60), <2>5, <2>6, <2>7 DEF S!Write, Mem, User
  <2>9. QED
    BY ZenonT(60), <2>8 DEF S!Next
<1>14. ASSUME NEW ok \in BOOLEAN, Ideintr(ok) PROVE [S!Next]_(S!bsvars)
  <2>1. PICK b \in Bufs :
          /\ b = Head(idequeue) /\ blockno[b] \in Blocks
          /\ \/ /\ dirty[b] /\ data' = data
                /\ disk' = [disk EXCEPT ![blockno[b]] = data[b]]
             \/ /\ ~valid[b] /\ disk' = disk
                /\ data' = [data EXCEPT ![b] = disk[blockno[b]]]
    BY ZenonT(60), <1>14, Answer
  <2>2. UNCHANGED <<blockno, owner>>
    BY ZenonT(60), <1>14 DEF Ideintr
  <2>3. valid'[b] /\ \A c \in Bufs \ {b} : valid'[c] = valid[c] /\ data'[c] = data[c]
    <3>1. valid'[b] /\ \A c \in Bufs \ {b} : valid'[c] = valid[c]
      <4>1. b = Head(idequeue) /\ valid \in [Bufs -> BOOLEAN]
        BY ZenonT(60), <1>b, <2>1 DEF TypeOK
      <4>2. valid' = [valid EXCEPT ![b] = TRUE]
        BY Zenon, <1>14, <4>1 DEF Ideintr
      <4>3. QED
        BY ZenonT(60), <4>1, <4>2
    <3>2. \A c \in Bufs \ {b} : data'[c] = data[c]
      BY ZenonT(60), <1>b, <2>1 DEF TypeOK
    <3>3. QED
      BY ZenonT(60), <3>1, <3>2
  <2>4. User' = User
    BY ZenonT(60), <1>a, <2>2, UserKeeps
  <2>5. ASSUME NEW k \in Blocks PROVE Mem'[k] = Mem[k]
    <3>1. CASE k = blockno[b]
      <4>1. Mem'[k] = data'[b]
        BY ZenonT(60), <1>a, <2>2, <2>3, <3>1, ViewNext
      <4>2. Mem[k] = IF valid[b] THEN data[b] ELSE disk[k]
        BY <1>a, <3>1, View, Zenon
      <4>3. CASE dirty[b]
        <5>1. valid[b]
          BY <1>a, <4>3, Zenon DEF FlagInv
        <5>2. data' = data
          BY <1>a, <2>1, <4>3, <5>1, Zenon
        <5>3. QED
          BY <4>1, <4>2, <5>1, <5>2, Zenon
      <4>4. CASE ~valid[b]
        <5>1. data' = [data EXCEPT ![b] = disk[k]] /\ data \in [Bufs -> Vals]
          <6>1. ~dirty[b]
            BY <1>a, <4>4, Zenon DEF FlagInv
          <6>2. QED
            BY <1>b, <2>1, <3>1, <6>1, Zenon DEF TypeOK
        <5>2. data'[b] = disk[k]
          BY <5>1, Zenon
        <5>3. QED
          BY <4>1, <4>2, <4>4, <5>2, Zenon
      <4>5. QED
        BY <2>1, <4>3, <4>4, Zenon
    <3>2. CASE k # blockno[b]
      <4>1. disk'[k] = disk[k]
        BY Zenon, <1>b, <2>1, <3>2 DEF TypeOK
      <4>2. QED
        BY ZenonT(60), <1>a, <2>2, <2>3, <3>2, <4>1, ViewKeeps
    <3>3. QED
      BY ZenonT(60), <3>1, <3>2
  <2>6. Mem' = Mem
    BY Zenon, <2>5 DEF Mem
  <2>7. QED
    BY ZenonT(60), <2>4, <2>6 DEF Mem, User, S!bsvars
<1>15. CASE UNCHANGED vars
  <2>1. UNCHANGED <<blockno, valid, data, disk>> /\ owner' = owner
    BY Zenon, <1>15 DEF vars, bfields
  <2>2. Mem' = Mem /\ User' = User
    BY Zenon, <1>a, <2>1, MemSame, UserKeeps
  <2>3. QED
    BY Zenon, <2>2 DEF Mem, User, S!bsvars
<1>16. QED
  BY ZenonT(60), <1>1, <1>2, <1>3, <1>4, <1>5, <1>6, <1>7, <1>8, <1>9, <1>10, <1>11,
     <1>12, <1>13, <1>14, <1>15
     DEF Next

(* The cache is one copy of every block, locked and written by one process  *)
(* at a time, although bget() recycles buffers and ideintr() fills and      *)
(* cleans them behind the processes' backs.                                 *)
THEOREM BioImplementsStore ==
  ASSUME Sane
  PROVE  Spec => StoreSpec
<1>1. Init => S!Init
  <2> SUFFICES ASSUME Init PROVE S!Init
    BY Zenon
  <2>1. PICK v \in Vals : disk = [k \in Blocks |-> v]
    BY Zenon DEF Init
  <2>2. \A k \in Blocks : ~Cached(k)
    BY Zenon, BioAssumption DEF Init, Cached
  <2>3. Mem = [k \in Blocks |-> v] /\ User = [k \in Blocks |-> None]
    BY Zenon, <2>1, <2>2 DEF Mem, User
  <2>4. QED
    BY Zenon, <2>3 DEF S!Init, Mem, User
<1>2. IInv /\ [Next]_vars => [S!Next]_(S!bsvars)
  BY Zenon, StoreStep
<1>3. QED
  BY <1>1, <1>2, BioInductive, PTL DEF Spec, StoreSpec, S!Spec

=============================================================================
