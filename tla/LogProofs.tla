----------------------------- MODULE LogProofs -----------------------------
(***************************************************************************)
(* The safety properties of Log, for every number of processes and blocks, *)
(* and that it implements TxDisk.  They are proved together: that no write *)
(* of the log lands outside its area rests on begin_op's reservation, and  *)
(* that recovery finds what was committed rests on where the writes land.  *)
(***************************************************************************)
EXTENDS Log, FiniteSetTheorems, TLAPS

(* The geometry for which the reservation is sound: operations stay below   *)
(* MAXOPBLOCKS, one operation leaves room in the log, and mkfs made the log *)
(* area LOGSIZE blocks long, its header included.                           *)
Sized ==
  /\ IsFiniteSet(Procs)
  /\ OpBlocks < MAXOPBLOCKS /\ MAXOPBLOCKS < LOGSIZE /\ LOGSIZE <= size

OpPCs == {"op", "modified", "checked"}
CommitPCs == {"write_log", "write_head", "install", "erase", "committed"}

Active == {p \in Procs : pc[p] \in OpPCs}
InLog(a) == \E i \in 1..Len(lh) : lh[i] = a

(* A process has logged some blocks of those it wrote, and the tokens are   *)
(* what the active operations may still append.                             *)
Logged(p) == {a \in written[p] : InLog(a)}
Tokens == {t \in Procs \X (1..OpBlocks) : t[1] \in Active /\ t[2] > Cardinality(Logged(t[1]))}

(* Who is where: an active process holds a buffer only inside log_write,    *)
(* and one process commits alone, when no operation is active.              *)
OpShape ==
  /\ \A p \in Procs : pc[p] \in {"modified", "checked"} <=> blk[p] # None
  /\ \A p \in Procs : blk[p] # None => blk[p] \in written[p]
  /\ \A p, q \in Procs : blk[p] = blk[q] /\ blk[p] # None => p = q
  /\ \A p \in Procs : p \notin Active => written[p] = {}
  /\ committing <=> \E p \in Procs : pc[p] \in CommitPCs
  /\ \A p, q \in Procs : pc[p] \in CommitPCs /\ pc[q] \in CommitPCs => p = q
  /\ committing => Active = {}
  /\ boot # "ready" => \A p \in Procs : pc[p] = "idle"

(* outstanding counts the operations, and each keeps to its blocks.         *)
OpInv ==
  /\ outstanding = Cardinality(Active)
  /\ \A p \in Procs : IsFiniteSet(written[p]) /\ Cardinality(written[p]) <= OpBlocks
  /\ OpShape

(* The reservation.                                                         *)
SpaceInv ==
  /\ Active # {} => Len(lh) + Cardinality(Tokens) <= LOGSIZE - 2
  /\ Len(lh) <= LOGSIZE - 2 /\ Len(head) <= LOGSIZE - 2
  /\ boot = "ready" /\ ~committing /\ Active = {} => lh = <<>>

Distinct(s) == \A i, j \in 1..Len(s) : s[i] = s[j] => i = j

(* In memory: a buffer that is not pinned and that nobody holds is as on    *)
(* disk, and only blocks of the transaction are pinned.                     *)
CacheInv ==
  /\ Distinct(lh) /\ Distinct(head)
  /\ boot # "ready" => cache = disk /\ dirty = {}
  /\ boot = "ready" => \A a \in Home :
       a \notin dirty /\ (\A q \in Procs : blk[q] # a) => cache[a] = disk[a]
  /\ \A a \in dirty : InLog(a)

(* The log holds the first n blocks of the transaction.                     *)
LogHolds(n) == \A i \in 1..n : disk[LogAddr(i)] = cache[lh[i]]

(* How far the commit is; head is what recovery would find.                 *)
CommitInv ==
  /\ boot = "ready" /\ (\A p \in Procs : pc[p] \notin {"install", "erase"}) => head = <<>>
  /\ \A p \in Procs :
       /\ pc[p] = "write_log" => tail <= Len(lh) /\ LogHolds(tail - 1)
       /\ pc[p] = "write_head" => lh # <<>> /\ LogHolds(Len(lh))
       /\ pc[p] \in {"install", "erase"} => head = lh /\ LogHolds(Len(lh))
       /\ pc[p] = "install" => tail <= Len(lh) /\ \A i \in 1..tail-1 : lh[i] \notin dirty
       /\ pc[p] = "erase" => dirty = {}
       /\ pc[p] = "committed" => lh = <<>>

(* How far recovery is.                                                     *)
BootInv ==
  /\ boot = "read_head" => lh = <<>>
  /\ boot \in {"install", "erase"} => lh = head
  /\ boot = "install" => /\ tail <= Len(lh)
                         /\ \A i \in 1..tail-1 : disk[lh[i]] = disk[LogAddr(i)]
  /\ boot = "erase" => \A i \in 1..Len(lh) : disk[lh[i]] = disk[LogAddr(i)]

IInv == LogSound /\ OpInv /\ SpaceInv /\ CacheInv /\ CommitInv /\ BootInv

-----------------------------------------------------------------------------
USE DEF start, None, LogAddr

(* The home blocks are block numbers past the log area (start is the super  *)
(* block's logstart).                                                       *)
LEMMA HomeFacts ==
  /\ Home \subseteq Addrs /\ Home \subseteq Int
  /\ 0 \notin Home
  /\ \A a \in Home : a >= start + size
BY SMTT(60), LogAssumption DEF Home, Addrs

(* The blocks of the log area that the transaction takes lie inside it.     *)
LEMMA InstallAddr ==
  ASSUME Sized, TypeOK, SpaceInv
  PROVE  \A i \in 1..Len(lh) :
           LogAddr(i) \in Addrs \ Home /\ lh[i] \in Home /\ lh[i] \in Addrs
BY SMTT(60), LogAssumption, HomeFacts DEF Sized, TypeOK, SpaceInv, Home, Addrs

(* An operation in progress is counted.                                     *)
LEMMA ActiveCounted ==
  ASSUME Sized, OpInv
  PROVE  /\ IsFiniteSet(Active) /\ outstanding = Cardinality(Active)
         /\ outstanding \in Nat
         /\ \A p \in Active : outstanding >= 1
         /\ Active = {} <=> outstanding = 0
<1>1. IsFiniteSet(Active)
  BY Zenon, FS_Subset DEF Sized, Active
<1>2. QED
  BY SMTT(60), <1>1, FS_CardinalityType, FS_EmptySet DEF OpInv

(* Every step keeps the types. *)
LEMMA TypeStep ==
  ASSUME Sized, IInv, [Next]_vars
  PROVE  TypeOK'
<1> USE DEF TypeOK, PCs
<1>a. TypeOK BY Zenon DEF IInv, LogSound
<1>1. ASSUME NEW p \in Procs, BeginOp(p) PROVE TypeOK'
  BY SMTT(60), <1>1, <1>a DEF BeginOp, SetPc
<1>2. ASSUME NEW p \in Procs, BeginSleep(p) PROVE TypeOK'
  BY Zenon, <1>2, <1>a DEF BeginSleep, SetPc
<1>3. ASSUME NEW p \in Procs, NEW a \in Home, NEW v \in Vals, Modify(p, a, v)
      PROVE  TypeOK'
  BY Zenon, <1>3, <1>a DEF Modify, SetPc
<1>4. ASSUME NEW p \in Procs, LogCheck(p) PROVE TypeOK'
  BY Zenon, <1>4, <1>a DEF LogCheck, SetPc
<1>5. ASSUME NEW p \in Procs, LogWrite(p) PROVE TypeOK'
  <2>1. blk[p] \in Home
    BY Zenon, <1>5, <1>a DEF LogWrite, IInv, OpInv, OpShape
  <2>2. lh' \in Seq(Home) /\ dirty' \subseteq Home
    BY SMTT(60), <1>5, <2>1, <1>a DEF LogWrite
  <2>3. QED
    BY Zenon, <1>5, <2>2, <1>a DEF LogWrite, SetPc
<1>6. ASSUME NEW p \in Procs, EndOp(p) PROVE TypeOK'
  <2>1. outstanding - 1 \in Nat
    BY SMTT(60), <1>6, ActiveCounted DEF EndOp, IInv, Active, OpPCs
  <2>7. committing' \in BOOLEAN
    BY Zenon, <1>6, <2>1, <1>a DEF EndOp, SetPc, WakeAll
  <2>8. tail' \in Nat \ {0} /\ outstanding' \in Nat
    BY SMTT(60), <1>6, <2>1, <1>a DEF EndOp, SetPc, WakeAll
  <2>9. QED
    BY ZenonT(60), <1>6, <2>7, <2>8, <2>1, <1>a DEF EndOp, SetPc, WakeAll
<1>7. ASSUME NEW p \in Procs, WriteLog(p) PROVE TypeOK'
  <2>1. tail \in 1..Len(lh)
    BY SMTT(60), <1>7, <1>a DEF WriteLog, IInv, CommitInv
  <2>2. cache[lh[tail]] \in Vals
    BY Zenon, <2>1, InstallAddr, <1>a DEF IInv
  <2>7. committing' \in BOOLEAN
    BY Zenon, <1>7, <2>2, <1>a DEF WriteLog, SetPc
  <2>8. tail' \in Nat \ {0} /\ outstanding' \in Nat
    BY SMTT(60), <1>7, <2>2, <1>a DEF WriteLog, SetPc
  <2>9. QED
    BY Zenon, <1>7, <2>7, <2>8, <2>2, <1>a DEF WriteLog, SetPc
<1>8. ASSUME NEW p \in Procs, WriteHead(p) PROVE TypeOK'
  BY SMTT(60), <1>8, <1>a DEF WriteHead, SetPc
<1>9. ASSUME NEW p \in Procs, Install(p) PROVE TypeOK'
  <2>1. disk[LogAddr(tail)] \in Vals
    BY SMTT(60), <1>9, InstallAddr, <1>a DEF Install, IInv, CommitInv
  <2>7. committing' \in BOOLEAN
    BY Zenon, <1>9, <2>1, <1>a DEF Install, InstallOne, SetPc
  <2>8. tail' \in Nat \ {0} /\ outstanding' \in Nat
    BY SMTT(60), <1>9, <2>1, <1>a DEF Install, InstallOne, SetPc
  <2>9. QED
    BY Zenon, <1>9, <2>7, <2>8, <2>1, <1>a DEF Install, InstallOne, SetPc
<1>10. ASSUME NEW p \in Procs, EraseHead(p) PROVE TypeOK'
  BY SMTT(60), <1>10, <1>a DEF EraseHead, SetPc
<1>11. ASSUME NEW p \in Procs, Committed(p) PROVE TypeOK'
  BY Zenon, <1>11, <1>a DEF Committed, WakeAll
<1>12. ASSUME NEW a \in Home, Evict(a) PROVE TypeOK'
  BY Zenon, <1>12, <1>a DEF Evict, mem
<1>13. CASE Crash
  <2>7. committing' \in BOOLEAN
    BY Zenon, <1>13, <1>a DEF Crash
  <2>8. tail' \in Nat \ {0} /\ outstanding' \in Nat
    BY SMTT(60), <1>13, <1>a DEF Crash
  <2>9. QED
    BY SMTT(60), <1>13, <2>7, <2>8, <1>a DEF Crash
<1>14. CASE ReadHead
  BY SMTT(60), <1>14, <1>a DEF ReadHead, mem
<1>15. CASE RecoverInstall
  <2>1. disk[LogAddr(tail)] \in Vals
    BY SMTT(60), <1>15, InstallAddr, <1>a DEF RecoverInstall, IInv, BootInv
  <2>7. committing' \in BOOLEAN
    BY Zenon, <1>15, <2>1, <1>a DEF RecoverInstall, InstallOne, mem
  <2>8. tail' \in Nat \ {0} /\ outstanding' \in Nat
    BY SMTT(60), <1>15, <2>1, <1>a DEF RecoverInstall, InstallOne, mem
  <2>9. QED
    BY Zenon, <1>15, <2>7, <2>8, <2>1, <1>a DEF RecoverInstall, InstallOne, mem
<1>16. CASE RecoverErase
  BY SMTT(60), <1>16, <1>a DEF RecoverErase, mem
<1>17. CASE UNCHANGED vars
  BY Zenon, <1>17, <1>a DEF vars
<1>18. QED
  BY ZenonT(60), <1>1, <1>2, <1>3, <1>4, <1>5, <1>6, <1>7, <1>8, <1>9, <1>10, <1>11, <1>12,
     <1>13, <1>14, <1>15, <1>16, <1>17
     DEF Next, OpStep, CommitStep, Recovery

(* Every step keeps the count of operations and who is where. *)
LEMMA OpStepInv ==
  ASSUME Sized, IInv, [Next]_vars
  PROVE  OpInv'
<1> USE DEF PCs
<1>a. TypeOK BY ZenonT(60) DEF IInv, LogSound
<1>b. OpInv /\ OpShape BY ZenonT(60) DEF IInv, OpInv
<1>c. IsFiniteSet(Active) /\ outstanding = Cardinality(Active)
  BY ZenonT(60), <1>b, ActiveCounted
<1> USE DEF OpInv, TypeOK
<1>1. ASSUME NEW p \in Procs, BeginOp(p) PROVE OpInv'
  <2>1. Active' = Active \cup {p} /\ p \notin Active
    BY ZenonT(60), <1>1, <1>a DEF BeginOp, Active, OpPCs, SetPc
  <2>2. outstanding' = Cardinality(Active')
    BY ZenonT(60), <1>1, <2>1, <1>c, FS_AddElement DEF BeginOp
  <2>3. OpShape'
    BY SMTT(60), <1>1, <1>a, <1>b, <2>1 DEF BeginOp, OpShape, CommitPCs, OpPCs, SetPc,
       Active
  <2>4. QED
    BY ZenonT(60), <1>1, <2>2, <2>3, <1>b DEF BeginOp
<1>2. ASSUME NEW p \in Procs, BeginSleep(p) PROVE OpInv'
  <2>1. Active' = Active
    BY ZenonT(60), <1>2, <1>a DEF BeginSleep, Active, OpPCs, SetPc
  <2>2. OpShape'
    BY SMTT(60), <1>2, <1>a, <1>b, <2>1 DEF BeginSleep, OpShape, CommitPCs, OpPCs, Active,
       SetPc
  <2>3. QED
    BY Zenon, <1>2, <2>1, <2>2, <1>b DEF BeginSleep
<1>3. ASSUME NEW p \in Procs, NEW a \in Home, NEW v \in Vals, Modify(p, a, v)
      PROVE  OpInv'
  <2>1. Active' = Active
    BY ZenonT(60), <1>3, <1>a DEF Modify, Active, OpPCs, SetPc
  <2>2. OpShape'
    BY SMTT(60), <1>3, <1>a, <1>b, <2>1, HomeFacts DEF Modify, OpShape, CommitPCs, OpPCs,
       SetPc, Active
  <2>3. IsFiniteSet(written[p] \cup {a})
    BY Zenon, <1>b, FS_AddElement
  <2>4. \A q \in Procs : IsFiniteSet(written'[q]) /\ Cardinality(written'[q]) <= OpBlocks
    BY Zenon, <1>3, <1>a, <1>b, <2>3 DEF Modify
  <2>5. QED
    BY Zenon, <1>3, <2>1, <2>2, <2>4, <1>b DEF Modify
<1>4. ASSUME NEW p \in Procs, LogCheck(p) PROVE OpInv'
  <2>1. p \in Active /\ outstanding >= 1
    BY ZenonT(60), <1>4, <1>b, ActiveCounted DEF LogCheck, Active, OpPCs
  <2>2. ~(Len(lh) >= LOGSIZE \/ Len(lh) >= size - 1 \/ outstanding < 1)
    BY SMTT(60), <2>1, <1>a, LogAssumption DEF IInv, SpaceInv, Sized
  <2>3. pc' = [pc EXCEPT ![p] = "checked"]
    BY ZenonT(60), <1>4, <2>2 DEF LogCheck, SetPc
  <2>4. Active' = Active
    BY ZenonT(60), <1>4, <2>3, <1>a DEF LogCheck, Active, OpPCs
  <2>5. OpShape'
    BY SMTT(60), <1>4, <1>a, <1>b, <2>3, <2>4 DEF LogCheck, OpShape, CommitPCs, OpPCs,
       Active
  <2>6. QED
    BY ZenonT(60), <1>4, <2>4, <2>5, <1>b DEF LogCheck
<1>5. ASSUME NEW p \in Procs, LogWrite(p) PROVE OpInv'
  <2>1. Active' = Active
    BY ZenonT(60), <1>5, <1>a DEF LogWrite, Active, OpPCs, SetPc
  <2>2. OpShape'
    BY SMTT(60), <1>5, <1>a, <1>b, <2>1 DEF LogWrite, OpShape, CommitPCs, OpPCs, Active,
       SetPc
  <2>3. QED
    BY Zenon, <1>5, <2>1, <2>2, <1>b DEF LogWrite
<1>6. ASSUME NEW p \in Procs, EndOp(p) PROVE OpInv'
  <2>1. p \in Active
    BY ZenonT(60), <1>6 DEF EndOp, Active, OpPCs
  <2>2. Active' = Active \ {p}
    BY SMTT(60), <1>6, <1>a DEF EndOp, Active, OpPCs, SetPc, WakeAll
  <2>3. outstanding' = Cardinality(Active') /\ IsFiniteSet(Active')
    BY SMTT(60), <1>6, <2>1, <2>2, <1>c, FS_RemoveElement DEF EndOp
  <2>4. outstanding' = 0 => Active' = {}
    BY Zenon, <2>3, FS_EmptySet
  <2>5. OpShape'
    <3>1. ~committing /\ boot = "ready"
      BY ZenonT(60), <1>6, <1>b, <2>1, <1>a DEF OpShape, EndOp
    <3>2. CASE outstanding' = 0
      BY SMTT(60), <1>6, <3>1, <3>2, <1>a, <1>b, <2>4, <2>2
      DEF EndOp, OpShape, CommitPCs, OpPCs, Active, SetPc
    <3>3. CASE outstanding' # 0
      BY SMTT(60), <1>6, <3>1, <3>3, <1>a, <1>b, <2>2
      DEF EndOp, OpShape, CommitPCs, OpPCs, Active, WakeAll
    <3>4. QED
      BY ZenonT(60), <3>2, <3>3
  <2>6. \A q \in Procs : IsFiniteSet(written'[q]) /\ Cardinality(written'[q]) <= OpBlocks
    BY SMTT(60), <1>6, <1>a, <1>b, FS_EmptySet, LogAssumption DEF EndOp
  <2>7. QED
    BY Zenon, <1>6, <2>3, <2>5, <2>6 DEF EndOp
<1>7. ASSUME NEW p \in Procs, WriteLog(p) PROVE OpInv'
  <2>1. Active' = Active
    BY ZenonT(60), <1>7, <1>a DEF WriteLog, Active, OpPCs, SetPc
  <2>2. OpShape'
    BY SMTT(60), <1>7, <1>a, <1>b, <2>1 DEF WriteLog, OpShape, CommitPCs, OpPCs, Active,
       SetPc
  <2>3. QED
    BY Zenon, <1>7, <2>1, <2>2, <1>b DEF WriteLog
<1>8. ASSUME NEW p \in Procs, WriteHead(p) PROVE OpInv'
  <2>1. Active' = Active
    BY ZenonT(60), <1>8, <1>a DEF WriteHead, Active, OpPCs, SetPc
  <2>2. OpShape'
    BY SMTT(60), <1>8, <1>a, <1>b, <2>1 DEF WriteHead, OpShape, CommitPCs, OpPCs, Active,
       SetPc
  <2>3. QED
    BY Zenon, <1>8, <2>1, <2>2, <1>b DEF WriteHead
<1>9. ASSUME NEW p \in Procs, Install(p) PROVE OpInv'
  <2>1. Active' = Active
    BY ZenonT(60), <1>9, <1>a DEF Install, Active, OpPCs, InstallOne, SetPc
  <2>2. OpShape'
    BY SMTT(60), <1>9, <1>a, <1>b, <2>1 DEF Install, OpShape, CommitPCs, OpPCs, Active,
       InstallOne, SetPc
  <2>3. QED
    BY Zenon, <1>9, <2>1, <2>2, <1>b DEF Install
<1>10. ASSUME NEW p \in Procs, EraseHead(p) PROVE OpInv'
  <2>1. Active' = Active
    BY ZenonT(60), <1>10, <1>a DEF EraseHead, Active, OpPCs, SetPc
  <2>2. OpShape'
    BY SMTT(60), <1>10, <1>a, <1>b, <2>1 DEF EraseHead, OpShape, CommitPCs, OpPCs, Active,
       SetPc
  <2>3. QED
    BY ZenonT(60), <1>10, <2>1, <2>2, <1>b DEF EraseHead
<1>11. ASSUME NEW p \in Procs, Committed(p) PROVE OpInv'
  <2>1. Active' = Active
    BY ZenonT(60), <1>11, <1>a DEF Committed, Active, OpPCs, WakeAll
  <2>2. OpShape'
    BY ZenonT(60), <1>11, <1>a, <1>b, <2>1 DEF Committed, OpShape, CommitPCs, OpPCs, Active,
       WakeAll
  <2>3. QED
    BY ZenonT(60), <1>11, <2>1, <2>2, <1>b DEF Committed
<1>12. ASSUME NEW a \in Home, Evict(a) PROVE OpInv'
  <2>1. Active' = Active
    BY ZenonT(60), <1>12, <1>a DEF Evict, Active, OpPCs, mem
  <2>2. OpShape'
    BY ZenonT(60), <1>12, <1>a, <1>b, <2>1 DEF Evict, OpShape, CommitPCs, OpPCs, Active, mem
  <2>3. QED
    BY ZenonT(60), <1>12, <2>1, <2>2, <1>b DEF Evict, mem
<1>13. CASE Crash
  <2>1. Active' = {}
    BY ZenonT(60), <1>13 DEF Crash, Active, OpPCs
  <2>2. OpShape'
    BY ZenonT(60), <1>13, <2>1 DEF Crash, OpShape, CommitPCs, Active, OpPCs
  <2>3. \A q \in Procs : IsFiniteSet(written'[q]) /\ Cardinality(written'[q]) <= OpBlocks
    BY SMTT(60), <1>13, FS_EmptySet, LogAssumption DEF Crash
  <2>4. QED
    BY ZenonT(60), <1>13, <2>1, <2>2, <2>3, FS_EmptySet DEF Crash
<1>14. CASE ReadHead
  <2>1. Active' = Active
    BY ZenonT(60), <1>14, <1>a DEF ReadHead, Active, OpPCs, mem
  <2>2. OpShape'
    BY ZenonT(60), <1>14, <1>a, <1>b, <2>1 DEF ReadHead, OpShape, CommitPCs, OpPCs, Active,
       mem
  <2>3. QED
    BY Zenon, <1>14, <2>1, <2>2, <1>b DEF ReadHead, mem
<1>15. CASE RecoverInstall
  <2>1. Active' = Active
    BY ZenonT(60), <1>15, <1>a DEF RecoverInstall, Active, OpPCs, InstallOne, mem
  <2>2. OpShape'
    BY ZenonT(60), <1>15, <1>a, <1>b, <2>1 DEF RecoverInstall, OpShape, CommitPCs, OpPCs,
       Active, InstallOne, mem
  <2>3. QED
    BY ZenonT(60), <1>15, <2>1, <2>2, <1>b DEF RecoverInstall, mem
<1>16. CASE RecoverErase
  <2>1. Active' = Active
    BY ZenonT(60), <1>16, <1>a DEF RecoverErase, Active, OpPCs, mem
  <2>2. OpShape'
    BY ZenonT(60), <1>16, <1>a, <1>b, <2>1 DEF RecoverErase, OpShape, CommitPCs, OpPCs,
       Active, mem
  <2>3. QED
    BY ZenonT(60), <1>16, <2>1, <2>2, <1>b DEF RecoverErase, mem
<1>17. CASE UNCHANGED vars
  <2>1. Active' = Active
    BY ZenonT(60), <1>17, <1>a DEF vars, Active, OpPCs
  <2>2. OpShape'
    BY SMTT(60), <1>17, <1>a, <1>b, <2>1 DEF vars, OpShape, CommitPCs, OpPCs, Active
  <2>3. QED
    BY ZenonT(60), <1>17, <2>1, <2>2, <1>b DEF vars
<1>18. QED
  BY ZenonT(60), <1>1, <1>2, <1>3, <1>4, <1>5, <1>6, <1>7, <1>8, <1>9, <1>10, <1>11, <1>12,
     <1>13, <1>14, <1>15, <1>16, <1>17
     DEF Next, OpStep, CommitStep, Recovery

(* Blocks an operation has logged are finitely many.                        *)
LEMMA LoggedFinite ==
  ASSUME OpInv, NEW p \in Procs
  PROVE  /\ IsFiniteSet(Logged(p)) /\ Cardinality(Logged(p)) \in Nat
         /\ Cardinality(Logged(p)) <= Cardinality(written[p])
         /\ Cardinality(written[p]) \in Nat
<1>1. IsFiniteSet(written[p]) /\ Logged(p) \subseteq written[p]
  BY ZenonT(60) DEF OpInv, Logged
<1>2. QED
  BY Zenon, <1>1, FS_Subset, FS_CardinalityType

(* Never more tokens than OpBlocks for each operation counted.              *)
LEMMA PairsBound ==
  ASSUME NEW A, IsFiniteSet(A), NEW T \in SUBSET (A \X (1..OpBlocks))
  PROVE  /\ IsFiniteSet(T) /\ Cardinality(T) \in Nat
         /\ Cardinality(T) <= Cardinality(A) * OpBlocks
<1>1. IsFiniteSet(1..OpBlocks) /\ Cardinality(1..OpBlocks) = OpBlocks
  BY SMTT(60), FS_Interval, LogAssumption
<1>2. /\ IsFiniteSet(A \X (1..OpBlocks))
      /\ Cardinality(A \X (1..OpBlocks)) = Cardinality(A) * OpBlocks
  BY Zenon, <1>1, FS_Product
<1>3. QED
  BY ZenonT(60), <1>2, FS_Subset, FS_CardinalityType

(* The writes that the active operations still have to come never exceed    *)
(* what begin_op() reserved for them.                                       *)
LEMMA TokensBound ==
  ASSUME Sized, OpInv
  PROVE  /\ IsFiniteSet(Tokens) /\ Cardinality(Tokens) \in Nat
         /\ Cardinality(Tokens) <= outstanding * OpBlocks
<1>1. IsFiniteSet(Active) /\ outstanding = Cardinality(Active)
  BY ZenonT(60), ActiveCounted
<1>2. Tokens \in SUBSET (Active \X (1..OpBlocks))
  BY ZenonT(60) DEF Tokens
<1>3. QED
  BY ZenonT(60), <1>1, <1>2, PairsBound

(* No token appears unless an operation begins.                             *)
LEMMA TokensShrink ==
  ASSUME Sized, OpInv, OpInv', Active' \subseteq Active,
         \A q \in Active' : Logged(q) \subseteq Logged(q)'
  PROVE  Tokens' \subseteq Tokens
<1>1. ASSUME NEW t \in Tokens' PROVE t \in Tokens
  <2>1. /\ t \in Procs \X (1..OpBlocks) /\ t[1] \in Active'
        /\ t[2] > Cardinality(Logged(t[1])')
    BY ZenonT(60), <1>1 DEF Tokens
  <2>2. t[1] \in Procs /\ t[1] \in Active /\ t[2] \in Nat
    BY SMTT(60), <2>1
  <2>3. IsFiniteSet(Logged(t[1])')
    <3>1. IsFiniteSet(written[t[1]])'
      BY ZenonT(60), <2>2 DEF OpInv
    <3>2. Logged(t[1])' \subseteq (written[t[1]])'
      BY ZenonT(60) DEF Logged
    <3>3. QED
      BY ZenonT(60), <3>1, <3>2, FS_Subset
  <2>4. /\ Cardinality(Logged(t[1])) <= Cardinality(Logged(t[1])')
        /\ Cardinality(Logged(t[1])) \in Nat
        /\ Cardinality(Logged(t[1])') \in Nat
    BY ZenonT(60), <2>1, <2>3, FS_Subset, FS_CardinalityType
  <2>5. t[2] > Cardinality(Logged(t[1]))
    BY SMTT(60), <2>1, <2>2, <2>4
  <2>6. QED
    BY ZenonT(60), <2>1, <2>2, <2>5 DEF Tokens
<1>2. QED
  BY ZenonT(60), <1>1

(* What a step that leaves the log and the operations alone owes.           *)
LEMMA SpaceKept ==
  ASSUME Sized, OpInv, OpInv', SpaceInv, Tokens' \subseteq Tokens, Active' \subseteq Active,
         lh \in Seq(Home), UNCHANGED <<lh, head>>,
         boot' = "ready" /\ ~committing' /\ Active' = {} => lh = <<>>
  PROVE  SpaceInv'
<1>1. Cardinality(Tokens') <= Cardinality(Tokens)
  BY ZenonT(60), TokensBound, FS_Subset
<1>2. /\ IsFiniteSet(Tokens') /\ Cardinality(Tokens') \in Nat
      /\ Cardinality(Tokens) \in Nat
  BY ZenonT(60), TokensBound, FS_Subset, FS_CardinalityType
<1>3. Active' # {} => Active # {}
  BY Zenon
<1>4. QED
  BY SMTT(60), <1>1, <1>2, <1>3, LogAssumption DEF SpaceInv, Sized

(* Every step keeps the reservation.                                        *)
LEMMA SpaceStep ==
  ASSUME Sized, IInv, [Next]_vars
  PROVE  SpaceInv'
<1>a. TypeOK /\ lh \in Seq(Home) /\ head \in Seq(Home) /\ Len(lh) \in Nat BY SMTT(60) DEF IInv, LogSound, TypeOK
<1>b. SpaceInv /\ OpInv BY Zenon DEF IInv
<1>c. OpInv' BY Zenon, OpStepInv
<1>1. ASSUME NEW p \in Procs, BeginOp(p) PROVE SpaceInv'
  <2>1. Active' # {}
    BY Zenon, <1>1, <1>a DEF BeginOp, Active, OpPCs, SetPc, TypeOK
  <2>2. /\ Cardinality(Tokens') <= outstanding' * OpBlocks
        /\ Cardinality(Tokens') \in Nat
    <3>1. IsFiniteSet(Active') /\ outstanding' = Cardinality(Active')
      BY Zenon, <1>c, FS_Subset DEF Sized, OpInv, Active
    <3>2. Tokens' \in SUBSET (Active' \X (1..OpBlocks))
      BY Zenon DEF Tokens
    <3>3. QED
      BY Zenon, <3>1, <3>2, PairsBound
  <2>3. Len(lh) + (outstanding + 1) * MAXOPBLOCKS <= LOGSIZE
    BY SMTT(60), <1>1, <1>a, LogAssumption DEF BeginOp, NoSpace, TypeOK
  <2>4. outstanding = 0 => lh = <<>> /\ outstanding' * OpBlocks = OpBlocks
    BY SMTT(60), <1>1, <1>b, ActiveCounted, LogAssumption DEF BeginOp, SpaceInv
  <2>5. outstanding \in Nat /\ outstanding' = outstanding + 1
    BY Zenon, <1>1, <1>a DEF BeginOp, TypeOK
  <2>6. Len(lh) + Cardinality(Tokens') <= LOGSIZE - 2
    <3>1. CASE outstanding = 0
      BY SMTT(60), <3>1, <2>2, <2>4, LogAssumption DEF Sized
    <3>2. CASE outstanding # 0
      <4>1. (outstanding + 1) * OpBlocks <= (outstanding + 1) * (MAXOPBLOCKS - 1)
        BY SMTT(60), <2>5, LogAssumption DEF Sized
      <4>2. (outstanding + 1) * (MAXOPBLOCKS - 1) = (outstanding + 1) * MAXOPBLOCKS - (outstanding + 1)
        BY SMTT(60), <2>5, LogAssumption
      <4>3. /\ (outstanding + 1) * OpBlocks \in Nat
            /\ (outstanding + 1) * MAXOPBLOCKS \in Nat
        BY SMTT(60), <2>5, LogAssumption
      <4>4. QED
        BY SMTT(60), <3>2, <4>1, <4>2, <4>3, <2>2, <2>3, <2>5, <1>a, LogAssumption
    <3>3. QED
      BY Zenon, <3>1, <3>2
  <2>7. QED
    BY Zenon, <1>1, <1>a, <1>b, <2>1, <2>6 DEF BeginOp, SpaceInv
<1>2. ASSUME NEW p \in Procs, BeginSleep(p) PROVE SpaceInv'
  <2>1. /\ Active' = Active /\ UNCHANGED <<lh, head>>
        /\ (boot' = "ready" /\ ~committing' => boot = "ready" /\ ~committing)
    BY Zenon, <1>2, <1>a DEF BeginSleep, Active, OpPCs, PCs, TypeOK, SetPc
  <2>2. \A q \in Active' : Logged(q) \subseteq Logged(q)'
    BY Zenon, <1>2, <2>1, <1>a DEF BeginSleep, Logged, InLog, Active, TypeOK, SetPc
  <2>3. QED
    BY ZenonT(60), <2>1, <2>2, <1>a, <1>b, <1>c, SpaceKept, TokensShrink DEF SpaceInv
<1>3. ASSUME NEW p \in Procs, NEW a \in Home, NEW v \in Vals, Modify(p, a, v)
      PROVE  SpaceInv'
  <2>1. /\ Active' = Active /\ UNCHANGED <<lh, head>>
        /\ (boot' = "ready" /\ ~committing' => boot = "ready" /\ ~committing)
    BY ZenonT(60), <1>3, <1>a DEF Modify, Active, OpPCs, PCs, TypeOK, SetPc
  <2>2. \A q \in Active' : Logged(q) \subseteq Logged(q)'
    BY ZenonT(60), <1>3, <2>1, <1>a DEF Modify, Logged, InLog, Active, TypeOK, SetPc
  <2>3. QED
    BY ZenonT(60), <2>1, <2>2, <1>a, <1>b, <1>c, SpaceKept, TokensShrink DEF SpaceInv
<1>4. ASSUME NEW p \in Procs, LogCheck(p) PROVE SpaceInv'
  <2>1. /\ Active' \subseteq Active /\ UNCHANGED <<lh, head, written>>
        /\ committing' = committing
    BY Zenon, <1>4, <1>a DEF LogCheck, Active, OpPCs, SetPc, TypeOK
  <2>2. \A q \in Active' : Logged(q) \subseteq Logged(q)'
    BY Zenon, <1>4, <2>1 DEF Logged, InLog
  <2>3. Active' # {}
    <3>1. p \in Active /\ outstanding' = outstanding
      BY Zenon, <1>4 DEF LogCheck, Active, OpPCs
    <3>2. QED
      BY Zenon, <3>1, <1>b, <1>c, ActiveCounted, FS_EmptySet DEF OpInv
  <2>4. QED
    BY ZenonT(60), <2>1, <2>2, <2>3, <1>a, <1>b, <1>c, SpaceKept, TokensShrink DEF SpaceInv
<1>5. ASSUME NEW p \in Procs, LogWrite(p) PROVE SpaceInv'
  <2>1. Active' = Active /\ p \in Active /\ UNCHANGED <<head, written>>
    BY Zenon, <1>5, <1>a DEF LogWrite, Active, OpPCs, SetPc, TypeOK
  <2>2. CASE InLog(blk[p])
    <3>1. lh' = lh
      BY ZenonT(60), <1>5, <2>2 DEF LogWrite, InLog
    <3>2. \A q \in Active' : Logged(q) \subseteq Logged(q)'
      BY ZenonT(60), <2>1, <3>1 DEF Logged, InLog
    <3>3. QED
      BY ZenonT(60), <2>1, <3>1, <3>2, <1>a, <1>b, <1>c, SpaceKept, TokensShrink
  <2>3. CASE ~InLog(blk[p])
    <3> DEFINE k == Cardinality(Logged(p))
               t == <<p, k + 1>>
    <3>1. lh' = Append(lh, blk[p])
      BY Zenon, <1>5, <2>3 DEF LogWrite, InLog
    <3>2. /\ Len(lh') = Len(lh) + 1 /\ lh'[Len(lh) + 1] = blk[p]
          /\ \A i \in 1..Len(lh) : lh'[i] = lh[i]
      BY SMTT(60), <3>1, <1>a
    <3>3. \A a : InLog(a) => InLog(a)'
      BY SMTT(60), <3>2, <1>a DEF InLog
    <3>4. PICK b \in Home : b = blk[p]
      BY ZenonT(60), <1>5, <1>a, <1>b DEF LogWrite, OpInv, OpShape, TypeOK
    <3>5. b \in written[p] /\ b \notin Logged(p)
      BY ZenonT(60), <1>5, <2>3, <3>4, <1>b DEF LogWrite, OpInv, OpShape, Logged, InLog
    <3>6. InLog(b)'
      BY SMTT(60), <3>2, <3>4, <1>a DEF InLog
    <3>7. \A q \in Active' : Logged(q) \subseteq Logged(q)'
      BY ZenonT(60), <2>1, <3>3 DEF Logged
    <3>8. /\ Logged(p) \cup {b} \subseteq Logged(p)'
          /\ Logged(p)' \subseteq written[p]
      BY ZenonT(60), <2>1, <3>5, <3>6, <3>7 DEF Logged
    <3>9. /\ k \in Nat /\ IsFiniteSet(Logged(p)) /\ IsFiniteSet(written[p])
          /\ Cardinality(written[p]) \in Nat
          /\ Cardinality(written[p]) <= OpBlocks
      BY ZenonT(60), <1>b, LoggedFinite DEF OpInv
    <3>10. Cardinality(Logged(p) \cup {b}) = k + 1
      BY ZenonT(60), <3>5, <3>9, FS_AddElement
    <3>11. /\ k + 1 <= Cardinality(Logged(p)')
           /\ Cardinality(Logged(p)') \in Nat
           /\ Cardinality(Logged(p)') <= Cardinality(written[p])
      BY SMTT(60), <3>8, <3>9, <3>10, FS_Subset, FS_CardinalityType
    <3>12. t \in Tokens
      BY SMTT(60), <2>1, <3>9, <3>11, LogAssumption DEF Tokens, Active
    <3>13. t \notin Tokens'
      BY SMTT(60), <3>9, <3>11 DEF Tokens
    <3>14. Tokens' \subseteq Tokens
      BY ZenonT(60), <2>1, <3>7, <1>b, <1>c, TokensShrink
    <3>15. IsFiniteSet(Tokens) /\ Cardinality(Tokens) \in Nat
      BY ZenonT(60), <1>b, TokensBound
    <3>16. /\ IsFiniteSet(Tokens \ {t})
           /\ Cardinality(Tokens \ {t}) = Cardinality(Tokens) - 1
      BY ZenonT(60), <3>12, <3>15, FS_RemoveElement
    <3>17. /\ Cardinality(Tokens') <= Cardinality(Tokens) - 1
           /\ Cardinality(Tokens') \in Nat
      BY SMTT(60), <3>13, <3>14, <3>16, FS_Subset, FS_CardinalityType
    <3>18. QED
      BY SMTT(60), <2>1, <3>2, <3>15, <3>17, <1>a, <1>b, LogAssumption DEF SpaceInv, Sized
  <2>4. QED
    BY Zenon, <2>2, <2>3
<1>6. ASSUME NEW p \in Procs, EndOp(p) PROVE SpaceInv'
  <2>1. Active' = Active \ {p} /\ UNCHANGED <<lh, head>>
    BY SMTT(60), <1>6, <1>a DEF EndOp, Active, OpPCs, SetPc, WakeAll, TypeOK, PCs
  <2>2. \A q \in Active' : Logged(q) = Logged(q)'
    BY SMTT(60), <1>6, <2>1, <1>a DEF EndOp, Logged, InLog, Active, TypeOK
  <2>3. Active' = {} => committing'
    <3>1. HAVE Active' = {}
    <3>2. outstanding' = 0
      BY ZenonT(60), <3>1, <1>c, FS_EmptySet DEF OpInv
    <3>3. QED
      BY ZenonT(60), <1>6, <3>2 DEF EndOp
  <2>4. QED
    BY ZenonT(60), <2>1, <2>2, <2>3, <1>a, <1>b, <1>c, SpaceKept, TokensShrink
<1>7. ASSUME NEW p \in Procs, WriteLog(p) PROVE SpaceInv'
  <2>1. /\ Active' = Active /\ UNCHANGED <<lh, head>>
        /\ (boot' = "ready" /\ ~committing' => boot = "ready" /\ ~committing)
    BY ZenonT(60), <1>7, <1>a DEF WriteLog, Active, OpPCs, PCs, TypeOK, SetPc
  <2>2. \A q \in Active' : Logged(q) \subseteq Logged(q)'
    BY ZenonT(60), <1>7, <2>1, <1>a DEF WriteLog, Logged, InLog, Active, TypeOK, SetPc
  <2>3. QED
    BY Zenon, <2>1, <2>2, <1>a, <1>b, <1>c, SpaceKept, TokensShrink DEF SpaceInv
<1>8. ASSUME NEW p \in Procs, WriteHead(p) PROVE SpaceInv'
  <2>1. Active' = {} /\ lh' = lh /\ head' = lh /\ committing'
    BY ZenonT(60), <1>8, <1>a, <1>b DEF WriteHead, OpInv, OpShape, Active, CommitPCs, OpPCs,
       SetPc, TypeOK
  <2>2. QED
    BY ZenonT(60), <2>1, <1>b DEF SpaceInv
<1>9. ASSUME NEW p \in Procs, Install(p) PROVE SpaceInv'
  <2>1. /\ Active' = Active /\ UNCHANGED <<lh, head>>
        /\ (boot' = "ready" /\ ~committing' => boot = "ready" /\ ~committing)
    BY ZenonT(60), <1>9, <1>a DEF Install, Active, OpPCs, PCs, TypeOK, InstallOne, SetPc
  <2>2. \A q \in Active' : Logged(q) \subseteq Logged(q)'
    BY ZenonT(60), <1>9, <2>1, <1>a DEF Install, Logged, InLog, Active, TypeOK, InstallOne,
       SetPc
  <2>3. QED
    BY Zenon, <2>1, <2>2, <1>a, <1>b, <1>c, SpaceKept, TokensShrink DEF SpaceInv
<1>10. ASSUME NEW p \in Procs, EraseHead(p) PROVE SpaceInv'
  <2>1. Active' = {} /\ lh' = <<>> /\ head' = <<>>
    BY ZenonT(60), <1>10, <1>a, <1>b DEF EraseHead, OpInv, OpShape, Active, CommitPCs,
       OpPCs, SetPc, TypeOK
  <2>2. QED
    BY SMTT(60), <2>1, LogAssumption DEF SpaceInv, Sized
<1>11. ASSUME NEW p \in Procs, Committed(p) PROVE SpaceInv'
  <2>1. Active' = {} /\ lh' = lh /\ head' = head
    BY ZenonT(60), <1>11, <1>a, <1>b DEF Committed, OpInv, OpShape, Active, CommitPCs,
       OpPCs, WakeAll, TypeOK
  <2>2. lh = <<>>
    BY ZenonT(60), <1>11 DEF Committed, IInv, CommitInv
  <2>3. QED
    BY ZenonT(60), <2>1, <2>2, <1>b DEF SpaceInv
<1>12. ASSUME NEW a \in Home, Evict(a) PROVE SpaceInv'
  <2>1. /\ Active' = Active /\ UNCHANGED <<lh, head>>
        /\ (boot' = "ready" /\ ~committing' => boot = "ready" /\ ~committing)
    BY ZenonT(60), <1>12, <1>a DEF Evict, Active, OpPCs, PCs, TypeOK, mem
  <2>2. \A q \in Active' : Logged(q) \subseteq Logged(q)'
    BY ZenonT(60), <1>12, <2>1, <1>a DEF Evict, Logged, InLog, Active, TypeOK, mem
  <2>3. QED
    BY ZenonT(60), <2>1, <2>2, <1>a, <1>b, <1>c, SpaceKept, TokensShrink DEF SpaceInv
<1>13. CASE Crash
  <2>1. Active' = {} /\ lh' = <<>> /\ head' = head
    BY ZenonT(60), <1>13 DEF Crash, Active, OpPCs
  <2>2. QED
    BY SMTT(60), <2>1, <1>b, LogAssumption DEF SpaceInv, Sized
<1>14. CASE ReadHead
  <2>1. Active' = {} /\ lh' = head /\ head' = head /\ boot' # "ready"
    BY ZenonT(60), <1>14, <1>b DEF ReadHead, OpInv, OpShape, Active, OpPCs, mem
  <2>2. QED
    BY ZenonT(60), <2>1, <1>b DEF SpaceInv
<1>15. CASE RecoverInstall
  <2>1. Active' = {} /\ lh' = lh /\ head' = head /\ boot' # "ready"
    BY ZenonT(60), <1>15, <1>b DEF RecoverInstall, OpInv, OpShape, Active, OpPCs, mem
  <2>2. QED
    BY ZenonT(60), <2>1, <1>b DEF SpaceInv
<1>16. CASE RecoverErase
  <2>1. Active' = {} /\ lh' = <<>> /\ head' = <<>>
    BY ZenonT(60), <1>16, <1>b DEF RecoverErase, OpInv, OpShape, Active, OpPCs, mem
  <2>2. QED
    BY SMTT(60), <2>1, LogAssumption DEF SpaceInv, Sized
<1>17. CASE UNCHANGED vars
  <2>1. /\ Active' = Active /\ UNCHANGED <<lh, head>>
        /\ (boot' = "ready" /\ ~committing' => boot = "ready" /\ ~committing)
    BY ZenonT(60), <1>17, <1>a DEF vars, Active, OpPCs, PCs, TypeOK
  <2>2. \A q \in Active' : Logged(q) \subseteq Logged(q)'
    BY ZenonT(60), <1>17, <2>1, <1>a DEF vars, Logged, InLog, Active, TypeOK
  <2>3. QED
    BY ZenonT(60), <2>1, <2>2, <1>a, <1>b, <1>c, SpaceKept, TokensShrink DEF SpaceInv
<1>18. QED
  BY ZenonT(60), <1>1, <1>2, <1>3, <1>4, <1>5, <1>6, <1>7, <1>8, <1>9, <1>10, <1>11, <1>12,
     <1>13, <1>14, <1>15, <1>16, <1>17
     DEF Next, OpStep, CommitStep, Recovery

(* A process in an operation: no commit is under way.                       *)
LEMMA OpAlone ==
  ASSUME OpShape, NEW p \in Procs, pc[p] \in OpPCs
  PROVE  /\ boot = "ready" /\ ~committing
         /\ \A q \in Procs : pc[q] \notin CommitPCs
BY ZenonT(60) DEF OpShape, OpPCs, CommitPCs, Active

(* A process that commits: no operation is under way, and no other commit.  *)
LEMMA CommitAlone ==
  ASSUME OpShape, TypeOK, NEW p \in Procs, pc[p] \in CommitPCs
  PROVE  /\ boot = "ready" /\ committing
         /\ \A q \in Procs : pc[q] \notin OpPCs /\ blk[q] = None
         /\ \A q \in Procs : pc[q] \in CommitPCs => q = p
BY ZenonT(60) DEF OpShape, OpPCs, CommitPCs, Active, TypeOK

(* Every step keeps the cache and the disk in agreement.                    *)
LEMMA CacheStep ==
  ASSUME Sized, IInv, [Next]_vars
  PROVE  CacheInv'
<1>a. TypeOK /\ TypeOK' BY ZenonT(60), TypeStep DEF IInv, LogSound
<1>b. OpShape /\ CacheInv /\ CommitInv /\ BootInv BY ZenonT(60) DEF IInv, OpInv
<1>c. \A i \in 1..Len(lh) :
        LogAddr(i) \in Addrs \ Home /\ lh[i] \in Home /\ lh[i] \in Addrs
  BY ZenonT(60), <1>a, InstallAddr DEF IInv
<1> USE DEF TypeOK
<1>1. ASSUME NEW p \in Procs, BeginOp(p) PROVE CacheInv'
  <2>1. UNCHANGED <<lh, head, cache, disk, dirty, boot, blk>>
    BY Zenon, <1>1, <1>a DEF BeginOp
  <2>2. QED
    BY SMTT(60), <2>1, <1>b DEF CacheInv, InLog, Distinct
<1>2. ASSUME NEW p \in Procs, BeginSleep(p) PROVE CacheInv'
  <2>1. UNCHANGED <<lh, head, cache, disk, dirty, boot, blk>>
    BY Zenon, <1>2, <1>a DEF BeginSleep
  <2>2. QED
    BY SMTT(60), <2>1, <1>b DEF CacheInv, InLog, Distinct
<1>3. ASSUME NEW p \in Procs, NEW a \in Home, NEW v \in Vals, Modify(p, a, v)
      PROVE  CacheInv'
  <2>1. /\ boot = "ready" /\ blk[p] = None
        /\ UNCHANGED <<lh, head, disk, dirty, boot>>
    BY ZenonT(60), <1>3, <1>b, OpAlone DEF Modify, OpShape, OpPCs
  <2>2. \A b \in Home : b \notin dirty /\ (\A q \in Procs : blk'[q] # b) =>
          b # a /\ \A q \in Procs : blk[q] # b
    BY ZenonT(60), <1>3, <1>a, <2>1, HomeFacts DEF Modify
  <2>3. \A b \in Home : b # a => cache'[b] = cache[b]
    BY ZenonT(60), <1>3, <1>a, HomeFacts DEF Modify
  <2>4. QED
    BY SMTT(60), <2>1, <2>2, <2>3, <1>b DEF CacheInv, InLog, Distinct
<1>4. ASSUME NEW p \in Procs, LogCheck(p) PROVE CacheInv'
  <2>1. UNCHANGED <<lh, head, cache, disk, dirty, boot, blk>>
    BY ZenonT(60), <1>4, <1>a DEF LogCheck
  <2>2. QED
    BY SMTT(60), <2>1, <1>b DEF CacheInv, InLog, Distinct
<1>5. ASSUME NEW p \in Procs, LogWrite(p) PROVE CacheInv'
  <2>1. /\ boot = "ready" /\ blk[p] \in Home
        /\ UNCHANGED <<head, disk, cache, boot>>
    BY ZenonT(60), <1>5, <1>a, <1>b, OpAlone DEF LogWrite, OpShape, OpPCs
  <2>2. PICK b \in Home : b = blk[p]
    BY ZenonT(60), <2>1
  <2>3. (\A a : InLog(a) => InLog(a)') /\ InLog(b)' /\ Distinct(lh')
    <3>1. CASE InLog(b)
      BY ZenonT(60), <1>5, <3>1, <2>2, <1>b DEF LogWrite, InLog, CacheInv
    <3>2. CASE ~InLog(b)
      <4>1. lh' = Append(lh, b) /\ lh \in Seq(Home)
        BY Zenon, <1>5, <3>2, <2>2, <1>a DEF LogWrite, InLog
      <4>2. /\ Len(lh') = Len(lh) + 1 /\ lh'[Len(lh) + 1] = b /\ Len(lh) \in Nat
            /\ \A i \in 1..Len(lh) : lh'[i] = lh[i]
        BY SMTT(60), <4>1
      <4>3. Distinct(lh) /\ \A i \in 1..Len(lh) : lh[i] # b
        BY Zenon, <3>2, <1>b DEF CacheInv, InLog
      <4>4. QED
        BY SMTT(60), <4>2, <4>3 DEF InLog, Distinct
    <3>3. QED
      BY ZenonT(60), <3>1, <3>2
  <2>4. dirty' = dirty \cup {b}
    BY ZenonT(60), <1>5, <2>2 DEF LogWrite
  <2>5. \A c \in Home : (\A q \in Procs : blk'[q] # c) => c = b \/ \A q \in Procs : blk[q] # c
    BY ZenonT(60), <1>5, <2>2, <1>a DEF LogWrite
  <2>6. QED
    BY SMTT(60), <2>1, <2>3, <2>4, <2>5, <1>b DEF CacheInv, Distinct
<1>6. ASSUME NEW p \in Procs, EndOp(p) PROVE CacheInv'
  <2>1. UNCHANGED <<lh, head, cache, disk, dirty, boot, blk>>
    BY ZenonT(60), <1>6, <1>a DEF EndOp
  <2>2. QED
    BY SMTT(60), <2>1, <1>b DEF CacheInv, InLog, Distinct
<1>7. ASSUME NEW p \in Procs, WriteLog(p) PROVE CacheInv'
  <2>1. /\ tail \in 1..Len(lh) /\ boot = "ready"
        /\ UNCHANGED <<head, lh, blk, dirty, boot>>
    BY SMTT(60), <1>7, <1>a, <1>b, CommitAlone DEF WriteLog, CommitInv, CommitPCs
  <2>2. \A a \in Home : cache'[a] = cache[a] /\ disk'[a] = disk[a]
    BY SMTT(60), <1>7, <2>1, <1>a, <1>c, HomeFacts DEF WriteLog
  <2>3. QED
    BY ZenonT(60), <2>1, <2>2, <1>b DEF CacheInv, InLog, Distinct
<1>8. ASSUME NEW p \in Procs, WriteHead(p) PROVE CacheInv'
  <2>1. /\ boot = "ready" /\ UNCHANGED <<lh, cache, disk, dirty, boot, blk>>
        /\ head' = lh
    BY ZenonT(60), <1>8, <1>a, <1>b, CommitAlone DEF WriteHead, CommitPCs
  <2>2. QED
    BY SMTT(60), <2>1, <1>b DEF CacheInv, InLog, Distinct
<1>9. ASSUME NEW p \in Procs, Install(p) PROVE CacheInv'
  <2>1. /\ tail \in 1..Len(lh) /\ boot = "ready"
        /\ UNCHANGED <<head, lh, blk, boot>>
    BY SMTT(60), <1>9, <1>a, <1>b, CommitAlone DEF Install, CommitInv, CommitPCs
  <2>2. \A a \in Home : IF a = lh[tail] THEN cache'[a] = disk'[a] /\ a \notin dirty'
                         ELSE cache'[a] = cache[a] /\ disk'[a] = disk[a] /\ (a \in dirty' <=> a \in dirty)
    BY ZenonT(60), <1>9, <2>1, <1>a, <1>c, HomeFacts DEF Install, InstallOne
  <2>3. dirty' \subseteq dirty
    BY ZenonT(60), <1>9 DEF Install, InstallOne
  <2>4. QED
    BY SMTT(60), <2>1, <2>2, <2>3, <1>b DEF CacheInv, InLog, Distinct
<1>10. ASSUME NEW p \in Procs, EraseHead(p) PROVE CacheInv'
  <2>1. /\ boot = "ready" /\ UNCHANGED <<cache, disk, dirty, boot, blk>>
        /\ head' = <<>> /\ lh' = <<>> /\ dirty = {}
    BY ZenonT(60), <1>10, <1>a, <1>b, CommitAlone DEF EraseHead, CommitPCs, CommitInv
  <2>2. Distinct(<<>>)
    BY SMTT(60) DEF Distinct
  <2>3. QED
    BY ZenonT(60), <2>1, <2>2, <1>b DEF CacheInv, InLog
<1>11. ASSUME NEW p \in Procs, Committed(p) PROVE CacheInv'
  <2>1. UNCHANGED <<lh, head, cache, disk, dirty, boot, blk>>
    BY ZenonT(60), <1>11, <1>a DEF Committed
  <2>2. QED
    BY SMTT(60), <2>1, <1>b DEF CacheInv, InLog, Distinct
<1>12. ASSUME NEW a \in Home, Evict(a) PROVE CacheInv'
  <2>1. cache' = cache
    BY ZenonT(60), <1>12, <1>a, <1>b, HomeFacts DEF Evict, CacheInv
  <2>2. QED
    BY SMTT(60), <1>12, <2>1, <1>b DEF CacheInv, InLog, Distinct, Evict, mem
<1>13. CASE Crash
  <2>1. /\ cache' = disk' /\ dirty' = {} /\ lh' = <<>> /\ head' = head
        /\ boot' # "ready"
    BY Zenon, <1>13 DEF Crash
  <2>2. QED
    BY SMTT(60), <2>1, <1>b DEF CacheInv, Distinct
<1>14. CASE ReadHead
  <2>1. /\ cache = disk /\ dirty = {} /\ lh' = head /\ head' = head
        /\ boot' # "ready" /\ UNCHANGED <<cache, disk, dirty>>
    BY ZenonT(60), <1>14, <1>b DEF ReadHead, CacheInv
  <2>2. QED
    BY SMTT(60), <2>1, <1>b DEF CacheInv, Distinct
<1>15. CASE RecoverInstall
  <2>1. /\ cache = disk /\ dirty = {} /\ lh' = lh /\ head' = head
        /\ boot' # "ready"
    BY Zenon, <1>15, <1>b DEF RecoverInstall, CacheInv
  <2>2. cache' = disk' /\ dirty' = {}
    BY ZenonT(60), <1>15, <2>1 DEF RecoverInstall, InstallOne
  <2>3. QED
    BY ZenonT(60), <2>1, <2>2, <1>b DEF CacheInv, Distinct
<1>16. CASE RecoverErase
  <2>1. /\ cache = disk /\ dirty = {} /\ lh' = <<>> /\ head' = <<>>
        /\ UNCHANGED <<cache, disk, dirty>>
    BY ZenonT(60), <1>16, <1>b DEF RecoverErase, CacheInv
  <2>2. Distinct(<<>>)
    BY SMTT(60) DEF Distinct
  <2>3. QED
    BY ZenonT(60), <2>1, <2>2, <1>b DEF CacheInv, InLog
<1>17. CASE UNCHANGED vars
  <2>1. UNCHANGED <<lh, head, cache, disk, dirty, boot, blk>>
    BY Zenon, <1>17, <1>a DEF vars
  <2>2. QED
    BY ZenonT(60), <2>1, <1>b DEF CacheInv, InLog, Distinct
<1>18. QED
  BY Zenon, <1>1, <1>2, <1>3, <1>4, <1>5, <1>6, <1>7, <1>8, <1>9, <1>10, <1>11, <1>12,
     <1>13, <1>14, <1>15, <1>16, <1>17
     DEF Next, OpStep, CommitStep, Recovery

(* Every step keeps the log area and the header right for the commit.       *)
LEMMA CommitStepInv ==
  ASSUME Sized, IInv, [Next]_vars
  PROVE  CommitInv'
<1>a. TypeOK /\ TypeOK' BY Zenon, TypeStep DEF IInv, LogSound
<1>b. OpShape /\ CacheInv /\ CommitInv /\ BootInv BY Zenon DEF IInv, OpInv
<1>c. \A i \in 1..Len(lh) :
        LogAddr(i) \in Addrs \ Home /\ lh[i] \in Home /\ lh[i] \in Addrs
  BY Zenon, <1>a, InstallAddr DEF IInv
<1> USE DEF TypeOK
<1>1. ASSUME NEW p \in Procs, BeginOp(p) PROVE CommitInv'
  <2>1. /\ boot' = "ready" /\ boot = "ready" /\ head' = head
        /\ \A q \in Procs : pc[q] \notin CommitPCs /\ pc'[q] \notin CommitPCs
    BY ZenonT(60), <1>1, <1>a, <1>b DEF BeginOp, SetPc, CommitPCs, OpShape
  <2>2. QED
    BY Zenon, <2>1, <1>b DEF CommitInv, CommitPCs
<1>2. ASSUME NEW p \in Procs, BeginSleep(p) PROVE CommitInv'
  <2>1. /\ UNCHANGED <<boot, lh, disk, cache, tail, head, dirty>>
        /\ \A q \in Procs : pc[q] \in CommitPCs \/ pc'[q] \in CommitPCs => pc[q] = pc'[q]
    BY Zenon, <1>2, <1>a DEF BeginSleep, SetPc, CommitPCs
  <2>2. QED
    BY ZenonT(60), <2>1, <1>b DEF CommitInv, CommitPCs, LogHolds
<1>3. ASSUME NEW p \in Procs, NEW a \in Home, NEW v \in Vals, Modify(p, a, v)
      PROVE  CommitInv'
  <2>1. /\ boot = "ready" /\ boot' = "ready" /\ head' = head /\ head = <<>>
        /\ \A q \in Procs : pc'[q] \notin CommitPCs
    BY ZenonT(60), <1>3, <1>a, <1>b, OpAlone DEF Modify, SetPc, OpPCs, CommitPCs, CommitInv
  <2>2. QED
    BY Zenon, <2>1 DEF CommitInv, CommitPCs
<1>4. ASSUME NEW p \in Procs, LogCheck(p) PROVE CommitInv'
  <2>1. /\ boot = "ready" /\ boot' = "ready" /\ head' = head /\ head = <<>>
        /\ \A q \in Procs : pc'[q] \notin CommitPCs
    BY ZenonT(60), <1>4, <1>a, <1>b, OpAlone DEF LogCheck, SetPc, OpPCs, CommitPCs,
       CommitInv
  <2>2. QED
    BY Zenon, <2>1 DEF CommitInv, CommitPCs
<1>5. ASSUME NEW p \in Procs, LogWrite(p) PROVE CommitInv'
  <2>1. /\ boot = "ready" /\ boot' = "ready" /\ head' = head /\ head = <<>>
        /\ \A q \in Procs : pc'[q] \notin CommitPCs
    BY ZenonT(60), <1>5, <1>a, <1>b, OpAlone DEF LogWrite, SetPc, OpPCs, CommitPCs,
       CommitInv
  <2>2. QED
    BY Zenon, <2>1 DEF CommitInv, CommitPCs
<1>6. ASSUME NEW p \in Procs, EndOp(p) PROVE CommitInv'
  <2>1. /\ boot = "ready" /\ boot' = "ready" /\ head' = head /\ head = <<>>
        /\ lh' = lh
        /\ \A q \in Procs : pc'[q] \in CommitPCs => q = p
        /\ pc'[p] \in {"idle", "write_log", "committed"}
        /\ pc'[p] = "write_log" => tail' = 1 /\ Len(lh) > 0
        /\ pc'[p] = "committed" => ~(Len(lh) > 0)
    BY SMTT(60), <1>6, <1>a, <1>b, OpAlone DEF EndOp, SetPc, WakeAll, OpPCs, CommitPCs,
       CommitInv
  <2>2. Len(lh) \in Nat /\ (~(Len(lh) > 0) => lh = <<>>)
    BY SMTT(60), <1>a
  <2>3. tail' = 1 => LogHolds(tail - 1)'
    BY SMTT(60) DEF LogHolds
  <2>4. QED
    BY SMTT(60), <2>1, <2>2, <2>3 DEF CommitInv, CommitPCs
<1>7. ASSUME NEW p \in Procs, WriteLog(p) PROVE CommitInv'
  <2>1. /\ tail \in 1..Len(lh) /\ boot = "ready" /\ head = <<>>
        /\ LogHolds(tail - 1)
        /\ UNCHANGED <<head, lh, boot>> /\ tail' = tail + 1
    BY SMTT(60), <1>7, <1>a, <1>b, CommitAlone DEF WriteLog, CommitInv, CommitPCs
  <2>2. /\ \A q \in Procs : pc'[q] \in CommitPCs => q = p
        /\ pc'[p] = IF tail = Len(lh) THEN "write_head" ELSE "write_log"
    BY ZenonT(60), <1>7, <1>a, <1>b, CommitAlone DEF WriteLog, CommitPCs, SetPc
  <2>3. ASSUME NEW i \in 1..tail PROVE disk'[LogAddr(i)] = cache'[lh'[i]]
    <3>1. i \in 1..Len(lh) /\ i \in Int /\ tail \in Int
      BY SMTT(60), <2>1
    <3>2. cache'[lh[i]] = cache[lh[i]]
      BY SMTT(60), <1>7, <3>1, <2>1, <1>a, <1>c DEF WriteLog
    <3>3. CASE i = tail
      BY Zenon, <1>7, <3>1, <3>2, <3>3, <2>1, <1>a, <1>c DEF WriteLog
    <3>4. CASE i # tail
      <4>1. i \in 1..tail-1 /\ LogAddr(i) # LogAddr(tail)
        BY SMTT(60), <3>1, <3>4
      <4>2. disk'[LogAddr(i)] = disk[LogAddr(i)]
        BY ZenonT(60), <1>7, <4>1, <3>1, <1>a, <1>c DEF WriteLog
      <4>3. QED
        BY Zenon, <4>1, <4>2, <3>2, <2>1 DEF LogHolds
    <3>5. QED
      BY Zenon, <3>3, <3>4
  <2>4. /\ LogHolds(tail - 1)' /\ (tail = Len(lh) => LogHolds(Len(lh))')
        /\ (tail # Len(lh) => tail' <= Len(lh))
    BY SMTT(60), <2>1, <2>3, <1>a DEF LogHolds
  <2>5. QED
    BY ZenonT(60), <2>1, <2>2, <2>4, <1>a DEF CommitInv, CommitPCs
<1>8. ASSUME NEW p \in Procs, WriteHead(p) PROVE CommitInv'
  <2>1. /\ boot = "ready" /\ head' = lh /\ lh' = lh /\ LogHolds(Len(lh))
        /\ UNCHANGED <<disk, cache>> /\ tail' = 1 /\ lh # <<>>
    BY Zenon, <1>8, <1>a, <1>b, CommitAlone DEF WriteHead, CommitInv, CommitPCs
  <2>2. /\ \A q \in Procs : pc'[q] \in CommitPCs => q = p
        /\ pc'[p] = "install"
    BY SMTT(60), <1>8, <1>a, <1>b, CommitAlone DEF WriteHead, CommitPCs, SetPc
  <2>3. tail' <= Len(lh) /\ \A i \in 1..tail'-1 : lh'[i] \notin dirty'
    BY SMTT(60), <2>1, <1>a
  <2>4. QED
    BY Zenon, <2>1, <2>2, <2>3 DEF CommitInv, CommitPCs, LogHolds
<1>9. ASSUME NEW p \in Procs, Install(p) PROVE CommitInv'
  <2>1. /\ tail \in 1..Len(lh) /\ boot = "ready" /\ head = lh
        /\ LogHolds(Len(lh))
        /\ \A i \in 1..tail-1 : lh[i] \notin dirty
        /\ UNCHANGED <<head, lh, boot>> /\ tail' = tail + 1
    BY SMTT(60), <1>9, <1>a, <1>b, CommitAlone DEF Install, InstallOne, CommitInv,
       CommitPCs
  <2>2. /\ \A q \in Procs : pc'[q] \in CommitPCs => q = p
        /\ pc'[p] = IF tail = Len(lh) THEN "erase" ELSE "install"
    BY ZenonT(60), <1>9, <1>a, <1>b, CommitAlone DEF Install, CommitPCs, SetPc
  <2>3. cache' = cache
    BY SMTT(60), <1>9, <2>1, <1>a, <1>c DEF Install, InstallOne, LogHolds
  <2>4. \A i \in 1..Len(lh) : disk'[LogAddr(i)] = disk[LogAddr(i)]
    BY SMTT(60), <1>9, <2>1, <1>a, <1>c DEF Install, InstallOne
  <2>5. LogHolds(Len(lh))'
    BY ZenonT(60), <2>1, <2>3, <2>4 DEF LogHolds
  <2>6. \A i \in 1..tail'-1 : lh[i] \notin dirty'
    BY SMTT(60), <1>9, <2>1, <1>a DEF Install, InstallOne
  <2>7. tail = Len(lh) => dirty' = {}
    <3>1. dirty' \subseteq dirty
      BY ZenonT(60), <1>9 DEF Install, InstallOne
    <3>2. QED
      BY SMTT(60), <3>1, <2>1, <2>6, <1>a, <1>b DEF CacheInv, InLog
  <2>8. QED
    BY SMTT(60), <2>1, <2>2, <2>5, <2>6, <2>7, <1>a DEF CommitInv, CommitPCs
<1>10. ASSUME NEW p \in Procs, EraseHead(p) PROVE CommitInv'
  <2>1. /\ head' = <<>> /\ lh' = <<>>
        /\ \A q \in Procs : pc'[q] \in CommitPCs => q = p
        /\ pc'[p] = "committed"
    BY ZenonT(60), <1>10, <1>a, <1>b, CommitAlone DEF EraseHead, CommitPCs, SetPc
  <2>2. QED
    BY ZenonT(60), <2>1 DEF CommitInv, CommitPCs
<1>11. ASSUME NEW p \in Procs, Committed(p) PROVE CommitInv'
  <2>1. /\ head' = head /\ boot = "ready" /\ pc[p] = "committed"
        /\ \A q \in Procs : pc'[q] \notin CommitPCs
        /\ \A q \in Procs : pc[q] \in CommitPCs => q = p
    BY ZenonT(60), <1>11, <1>a, <1>b, CommitAlone DEF Committed, CommitPCs, WakeAll
  <2>2. head = <<>>
    BY ZenonT(60), <2>1, <1>b DEF CommitInv, CommitPCs
  <2>3. QED
    BY Zenon, <2>1, <2>2 DEF CommitInv, CommitPCs
<1>12. ASSUME NEW a \in Home, Evict(a) PROVE CommitInv'
  <2>1. cache' = cache /\ UNCHANGED <<boot, lh, disk, tail, head, dirty, pc>>
    BY ZenonT(60), <1>12, <1>a, <1>b, HomeFacts DEF Evict, CacheInv, mem
  <2>2. QED
    BY ZenonT(60), <2>1, <1>b DEF CommitInv, LogHolds
<1>13. CASE Crash
  BY ZenonT(60), <1>13 DEF Crash, CommitInv
<1>14. CASE ReadHead
  <2>1. boot' # "ready" /\ \A q \in Procs : pc'[q] = "idle"
    BY ZenonT(60), <1>14, <1>b DEF ReadHead, OpShape, mem
  <2>2. QED
    BY ZenonT(60), <2>1 DEF CommitInv
<1>15. CASE RecoverInstall
  <2>1. boot' # "ready" /\ \A q \in Procs : pc'[q] = "idle"
    BY ZenonT(60), <1>15, <1>b DEF RecoverInstall, OpShape, mem
  <2>2. QED
    BY Zenon, <2>1 DEF CommitInv
<1>16. CASE RecoverErase
  <2>1. head' = <<>> /\ \A q \in Procs : pc'[q] = "idle"
    BY ZenonT(60), <1>16, <1>b DEF RecoverErase, OpShape, mem
  <2>2. QED
    BY ZenonT(60), <2>1 DEF CommitInv
<1>17. CASE UNCHANGED vars
  BY ZenonT(60), <1>17, <1>b DEF vars, CommitInv, LogHolds
<1>18. QED
  BY ZenonT(60), <1>1, <1>2, <1>3, <1>4, <1>5, <1>6, <1>7, <1>8, <1>9, <1>10, <1>11, <1>12,
     <1>13, <1>14, <1>15, <1>16, <1>17
     DEF Next, OpStep, CommitStep, Recovery

(* Every step keeps what recovery has done so far.                          *)
LEMMA BootStep ==
  ASSUME Sized, IInv, [Next]_vars
  PROVE  BootInv'
<1>a. TypeOK /\ TypeOK' BY Zenon, TypeStep DEF IInv, LogSound
<1>b. OpShape /\ CacheInv /\ CommitInv /\ BootInv BY Zenon DEF IInv, OpInv
<1>c. \A i \in 1..Len(lh) :
        LogAddr(i) \in Addrs \ Home /\ lh[i] \in Home /\ lh[i] \in Addrs
  BY Zenon, <1>a, InstallAddr DEF IInv
<1> USE DEF TypeOK
<1>1. ASSUME NEW p \in Procs, BeginOp(p) PROVE BootInv'
  BY ZenonT(60), <1>1 DEF BeginOp, BootInv
<1>2. ASSUME NEW p \in Procs, BeginSleep(p) PROVE BootInv'
  BY ZenonT(60), <1>2 DEF BeginSleep, BootInv
<1>3. ASSUME NEW p \in Procs, NEW a \in Home, NEW v \in Vals, Modify(p, a, v)
      PROVE  BootInv'
  <2>1. boot' = "ready"
    BY ZenonT(60), <1>3, <1>a, <1>b, OpAlone DEF Modify, OpPCs, CommitPCs
  <2>2. QED
    BY ZenonT(60), <2>1 DEF BootInv
<1>4. ASSUME NEW p \in Procs, LogCheck(p) PROVE BootInv'
  <2>1. boot' = "ready"
    BY ZenonT(60), <1>4, <1>a, <1>b, OpAlone DEF LogCheck, OpPCs, CommitPCs
  <2>2. QED
    BY ZenonT(60), <2>1 DEF BootInv
<1>5. ASSUME NEW p \in Procs, LogWrite(p) PROVE BootInv'
  <2>1. boot' = "ready"
    BY ZenonT(60), <1>5, <1>a, <1>b, OpAlone DEF LogWrite, OpPCs, CommitPCs
  <2>2. QED
    BY Zenon, <2>1 DEF BootInv
<1>6. ASSUME NEW p \in Procs, EndOp(p) PROVE BootInv'
  <2>1. boot' = "ready"
    BY ZenonT(60), <1>6, <1>a, <1>b, OpAlone DEF EndOp, OpPCs, CommitPCs
  <2>2. QED
    BY Zenon, <2>1 DEF BootInv
<1>7. ASSUME NEW p \in Procs, WriteLog(p) PROVE BootInv'
  <2>1. boot' = "ready"
    BY ZenonT(60), <1>7, <1>a, <1>b, CommitAlone DEF WriteLog, OpPCs, CommitPCs
  <2>2. QED
    BY Zenon, <2>1 DEF BootInv
<1>8. ASSUME NEW p \in Procs, WriteHead(p) PROVE BootInv'
  <2>1. boot' = "ready"
    BY ZenonT(60), <1>8, <1>a, <1>b, CommitAlone DEF WriteHead, OpPCs, CommitPCs
  <2>2. QED
    BY Zenon, <2>1 DEF BootInv
<1>9. ASSUME NEW p \in Procs, Install(p) PROVE BootInv'
  <2>1. boot' = "ready"
    BY ZenonT(60), <1>9, <1>a, <1>b, CommitAlone DEF Install, OpPCs, CommitPCs
  <2>2. QED
    BY Zenon, <2>1 DEF BootInv
<1>10. ASSUME NEW p \in Procs, EraseHead(p) PROVE BootInv'
  <2>1. boot' = "ready"
    BY ZenonT(60), <1>10, <1>a, <1>b, CommitAlone DEF EraseHead, OpPCs, CommitPCs
  <2>2. QED
    BY Zenon, <2>1 DEF BootInv
<1>11. ASSUME NEW p \in Procs, Committed(p) PROVE BootInv'
  <2>1. boot' = "ready"
    BY ZenonT(60), <1>11, <1>a, <1>b, CommitAlone DEF Committed, OpPCs, CommitPCs
  <2>2. QED
    BY Zenon, <2>1 DEF BootInv
<1>12. ASSUME NEW a \in Home, Evict(a) PROVE BootInv'
  BY ZenonT(60), <1>12 DEF Evict, BootInv
<1>13. CASE Crash
  BY ZenonT(60), <1>13 DEF Crash, BootInv
<1>14. CASE ReadHead
  <2>1. /\ tail' = 1 /\ lh' = head /\ head' = head
        /\ boot' \in {"install", "erase"}
    BY ZenonT(60), <1>14 DEF ReadHead
  <2>2. boot' = "install" => tail' <= Len(lh')
    BY SMTT(60), <1>14, <1>a DEF ReadHead
  <2>3. boot' = "erase" => Len(lh') = 0
    BY SMTT(60), <1>14, <1>a DEF ReadHead
  <2>4. QED
    BY SMTT(60), <2>1, <2>2, <2>3 DEF BootInv
<1>15. CASE RecoverInstall
  <2>1. /\ tail \in 1..Len(lh) /\ lh = head /\ UNCHANGED <<head, lh>>
        /\ tail' = tail + 1
        /\ \A i \in 1..tail-1 : disk[lh[i]] = disk[LogAddr(i)]
        /\ boot' = IF tail = Len(lh) THEN "erase" ELSE "install"
    BY SMTT(60), <1>15, <1>a, <1>b DEF RecoverInstall, InstallOne, BootInv
  <2>2. ASSUME NEW i \in 1..tail PROVE disk'[lh[i]] = disk'[LogAddr(i)]
    <3>1. i \in 1..Len(lh) /\ i \in Int /\ tail \in Int
      BY SMTT(60), <2>1
    <3>2. disk'[LogAddr(i)] = disk[LogAddr(i)]
      BY SMTT(60), <1>15, <3>1, <2>1, <1>a, <1>c DEF RecoverInstall, InstallOne
    <3>3. CASE i = tail
      BY ZenonT(60), <1>15, <3>1, <3>2, <3>3, <1>a, <1>c DEF RecoverInstall, InstallOne
    <3>4. CASE i # tail
      <4>1. i \in 1..tail-1 /\ lh[i] # lh[tail]
        BY SMTT(60), <3>1, <3>4, <2>1, <1>b DEF CacheInv, Distinct
      <4>2. disk'[lh[i]] = disk[lh[i]]
        BY ZenonT(60), <1>15, <4>1, <3>1, <1>a, <1>c DEF RecoverInstall, InstallOne
      <4>3. QED
        BY ZenonT(60), <4>1, <4>2, <3>2, <2>1
    <3>5. QED
      BY ZenonT(60), <3>3, <3>4
  <2>3. QED
    BY SMTT(60), <2>1, <2>2, <1>a DEF BootInv
<1>16. CASE RecoverErase
  BY ZenonT(60), <1>16 DEF RecoverErase, BootInv
<1>17. CASE UNCHANGED vars
  BY SMTT(60), <1>17, <1>b DEF vars, BootInv
<1>18. QED
  BY Zenon, <1>1, <1>2, <1>3, <1>4, <1>5, <1>6, <1>7, <1>8, <1>9, <1>10, <1>11, <1>12,
     <1>13, <1>14, <1>15, <1>16, <1>17
     DEF Next, OpStep, CommitStep, Recovery

(* A process past log_write's checks is not in panic, and the log fits.     *)
LEMMA SoundStep ==
  ASSUME Sized, IInv, [Next]_vars
  PROVE  IInv'
<1>1. TypeOK' /\ OpInv' /\ SpaceInv' /\ CacheInv' /\ CommitInv' /\ BootInv'
  BY ZenonT(60), TypeStep, OpStepInv, SpaceStep, CacheStep, CommitStepInv, BootStep
<1>2. LogFits'
  BY SMTT(60), <1>1, LogAssumption DEF LogFits, SpaceInv, Sized, TypeOK
<1>3. NoPanic'
  <2>a. TypeOK /\ NoPanic /\ OpInv /\ SpaceInv
    BY ZenonT(60) DEF IInv, LogSound
  <2>1. ASSUME NEW p \in Procs, LogCheck(p) PROVE NoPanic'
    <3>1. outstanding >= 1
      BY ZenonT(60), <2>1, <2>a, ActiveCounted DEF LogCheck, Active, OpPCs
    <3>2. ~(Len(lh) >= LOGSIZE \/ Len(lh) >= size - 1 \/ outstanding < 1)
      BY SMTT(60), <3>1, <2>a, LogAssumption DEF SpaceInv, Sized, TypeOK
    <3>3. QED
      BY ZenonT(60), <2>1, <2>a, <3>2 DEF LogCheck, SetPc, NoPanic, TypeOK
  <2>2. ASSUME NEW p \in Procs, WriteLog(p) PROVE NoPanic'
    BY ZenonT(60), <2>2, <2>a DEF WriteLog, SetPc, NoPanic, TypeOK
  <2>3. ASSUME NEW p \in Procs, Install(p) PROVE NoPanic'
    BY ZenonT(60), <2>3, <2>a DEF Install, SetPc, NoPanic, TypeOK
  <2>4. ASSUME NEW p \in Procs, EndOp(p) PROVE NoPanic'
    BY ZenonT(60), <2>4, <2>a DEF EndOp, SetPc, WakeAll, NoPanic, TypeOK
  <2>5. ASSUME NEW p \in Procs, BeginOp(p) \/ BeginSleep(p) \/ LogWrite(p) PROVE NoPanic'
    BY ZenonT(60), <2>5, <2>a DEF BeginOp, BeginSleep, LogWrite, SetPc, NoPanic, TypeOK
  <2>6. ASSUME NEW p \in Procs, WriteHead(p) \/ EraseHead(p) PROVE NoPanic'
    BY ZenonT(60), <2>6, <2>a DEF WriteHead, EraseHead, SetPc, NoPanic, TypeOK
  <2>7. ASSUME NEW p \in Procs, Committed(p) PROVE NoPanic'
    BY ZenonT(60), <2>7, <2>a DEF Committed, WakeAll, NoPanic, TypeOK
  <2>8. ASSUME NEW p \in Procs, NEW a \in Home, NEW v \in Vals, Modify(p, a, v) PROVE NoPanic'
    BY ZenonT(60), <2>8, <2>a DEF Modify, SetPc, NoPanic, TypeOK
  <2>9. CASE Crash
    BY ZenonT(60), <2>9 DEF Crash, NoPanic
  <2>10. CASE (\E a \in Home : Evict(a)) \/ Recovery \/ UNCHANGED vars
    <3>1. pc' = pc
      BY ZenonT(60), <2>10 DEF Evict, Recovery, ReadHead, RecoverInstall, RecoverErase, mem,
         vars
    <3>2. QED
      BY ZenonT(60), <3>1, <2>a DEF NoPanic
  <2>11. QED
    BY Zenon, <2>1, <2>2, <2>3, <2>4, <2>5, <2>6, <2>7, <2>8, <2>9, <2>10 DEF Next,
       OpStep, CommitStep
<1>4. QED
  BY ZenonT(60), <1>1, <1>2, <1>3 DEF IInv, LogSound

(* The inductive invariant holds of the disk that mkfs leaves.              *)
LEMMA InitInv == ASSUME Sized, Init PROVE IInv
<1>1. PICK v0 \in Vals : disk = [a \in Addrs |-> v0]
  BY ZenonT(60) DEF Init
<1>2. TypeOK
  <2>1. committing \in BOOLEAN
    BY Zenon DEF Init
  <2>2. tail \in Nat \ {0} /\ outstanding \in Nat
    BY SMTT(60) DEF Init
  <2>3. QED
    BY SMTT(60), <1>1, <2>1, <2>2 DEF Init, TypeOK, PCs
<1>3. Active = {} /\ Cardinality(Active) = 0
  BY Zenon, FS_EmptySet DEF Init, Active, OpPCs
<1>4. OpInv
  <2>1. OpShape
    BY ZenonT(60), <1>3 DEF Init, OpShape, CommitPCs
  <2>2. \A p \in Procs : IsFiniteSet(written[p]) /\ Cardinality(written[p]) <= OpBlocks
    BY SMTT(60), FS_EmptySet, LogAssumption DEF Init
  <2>3. QED
    BY ZenonT(60), <1>3, <2>1, <2>2 DEF OpInv, Init
<1>5. SpaceInv
  BY SMTT(60), <1>3, LogAssumption DEF Init, SpaceInv, Sized
<1>6. CacheInv /\ CommitInv /\ BootInv
  BY SMTT(60) DEF Init, CacheInv, Distinct, CommitInv, BootInv
<1>7. LogFits /\ NoPanic
  BY SMTT(60), LogAssumption DEF Init, LogFits, NoPanic
<1>8. QED
  BY ZenonT(60), <1>2, <1>4, <1>5, <1>6, <1>7 DEF IInv, LogSound

(* IInv is an invariant of the log.                                         *)
LEMMA IInvHolds == ASSUME Sized PROVE Spec => []IInv
<1>1. Init => IInv
  BY ZenonT(60), InitInv
<1>2. IInv /\ [Next]_vars => IInv'
  BY ZenonT(60), SoundStep
<1>3. QED
  BY <1>1, <1>2, PTL DEF Spec

-----------------------------------------------------------------------------
(* No operation that begin_op admits panics in log_write, and write_log     *)
(* never leaves the log area, whatever number of operations run at once.    *)
THEOREM LogStaysSound == ASSUME Sized PROVE Spec => []LogSound
<1>1. IInv => LogSound
  BY ZenonT(60) DEF IInv
<1>2. QED
  BY <1>1, IInvHolds, PTL

(* With no operation active and none committing, recovery would give the    *)
(* contents of the buffer cache: end_op returned with everything on disk.   *)
THEOREM LogIdleIsDurable == ASSUME Sized PROVE Spec => []IdleIsDurable
<1>1. ASSUME IInv PROVE IdleIsDurable
  <2>1. SUFFICES ASSUME boot = "ready", outstanding = 0, ~committing, NEW a \in Home
                 PROVE  Recovered[a] = cache[a]
    BY Zenon DEF IdleIsDurable
  <2>2. OpInv /\ OpShape /\ SpaceInv /\ CacheInv /\ CommitInv /\ TypeOK
    BY Zenon, <1>1 DEF IInv, OpInv, LogSound
  <2>3. Active = {} /\ lh = <<>>
    BY Zenon, <1>1, <2>1, <2>2, ActiveCounted DEF SpaceInv
  <2>4. dirty = {} /\ \A q \in Procs : blk[q] # a
    BY SMTT(60), <2>2, <2>3, HomeFacts DEF CacheInv, InLog, OpShape, Active, OpPCs
  <2>5. head = <<>>
    BY Zenon, <2>1, <2>2 DEF CommitInv, OpShape, CommitPCs
  <2>6. Recovered[a] = disk[a]
    BY SMTT(60), <2>5 DEF Recovered
  <2>7. QED
    BY Zenon, <2>1, <2>2, <2>4, <2>6 DEF CacheInv
<1>2. QED
  BY <1>1, IInvHolds, PTL

-----------------------------------------------------------------------------
(* A step keeps every sleeper's reason.                                     *)
LEMMA SleepersStep ==
  ASSUME Sized, IInv, SleepersHaveReason, [Next]_vars
  PROVE  SleepersHaveReason'
<1>a. TypeOK /\ OpShape /\ TypeOK'
  BY Zenon, TypeStep DEF IInv, OpInv, LogSound
<1>b. \A p \in Procs : pc[p] = "sleep" => committing \/ NoSpace
  BY Zenon DEF SleepersHaveReason
<1> USE DEF SleepersHaveReason
<1>1. ASSUME NEW p \in Procs, BeginOp(p) PROVE SleepersHaveReason'
  BY ZenonT(60), <1>1, <1>a, <1>b DEF BeginOp, SetPc, TypeOK
<1>2. ASSUME NEW p \in Procs, BeginSleep(p) PROVE SleepersHaveReason'
  BY ZenonT(60), <1>2, <1>a, <1>b DEF BeginSleep, SetPc, TypeOK, NoSpace
<1>3. ASSUME NEW p \in Procs, NEW a \in Home, NEW v \in Vals, Modify(p, a, v)
      PROVE  SleepersHaveReason'
  BY ZenonT(60), <1>3, <1>a, <1>b DEF Modify, SetPc, TypeOK, NoSpace
<1>4. ASSUME NEW p \in Procs, LogCheck(p) PROVE SleepersHaveReason'
  BY ZenonT(60), <1>4, <1>a, <1>b DEF LogCheck, SetPc, TypeOK, NoSpace
<1>5. ASSUME NEW p \in Procs, LogWrite(p) PROVE SleepersHaveReason'
  <2>1. Len(lh') >= Len(lh) /\ Len(lh) \in Nat /\ Len(lh') \in Nat
    BY SMTT(60), <1>5, <1>a DEF LogWrite, TypeOK
  <2>2. outstanding' = outstanding /\ (outstanding + 1) * MAXOPBLOCKS \in Nat
    BY SMTT(60), <1>5, <1>a, LogAssumption DEF LogWrite, TypeOK
  <2>3. NoSpace => NoSpace'
    BY SMTT(60), <2>1, <2>2, LogAssumption DEF NoSpace
  <2>4. QED
    BY ZenonT(60), <1>5, <2>3, <1>a, <1>b DEF LogWrite, SetPc, TypeOK
<1>6. ASSUME NEW p \in Procs, EndOp(p) PROVE SleepersHaveReason'
  BY ZenonT(60), <1>6, <1>a, <1>b DEF EndOp, WakeAll
<1>7. ASSUME NEW p \in Procs, WriteLog(p) PROVE SleepersHaveReason'
  BY ZenonT(60), <1>7, <1>a, <1>b DEF WriteLog, SetPc, TypeOK, NoSpace
<1>8. ASSUME NEW p \in Procs, WriteHead(p) PROVE SleepersHaveReason'
  BY ZenonT(60), <1>8, <1>a, <1>b DEF WriteHead, SetPc, TypeOK, NoSpace
<1>9. ASSUME NEW p \in Procs, Install(p) PROVE SleepersHaveReason'
  BY ZenonT(60), <1>9, <1>a, <1>b DEF Install, SetPc, TypeOK, NoSpace
<1>10. ASSUME NEW p \in Procs, EraseHead(p) PROVE SleepersHaveReason'
  BY ZenonT(60), <1>10, <1>a, CommitAlone DEF EraseHead, CommitPCs
<1>11. ASSUME NEW p \in Procs, Committed(p) PROVE SleepersHaveReason'
  BY Zenon, <1>11 DEF Committed, WakeAll
<1>12. ASSUME NEW a \in Home, Evict(a) PROVE SleepersHaveReason'
  BY ZenonT(60), <1>12, <1>b DEF Evict, mem, NoSpace
<1>13. CASE Crash
  BY ZenonT(60), <1>13 DEF Crash
<1>14. CASE Recovery
  BY ZenonT(60), <1>14, <1>a DEF Recovery, ReadHead, RecoverInstall, RecoverErase, mem,
     OpShape
<1>15. CASE UNCHANGED vars
  BY ZenonT(60), <1>15, <1>b DEF vars, NoSpace
<1>16. QED
  BY ZenonT(60), <1>1, <1>2, <1>3, <1>4, <1>5, <1>6, <1>7, <1>8, <1>9, <1>10, <1>11,
     <1>12, <1>13, <1>14, <1>15 DEF Next, OpStep, CommitStep

(* Nobody sleeps in begin_op when it would be admitted: each change that    *)
(* could admit it, in end_op before and after the commit, wakes it.         *)
THEOREM LogSleepersHaveReason == ASSUME Sized PROVE Spec => []SleepersHaveReason
<1>1. Init => SleepersHaveReason
  BY Zenon DEF Init, SleepersHaveReason
<1>2. IInv /\ SleepersHaveReason /\ [Next]_vars => SleepersHaveReason'
  BY ZenonT(60), SleepersStep
<1>3. QED
  BY <1>1, <1>2, IInvHolds, PTL DEF Spec

-----------------------------------------------------------------------------
(* What recovery makes of a disk d with header h.                           *)
Rec(d, h) ==
  [a \in Home |-> IF \E i \in 1..Len(h) : h[i] = a
                  THEN d[LogAddr(CHOOSE i \in 1..Len(h) : h[i] = a)]
                  ELSE d[a]]

Cur == IF boot = "ready" THEN [a \in Home |-> cache[a]] ELSE Recovered

(* Recovery copies the one log block that a block in the header has.        *)
LEMMA RecAt ==
  ASSUME NEW d, NEW h, Distinct(h)
  PROVE  /\ \A i \in 1..Len(h) : h[i] \in Home => Rec(d, h)[h[i]] = d[LogAddr(i)]
         /\ \A a \in Home : (\A i \in 1..Len(h) : h[i] # a) => Rec(d, h)[a] = d[a]
<1>1. ASSUME NEW i \in 1..Len(h), h[i] \in Home PROVE Rec(d, h)[h[i]] = d[LogAddr(i)]
  <2>1. (CHOOSE j \in 1..Len(h) : h[j] = h[i]) = i
    BY Zenon DEF Distinct
  <2>2. QED
    BY Zenon, <1>1, <2>1 DEF Rec
<1>2. QED
  BY ZenonT(60), <1>1 DEF Rec

(* Two disks that recovery makes the same block by block it makes the same. *)
LEMMA RecSame ==
  ASSUME NEW d, NEW h, NEW e, NEW g, \A a \in Home : Rec(d, h)[a] = Rec(e, g)[a]
  PROVE  Rec(d, h) = Rec(e, g)
BY Zenon DEF Rec

(* What recover_from_log() makes of the disk, as a function of disk and     *)
(* header, before and after a step.                                         *)
LEMMA RecIs == Recovered = Rec(disk, head) /\ Recovered' = Rec(disk', head')
BY Zenon DEF Recovered, Rec

(* Installing a block that the header lists does not change what recovery   *)
(* makes of the disk.                                                       *)
LEMMA InstallKeeps ==
  ASSUME InstallOne, TypeOK, head = lh, head' = lh, tail \in 1..Len(lh), Distinct(lh),
         \A i \in 1..Len(lh) :
           LogAddr(i) \in Addrs \ Home /\ lh[i] \in Home /\ lh[i] \in Addrs
  PROVE  Recovered' = Recovered
<1>1. ASSUME NEW b \in Home PROVE Rec(disk', head')[b] = Rec(disk, head)[b]
  <2>1. \A i \in 1..Len(lh) : disk'[LogAddr(i)] = disk[LogAddr(i)]
    BY Zenon DEF InstallOne, TypeOK
  <2>2. b # lh[tail] => disk'[b] = disk[b]
    BY ZenonT(60), HomeFacts DEF InstallOne, TypeOK
  <2>3. CASE InLog(b)
    <3>1. PICK i \in 1..Len(lh) : lh[i] = b
      BY ZenonT(60), <2>3 DEF InLog
    <3>2. Rec(disk', lh)[b] = disk'[LogAddr(i)] /\ Rec(disk, lh)[b] = disk[LogAddr(i)]
      BY SMTT(60), <3>1, RecAt
    <3>3. QED
      BY ZenonT(60), <2>1, <3>1, <3>2
  <2>4. CASE ~InLog(b)
    BY SMTT(60), <2>2, <2>4, RecAt DEF InLog
  <2>5. QED
    BY Zenon, <2>3, <2>4
<1>2. QED
  BY SMTT(60), <1>1, RecIs, RecSame

(* Every step of the log is a step of the transactional disk, or none.      *)
LEMMA TxStep ==
  ASSUME Sized, IInv, [Next]_vars
  PROVE  [Tx!Next]_(Tx!txvars)
<1>a. TypeOK /\ TypeOK' BY ZenonT(60), TypeStep DEF IInv, LogSound
<1>b. OpInv /\ OpShape /\ CacheInv /\ CommitInv /\ BootInv BY ZenonT(60) DEF IInv, OpInv
<1>c. \A i \in 1..Len(lh) :
        LogAddr(i) \in Addrs \ Home /\ lh[i] \in Home /\ lh[i] \in Addrs
  BY ZenonT(60), <1>a, InstallAddr DEF IInv
<1>d. Recovered = Rec(disk, head) /\ Recovered' = Rec(disk', head')
  BY ZenonT(60), RecIs
<1>e. SUFFICES ASSUME ~(Recovered' = Recovered /\ Cur' = Cur /\ outstanding' = outstanding)
               PROVE  Tx!Next
  BY ZenonT(60) DEF Tx!txvars, Cur
<1> USE DEF TypeOK
<1>1. ASSUME NEW p \in Procs, BeginOp(p) PROVE Tx!Next
  <2>1. UNCHANGED <<head, disk, cache, boot>> /\ outstanding' = outstanding + 1
    BY ZenonT(60), <1>1 DEF BeginOp
  <2>2. Recovered' = Recovered /\ Cur' = Cur
    BY ZenonT(60), <2>1, <1>d DEF Cur
  <2>3. Tx!Begin
    BY ZenonT(60), <2>1, <2>2 DEF Tx!Begin, Cur
  <2>4. QED
    BY ZenonT(60), <2>3 DEF Tx!Next
<1>2. ASSUME NEW p \in Procs, BeginSleep(p) PROVE Tx!Next
  <2>1. UNCHANGED <<head, disk, cache, boot, outstanding>>
    BY ZenonT(60), <1>2 DEF BeginSleep
  <2>2. QED
    BY ZenonT(60), <2>1, <1>d, <1>e DEF Cur
<1>3. ASSUME NEW p \in Procs, NEW a \in Home, NEW v \in Vals, Modify(p, a, v)
      PROVE  Tx!Next
  <2>1. /\ UNCHANGED <<head, disk, boot, outstanding>> /\ boot = "ready"
        /\ cache' = [cache EXCEPT ![a] = v]
    BY ZenonT(60), <1>3, <1>b, OpAlone DEF Modify, OpPCs
  <2>2. outstanding > 0
    BY SMTT(60), <1>3, <1>a, <1>b, ActiveCounted DEF Modify, Active, OpPCs
  <2>3. Recovered' = Recovered
    BY Zenon, <2>1, <1>d
  <2>4. Cur' = [Cur EXCEPT ![a] = v]
    BY ZenonT(60), <2>1, <1>a, HomeFacts DEF Cur
  <2>5. Tx!Write(a, v)
    BY ZenonT(60), <2>1, <2>2, <2>3, <2>4 DEF Tx!Write, Cur
  <2>6. QED
    BY ZenonT(60), <2>5 DEF Tx!Next
<1>4. ASSUME NEW p \in Procs, LogCheck(p) PROVE Tx!Next
  <2>1. UNCHANGED <<head, disk, cache, boot, outstanding>>
    BY ZenonT(60), <1>4 DEF LogCheck
  <2>2. QED
    BY Zenon, <2>1, <1>d, <1>e DEF Cur
<1>5. ASSUME NEW p \in Procs, LogWrite(p) PROVE Tx!Next
  <2>1. UNCHANGED <<head, disk, cache, boot, outstanding>>
    BY ZenonT(60), <1>5 DEF LogWrite
  <2>2. QED
    BY Zenon, <2>1, <1>d, <1>e DEF Cur
<1>6. ASSUME NEW p \in Procs, EndOp(p) PROVE Tx!Next
  <2>1. UNCHANGED <<head, disk, cache, boot>> /\ outstanding' = outstanding - 1
    BY ZenonT(60), <1>6 DEF EndOp
  <2>2. Recovered' = Recovered /\ Cur' = Cur
    BY ZenonT(60), <2>1, <1>d DEF Cur
  <2>3. outstanding > 0
    BY SMTT(60), <1>6, <1>a, <1>b, ActiveCounted DEF EndOp, Active, OpPCs
  <2>4. Tx!End
    BY Zenon, <2>1, <2>2, <2>3 DEF Tx!End, Cur
  <2>5. QED
    BY ZenonT(60), <2>4 DEF Tx!Next
<1>7. ASSUME NEW p \in Procs, WriteLog(p) PROVE Tx!Next
  <2>1. /\ tail \in 1..Len(lh) /\ boot = "ready" /\ head = <<>>
        /\ UNCHANGED <<head, lh, boot, outstanding>>
    BY SMTT(60), <1>7, <1>a, <1>b, CommitAlone DEF WriteLog, CommitInv, CommitPCs
  <2>2. \A b \in Home : disk'[b] = disk[b] /\ cache'[b] = cache[b]
    BY SMTT(60), <1>7, <2>1, <1>a, <1>c, HomeFacts DEF WriteLog
  <2>3. Recovered' = Recovered
    BY SMTT(60), <2>1, <2>2, <1>d DEF Rec
  <2>4. Cur' = Cur
    BY ZenonT(60), <2>1, <2>2, <2>3 DEF Cur
  <2>5. QED
    BY ZenonT(60), <2>1, <2>3, <2>4, <1>e
<1>8. ASSUME NEW p \in Procs, WriteHead(p) PROVE Tx!Next
  <2>1. /\ boot = "ready" /\ head' = lh /\ lh' = lh /\ LogHolds(Len(lh))
        /\ Distinct(lh)
        /\ UNCHANGED <<disk, cache, boot, outstanding>>
    BY ZenonT(60), <1>8, <1>a, <1>b, CommitAlone DEF WriteHead, CommitInv, CommitPCs,
       CacheInv
  <2>2. outstanding = 0
    BY ZenonT(60), <1>8, <1>b, CommitAlone, <1>a, ActiveCounted DEF WriteHead, Active,
       CommitPCs
  <2>3. ASSUME NEW b \in Home PROVE Recovered'[b] = cache[b]
    <3>1. CASE InLog(b)
      <4>1. PICK i \in 1..Len(lh) : lh[i] = b
        BY ZenonT(60), <3>1 DEF InLog
      <4>2. Rec(disk, lh)[b] = disk[LogAddr(i)]
        BY SMTT(60), <2>1, <4>1, RecAt
      <4>3. disk[LogAddr(i)] = cache[b]
        BY ZenonT(60), <2>1, <4>1 DEF LogHolds
      <4>4. QED
        BY Zenon, <1>d, <2>1, <4>2, <4>3
    <3>2. CASE ~InLog(b)
      <4>1. Recovered'[b] = disk[b]
        BY SMTT(60), <3>2, <2>1, <1>d, RecAt DEF InLog
      <4>2. b \notin dirty /\ \A q \in Procs : blk[q] # b
        BY SMTT(60), <1>8, <3>2, <1>a, <1>b, CommitAlone, HomeFacts DEF CacheInv,
           WriteHead, CommitPCs
      <4>3. QED
        BY ZenonT(60), <4>1, <4>2, <2>1, <1>b DEF CacheInv
    <3>3. QED
      BY ZenonT(60), <3>1, <3>2
  <2>4. Recovered' = Cur /\ Cur' = Cur
    <3>1. Cur = [b \in Home |-> cache[b]] /\ Cur' = Cur
      BY ZenonT(60), <2>1 DEF Cur
    <3>2. Recovered' = [b \in Home |-> Recovered'[b]]
      BY ZenonT(60), <1>d DEF Rec
    <3>3. QED
      BY ZenonT(60), <3>1, <3>2, <2>3
  <2>5. Tx!Commit
    BY ZenonT(60), <2>1, <2>2, <2>4 DEF Tx!Commit, Cur
  <2>6. QED
    BY ZenonT(60), <2>5 DEF Tx!Next
<1>9. ASSUME NEW p \in Procs, Install(p) PROVE Tx!Next
  <2>1. /\ tail \in 1..Len(lh) /\ boot = "ready" /\ head = lh
        /\ LogHolds(Len(lh)) /\ Distinct(lh)
        /\ UNCHANGED <<head, lh, boot, outstanding>>
    BY SMTT(60), <1>9, <1>a, <1>b, CommitAlone DEF Install, InstallOne, CommitInv,
       CommitPCs, CacheInv
  <2>2. cache' = cache
    BY SMTT(60), <1>9, <2>1, <1>a, <1>c DEF Install, InstallOne, LogHolds
  <2>3. Recovered' = Recovered
    BY ZenonT(60), <1>9, <2>1, InstallKeeps, <1>a, <1>c, <1>d DEF Install
  <2>4. Cur' = Cur
    BY ZenonT(60), <2>1, <2>2, <2>3 DEF Cur
  <2>5. QED
    BY ZenonT(60), <2>1, <2>3, <2>4, <1>e
<1>10. ASSUME NEW p \in Procs, EraseHead(p) PROVE Tx!Next
  <2>1. /\ boot = "ready" /\ head = lh /\ LogHolds(Len(lh)) /\ Distinct(lh)
        /\ dirty = {}
        /\ UNCHANGED <<disk, cache, boot, outstanding>> /\ head' = <<>>
    BY ZenonT(60), <1>10, <1>a, <1>b, CommitAlone DEF EraseHead, CommitInv, CommitPCs,
       CacheInv
  <2>2. \A b \in Home : cache[b] = disk[b]
    BY SMTT(60), <1>10, <2>1, <1>a, <1>b, CommitAlone, HomeFacts DEF EraseHead, CacheInv,
       CommitPCs
  <2>3. ASSUME NEW b \in Home PROVE Recovered[b] = disk[b] /\ Recovered'[b] = disk[b]
    <3>1. Recovered'[b] = disk[b]
      BY SMTT(60), <2>1, <1>d DEF Rec
    <3>2. CASE InLog(b)
      <4>1. PICK i \in 1..Len(lh) : lh[i] = b
        BY Zenon, <3>2 DEF InLog
      <4>2. Rec(disk, lh)[b] = disk[LogAddr(i)]
        BY SMTT(60), <2>1, <4>1, RecAt
      <4>3. disk[LogAddr(i)] = cache[b]
        BY ZenonT(60), <2>1, <4>1 DEF LogHolds
      <4>4. QED
        BY ZenonT(60), <1>d, <2>1, <2>2, <3>1, <4>2, <4>3
    <3>3. CASE ~InLog(b)
      BY SMTT(60), <3>1, <3>3, <2>1, <1>d, RecAt DEF InLog
    <3>4. QED
      BY ZenonT(60), <3>2, <3>3
  <2>4. Recovered' = Recovered
    <3>1. \A a \in Home : Rec(disk', head')[a] = Rec(disk, head)[a]
      BY ZenonT(60), <2>3, <1>d
    <3>2. PICK d, h : d = disk' /\ h = head'
      BY Zenon
    <3>3. Rec(d, h) = Rec(disk, head)
      <4>1. \A a \in Home : Rec(d, h)[a] = Rec(disk, head)[a]
        BY <3>1, <3>2, Zenon
      <4>2. QED
        BY <4>1, RecSame, SMTT(60)
    <3>4. QED
      BY <1>d, <3>2, <3>3, Zenon
  <2>5. Cur' = Cur
    BY ZenonT(60), <2>1, <2>4 DEF Cur
  <2>6. QED
    BY ZenonT(60), <2>1, <2>4, <2>5, <1>e
<1>11. ASSUME NEW p \in Procs, Committed(p) PROVE Tx!Next
  <2>1. UNCHANGED <<head, disk, cache, boot, outstanding>>
    BY ZenonT(60), <1>11 DEF Committed
  <2>2. QED
    BY Zenon, <2>1, <1>d, <1>e DEF Cur
<1>12. ASSUME NEW a \in Home, Evict(a) PROVE Tx!Next
  <2>1. cache' = cache /\ UNCHANGED <<head, disk, boot, outstanding>>
    BY ZenonT(60), <1>12, <1>a, <1>b, HomeFacts DEF Evict, CacheInv, mem
  <2>2. QED
    BY ZenonT(60), <2>1, <1>d, <1>e DEF Cur
<1>13. CASE Crash
  <2>1. UNCHANGED <<head, disk>> /\ outstanding' = 0 /\ boot' # "ready"
    BY ZenonT(60), <1>13 DEF Crash
  <2>2. Recovered' = Recovered /\ Cur' = Recovered
    BY ZenonT(60), <2>1, <1>d DEF Cur
  <2>3. Tx!Crash
    BY ZenonT(60), <2>1, <2>2 DEF Tx!Crash, Cur
  <2>4. QED
    BY ZenonT(60), <2>3 DEF Tx!Next
<1>14. CASE ReadHead
  <2>1. /\ UNCHANGED <<head, disk, outstanding>> /\ boot # "ready"
        /\ boot' # "ready"
    BY ZenonT(60), <1>14 DEF ReadHead, mem
  <2>2. QED
    BY ZenonT(60), <2>1, <1>d, <1>e DEF Cur
<1>15. CASE RecoverInstall
  <2>1. /\ tail \in 1..Len(lh) /\ boot # "ready" /\ boot' # "ready" /\ head = lh
        /\ Distinct(lh)
        /\ UNCHANGED <<head, lh, outstanding>>
    BY SMTT(60), <1>15, <1>a, <1>b DEF RecoverInstall, InstallOne, BootInv, CacheInv, mem
  <2>2. Recovered' = Recovered
    BY Zenon, <1>15, <2>1, InstallKeeps, <1>a, <1>c, <1>d DEF RecoverInstall
  <2>3. QED
    BY ZenonT(60), <2>1, <2>2, <1>e DEF Cur
<1>16. CASE RecoverErase
  <2>1. /\ boot = "erase" /\ boot' = "ready" /\ head = lh /\ Distinct(lh)
        /\ cache = disk
        /\ UNCHANGED <<disk, cache, outstanding>> /\ head' = <<>>
        /\ \A i \in 1..Len(lh) : disk[lh[i]] = disk[LogAddr(i)]
    BY ZenonT(60), <1>16, <1>a, <1>b DEF RecoverErase, BootInv, CacheInv, mem
  <2>2. ASSUME NEW b \in Home PROVE Recovered[b] = disk[b] /\ Recovered'[b] = disk[b]
    <3>1. Recovered'[b] = disk[b]
      BY SMTT(60), <2>1, <1>d DEF Rec
    <3>2. CASE InLog(b)
      BY SMTT(60), <3>1, <3>2, <2>1, <1>c, <1>d, RecAt DEF InLog
    <3>3. CASE ~InLog(b)
      BY ZenonT(60), <3>1, <3>3, <2>1, <1>d, RecAt DEF InLog
    <3>4. QED
      BY ZenonT(60), <3>2, <3>3
  <2>3. Recovered' = Recovered
    <3>1. \A a \in Home : Rec(disk', head')[a] = Rec(disk, head)[a]
      BY Zenon, <2>2, <1>d
    <3>2. PICK d, h : d = disk' /\ h = head'
      BY Zenon
    <3>3. Rec(d, h) = Rec(disk, head)
      <4>1. \A a \in Home : Rec(d, h)[a] = Rec(disk, head)[a]
        BY <3>1, <3>2, Zenon
      <4>2. QED
        BY <4>1, RecSame, SMTT(60)
    <3>4. QED
      BY <1>d, <3>2, <3>3, Zenon
  <2>4. Cur' = Cur
    <3>1. Cur' = [b \in Home |-> cache'[b]] /\ Cur = Recovered
      BY Zenon, <2>1 DEF Cur
    <3>2. QED
      BY SMTT(60), <3>1, <2>1, <2>2, <1>d DEF Rec
  <2>5. QED
    BY Zenon, <2>1, <2>3, <2>4, <1>e
<1>17. CASE UNCHANGED vars
  <2>1. UNCHANGED <<head, disk, cache, boot, outstanding>>
    BY Zenon, <1>17 DEF vars
  <2>2. QED
    BY Zenon, <2>1, <1>d, <1>e DEF Cur
<1>18. QED
  BY Zenon, <1>1, <1>2, <1>3, <1>4, <1>5, <1>6, <1>7, <1>8, <1>9, <1>10, <1>11, <1>12,
     <1>13, <1>14, <1>15, <1>16, <1>17
     DEF Next, OpStep, CommitStep, Recovery

(* The log is a transactional disk: a crash at any point, recovery          *)
(* included, leaves the contents of the last commit, and a commit takes in  *)
(* whole operations only.                                                   *)
THEOREM LogImplementsTxDisk == ASSUME Sized PROVE Spec => TxSpec
<1>1. Init => Tx!Init
  <2>1. SUFFICES ASSUME Init PROVE Tx!Init
    BY Zenon
  <2>2. PICK v0 \in Vals : disk = [a \in Addrs |-> v0]
    BY Zenon, <2>1 DEF Init
  <2>3. Recovered = [a \in Home |-> v0] /\ Cur = Recovered
    BY SMTT(60), <2>1, <2>2, HomeFacts DEF Init, Recovered, Cur
  <2>4. QED
    BY Zenon, <2>1, <2>3 DEF Init, Tx!Init, Cur
<1>2. IInv /\ [Next]_vars => [Tx!Next]_(Tx!txvars)
  BY Zenon, TxStep
<1>3. QED
  BY <1>1, <1>2, IInvHolds, PTL DEF Spec, TxSpec, Tx!Spec

=============================================================================
