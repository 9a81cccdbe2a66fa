----------------------------- MODULE PipeProofs -----------------------------
(***************************************************************************)
(* The safety properties of Pipe, for any number of processes, any ring    *)
(* size and any width of the counters that the ring size divides, and that *)
(* the pipe implements Fifo.                                               *)
(***************************************************************************)
EXTENDS Pipe, SequenceTheorems, TLAPS

(* Where a process holds p->lock.                                           *)
Holding == {"writing", "wfull", "reading", "rempty", "copying"}

LockInv == \A p \in Procs : pc[p] \in Holding <=> lock = p

(* An end stays open as long as a process holds a descriptor of it or is on *)
(* its way to pipeclose(), and the last pipeclose() alone frees the page.   *)
EndsInv ==
  /\ wfd \subseteq Writers
  /\ \A p \in Procs : /\ pc[p] \in InWrite => p \in wfd
                      /\ pc[p] \in InRead => p \in rfd
  /\ rfd # {} => readopen
  /\ wfd # {} => writeopen
  /\ \A p \in Procs : /\ pc[p] = "rclose" => readopen /\ rfd = {}
                      /\ pc[p] = "wclose" => writeopen /\ wfd = {}
                      /\ pc[p] = "kfree" => ~readopen /\ ~writeopen /\ kfrees = 0
  /\ \A p, q \in Procs : pc[p] = pc[q] /\ pc[p] \in {"rclose", "wclose", "kfree"} => p = q
  /\ kfrees \in {0, 1}
  /\ kfrees = 1 => ~readopen /\ ~writeopen /\ \A p \in Procs : pc[p] # "kfree"

(* Bytes in the ring.                                                       *)
Count == (nwrite - nread) % Wrap

(* A writer that was killed may return with the ring full and wake nobody.  *)
WriterKilled == \E q \in Kills \cap Writers : killed[q]

(* A sleeper has a reason, or the holder of the lock is about to wake it.   *)
WakeInv ==
  /\ \A p \in Procs : killed[p] => p \in Kills
  /\ \A p \in Procs :
       /\ pc[p] = "rsleep" => /\ writeopen
                              /\ Empty \/ WriterKilled \/ \E q \in Procs : pc[q] = "writing"
       /\ pc[p] = "wsleep" => readopen /\ (Full \/ \E q \in Procs : pc[q] = "copying")
       /\ pc[p] = "wfull" => Full /\ readopen /\ \A q \in Procs : pc[q] # "rsleep"
       /\ pc[p] = "rempty" => Empty /\ writeopen

(* What a call has left to write, or has read so far.                       *)
CallInv ==
  /\ Count <= PIPESIZE
  /\ \A p \in Procs :
       /\ pc[p] \notin InWrite => todo[p] = <<>>
       /\ pc[p] # "copying" => addr[p] = <<>>
       /\ pc[p] \in InRead => n[p] > 0
       /\ pc[p] = "copying" /\ addr[p] = <<>> => ~Empty \/ ~writeopen

IInv == TypeOK /\ LockInv /\ EndsInv /\ WakeInv /\ CallInv

-----------------------------------------------------------------------------
USE DEF None

(* Arithmetic of %.                                                         *)
LEMMA ModUnique ==
  ASSUME NEW a \in Int, NEW b \in Nat \ {0}, NEW q \in Int, NEW r \in 0..b-1, a = q * b + r
  PROVE  a % b = r
BY SMTT(60)

(* A number is its quotient times the divisor plus its remainder.           *)
LEMMA ModQuotient ==
  ASSUME NEW a \in Int, NEW b \in Nat \ {0}
  PROVE  \E q \in Int, r \in 0..b-1 : a = q * b + r /\ r = a % b
<1>1. PICK q \in Int : q = a \div b
  BY SMTT(60)
<1>2. PICK r \in 0..b-1 : r = a % b
  BY SMTT(60)
<1>3. a = q * b + r
  BY SMTT(60), <1>1, <1>2
<1>4. QED
  BY Zenon, <1>2, <1>3

(* A multiple of b makes no difference modulo b.                            *)
LEMMA ModShift ==
  ASSUME NEW a \in Int, NEW b \in Nat \ {0}, NEW m \in Int
  PROVE  (a + m * b) % b = a % b
<1>1. PICK q \in Int, r \in 0..b-1 : a = q * b + r /\ r = a % b
  BY Zenon, ModQuotient
<1>2. m + q \in Int /\ a + m * b \in Int
  BY SMTT(60)
<1>3. a + m * b = (m + q) * b + r
  BY SMTT(60), <1>1
<1>4. (a + m * b) % b = r
  BY Zenon, <1>2, <1>3, ModUnique
<1>5. QED
  BY Zenon, <1>1, <1>4

(* Numbers closer than b differ modulo b.                                   *)
LEMMA ModDiffer ==
  ASSUME NEW a \in Int, NEW b \in Nat \ {0}, NEW k \in 1..b-1
  PROVE  (a + k) % b # a % b
<1>1. SUFFICES ASSUME (a + k) % b = a % b PROVE FALSE
  BY Zenon
<1>2. PICK q \in Int, x \in 0..b-1 : a = q * b + x /\ x = a % b
  BY Zenon, ModQuotient
<1>3. PICK r \in Int, y \in 0..b-1 : a + k = r * b + y /\ y = (a + k) % b
  <2>1. a + k \in Int
    BY SMTT(60)
  <2>2. QED
    BY Zenon, <2>1, ModQuotient
<1>4. x = y
  BY Zenon, <1>1, <1>2, <1>3
<1>5. k = (r - q) * b
  BY SMTT(60), <1>2, <1>3, <1>4
<1>6. r - q \in Int
  BY SMTT(60)
<1>7. CASE r - q <= 0
  <2>1. (r - q) * b <= 0
    BY SMTT(60), <1>6, <1>7
  <2>2. QED
    BY SMTT(60), <2>1, <1>5
<1>8. CASE r - q >= 1
  <2>1. (r - q) * b >= b
    BY SMTT(60), <1>6, <1>8
  <2>2. QED
    BY SMTT(60), <2>1, <1>5
<1>9. QED
  BY SMTT(60), <1>6, <1>7, <1>8

(* The counters wrap at a multiple of the ring size: an index is the same   *)
(* before and after.                                                        *)
LEMMA IndexWraps ==
  ASSUME NEW x \in Int
  PROVE  /\ (x % Wrap) % PIPESIZE = x % PIPESIZE
         /\ x % PIPESIZE \in 0..PIPESIZE-1
         /\ (x + Wrap) % PIPESIZE = x % PIPESIZE
<1>1. PICK m \in Int : Wrap = m * PIPESIZE
  <2>a. Wrap \in Int /\ PIPESIZE \in Nat \ {0}
    BY SMTT(60), PipeAssumption
  <2>1. PICK q \in Int, r \in 0..PIPESIZE-1 : Wrap = q * PIPESIZE + r /\ r = Wrap % PIPESIZE
    BY Zenon, <2>a, ModQuotient
  <2>2. r = 0
    BY Zenon, <2>1, PipeAssumption
  <2>3. QED
    BY SMTT(60), <2>a, <2>1, <2>2
<1>2. PICK q \in Int, r \in 0..Wrap-1 : x = q * Wrap + r /\ r = x % Wrap
  BY SMTT(60), ModQuotient, PipeAssumption
<1>3. r \in Int /\ PIPESIZE \in Nat \ {0} /\ q * m \in Int
  BY SMTT(60), PipeAssumption
<1>4. x = r + (q * m) * PIPESIZE
  BY SMTT(60), <1>1, <1>2, <1>3
<1>5. (r + (q * m) * PIPESIZE) % PIPESIZE = r % PIPESIZE
  BY Zenon, <1>3, ModShift
<1>6. (x + m * PIPESIZE) % PIPESIZE = x % PIPESIZE
  BY Zenon, <1>3, ModShift
<1>7. QED
  BY Zenon, <1>1, <1>2, <1>3, <1>4, <1>5, <1>6, ModQuotient

(* Count is the distance from nread to nwrite on the circle of uints, and   *)
(* the tests of the code are Count = 0 and Count = PIPESIZE.                *)
LEMMA CountFacts ==
  ASSUME NEW r \in 0..Wrap-1, NEW w \in 0..Wrap-1
  PROVE  /\ (w - r) % Wrap = IF w >= r THEN w - r ELSE w - r + Wrap
         /\ (w - r) % Wrap \in 0..Wrap-1
         /\ r = w <=> (w - r) % Wrap = 0
         /\ w = (r + PIPESIZE) % Wrap <=> (w - r) % Wrap = PIPESIZE
<1>1. (w - r) % Wrap = IF w >= r THEN w - r ELSE w - r + Wrap
  BY SMTT(60), PipeAssumption
<1>2. (r + PIPESIZE) % Wrap = IF r + PIPESIZE < Wrap THEN r + PIPESIZE ELSE r + PIPESIZE - Wrap
  BY SMTT(60), PipeAssumption
<1>3. QED
  BY SMTT(60), <1>1, <1>2, PipeAssumption

(* One more byte, and one byte less.                                        *)
LEMMA CountMoves ==
  ASSUME NEW r \in 0..Wrap-1, NEW w \in 0..Wrap-1,
         NEW x, x = (r + 1) % Wrap, NEW y, y = (w + 1) % Wrap
  PROVE  /\ x \in 0..Wrap-1 /\ (x = r + 1 \/ x = r + 1 - Wrap)
         /\ y \in 0..Wrap-1 /\ (y = w + 1 \/ y = w + 1 - Wrap)
         /\ (w - r) % Wrap < PIPESIZE => (y - r) % Wrap = ((w - r) % Wrap) + 1
         /\ r # w => (w - x) % Wrap = ((w - r) % Wrap) - 1
<1>1. /\ x = (IF r + 1 < Wrap THEN r + 1 ELSE 0)
      /\ y = (IF w + 1 < Wrap THEN w + 1 ELSE 0)
  BY SMTT(60), PipeAssumption
<1>2. x \in 0..Wrap-1 /\ y \in 0..Wrap-1
  BY SMTT(60), <1>1, PipeAssumption
<1>3. (w - r) % Wrap = IF w >= r THEN w - r ELSE w - r + Wrap
  BY Zenon, CountFacts
<1>4. (y - r) % Wrap = IF y >= r THEN y - r ELSE y - r + Wrap
  BY Zenon, <1>2, CountFacts
<1>5. (w - x) % Wrap = IF w >= x THEN w - x ELSE w - x + Wrap
  BY Zenon, <1>2, CountFacts
<1>6. (w - r) % Wrap < PIPESIZE => (y - r) % Wrap = ((w - r) % Wrap) + 1
  BY SMTT(60), <1>1, <1>3, <1>4, PipeAssumption
<1>7. r # w => (w - x) % Wrap = ((w - r) % Wrap) - 1
  BY SMTT(60), <1>1, <1>3, <1>5, PipeAssumption
<1>8. QED
  BY SMTT(60), <1>1, <1>2, <1>6, <1>7, PipeAssumption

(* Every step keeps the types.                                              *)
LEMMA TypeStep ==
  ASSUME IInv, [Next]_vars
  PROVE  TypeOK'
<1>a. TypeOK BY Zenon DEF IInv
<1> USE DEF TypeOK, PCs
<1>1. ASSUME NEW p \in Procs, NEW bytes \in Bytes, CallWrite(p, bytes)
      PROVE  TypeOK'
  <2>1. bytes \in Seq(Vals)
    BY SMTT(60), PipeAssumption DEF Bytes
  <2>2. QED
    BY Zenon, <1>1, <2>1, <1>a DEF CallWrite, SetPc, ring
<1>2. ASSUME NEW p \in Procs, NEW k \in 1..MaxLen, CallRead(p, k) PROVE TypeOK'
  <2>1. k \in Nat
    BY SMTT(60), PipeAssumption
  <2>2. QED
    BY Zenon, <1>2, <2>1, <1>a DEF CallRead, SetPc, ring
<1>3. ASSUME NEW p \in Procs, Acquire(p) PROVE TypeOK'
  BY Zenon, <1>3, <1>a DEF Acquire, SetPc, ring
<1>4. ASSUME NEW p \in Procs, PutByte(p) PROVE TypeOK'
  <2>1. nwrite % PIPESIZE \in 0..PIPESIZE-1 /\ nwrite' \in 0..Wrap-1
    BY SMTT(60), <1>4, <1>a, PipeAssumption DEF PutByte
  <2>2. Head(todo[p]) \in Vals /\ Tail(todo[p]) \in Seq(Vals)
    BY SMTT(60), <1>4, <1>a DEF PutByte
  <2>3. QED
    BY Zenon, <1>4, <2>1, <2>2, <1>a DEF PutByte
<1>5. ASSUME NEW p \in Procs, WriteFull(p) PROVE TypeOK'
  <2>1. /\ UNCHANGED <<data, nread, nwrite, readopen, writeopen, rfd, wfd, kfrees, killed, addr, n>>
        /\ \/ /\ lock' = None /\ todo' = [todo EXCEPT ![p] = <<>>]
              /\ pc' = [pc EXCEPT ![p] = "user"]
           \/ /\ UNCHANGED <<lock, todo>>
              /\ pc' = [q \in Procs |-> IF q = p THEN "wfull"
                                        ELSE IF pc[q] = "rsleep" THEN "read" ELSE pc[q]]
    BY Zenon, <1>5 DEF WriteFull, SetPc, ring, WakeReaders, WakeAndSet
  <2>2. pc[p] = "writing"
    BY Zenon, <1>5 DEF WriteFull
  <2>3. lock' \in Procs \cup {None}
    BY ZenonT(60), <2>1, <1>a
  <2>4. todo' \in [Procs -> Seq(Vals)]
    <3>1. todo' = todo \/ todo' = [todo EXCEPT ![p] = <<>>]
      BY Zenon, <2>1
    <3>2. todo \in [Procs -> Seq(Vals)] /\ <<>> \in Seq(Vals)
      BY SMTT(60), <1>a
    <3>3. QED
      BY Zenon, <3>1, <3>2
  <2>5. pc' \in [Procs -> PCs]
    BY Zenon, <2>1, <1>a
  <2>6. QED
    BY ZenonT(60), <2>1, <2>3, <2>4, <2>5, <1>a
<1>6. ASSUME NEW p \in Procs, WriteDone(p) PROVE TypeOK'
  BY Zenon, <1>6, <1>a DEF WriteDone, ring, WakeReaders, WakeAndSet
<1>7. ASSUME NEW p \in Procs, Sleep(p) PROVE TypeOK'
  BY ZenonT(60), <1>7, <1>a DEF Sleep, SetPc, ring
<1>8. ASSUME NEW p \in Procs, ReadEmpty(p) PROVE TypeOK'
  <2>1. /\ UNCHANGED <<data, nread, nwrite, readopen, writeopen, rfd, wfd, kfrees, killed, todo, addr>>
        /\ \/ /\ lock' = None /\ n' = [n EXCEPT ![p] = 0]
              /\ pc' = [pc EXCEPT ![p] = "user"]
           \/ UNCHANGED <<lock, n>> /\ pc' = [pc EXCEPT ![p] = "rempty"]
    BY ZenonT(60), <1>8 DEF ReadEmpty, SetPc, ring
  <2>2. pc[p] = "reading"
    BY ZenonT(60), <1>8 DEF ReadEmpty
  <2>3. lock' \in Procs \cup {None}
    BY ZenonT(60), <2>1, <1>a
  <2>4. n' \in [Procs -> Nat]
    <3>1. n' = n \/ n' = [n EXCEPT ![p] = 0]
      BY Zenon, <2>1
    <3>2. QED
      BY SMTT(60), <3>1, <1>a
  <2>5. pc' \in [Procs -> PCs]
    BY Zenon, <2>1, <1>a
  <2>6. QED
    BY ZenonT(60), <2>1, <2>3, <2>4, <2>5, <1>a
<1>9. ASSUME NEW p \in Procs, ReadStart(p) PROVE TypeOK'
  BY ZenonT(60), <1>9, <1>a DEF ReadStart, SetPc, ring
<1>10. ASSUME NEW p \in Procs, GetByte(p) PROVE TypeOK'
  <2>1. nread % PIPESIZE \in 0..PIPESIZE-1 /\ nread' \in 0..Wrap-1
    BY SMTT(60), <1>10, <1>a, PipeAssumption DEF GetByte
  <2>2. data[nread % PIPESIZE] \in Vals
    BY Zenon, <2>1, <1>a
  <2>3. Append(addr[p], data[nread % PIPESIZE]) \in Seq(Vals)
    BY SMTT(60), <2>2, <1>a
  <2>4. QED
    BY ZenonT(60), <1>10, <2>1, <2>3, <1>a DEF GetByte
<1>11. ASSUME NEW p \in Procs, ReadDone(p) PROVE TypeOK'
  BY SMTT(60), <1>11, <1>a DEF ReadDone, ring, WakeWriters, WakeAndSet
<1>12. ASSUME NEW p \in Procs, CloseRead(p) PROVE TypeOK'
  BY Zenon, <1>12, <1>a DEF CloseRead, SetPc, ring
<1>13. ASSUME NEW p \in Procs, CloseWrite(p) PROVE TypeOK'
  BY ZenonT(60), <1>13, <1>a DEF CloseWrite, SetPc, ring
<1>14. ASSUME NEW p \in Procs, PipeClose(p) PROVE TypeOK'
  <2>1. readopen' \in BOOLEAN /\ writeopen' \in BOOLEAN
    BY ZenonT(60), <1>14 DEF PipeClose
  <2>2. pc' \in [Procs -> PCs]
    BY SMTT(60), <1>14, <1>a DEF PipeClose, WakeReaders, WakeWriters, WakeAndSet
  <2>3. QED
    BY ZenonT(60), <1>14, <2>1, <2>2, <1>a DEF PipeClose, ring
<1>15. ASSUME NEW p \in Procs, Kfree(p) PROVE TypeOK'
  <2>1. kfrees' \in Nat
    BY SMTT(60), <1>15, <1>a DEF Kfree
  <2>2. QED
    BY Zenon, <1>15, <2>1, <1>a DEF Kfree, SetPc, ring
<1>16. ASSUME NEW p \in Kills, p \in Procs, Kill(p) PROVE TypeOK'
  BY Zenon, <1>16, <1>a DEF Kill, ring
<1>17. CASE UNCHANGED vars
  BY ZenonT(60), <1>17, <1>a DEF vars
<1>18. QED
  BY ZenonT(60), <1>1, <1>2, <1>3, <1>4, <1>5, <1>6, <1>7, <1>8, <1>9, <1>10, <1>11,
     <1>12, <1>13, <1>14, <1>15, <1>16, <1>17, PipeAssumption
     DEF Next, KernelStep, UserStep

(* Every step keeps p->lock with the process that holds it.                 *)
LEMMA LockStep ==
  ASSUME IInv, [Next]_vars
  PROVE  LockInv'
<1>a. TypeOK /\ LockInv BY Zenon DEF IInv
<1>b. \A q \in Procs : q # None BY Zenon, NoneAssumption
<1> USE DEF TypeOK, PCs, LockInv, Holding
<1>1. ASSUME NEW p \in Procs, NEW bytes \in Bytes, CallWrite(p, bytes)
      PROVE  LockInv'
  BY ZenonT(60), <1>1, <1>a, <1>b DEF CallWrite, SetPc
<1>2. ASSUME NEW p \in Procs, NEW k \in 1..MaxLen, CallRead(p, k) PROVE LockInv'
  BY ZenonT(60), <1>2, <1>a, <1>b DEF CallRead, SetPc
<1>3. ASSUME NEW p \in Procs, Acquire(p) PROVE LockInv'
  BY ZenonT(60), <1>3, <1>a, <1>b DEF Acquire, SetPc
<1>4. ASSUME NEW p \in Procs, PutByte(p) PROVE LockInv'
  BY ZenonT(60), <1>4, <1>a, <1>b DEF PutByte, WakeReaders, WakeWriters, WakeAndSet, SetPc
<1>5. ASSUME NEW p \in Procs, WriteFull(p) PROVE LockInv'
  BY SMTT(60), <1>5, <1>a, <1>b
     DEF WriteFull, WakeReaders, WakeWriters, WakeAndSet, SetPc
<1>6. ASSUME NEW p \in Procs, WriteDone(p) PROVE LockInv'
  BY Zenon, <1>6, <1>a, <1>b
     DEF WriteDone, WakeReaders, WakeWriters, WakeAndSet, SetPc
<1>7. ASSUME NEW p \in Procs, Sleep(p) PROVE LockInv'
  BY Zenon, <1>7, <1>a, <1>b DEF Sleep, SetPc
<1>8. ASSUME NEW p \in Procs, ReadEmpty(p) PROVE LockInv'
  BY SMTT(60), <1>8, <1>a, <1>b DEF ReadEmpty, SetPc
<1>9. ASSUME NEW p \in Procs, ReadStart(p) PROVE LockInv'
  BY Zenon, <1>9, <1>a, <1>b DEF ReadStart, SetPc
<1>10. ASSUME NEW p \in Procs, GetByte(p) PROVE LockInv'
  BY Zenon, <1>10, <1>a, <1>b DEF GetByte, WakeReaders, WakeWriters, WakeAndSet, SetPc
<1>11. ASSUME NEW p \in Procs, ReadDone(p) PROVE LockInv'
  BY ZenonT(60), <1>11, <1>a, <1>b
     DEF ReadDone, WakeReaders, WakeWriters, WakeAndSet, SetPc
<1>12. ASSUME NEW p \in Procs, CloseRead(p) PROVE LockInv'
  BY ZenonT(60), <1>12, <1>a, <1>b DEF CloseRead, SetPc
<1>13. ASSUME NEW p \in Procs, CloseWrite(p) PROVE LockInv'
  BY ZenonT(60), <1>13, <1>a, <1>b DEF CloseWrite, SetPc
<1>14. ASSUME NEW p \in Procs, PipeClose(p) PROVE LockInv'
  BY SMTT(60), <1>14, <1>a, <1>b
     DEF PipeClose, WakeReaders, WakeWriters, WakeAndSet, SetPc
<1>15. ASSUME NEW p \in Procs, Kfree(p) PROVE LockInv'
  BY Zenon, <1>15, <1>a, <1>b DEF Kfree, SetPc
<1>16. ASSUME NEW p \in Kills, p \in Procs, Kill(p) PROVE LockInv'
  BY ZenonT(60), <1>16, <1>a, <1>b DEF Kill, WakeReaders, WakeWriters, WakeAndSet, SetPc
<1>17. CASE UNCHANGED vars
  BY ZenonT(60), <1>17, <1>a, <1>b DEF vars
<1>18. QED
  BY ZenonT(60), <1>1, <1>2, <1>3, <1>4, <1>5, <1>6, <1>7, <1>8, <1>9, <1>10, <1>11,
     <1>12, <1>13, <1>14, <1>15, <1>16, <1>17, PipeAssumption
     DEF Next, KernelStep, UserStep

(* Every step keeps an end open while it is in use, and the page in place.  *)
LEMMA EndsStep ==
  ASSUME IInv, [Next]_vars
  PROVE  EndsInv'
<1>a. TypeOK /\ EndsInv BY Zenon DEF IInv
<1> USE DEF TypeOK, PCs, EndsInv, InRead, InWrite
<1>1. ASSUME NEW p \in Procs, NEW bytes \in Bytes, CallWrite(p, bytes)
      PROVE  EndsInv'
  BY ZenonT(60), <1>1, <1>a DEF CallWrite, SetPc
<1>2. ASSUME NEW p \in Procs, NEW k \in 1..MaxLen, CallRead(p, k) PROVE EndsInv'
  BY ZenonT(60), <1>2, <1>a DEF CallRead, SetPc
<1>3. ASSUME NEW p \in Procs, Acquire(p) PROVE EndsInv'
  BY ZenonT(60), <1>3, <1>a DEF Acquire, SetPc
<1>4. ASSUME NEW p \in Procs, PutByte(p) PROVE EndsInv'
  BY Zenon, <1>4, <1>a DEF PutByte, WakeReaders, WakeWriters, WakeAndSet, SetPc
<1>5. ASSUME NEW p \in Procs, WriteFull(p) PROVE EndsInv'
  <2>1. /\ UNCHANGED <<data, nread, nwrite, readopen, writeopen, rfd, wfd, kfrees, killed, addr, n>>
        /\ \/ /\ lock' = None /\ todo' = [todo EXCEPT ![p] = <<>>]
              /\ pc' = [pc EXCEPT ![p] = "user"]
           \/ /\ UNCHANGED <<lock, todo>>
              /\ pc' = [q \in Procs |-> IF q = p THEN "wfull"
                                        ELSE IF pc[q] = "rsleep" THEN "read" ELSE pc[q]]
    BY Zenon, <1>5 DEF WriteFull, SetPc, ring, WakeReaders, WakeAndSet
  <2>2. pc[p] = "writing"
    BY Zenon, <1>5 DEF WriteFull
  <2>3. CASE pc' = [pc EXCEPT ![p] = "user"]
    BY SMTT(60), <2>1, <2>2, <2>3, <1>a
  <2>4. CASE pc' = [q \in Procs |-> IF q = p THEN "wfull"
                                  ELSE IF pc[q] = "rsleep" THEN "read" ELSE pc[q]]
    <3>1. UNCHANGED <<readopen, writeopen, rfd, wfd, kfrees>>
      BY Zenon, <2>1
    <3>2. QED
      BY ZenonT(60), <3>1, <2>2, <2>4, <1>a
  <2>5. QED
    BY Zenon, <2>1, <2>3, <2>4
<1>6. ASSUME NEW p \in Procs, WriteDone(p) PROVE EndsInv'
  BY ZenonT(60), <1>6, <1>a DEF WriteDone, WakeReaders, WakeWriters, WakeAndSet, SetPc
<1>7. ASSUME NEW p \in Procs, Sleep(p) PROVE EndsInv'
  BY ZenonT(60), <1>7, <1>a DEF Sleep, SetPc
<1>8. ASSUME NEW p \in Procs, ReadEmpty(p) PROVE EndsInv'
  <2>1. /\ UNCHANGED <<data, nread, nwrite, readopen, writeopen, rfd, wfd, kfrees, killed, todo, addr>>
        /\ \/ /\ lock' = None /\ n' = [n EXCEPT ![p] = 0]
              /\ pc' = [pc EXCEPT ![p] = "user"]
           \/ UNCHANGED <<lock, n>> /\ pc' = [pc EXCEPT ![p] = "rempty"]
    BY Zenon, <1>8 DEF ReadEmpty, SetPc, ring
  <2>2. pc[p] = "reading"
    BY Zenon, <1>8 DEF ReadEmpty
  <2>3. CASE pc' = [pc EXCEPT ![p] = "user"]
    BY SMTT(60), <2>1, <2>2, <2>3, <1>a
  <2>4. CASE pc' = [pc EXCEPT ![p] = "rempty"]
    BY ZenonT(60), <2>1, <2>2, <2>4, <1>a
  <2>5. QED
    BY Zenon, <2>1, <2>3, <2>4
<1>9. ASSUME NEW p \in Procs, ReadStart(p) PROVE EndsInv'
  BY ZenonT(60), <1>9, <1>a DEF ReadStart, SetPc
<1>10. ASSUME NEW p \in Procs, GetByte(p) PROVE EndsInv'
  BY Zenon, <1>10, <1>a DEF GetByte, WakeReaders, WakeWriters, WakeAndSet, SetPc
<1>11. ASSUME NEW p \in Procs, ReadDone(p) PROVE EndsInv'
  BY ZenonT(60), <1>11, <1>a DEF ReadDone, WakeReaders, WakeWriters, WakeAndSet, SetPc
<1>12. ASSUME NEW p \in Procs, CloseRead(p) PROVE EndsInv'
  BY ZenonT(60), <1>12, <1>a DEF CloseRead, SetPc
<1>13. ASSUME NEW p \in Procs, CloseWrite(p) PROVE EndsInv'
  BY ZenonT(60), <1>13, <1>a DEF CloseWrite, SetPc
<1>14. ASSUME NEW p \in Procs, PipeClose(p) PROVE EndsInv'
  <2>1. CASE pc[p] = "rclose"
    <3>1. /\ readopen' = FALSE /\ writeopen' = writeopen /\ rfd = {} /\ readopen
          /\ UNCHANGED <<rfd, wfd, kfrees>>
          /\ pc' = [q \in Procs |-> IF q = p THEN (IF writeopen THEN "user" ELSE "kfree")
                                    ELSE IF pc[q] = "wsleep" THEN "write" ELSE pc[q]]
      BY ZenonT(60), <1>14, <2>1, <1>a DEF PipeClose, WakeWriters, WakeAndSet
    <3>2. QED
      BY ZenonT(60), <2>1, <3>1, <1>a
  <2>2. CASE pc[p] = "wclose"
    <3>1. /\ readopen' = readopen /\ writeopen' = FALSE /\ wfd = {} /\ writeopen
          /\ UNCHANGED <<rfd, wfd, kfrees>>
          /\ pc' = [q \in Procs |-> IF q = p THEN (IF readopen THEN "user" ELSE "kfree")
                                    ELSE IF pc[q] = "rsleep" THEN "read" ELSE pc[q]]
      BY ZenonT(60), <1>14, <2>2, <1>a DEF PipeClose, WakeReaders, WakeAndSet
    <3>2. QED
      BY ZenonT(60), <2>2, <3>1, <1>a
  <2>3. QED
    BY Zenon, <1>14, <2>1, <2>2 DEF PipeClose
<1>15. ASSUME NEW p \in Procs, Kfree(p) PROVE EndsInv'
  BY SMTT(60), <1>15, <1>a DEF Kfree, SetPc
<1>16. ASSUME NEW p \in Kills, p \in Procs, Kill(p) PROVE EndsInv'
  BY ZenonT(60), <1>16, <1>a DEF Kill, WakeReaders, WakeWriters, WakeAndSet, SetPc
<1>17. CASE UNCHANGED vars
  BY ZenonT(60), <1>17, <1>a DEF vars
<1>18. QED
  BY ZenonT(60), <1>1, <1>2, <1>3, <1>4, <1>5, <1>6, <1>7, <1>8, <1>9, <1>10, <1>11,
     <1>12, <1>13, <1>14, <1>15, <1>16, <1>17, PipeAssumption
     DEF Next, KernelStep, UserStep

(* The counters tell an empty ring from a full one.                         *)
LEMMA Tests ==
  ASSUME TypeOK
  PROVE  /\ Count \in 0..Wrap-1 /\ (Empty <=> Count = 0)
         /\ (Full <=> Count = PIPESIZE)
         /\ ~(Empty /\ Full)
<1>1. nread \in 0..Wrap-1 /\ nwrite \in 0..Wrap-1
  BY Zenon DEF TypeOK
<1>2. /\ Count \in 0..Wrap-1
      /\ nread = nwrite <=> Count = 0
      /\ nwrite = (nread + PIPESIZE) % Wrap <=> Count = PIPESIZE
  BY Zenon, <1>1, CountFacts DEF Count
<1>3. QED
  BY Zenon, <1>2, PipeAssumption DEF Empty, Full

(* Every step keeps the reasons to sleep, and who will end one.             *)
LEMMA WakeStep ==
  ASSUME IInv, [Next]_vars
  PROVE  WakeInv'
<1>a. TypeOK /\ LockInv /\ EndsInv /\ WakeInv BY Zenon DEF IInv
<1>b. ~(Empty /\ Full) BY Zenon, <1>a, Tests
<1>c. \A q \in Procs : q # None BY Zenon, NoneAssumption
<1> USE DEF TypeOK, PCs, InRead, InWrite
<1>1. ASSUME NEW p \in Procs, NEW bytes \in Bytes, CallWrite(p, bytes)
      PROVE  WakeInv'
  BY ZenonT(60), <1>1, <1>a DEF CallWrite, WakeInv, SetPc, ring, Empty, Full, WriterKilled
<1>2. ASSUME NEW p \in Procs, NEW k \in 1..MaxLen, CallRead(p, k) PROVE WakeInv'
  BY ZenonT(60), <1>2, <1>a DEF CallRead, WakeInv, SetPc, ring, Empty, Full, WriterKilled
<1>3. ASSUME NEW p \in Procs, Acquire(p) PROVE WakeInv'
  <2>1. \A q \in Procs : pc[q] \notin Holding
    BY ZenonT(60), <1>3, <1>a, <1>c DEF Acquire, LockInv, Holding
  <2>2. QED
    BY ZenonT(60), <1>3, <2>1, <1>a DEF Acquire, SetPc, ring, WakeInv, Empty, Full,
       WriterKilled, Holding
<1>4. ASSUME NEW p \in Procs, PutByte(p) PROVE WakeInv'
  <2>1. pc[p] = "writing" /\ \A q \in Procs : pc[q] \in Holding => q = p
    BY ZenonT(60), <1>4, <1>a DEF PutByte, LockInv, Holding
  <2>2. ~Full /\ UNCHANGED <<pc, killed, readopen, writeopen>>
    BY ZenonT(60), <1>4 DEF PutByte
  <2>3. \A q \in Procs : pc[q] \notin {"wsleep", "wfull", "rempty", "copying"}
    BY ZenonT(60), <2>1, <2>2, <1>a DEF WakeInv, Holding
  <2>4. QED
    BY ZenonT(60), <2>1, <2>2, <2>3, <1>a DEF WakeInv, WriterKilled
<1>5. ASSUME NEW p \in Procs, WriteFull(p) PROVE WakeInv'
  <2>1. pc[p] = "writing" /\ \A q \in Procs : pc[q] \in Holding => q = p
    BY ZenonT(60), <1>5, <1>a DEF WriteFull, LockInv, Holding
  <2>2. Full /\ UNCHANGED <<nread, nwrite, killed, readopen, writeopen>>
    BY ZenonT(60), <1>5 DEF WriteFull, ring
  <2>3. CASE ~readopen
    <3>1. \A q \in Procs : pc[q] # "rsleep"
      BY ZenonT(60), <2>3, <1>a DEF EndsInv
    <3>2. pc' = [pc EXCEPT ![p] = "user"]
      BY ZenonT(60), <1>5, <2>3 DEF WriteFull, SetPc
    <3>3. QED
      BY ZenonT(60), <2>1, <2>2, <3>1, <3>2, <1>a DEF WakeInv, Empty, Full, WriterKilled
  <2>4. CASE readopen /\ killed[p]
    <3>1. WriterKilled /\ WriterKilled'
      BY ZenonT(60), <2>1, <2>2, <2>4, <1>a DEF EndsInv, WakeInv, WriterKilled
    <3>2. pc' = [pc EXCEPT ![p] = "user"]
      BY ZenonT(60), <1>5, <2>4 DEF WriteFull, SetPc
    <3>3. QED
      BY ZenonT(60), <2>1, <2>2, <3>1, <3>2, <1>a DEF WakeInv, Empty, Full
  <2>5. CASE readopen /\ ~killed[p]
    <3>1. pc' = [q \in Procs |-> IF q = p THEN "wfull"
                                 ELSE IF pc[q] = "rsleep" THEN "read" ELSE pc[q]]
      BY ZenonT(60), <1>5, <2>5 DEF WriteFull, WakeReaders, WakeAndSet
    <3>2. QED
      BY ZenonT(60), <2>1, <2>2, <2>5, <3>1, <1>a DEF WakeInv, Empty, Full, WriterKilled,
         Holding
  <2>6. QED
    BY ZenonT(60), <2>3, <2>4, <2>5
<1>6. ASSUME NEW p \in Procs, WriteDone(p) PROVE WakeInv'
  <2>1. pc[p] = "writing" /\ \A q \in Procs : pc[q] \in Holding => q = p
    BY ZenonT(60), <1>6, <1>a DEF WriteDone, LockInv, Holding
  <2>2. QED
    BY ZenonT(60), <1>6, <2>1, <1>a DEF WriteDone, ring, WakeReaders, WakeAndSet, WakeInv,
       Empty, Full, WriterKilled, Holding
<1>7. ASSUME NEW p \in Procs, Sleep(p) PROVE WakeInv'
  <2>1. \A q \in Procs : pc[q] \in Holding => q = p
    BY ZenonT(60), <1>7, <1>a DEF Sleep, LockInv, Holding
  <2>2. UNCHANGED <<nread, nwrite, killed, readopen, writeopen>>
    BY Zenon, <1>7 DEF Sleep, ring
  <2>3. CASE pc[p] = "wfull"
    BY SMTT(60), <1>7, <2>1, <2>2, <2>3, <1>a DEF Sleep, SetPc, WakeInv, Empty, Full,
       WriterKilled, Holding
  <2>4. CASE pc[p] = "rempty"
    BY SMTT(60), <1>7, <2>1, <2>2, <2>4, <1>a DEF Sleep, SetPc, WakeInv, Empty, Full,
       WriterKilled, Holding
  <2>5. QED
    BY ZenonT(60), <1>7, <2>3, <2>4 DEF Sleep
<1>8. ASSUME NEW p \in Procs, ReadEmpty(p) PROVE WakeInv'
  <2>1. pc[p] = "reading" /\ \A q \in Procs : pc[q] \in Holding => q = p
    BY Zenon, <1>8, <1>a DEF ReadEmpty, LockInv, Holding
  <2>2. /\ UNCHANGED <<nread, nwrite, killed, readopen, writeopen>> /\ Empty
        /\ writeopen
        /\ pc' = [pc EXCEPT ![p] = "user"] \/ pc' = [pc EXCEPT ![p] = "rempty"]
    BY Zenon, <1>8 DEF ReadEmpty, ring, SetPc
  <2>3. QED
    BY ZenonT(60), <2>1, <2>2, <1>a DEF WakeInv, Empty, Full, WriterKilled, Holding
<1>9. ASSUME NEW p \in Procs, ReadStart(p) PROVE WakeInv'
  <2>1. pc[p] = "reading" /\ \A q \in Procs : pc[q] \in Holding => q = p
    BY ZenonT(60), <1>9, <1>a DEF ReadStart, LockInv, Holding
  <2>2. QED
    BY Zenon, <1>9, <2>1, <1>a DEF ReadStart, ring, SetPc, WakeInv, Empty, Full,
       WriterKilled, Holding
<1>10. ASSUME NEW p \in Procs, GetByte(p) PROVE WakeInv'
  <2>1. pc[p] = "copying" /\ \A q \in Procs : pc[q] \in Holding => q = p
    BY ZenonT(60), <1>10, <1>a DEF GetByte, LockInv, Holding
  <2>2. ~Empty /\ UNCHANGED <<pc, killed, readopen, writeopen>>
    BY ZenonT(60), <1>10 DEF GetByte
  <2>3. \A q \in Procs : pc[q] \notin {"wfull", "rempty", "writing"}
    BY ZenonT(60), <2>1, <1>a DEF Holding
  <2>4. QED
    BY Zenon, <2>1, <2>2, <2>3, <1>a DEF WakeInv, WriterKilled
<1>11. ASSUME NEW p \in Procs, ReadDone(p) PROVE WakeInv'
  <2>1. pc[p] = "copying" /\ \A q \in Procs : pc[q] \in Holding => q = p
    BY ZenonT(60), <1>11, <1>a DEF ReadDone, LockInv, Holding
  <2>2. QED
    BY Zenon, <1>11, <2>1, <1>a DEF ReadDone, ring, WakeWriters, WakeAndSet, WakeInv,
       Empty, Full, WriterKilled, Holding
<1>12. ASSUME NEW p \in Procs, CloseRead(p) PROVE WakeInv'
  BY Zenon, <1>12, <1>a DEF CloseRead, WakeInv, SetPc, ring, Empty, Full, WriterKilled
<1>13. ASSUME NEW p \in Procs, CloseWrite(p) PROVE WakeInv'
  BY Zenon, <1>13, <1>a
     DEF CloseWrite, WakeInv, SetPc, ring, Empty, Full, WriterKilled
<1>14. ASSUME NEW p \in Procs, PipeClose(p) PROVE WakeInv'
  <2>1. \A q \in Procs : pc[q] \notin Holding
    BY ZenonT(60), <1>14, <1>a, <1>c DEF PipeClose, LockInv, Holding
  <2>2. UNCHANGED <<nread, nwrite, killed>>
    BY Zenon, <1>14 DEF PipeClose, ring
  <2>3. CASE pc[p] = "rclose"
    <3>1. /\ writeopen' = writeopen
          /\ \A q \in Procs : /\ pc'[q] \notin {"wsleep", "wfull", "rempty"}
                              /\ pc'[q] = "rsleep" => pc[q] = "rsleep"
      BY SMTT(60), <1>14, <2>1, <2>3, <1>a DEF PipeClose, WakeWriters, WakeAndSet, Holding
    <3>2. QED
      BY Zenon, <2>1, <2>2, <3>1, <1>a DEF WakeInv, Empty, Full, WriterKilled, Holding
  <2>4. CASE pc[p] = "wclose"
    <3>1. /\ readopen' = readopen
          /\ \A q \in Procs : /\ pc'[q] \notin {"rsleep", "wfull", "rempty"}
                              /\ pc'[q] = "wsleep" => pc[q] = "wsleep"
      BY SMTT(60), <1>14, <2>1, <2>4, <1>a DEF PipeClose, WakeReaders, WakeAndSet, Holding
    <3>2. QED
      BY Zenon, <2>1, <2>2, <3>1, <1>a DEF WakeInv, Empty, Full, WriterKilled, Holding
  <2>5. QED
    BY Zenon, <1>14, <2>3, <2>4 DEF PipeClose
<1>15. ASSUME NEW p \in Procs, Kfree(p) PROVE WakeInv'
  BY Zenon, <1>15, <1>a DEF Kfree, WakeInv, SetPc, ring, Empty, Full, WriterKilled
<1>16. ASSUME NEW p \in Kills, p \in Procs, Kill(p) PROVE WakeInv'
  <2>1. /\ UNCHANGED <<nread, nwrite, readopen, writeopen>>
        /\ \A q \in Procs : (killed[q] => killed'[q]) /\ (killed'[q] => q \in Kills)
    BY ZenonT(60), <1>16, <1>a DEF Kill, ring, WakeInv
  <2>2. WriterKilled => WriterKilled'
    BY ZenonT(60), <2>1, PipeAssumption DEF WriterKilled
  <2>3. \A q \in Procs : \/ pc'[q] = pc[q]
                         \/ pc[q] \in {"rsleep", "wsleep"} /\ pc'[q] \in {"read", "write"}
    BY ZenonT(60), <1>16, <1>a DEF Kill
  <2>4. (Empty' <=> Empty) /\ (Full' <=> Full)
    BY ZenonT(60), <2>1 DEF Empty, Full
  <2>5. /\ \A q \in Procs : pc[q] \in {"writing", "copying"} => pc'[q] = pc[q]
        /\ (\A q \in Procs : pc[q] # "rsleep") => \A q \in Procs : pc'[q] # "rsleep"
    BY ZenonT(60), <2>3
  <2>6. ASSUME NEW q \in Procs
        PROVE  /\ pc'[q] = "rsleep" => /\ writeopen'
                                       /\ \/ Empty' \/ WriterKilled'
                                          \/ \E r \in Procs : pc'[r] = "writing"
               /\ pc'[q] = "wsleep" =>
                    readopen' /\ (Full' \/ \E r \in Procs : pc'[r] = "copying")
               /\ pc'[q] = "wfull" => Full' /\ readopen' /\ \A r \in Procs : pc'[r] # "rsleep"
               /\ pc'[q] = "rempty" => Empty' /\ writeopen'
    <3>1. pc'[q] \in {"rsleep", "wsleep", "wfull", "rempty"} => pc'[q] = pc[q]
      BY ZenonT(60), <2>3
    <3>2. /\ pc[q] = "rsleep" => /\ writeopen
                                 /\ \/ Empty \/ WriterKilled
                                    \/ \E r \in Procs : pc[r] = "writing"
          /\ pc[q] = "wsleep" => readopen /\ (Full \/ \E r \in Procs : pc[r] = "copying")
          /\ pc[q] = "wfull" => Full /\ readopen /\ \A r \in Procs : pc[r] # "rsleep"
          /\ pc[q] = "rempty" => Empty /\ writeopen
      BY <1>a, Zenon DEF WakeInv
    <3>3. QED
      BY <2>1, <2>2, <2>4, <2>5, <3>1, <3>2, Zenon
  <2>7. QED
    BY <2>1, <2>6, Zenon DEF WakeInv
<1>17. CASE UNCHANGED vars
  BY ZenonT(60), <1>17, <1>a DEF vars, WakeInv, Empty, Full, WriterKilled
<1>18. QED
  BY Zenon, <1>1, <1>2, <1>3, <1>4, <1>5, <1>6, <1>7, <1>8, <1>9, <1>10, <1>11,
     <1>12, <1>13, <1>14, <1>15, <1>16, <1>17, PipeAssumption
     DEF Next, KernelStep, UserStep

(* Every step keeps the ring within its size, and what the calls hold.      *)
LEMMA CallStep ==
  ASSUME IInv, [Next]_vars
  PROVE  CallInv'
<1>a. TypeOK /\ CallInv BY Zenon DEF IInv
<1>b. LockInv BY Zenon DEF IInv
<1>c. \A q \in Procs : q # None BY Zenon, NoneAssumption
<1> USE DEF TypeOK, PCs
<1>1. ASSUME NEW p \in Procs, NEW bytes \in Bytes, CallWrite(p, bytes)
      PROVE  CallInv'
  <2>1. UNCHANGED <<nread, nwrite, writeopen>>
    BY Zenon, <1>1 DEF CallWrite, ring
  <2>2. QED
    BY SMTT(60), <1>1, <2>1, <1>a DEF CallWrite, SetPc, CallInv, Count, Empty, InRead,
       InWrite
<1>2. ASSUME NEW p \in Procs, NEW k \in 1..MaxLen, CallRead(p, k) PROVE CallInv'
  <2>1. UNCHANGED <<nread, nwrite, writeopen>>
    BY Zenon, <1>2 DEF CallRead, ring
  <2>2. QED
    BY SMTT(60), <1>2, <2>1, <1>a DEF CallRead, SetPc, CallInv, Count, Empty, InRead,
       InWrite
<1>3. ASSUME NEW p \in Procs, Acquire(p) PROVE CallInv'
  <2>1. UNCHANGED <<nread, nwrite, writeopen>>
    BY Zenon, <1>3 DEF Acquire, ring
  <2>2. QED
    BY SMTT(60), <1>3, <2>1, <1>a DEF Acquire, SetPc, CallInv, Count, Empty, InRead,
       InWrite
<1>4. ASSUME NEW p \in Procs, PutByte(p) PROVE CallInv'
  <2>1. /\ ~Full /\ UNCHANGED <<pc, addr, n, writeopen, nread>>
        /\ nwrite' = (nwrite + 1) % Wrap
    BY Zenon, <1>4 DEF PutByte
  <2>2. Count < PIPESIZE
    BY SMTT(60), <2>1, <1>a, Tests, PipeAssumption DEF CallInv
  <2>3. Count' = Count + 1
    BY SMTT(60), <2>1, <2>2, <1>a, CountMoves DEF Count
  <2>4. pc[p] = "writing" /\ \A q \in Procs : pc[q] # "copying"
    BY Zenon, <1>4, <1>b DEF PutByte, LockInv, Holding
  <2>5. \A q \in Procs : q # p => todo'[q] = todo[q]
    BY Zenon, <1>4, <1>a DEF PutByte
  <2>6. Count' <= PIPESIZE
    BY SMTT(60), <2>2, <2>3, <1>a, Tests, PipeAssumption
  <2>7. QED
    BY Zenon, <2>1, <2>4, <2>5, <2>6, <1>a DEF CallInv, InWrite, InRead
<1>5. ASSUME NEW p \in Procs, WriteFull(p) PROVE CallInv'
  <2>1. /\ UNCHANGED <<data, nread, nwrite, readopen, writeopen, rfd, wfd, kfrees, killed, addr, n>>
        /\ \/ /\ lock' = None /\ todo' = [todo EXCEPT ![p] = <<>>]
              /\ pc' = [pc EXCEPT ![p] = "user"]
           \/ /\ UNCHANGED <<lock, todo>>
              /\ pc' = [q \in Procs |-> IF q = p THEN "wfull"
                                        ELSE IF pc[q] = "rsleep" THEN "read" ELSE pc[q]]
    BY Zenon, <1>5 DEF WriteFull, SetPc, ring, WakeReaders, WakeAndSet
  <2>2. pc[p] = "writing"
    BY Zenon, <1>5 DEF WriteFull
  <2>3. QED
    BY ZenonT(60), <2>1, <2>2, <1>a DEF CallInv, Count, Empty, InRead, InWrite
<1>6. ASSUME NEW p \in Procs, WriteDone(p) PROVE CallInv'
  <2>1. UNCHANGED <<nread, nwrite, writeopen>>
    BY Zenon, <1>6 DEF WriteDone, ring
  <2>2. QED
    BY SMTT(60), <1>6, <2>1, <1>a DEF WriteDone, WakeReaders, WakeAndSet, CallInv, Count,
       Empty, InRead, InWrite
<1>7. ASSUME NEW p \in Procs, Sleep(p) PROVE CallInv'
  <2>1. UNCHANGED <<nread, nwrite, writeopen>>
    BY Zenon, <1>7 DEF Sleep, ring
  <2>2. QED
    BY SMTT(60), <1>7, <2>1, <1>a DEF Sleep, SetPc, CallInv, Count, Empty, InRead, InWrite
<1>8. ASSUME NEW p \in Procs, ReadEmpty(p) PROVE CallInv'
  <2>1. /\ UNCHANGED <<data, nread, nwrite, readopen, writeopen, rfd, wfd, kfrees, killed, todo, addr>>
        /\ \/ /\ lock' = None /\ n' = [n EXCEPT ![p] = 0]
              /\ pc' = [pc EXCEPT ![p] = "user"]
           \/ UNCHANGED <<lock, n>> /\ pc' = [pc EXCEPT ![p] = "rempty"]
    BY Zenon, <1>8 DEF ReadEmpty, SetPc, ring
  <2>2. pc[p] = "reading"
    BY ZenonT(60), <1>8 DEF ReadEmpty
  <2>3. QED
    BY ZenonT(60), <2>1, <2>2, <1>a DEF CallInv, Count, Empty, InRead, InWrite
<1>9. ASSUME NEW p \in Procs, ReadStart(p) PROVE CallInv'
  <2>1. UNCHANGED <<nread, nwrite, writeopen>>
    BY Zenon, <1>9 DEF ReadStart, ring
  <2>2. QED
    BY SMTT(60), <1>9, <2>1, <1>a DEF ReadStart, SetPc, CallInv, Count, Empty, InRead,
       InWrite
<1>10. ASSUME NEW p \in Procs, GetByte(p) PROVE CallInv'
  <2>1. /\ ~Empty /\ UNCHANGED <<pc, todo, n, writeopen, nwrite>>
        /\ nread' = (nread + 1) % Wrap
    BY ZenonT(60), <1>10 DEF GetByte
  <2>2. Count' = Count - 1
    BY SMTT(60), <2>1, <1>a, CountMoves DEF Count, Empty
  <2>3. Count' <= PIPESIZE
    BY SMTT(60), <2>2, <1>a, Tests, PipeAssumption DEF CallInv
  <2>4. pc[p] = "copying" /\ \A q \in Procs : pc[q] = "copying" => q = p
    BY ZenonT(60), <1>10, <1>b DEF GetByte, LockInv, Holding
  <2>5. (\A q \in Procs : q # p => addr'[q] = addr[q]) /\ addr'[p] # <<>>
    <3>1. /\ addr' = [addr EXCEPT ![p] = Append(@, data[nread % PIPESIZE])]
          /\ addr[p] \in Seq(Vals)
      BY ZenonT(60), <1>10, <1>a DEF GetByte
    <3>2. data[nread % PIPESIZE] \in Vals
      BY SMTT(60), <1>a, IndexWraps
    <3>3. Append(addr[p], data[nread % PIPESIZE]) # <<>>
      BY SMTT(60), <3>1, <3>2
    <3>4. QED
      BY ZenonT(60), <3>1, <3>3, <1>a
  <2>6. QED
    BY ZenonT(60), <2>1, <2>3, <2>4, <2>5, <1>a DEF CallInv, InRead, InWrite
<1>11. ASSUME NEW p \in Procs, ReadDone(p) PROVE CallInv'
  <2>1. UNCHANGED <<nread, nwrite, writeopen, todo>>
    BY ZenonT(60), <1>11 DEF ReadDone, ring
  <2>2. /\ addr' = [addr EXCEPT ![p] = <<>>] /\ n' = [n EXCEPT ![p] = 0]
        /\ pc' = [q \in Procs |-> IF q = p THEN "user"
                                  ELSE IF pc[q] = "wsleep" THEN "write" ELSE pc[q]]
        /\ pc[p] = "copying"
    BY ZenonT(60), <1>11 DEF ReadDone, WakeWriters, WakeAndSet
  <2>3. QED
    BY ZenonT(60), <2>1, <2>2, <1>a DEF CallInv, Count, Empty, InRead, InWrite
<1>12. ASSUME NEW p \in Procs, CloseRead(p) PROVE CallInv'
  <2>1. UNCHANGED <<nread, nwrite, writeopen>>
    BY ZenonT(60), <1>12 DEF CloseRead, ring
  <2>2. UNCHANGED <<todo, addr, n>> /\ Count' = Count
    BY ZenonT(60), <1>12, <2>1 DEF CloseRead, Count
  <2>3. \A q \in Procs : \/ pc'[q] = pc[q]
                         \/ pc[q] = "user" /\ pc'[q] = "rclose"
    BY ZenonT(60), <1>12, <1>a DEF CloseRead, SetPc
  <2>4. QED
    BY ZenonT(60), <2>1, <2>2, <2>3, <1>a DEF CallInv, Empty, InRead, InWrite
<1>13. ASSUME NEW p \in Procs, CloseWrite(p) PROVE CallInv'
  <2>1. UNCHANGED <<nread, nwrite, writeopen>>
    BY ZenonT(60), <1>13 DEF CloseWrite, ring
  <2>2. UNCHANGED <<todo, addr, n>> /\ Count' = Count
    BY ZenonT(60), <1>13, <2>1 DEF CloseWrite, Count
  <2>3. \A q \in Procs : \/ pc'[q] = pc[q]
                         \/ pc[q] = "user" /\ pc'[q] = "wclose"
    BY ZenonT(60), <1>13, <1>a DEF CloseWrite, SetPc
  <2>4. QED
    BY ZenonT(60), <2>1, <2>2, <2>3, <1>a DEF CallInv, Empty, InRead, InWrite
<1>14. ASSUME NEW p \in Procs, PipeClose(p) PROVE CallInv'
  <2>1. UNCHANGED <<nread, nwrite, todo, addr, n>>
    BY Zenon, <1>14 DEF PipeClose, ring
  <2>2. \A q \in Procs : pc[q] # "copying"
    BY ZenonT(60), <1>14, <1>b, <1>c DEF PipeClose, LockInv, Holding
  <2>3. \A q \in Procs : /\ pc'[q] # "copying"
                         /\ pc'[q] \notin InWrite => pc[q] \notin InWrite
                         /\ pc'[q] \in InRead => pc[q] \in InRead
    BY SMTT(60), <1>14, <2>2, <1>a DEF PipeClose, WakeReaders, WakeWriters, WakeAndSet,
       InRead, InWrite
  <2>4. QED
    BY ZenonT(60), <2>1, <2>2, <2>3, <1>a DEF CallInv, Count
<1>15. ASSUME NEW p \in Procs, Kfree(p) PROVE CallInv'
  <2>1. UNCHANGED <<nread, nwrite, writeopen>>
    BY ZenonT(60), <1>15 DEF Kfree, ring
  <2>2. QED
    BY SMTT(60), <1>15, <2>1, <1>a DEF Kfree, SetPc, CallInv, Count, Empty, InRead,
       InWrite
<1>16. ASSUME NEW p \in Kills, p \in Procs, Kill(p) PROVE CallInv'
  <2>1. UNCHANGED <<nread, nwrite, writeopen, todo, addr, n>>
    BY Zenon, <1>16 DEF Kill, ring
  <2>2. \A q \in Procs : /\ pc'[q] = "copying" <=> pc[q] = "copying"
                         /\ pc'[q] \in InWrite <=> pc[q] \in InWrite
                         /\ pc'[q] \in InRead <=> pc[q] \in InRead
    BY ZenonT(60), <1>16, <1>a DEF Kill, InRead, InWrite
  <2>3. QED
    BY ZenonT(60), <2>1, <2>2, <1>a DEF CallInv, Count, Empty
<1>17. CASE UNCHANGED vars
  BY ZenonT(60), <1>17, <1>a DEF vars, CallInv, Count, Empty, InRead, InWrite
<1>18. QED
  BY ZenonT(60), <1>1, <1>2, <1>3, <1>4, <1>5, <1>6, <1>7, <1>8, <1>9, <1>10, <1>11,
     <1>12, <1>13, <1>14, <1>15, <1>16, <1>17, PipeAssumption
     DEF Next, KernelStep, UserStep

(* The inductive invariant holds initially, and every step keeps it.        *)
LEMMA IInvHolds == Spec => []IInv
<1>1. Init => IInv
  <2>1. SUFFICES ASSUME Init PROVE IInv
    BY Zenon
  <2>2. PICK v \in Vals : data = [i \in 0..PIPESIZE-1 |-> v]
    BY Zenon, <2>1 DEF Init
  <2>3. nread = 0 /\ nwrite = 0 /\ kfrees = 0 /\ Wrap > 0
    BY SMTT(60), <2>1, PipeAssumption DEF Init
  <2>4. TypeOK
    <3>1. /\ nread \in 0..Wrap-1 /\ nwrite \in 0..Wrap-1 /\ kfrees \in Nat
          /\ 0 \in Nat
      BY SMTT(60), <2>3, PipeAssumption
    <3>2. /\ readopen \in BOOLEAN /\ writeopen \in BOOLEAN
          /\ killed \in [Procs -> BOOLEAN]
      BY Zenon, <2>1 DEF Init
    <3>3. QED
      BY SMTT(60), <2>1, <2>2, <3>1, <3>2, PipeAssumption DEF Init, TypeOK, PCs
  <2>5. LockInv /\ EndsInv /\ WakeInv
    BY SMTT(60), <2>1, NoneAssumption, PipeAssumption
    DEF Init, LockInv, EndsInv, WakeInv, Holding, InRead, InWrite
  <2>6. Count = 0
    BY Zenon, <2>3, <2>4, Tests DEF Empty
  <2>7. CallInv
    BY SMTT(60), <2>1, <2>6, PipeAssumption DEF Init, CallInv, InRead, InWrite
  <2>8. QED
    BY ZenonT(60), <2>4, <2>5, <2>7 DEF IInv
<1>2. IInv /\ [Next]_vars => IInv'
  BY ZenonT(60), TypeStep, LockStep, EndsStep, WakeStep, CallStep DEF IInv
<1>3. QED
  BY <1>1, <1>2, PTL DEF Spec

-----------------------------------------------------------------------------
(* The pipe's fields keep their types.                                      *)
THEOREM PipeTypeOK == Spec => []TypeOK
<1>1. IInv => TypeOK
  BY ZenonT(60) DEF IInv
<1>2. QED
  BY <1>1, IInvHolds, PTL

(* pipeclose() frees the page once, whatever closes race, and nobody is     *)
(* inside the pipe afterwards.                                              *)
THEOREM PipeFreedOnce == Spec => []FreedOnce
<1>1. IInv => FreedOnce
  <2>1. SUFFICES ASSUME IInv PROVE FreedOnce
    BY Zenon
  <2>2. kfrees <= 1
    BY SMTT(60), <2>1 DEF IInv, EndsInv
  <2>3. ASSUME kfrees = 1, NEW p \in Procs PROVE pc[p] = "user"
    <3>1. ~readopen /\ ~writeopen /\ rfd = {} /\ wfd = {} /\ pc[p] # "kfree"
      BY Zenon, <2>1, <2>3 DEF IInv, EndsInv
    <3>2. pc[p] \in PCs
      BY Zenon, <2>1 DEF IInv, TypeOK
    <3>3. QED
      BY Zenon, <2>1, <3>1, <3>2 DEF IInv, EndsInv, PCs, InRead, InWrite
  <2>4. QED
    BY ZenonT(60), <2>2, <2>3 DEF FreedOnce
<1>2. QED
  BY <1>1, IInvHolds, PTL

(* Whatever is killed: a writer never sleeps next to room in the ring, and  *)
(* a reader never next to bytes unless a writer was killed.                 *)
SleepersOrKilled ==
  lock = None => \A p \in Procs :
    /\ pc[p] = "rsleep" => writeopen /\ (Empty \/ WriterKilled)
    /\ pc[p] = "wsleep" => Full /\ readopen

(* The inductive invariant names a reason for every sleep in piperead() and *)
(* pipewrite().                                                             *)
LEMMA SleepReason == IInv => SleepersOrKilled
BY Zenon, NoneAssumption DEF IInv, WakeInv, LockInv, Holding, SleepersOrKilled

(* SleepersOrKilled holds whatever is killed: kill() during pipewrite() is  *)
(* the only way to leave a reader of piperead() asleep next to bytes.       *)
THEOREM PipeSleepersOrKilled == Spec => []SleepersOrKilled
BY SleepReason, IInvHolds, PTL

(* No wakeup is lost as long as no process that writes is killed.           *)
THEOREM PipeSleepersHaveReason ==
  ASSUME Kills \cap Writers = {} PROVE Spec => []SleepersHaveReason
<1>1. SleepersOrKilled => SleepersHaveReason
  BY Zenon DEF SleepersOrKilled, SleepersHaveReason, WriterKilled
<1>2. QED
  BY <1>1, PipeSleepersOrKilled, PTL

-----------------------------------------------------------------------------
(* The bytes in the ring, oldest first, and the calls, as Fifo sees them.   *)
Queue == [i \in 1..Count |-> data[(nread + i - 1) % PIPESIZE]]
Call == [p \in Procs |-> IF pc[p] \in InWrite THEN "write"
                         ELSE IF pc[p] \in InRead THEN "read" ELSE "none"]

(* The ring between nread and nwrite is a sequence of bytes.                *)
LEMMA QueueType ==
  ASSUME TypeOK
  PROVE  Queue \in Seq(Vals) /\ Len(Queue) = Count /\ Count \in Nat /\ nread \in Int
<1>1. Count \in Nat /\ nread \in Int
  BY SMTT(60), Tests DEF TypeOK
<1>2. \A i \in 1..Count : data[(nread + i - 1) % PIPESIZE] \in Vals
  <2>1. TAKE i \in 1..Count
  <2>2. nread + i - 1 \in Int
    BY SMTT(60), <1>1
  <2>3. (nread + i - 1) % PIPESIZE \in 0..PIPESIZE-1
    BY Zenon, <2>2, IndexWraps
  <2>4. QED
    BY Zenon, <2>3 DEF TypeOK
<1>3. QED
  BY SMTT(60), <1>1, <1>2 DEF Queue

(* p->data[p->nwrite++ % PIPESIZE] = addr[i] appends to the queue, across a *)
(* wrap of nwrite as well.                                                  *)
LEMMA PutAppends ==
  ASSUME TypeOK, TypeOK', Count < PIPESIZE, nread' = nread, nwrite' = (nwrite + 1) % Wrap,
         NEW v \in Vals, data' = [data EXCEPT ![nwrite % PIPESIZE] = v]
  PROVE  Queue' = Append(Queue, v)
<1>1. /\ Queue \in Seq(Vals) /\ Len(Queue) = Count /\ Count \in Nat
      /\ nread \in Int
      /\ nwrite \in Int /\ PIPESIZE \in Nat \ {0}
  BY SMTT(60), QueueType, PipeAssumption DEF TypeOK
<1>2. Count' = Count + 1
  BY SMTT(60), CountMoves DEF Count, TypeOK
<1>3. nwrite = nread + Count \/ nwrite = nread + Count - Wrap
  <2>1. Count = IF nwrite >= nread THEN nwrite - nread ELSE nwrite - nread + Wrap
    BY ZenonT(60), CountFacts DEF Count, TypeOK
  <2>2. QED
    BY SMTT(60), <2>1, <1>1, PipeAssumption
<1>4. nwrite % PIPESIZE = (nread + Count) % PIPESIZE
  <2>1. CASE nwrite = nread + Count
    BY ZenonT(60), <2>1
  <2>2. CASE nwrite = nread + Count - Wrap
    <3>1. nwrite + Wrap = nread + Count
      BY SMTT(60), <1>1, <2>2, PipeAssumption
    <3>2. (nwrite + Wrap) % PIPESIZE = nwrite % PIPESIZE
      BY ZenonT(60), <1>1, IndexWraps
    <3>3. QED
      BY ZenonT(60), <3>1, <3>2
  <2>3. QED
    BY ZenonT(60), <1>3, <2>1, <2>2
<1>5. Queue' = [i \in 1..Count+1 |-> data'[(nread + i - 1) % PIPESIZE]]
  BY SMTT(60), <1>2 DEF Queue
<1>6. ASSUME NEW i \in 1..Count
      PROVE  data'[(nread + i - 1) % PIPESIZE] = data[(nread + i - 1) % PIPESIZE]
  <2>1. PICK a \in Int : a = nread + i - 1
    BY SMTT(60), <1>1
  <2>2. PICK k \in 1..PIPESIZE-1 : k = Count - i + 1
    BY SMTT(60), <1>1
  <2>3. a + k = nread + Count
    BY SMTT(60), <1>1, <2>1, <2>2
  <2>4. (a + k) % PIPESIZE # a % PIPESIZE
    BY Zenon, <1>1, ModDiffer
  <2>5. a % PIPESIZE # nwrite % PIPESIZE
    BY ZenonT(60), <2>3, <2>4, <1>4
  <2>6. a % PIPESIZE \in 0..PIPESIZE-1
    BY Zenon, IndexWraps
  <2>7. data'[a % PIPESIZE] = data[a % PIPESIZE]
    BY ZenonT(60), <2>5, <2>6 DEF TypeOK
  <2>8. QED
    BY ZenonT(60), <2>1, <2>7
<1>7. data'[(nread + (Count + 1) - 1) % PIPESIZE] = v
  <2>1. nread + (Count + 1) - 1 = nread + Count /\ nread + Count \in Int
    BY SMTT(60), <1>1
  <2>2. nwrite % PIPESIZE \in 0..PIPESIZE-1
    BY Zenon, <1>1, IndexWraps
  <2>3. data'[nwrite % PIPESIZE] = v
    BY ZenonT(60), <2>2 DEF TypeOK
  <2>4. QED
    BY ZenonT(60), <2>1, <2>3, <1>4
<1>8. /\ Append(Queue, v) \in Seq(Vals) /\ Len(Append(Queue, v)) = Count + 1
      /\ \A i \in 1..Count : Append(Queue, v)[i] = Queue[i]
      /\ Append(Queue, v)[Count + 1] = v
  BY SMTT(60), <1>1
<1>9. Queue' \in Seq(Vals) /\ Len(Queue') = Count + 1
  <2>1. \A i \in 1..Count+1 : data'[(nread + i - 1) % PIPESIZE] \in Vals
    <3>1. TAKE i \in 1..Count+1
    <3>2. nread + i - 1 \in Int
      BY SMTT(60), <1>1
    <3>3. (nread + i - 1) % PIPESIZE \in 0..PIPESIZE-1
      BY ZenonT(60), <3>2, IndexWraps
    <3>4. QED
      BY Zenon, <3>3 DEF TypeOK
  <2>2. QED
    BY SMTT(60), <1>1, <1>5, <2>1
<1>10. \A i \in 1..Count+1 : Queue'[i] = Append(Queue, v)[i]
  <2>1. TAKE i \in 1..Count+1
  <2>2. CASE i = Count + 1
    BY Zenon, <2>2, <1>1, <1>5, <1>7, <1>8
  <2>3. CASE i # Count + 1
    <3>1. i \in 1..Count
      BY SMTT(60), <2>3, <1>1
    <3>2. QED
      BY Zenon, <3>1, <1>5, <1>6, <1>8 DEF Queue
  <2>4. QED
    BY Zenon, <2>2, <2>3
<1>11. QED
  BY Zenon, <1>8, <1>9, <1>10, SeqEqual

(* p->data[p->nread++ % PIPESIZE] takes the head of the queue.              *)
LEMMA GetTakes ==
  ASSUME TypeOK, TypeOK', ~Empty, nwrite' = nwrite, nread' = (nread + 1) % Wrap, data' = data
  PROVE  /\ Queue # <<>> /\ Head(Queue) = data[nread % PIPESIZE]
         /\ Queue' = Tail(Queue)
<1>1. /\ Queue \in Seq(Vals) /\ Len(Queue) = Count /\ Count \in Nat
      /\ nread \in Int
  BY Zenon, QueueType
<1>2. Count > 0 /\ Count' = Count - 1
  <2>1. Count # 0 /\ nread # nwrite
    BY Zenon, Tests DEF Empty
  <2>2. Count' = Count - 1
    BY SMTT(60), <2>1, CountMoves DEF Count, TypeOK
  <2>3. QED
    BY SMTT(60), <1>1, <2>1, <2>2
<1>3. nread' = nread + 1 \/ nread' = nread + 1 - Wrap
  BY SMTT(60), CountMoves DEF TypeOK
<1>4. ASSUME NEW i \in 1..Count-1
      PROVE  (nread' + i - 1) % PIPESIZE = (nread + (i + 1) - 1) % PIPESIZE
  <2>1. CASE nread' = nread + 1
    <3>1. nread' + i - 1 = nread + (i + 1) - 1
      BY SMTT(60), <2>1, <1>1
    <3>2. QED
      BY Zenon, <3>1
  <2>2. CASE nread' = nread + 1 - Wrap
    <3>1. PICK a \in Int : a = nread' + i - 1
      BY SMTT(60), <2>2, <1>1, PipeAssumption
    <3>2. a + Wrap = nread + (i + 1) - 1
      BY SMTT(60), <2>2, <3>1, <1>1, PipeAssumption
    <3>3. (a + Wrap) % PIPESIZE = a % PIPESIZE
      BY Zenon, IndexWraps
    <3>4. QED
      BY Zenon, <3>1, <3>2, <3>3
  <2>3. QED
    BY Zenon, <1>3, <2>1, <2>2
<1>5. Queue' = [i \in 1..Count-1 |-> data[(nread' + i - 1) % PIPESIZE]]
  BY Zenon, <1>2 DEF Queue
<1>6. /\ Queue # <<>> /\ Head(Queue) = Queue[1]
      /\ Tail(Queue) \in Seq(Vals) /\ Len(Tail(Queue)) = Count - 1
      /\ \A i \in 1..Count-1 : Tail(Queue)[i] = Queue[i + 1]
  BY SMTT(60), <1>1, <1>2
<1>7. Queue[1] = data[nread % PIPESIZE]
  <2>1. nread + 1 - 1 = nread /\ 1 \in 1..Count
    BY SMTT(60), <1>1, <1>2
  <2>2. QED
    BY Zenon, <2>1 DEF Queue
<1>8. \A i \in 1..Count-1 : Queue[i + 1] = data[(nread' + i - 1) % PIPESIZE]
  <2>1. TAKE i \in 1..Count-1
  <2>2. i + 1 \in 1..Count
    BY SMTT(60), <1>1
  <2>3. QED
    BY Zenon, <2>2, <1>4 DEF Queue
<1>9. Queue' \in Seq(Vals) /\ Len(Queue') = Count - 1
  <2>1. \A i \in 1..Count-1 : Queue[i + 1] \in Vals
    BY SMTT(60), <1>1
  <2>2. QED
    BY SMTT(60), <2>1, <1>1, <1>2, <1>5, <1>8
<1>10. \A i \in 1..Count-1 : Queue'[i] = Tail(Queue)[i]
  BY ZenonT(60), <1>5, <1>6, <1>8
<1>11. Queue' = Tail(Queue)
  BY ZenonT(60), <1>6, <1>9, <1>10, SeqEqual
<1>12. QED
  BY Zenon, <1>6, <1>7, <1>11

(* Every step of the pipe is a step of the queue, or none.                  *)
LEMMA FifoStep ==
  ASSUME IInv, [Next]_vars
  PROVE  [F!Next]_(F!fvars)
<1>a. TypeOK /\ TypeOK' /\ LockInv /\ EndsInv /\ CallInv BY Zenon, TypeStep DEF IInv
<1>b. \A q \in Procs : q # None BY Zenon, NoneAssumption
<1>c. SUFFICES ASSUME ~(/\ Queue' = Queue /\ Call' = Call
                        /\ UNCHANGED <<todo, addr, killed, readopen, writeopen>>)
               PROVE  F!Next
  BY Zenon DEF F!fvars, Queue, Count, Call
<1> USE DEF TypeOK, PCs
<1>1. ASSUME NEW p \in Procs, NEW bytes \in Bytes, CallWrite(p, bytes)
      PROVE  F!Next
  <2>1. /\ Call[p] = "none" /\ Call' = [Call EXCEPT ![p] = "write"] /\ writeopen
        /\ UNCHANGED <<data, nread, nwrite, addr, killed, readopen, writeopen>>
    BY ZenonT(60), <1>1, <1>a DEF CallWrite, SetPc, ring, EndsInv, Call, InRead, InWrite
  <2>2. /\ Queue' = Queue /\ todo' = [todo EXCEPT ![p] = bytes]
        /\ bytes \in F!Bytes
    BY Zenon, <1>1, <2>1 DEF CallWrite, Queue, Count, Bytes, F!Bytes
  <2>3. F!CallWrite(p, bytes)
    BY Zenon, <2>1, <2>2 DEF F!CallWrite, Queue, Count, Call
  <2>4. QED
    BY ZenonT(60), <2>2, <2>3 DEF F!Next
<1>2. ASSUME NEW p \in Procs, NEW k \in 1..MaxLen, CallRead(p, k) PROVE F!Next
  <2>1. /\ Call[p] = "none" /\ Call' = [Call EXCEPT ![p] = "read"] /\ readopen
        /\ UNCHANGED <<data, nread, nwrite, todo, addr, killed, readopen, writeopen>>
    BY ZenonT(60), <1>2, <1>a DEF CallRead, SetPc, ring, EndsInv, Call, InRead, InWrite
  <2>2. Queue' = Queue
    BY Zenon, <2>1 DEF Queue, Count
  <2>3. F!CallRead(p)
    BY Zenon, <2>1, <2>2 DEF F!CallRead, Queue, Count, Call
  <2>4. QED
    BY Zenon, <2>3 DEF F!Next
<1>3. ASSUME NEW p \in Procs, Acquire(p) PROVE F!Next
  <2>1. UNCHANGED <<data, nread, nwrite, todo, addr, killed, readopen, writeopen>>
    BY Zenon, <1>3 DEF Acquire, ring
  <2>2. Call' = Call
    BY ZenonT(60), <1>3, <1>a DEF Acquire, SetPc, Call, InRead, InWrite
  <2>3. QED
    BY Zenon, <2>1, <2>2, <1>c DEF Queue, Count
<1>4. ASSUME NEW p \in Procs, PutByte(p) PROVE F!Next
  <2>1. /\ Call[p] = "write" /\ Call' = Call /\ todo[p] # <<>> /\ ~Full
        /\ UNCHANGED <<addr, killed, readopen, writeopen>>
        /\ todo' = [todo EXCEPT ![p] = Tail(@)]
    BY Zenon, <1>4 DEF PutByte, Call, InRead, InWrite
  <2>2. Count < PIPESIZE /\ Len(Queue) = Count
    <3>1. Count < PIPESIZE
      BY SMTT(60), <2>1, <1>a, Tests, PipeAssumption DEF CallInv
    <3>2. QED
      BY ZenonT(60), <3>1, <1>a, QueueType
  <2>3. Head(todo[p]) \in Vals
    BY SMTT(60), <2>1, <1>a
  <2>4. Queue' = Append(Queue, Head(todo[p]))
    BY Zenon, <1>4, <2>2, <2>3, <1>a, PutAppends DEF PutByte
  <2>5. F!Put(p)
    BY Zenon, <2>1, <2>2, <2>4 DEF F!Put, Queue, Count, Call
  <2>6. QED
    BY Zenon, <2>5 DEF F!Next
<1>5. ASSUME NEW p \in Procs, WriteFull(p) PROVE F!Next
  <2>1. /\ Call[p] = "write" /\ pc[p] = "writing" /\ Full
        /\ UNCHANGED <<data, nread, nwrite, addr, killed, readopen, writeopen>>
    BY ZenonT(60), <1>5 DEF WriteFull, ring, Call, InRead, InWrite
  <2>2. Queue' = Queue
    BY ZenonT(60), <2>1 DEF Queue, Count
  <2>3. CASE ~readopen \/ killed[p]
    <3>1. todo' = [todo EXCEPT ![p] = <<>>] /\ pc' = [pc EXCEPT ![p] = "user"]
      BY ZenonT(60), <1>5, <2>3 DEF WriteFull, SetPc
    <3>2. Call' = [Call EXCEPT ![p] = "none"]
      BY Zenon, <2>1, <3>1, <1>a DEF Call, InRead, InWrite
    <3>3. Len(Queue) = PIPESIZE
      BY ZenonT(60), <2>1, <1>a, Tests, QueueType
    <3>4. F!ReturnWrite(p)
      BY ZenonT(60), <2>1, <2>2, <2>3, <3>1, <3>2, <3>3 DEF F!ReturnWrite, Queue, Count,
         Call
    <3>5. QED
      BY ZenonT(60), <3>4 DEF F!Next
  <2>4. CASE ~(~readopen \/ killed[p])
    <3>1. /\ todo' = todo
          /\ pc' = [q \in Procs |-> IF q = p THEN "wfull"
                                    ELSE IF pc[q] = "rsleep" THEN "read" ELSE pc[q]]
      BY ZenonT(60), <1>5, <2>4 DEF WriteFull, WakeReaders, WakeAndSet
    <3>2. Call' = Call
      BY Zenon, <2>1, <3>1, <1>a DEF Call, InRead, InWrite
    <3>3. QED
      BY Zenon, <2>1, <2>2, <3>1, <3>2, <1>c
  <2>5. QED
    BY ZenonT(60), <2>3, <2>4
<1>6. ASSUME NEW p \in Procs, WriteDone(p) PROVE F!Next
  <2>1. /\ Call[p] = "write" /\ todo[p] = <<>>
        /\ Call' = [Call EXCEPT ![p] = "none"]
        /\ UNCHANGED <<data, nread, nwrite, todo, addr, killed, readopen, writeopen>>
    BY ZenonT(60), <1>6, <1>a DEF WriteDone, ring, WakeReaders, WakeAndSet, Call, InRead,
       InWrite
  <2>2. Queue' = Queue /\ todo' = [todo EXCEPT ![p] = <<>>]
    BY Zenon, <2>1, <1>a DEF Queue, Count
  <2>3. F!ReturnWrite(p)
    BY ZenonT(60), <2>1, <2>2 DEF F!ReturnWrite, Queue, Count, Call
  <2>4. QED
    BY Zenon, <2>3 DEF F!Next
<1>7. ASSUME NEW p \in Procs, Sleep(p) PROVE F!Next
  <2>1. UNCHANGED <<data, nread, nwrite, todo, addr, killed, readopen, writeopen>>
    BY ZenonT(60), <1>7 DEF Sleep, ring
  <2>2. Call' = Call
    BY ZenonT(60), <1>7, <1>a DEF Sleep, SetPc, Call, InRead, InWrite
  <2>3. QED
    BY Zenon, <2>1, <2>2, <1>c DEF Queue, Count
<1>8. ASSUME NEW p \in Procs, ReadEmpty(p) PROVE F!Next
  <2>1. /\ Call[p] = "read" /\ pc[p] = "reading" /\ Empty
        /\ UNCHANGED <<data, nread, nwrite, todo, addr, killed, readopen, writeopen>>
    BY ZenonT(60), <1>8 DEF ReadEmpty, ring, Call, InRead, InWrite
  <2>2. Queue' = Queue
    BY ZenonT(60), <2>1 DEF Queue, Count
  <2>3. CASE killed[p]
    <3>1. pc' = [pc EXCEPT ![p] = "user"]
      BY ZenonT(60), <1>8, <2>3 DEF ReadEmpty, SetPc
    <3>2. Call' = [Call EXCEPT ![p] = "none"]
      BY Zenon, <2>1, <3>1, <1>a DEF Call, InRead, InWrite
    <3>3. Queue = <<>>
      BY SMTT(60), <2>1, <1>a, Tests, QueueType
    <3>4. addr' = [addr EXCEPT ![p] = <<>>]
      BY ZenonT(60), <2>1, <1>a DEF CallInv
    <3>5. F!ReturnRead(p)
      BY ZenonT(60), <2>1, <2>2, <2>3, <3>2, <3>3, <3>4 DEF F!ReturnRead, Queue, Count, Call
    <3>6. QED
      BY ZenonT(60), <3>5 DEF F!Next
  <2>4. CASE ~killed[p]
    <3>1. pc' = [pc EXCEPT ![p] = "rempty"]
      BY ZenonT(60), <1>8, <2>4 DEF ReadEmpty, SetPc
    <3>2. Call' = Call
      BY Zenon, <2>1, <3>1, <1>a DEF Call, InRead, InWrite
    <3>3. QED
      BY ZenonT(60), <2>1, <2>2, <3>2, <1>c
  <2>5. QED
    BY ZenonT(60), <2>3, <2>4
<1>9. ASSUME NEW p \in Procs, ReadStart(p) PROVE F!Next
  <2>1. UNCHANGED <<data, nread, nwrite, todo, addr, killed, readopen, writeopen>>
    BY ZenonT(60), <1>9 DEF ReadStart, ring
  <2>2. Call' = Call
    BY ZenonT(60), <1>9, <1>a DEF ReadStart, SetPc, Call, InRead, InWrite
  <2>3. QED
    BY Zenon, <2>1, <2>2, <1>c DEF Queue, Count
<1>10. ASSUME NEW p \in Procs, GetByte(p) PROVE F!Next
  <2>1. /\ Call[p] = "read" /\ Call' = Call /\ ~Empty
        /\ UNCHANGED <<todo, killed, readopen, writeopen>>
        /\ addr' = [addr EXCEPT ![p] = Append(@, data[nread % PIPESIZE])]
    BY ZenonT(60), <1>10 DEF GetByte, Call, InRead, InWrite
  <2>2. /\ Queue # <<>> /\ Head(Queue) = data[nread % PIPESIZE]
        /\ Queue' = Tail(Queue)
    BY ZenonT(60), <1>10, <2>1, <1>a, GetTakes DEF GetByte
  <2>3. F!Take(p)
    BY ZenonT(60), <2>1, <2>2 DEF F!Take, Queue, Count, Call
  <2>4. QED
    BY ZenonT(60), <2>3 DEF F!Next
<1>11. ASSUME NEW p \in Procs, ReadDone(p) PROVE F!Next
  <2>1. /\ Call[p] = "read" /\ pc[p] = "copying"
        /\ Call' = [Call EXCEPT ![p] = "none"]
        /\ UNCHANGED <<data, nread, nwrite, todo, killed, readopen, writeopen>>
        /\ addr' = [addr EXCEPT ![p] = <<>>]
    BY Zenon, <1>11, <1>a DEF ReadDone, ring, WakeWriters, WakeAndSet, Call, InRead,
       InWrite
  <2>2. Queue' = Queue
    BY Zenon, <2>1 DEF Queue, Count
  <2>3. addr[p] # <<>> \/ (Queue = <<>> /\ ~writeopen)
    <3>1. SUFFICES ASSUME addr[p] = <<>> PROVE Queue = <<>> /\ ~writeopen
      BY ZenonT(60)
    <3>2. Len(addr[p]) = 0 /\ n[p] > 0
      BY ZenonT(60), <2>1, <3>1, <1>a DEF CallInv, InRead
    <3>3. Empty
      BY SMTT(60), <1>11, <3>2, <1>a DEF ReadDone
    <3>4. Queue = <<>>
      <4>1. Count = 0
        BY Zenon, <3>3, <1>a, Tests
      <4>2. QED
        BY SMTT(60), <4>1 DEF Queue
    <3>5. QED
      BY ZenonT(60), <2>1, <3>1, <3>3, <3>4, <1>a DEF CallInv
  <2>4. F!ReturnRead(p)
    BY ZenonT(60), <2>1, <2>2, <2>3 DEF F!ReturnRead, Queue, Count, Call
  <2>5. QED
    BY Zenon, <2>4 DEF F!Next
<1>12. ASSUME NEW p \in Procs, CloseRead(p) PROVE F!Next
  <2>1. UNCHANGED <<data, nread, nwrite, todo, addr, killed, readopen, writeopen>>
    BY ZenonT(60), <1>12 DEF CloseRead, ring
  <2>2. Call' = Call
    BY ZenonT(60), <1>12, <1>a DEF CloseRead, SetPc, Call, InRead, InWrite
  <2>3. QED
    BY Zenon, <2>1, <2>2, <1>c DEF Queue, Count
<1>13. ASSUME NEW p \in Procs, CloseWrite(p) PROVE F!Next
  <2>1. UNCHANGED <<data, nread, nwrite, todo, addr, killed, readopen, writeopen>>
    BY ZenonT(60), <1>13 DEF CloseWrite, ring
  <2>2. Call' = Call
    BY ZenonT(60), <1>13, <1>a DEF CloseWrite, SetPc, Call, InRead, InWrite
  <2>3. QED
    BY Zenon, <2>1, <2>2, <1>c DEF Queue, Count
<1>14. ASSUME NEW p \in Procs, PipeClose(p) PROVE F!Next
  <2>1. UNCHANGED <<data, nread, nwrite, todo, addr, killed>>
    BY ZenonT(60), <1>14 DEF PipeClose, ring
  <2>2. Queue' = Queue
    BY ZenonT(60), <2>1 DEF Queue, Count
  <2>3. CASE pc[p] = "rclose"
    <3>1. readopen' = FALSE /\ writeopen' = writeopen /\ Call' = Call
      BY ZenonT(60), <1>14, <2>3, <1>a DEF PipeClose, WakeWriters, WakeAndSet, Call, InRead,
         InWrite
    <3>2. \A q \in Procs : Call[q] # "read"
      BY Zenon, <2>3, <1>a DEF EndsInv, Call, InRead, InWrite
    <3>3. F!CloseRead
      BY Zenon, <2>1, <2>2, <3>1, <3>2 DEF F!CloseRead, Queue, Count, Call
    <3>4. QED
      BY ZenonT(60), <3>3 DEF F!Next
  <2>4. CASE pc[p] = "wclose"
    <3>1. writeopen' = FALSE /\ readopen' = readopen /\ Call' = Call
      BY ZenonT(60), <1>14, <2>4, <1>a DEF PipeClose, WakeReaders, WakeAndSet, Call, InRead,
         InWrite
    <3>2. \A q \in Procs : Call[q] # "write"
      BY Zenon, <2>4, <1>a DEF EndsInv, Call, InRead, InWrite
    <3>3. F!CloseWrite
      BY Zenon, <2>1, <2>2, <3>1, <3>2 DEF F!CloseWrite, Queue, Count, Call
    <3>4. QED
      BY Zenon, <3>3 DEF F!Next
  <2>5. QED
    BY ZenonT(60), <1>14, <2>3, <2>4 DEF PipeClose
<1>15. ASSUME NEW p \in Procs, Kfree(p) PROVE F!Next
  <2>1. UNCHANGED <<data, nread, nwrite, todo, addr, killed, readopen, writeopen>>
    BY Zenon, <1>15 DEF Kfree, ring
  <2>2. Call' = Call
    BY Zenon, <1>15, <1>a DEF Kfree, SetPc, Call, InRead, InWrite
  <2>3. QED
    BY Zenon, <2>1, <2>2, <1>c DEF Queue, Count
<1>16. ASSUME NEW p \in Kills, p \in Procs, Kill(p) PROVE F!Next
  <2>1. /\ UNCHANGED <<data, nread, nwrite, todo, addr, readopen, writeopen>>
        /\ killed' = [killed EXCEPT ![p] = TRUE] /\ Call' = Call
    BY SMTT(60), <1>16, <1>a DEF Kill, ring, Call, InRead, InWrite
  <2>2. Queue' = Queue
    BY Zenon, <2>1 DEF Queue, Count
  <2>3. F!Kill(p)
    BY Zenon, <2>1, <2>2 DEF F!Kill, Queue, Count, Call
  <2>4. QED
    BY Zenon, <1>16, <2>3 DEF F!Next
<1>17. CASE UNCHANGED vars
  BY Zenon, <1>17, <1>c DEF vars, Queue, Count, Call
<1>18. QED
  BY ZenonT(60), <1>1, <1>2, <1>3, <1>4, <1>5, <1>6, <1>7, <1>8, <1>9, <1>10, <1>11,
     <1>12, <1>13, <1>14, <1>15, <1>16, <1>17, PipeAssumption
     DEF Next, KernelStep, UserStep

(* The pipe is a bounded queue: bytes come out once and in order, over any  *)
(* number of wraps of the counters, and no call gives up without cause.     *)
THEOREM PipeImplementsFifo == Spec => FifoSpec
<1>1. Init => F!Init
  <2>1. SUFFICES ASSUME Init PROVE F!Init
    BY Zenon
  <2>2. Count = 0
    BY SMTT(60), <2>1, PipeAssumption, CountFacts DEF Init, Count
  <2>3. Queue = <<>>
    BY SMTT(60), <2>2 DEF Queue
  <2>4. Call = [p \in Procs |-> "none"]
    BY Zenon, <2>1 DEF Init, Call, InRead, InWrite
  <2>5. QED
    BY Zenon, <2>1, <2>3, <2>4 DEF Init, F!Init, Queue, Count, Call
<1>2. IInv /\ [Next]_vars => [F!Next]_(F!fvars)
  BY Zenon, FifoStep
<1>3. QED
  BY <1>1, <1>2, IInvHolds, PTL DEF Spec, FifoSpec, F!Spec

=============================================================================
