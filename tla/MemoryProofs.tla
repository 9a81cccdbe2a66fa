---------------------------- MODULE MemoryProofs ----------------------------
(***************************************************************************)
(* The inductive invariant of Memory, for any number of pages and          *)
(* processes, any page size and any programs.  First the loops of          *)
(* kalloc.c and vm.c: freeing pages, setupkvm(), allocuvm() and what they  *)
(* do when kalloc() fails; then the system calls made of them.             *)
(***************************************************************************)
EXTENDS Memory, SetFacts, TLAPS

(* What memlayout.h and mmu.h give, slots numbered from 1, a machine with   *)
(* memory for the first process, and no sbrk() of everything, which         *)
(* growproc() takes for an error.                                           *)
Sane ==
  /\ NPAGES \in Nat /\ NPAGES >= 4 + KTABS /\ KTABS \in Nat
  /\ \E n \in Nat \ {0} : Slots = 1..n
  /\ PGSIZE \in Nat \ {0} /\ NPTENTRIES \in Nat \ {0}
  /\ \E n \in Nat \ {0} : KERNBASE = n * PGSIZE
  /\ Sbrks \subseteq Int /\ Programs \subseteq Seq(Nat) /\ ~ShrinkToZero

PgDirs == [dir : {0, 1}, ktabs : 0..KTABS, tabs : SUBSET VPages, pages : SUBSET VPages]

PCs == {"user", "kfree", "setupkvm", "alloc", "grown", "kstack", "copyuvm", "forked",
        "forkbad", "segment", "loaded", "args", "reaped"}

ProcRecs == [state : {"UNUSED", "EMBRYO", "RUN", "ZOMBIE"}, kstack : {0, 1},
             pg : PgDirs, sz : Nat, parent : Slots \cup {0}]
Calls == [pc : PCs, new : PgDirs, sz : Nat, lo : Nat, hi : Nat, mem : {0, 1},
          tofree : Nat, k : PCs \cup {""}, np : Slots \cup {0}, segs : Seq(Nat)]

(* The process table and the calls in progress have their types.            *)
MemoryTypeOK ==
  nfree \in Nat /\ proc \in [Slots -> ProcRecs] /\ op \in [Slots -> Calls]

(* What a call is part of.                                                  *)
Growing(r) == "grown" \in {r.pc, r.k}
Reaping(r) == "reaped" \in {r.pc, r.k}
Forking(r) == {r.pc, r.k} \cap {"kstack", "copyuvm", "forked", "forkbad"} # {}

(* What a call holds where it stands.                                       *)
OpOK(r) ==
  /\ r.pc = "user" => r = Idle
  /\ r.np # 0 <=> Forking(r) \/ Reaping(r)
  /\ r.tofree # 0 <=> r.pc = "kfree"
  /\ r.pc # "alloc" => r.mem = 0
  /\ r.pc \in {"kfree", "kstack", "forkbad", "reaped"} \/ Growing(r) => r.new = NoPg
  /\ r.pc = "kfree" => r.k \in {"user", "forkbad", "reaped"}
  /\ r.pc = "alloc" => r.k \in {"grown", "forked", "loaded", "args"}
  /\ r.pc = "setupkvm" => /\ r.k \in {"copyuvm", "segment"} /\ r.sz = 0
                          /\ r.new.tabs = {} /\ r.new.pages = {}
                          /\ r.new.dir = 0 => r.new.ktabs = 0
  /\ r.pc = "copyuvm" => r.new.pages = {}
  /\ r.pc = "kstack" => r.sz = 0
  /\ r.pc \notin {"kfree", "alloc", "setupkvm"} => r.k = ""

(* Who has a slot: its process, or the fork() or wait() that names it.      *)
TableInv ==
  /\ \A p \in Slots : op[p].pc # "user" => proc[p].state = "RUN"
  /\ \A p \in Slots : op[p].np # 0 =>
       LET q == proc[op[p].np]
       IN /\ q.pg = NoPg
          /\ q.state = IF Reaping(op[p]) THEN "ZOMBIE" ELSE "EMBRYO"
          /\ q.kstack = IF Reaping(op[p]) \/ op[p].pc = "kstack" THEN 0 ELSE 1
  /\ \A p, q \in Slots : op[p].np = op[q].np /\ op[p].np # 0 => p = q
  /\ \A s \in Slots : proc[s].state = "UNUSED" => proc[s].kstack = 0 /\ proc[s].pg = NoPg
  /\ \A s \in Slots : proc[s].state \in {"RUN", "ZOMBIE"} =>
       proc[s].kstack = 1 \/ \E p \in Slots : op[p].np = s

Covered(pg) == {PDX(v) : v \in pg.pages} \subseteq pg.tabs

(* How far the call r of a process q has filled a page table.               *)
FillOK(r, q) ==
  /\ r.pc = "alloc" =>
       /\ (r.lo \div PGSIZE) * PGSIZE = r.lo
       /\ r.lo < r.hi + PGSIZE /\ r.sz <= r.lo /\ r.hi <= KERNBASE
       /\ (IF r.k = "grown" THEN q.pg ELSE r.new).pages = PagesIn(0, r.lo)
       /\ r.k = "grown" => r.sz = q.sz
       /\ r.k = "forked" => r.hi = q.sz
       /\ r.mem = 1 => r.lo < r.hi
  /\ r.pc = "grown" => q.pg.pages = PagesIn(0, r.sz) /\ r.sz <= KERNBASE
  /\ r.pc \in {"segment", "loaded", "args", "forked"} =>
       r.new.pages = PagesIn(0, r.sz) /\ r.sz <= KERNBASE
  /\ r.pc = "forked" => r.sz = q.sz

MapInv ==
  \A s \in Slots :
    /\ Covered(proc[s].pg) /\ Covered(op[s].new)
    /\ proc[s].state = "RUN" =>
         /\ proc[s].sz <= KERNBASE
         /\ ~Growing(op[s]) => proc[s].pg.pages = PagesIn(0, proc[s].sz)
    /\ FillOK(op[s], proc[s])

(* The inductive invariant.                                                 *)
IInv ==
  /\ MemoryTypeOK /\ (\A p \in Slots : OpOK(op[p])) /\ TableInv /\ MapInv
  /\ ~panicked /\ PagesAccounted

-----------------------------------------------------------------------------
(* Division leaves a remainder below the divisor.                           *)
LEMMA Divide ==
  ASSUME NEW n \in Nat, NEW d \in Nat \ {0}
  PROVE  n \div d \in Nat /\ (n \div d) * d <= n /\ n < (n \div d) * d + d
<1>1. PICK q \in Int, r \in Int : n = q * d + r /\ 0 <= r /\ r < d /\ n \div d = q
  OBVIOUS
<1>2. q >= 0
  <2>1. SUFFICES ASSUME q <= -1 PROVE FALSE
    BY <1>1
  <2>2. q * d <= -d
    BY <2>1
  <2>3. QED
    BY <1>1, <2>2
<1>3. QED
  BY <1>1, <1>2

(* Multiples of d are ordered as their factors, d apart.                    *)
LEMMA Multiples ==
  ASSUME NEW a \in Int, NEW b \in Int, NEW d \in Nat \ {0}
  PROVE  a * d < b * d <=> a < b /\ a * d + d <= b * d
<1>1. a < b => a * d + d <= b * d
  <2>1. ASSUME a < b PROVE (a + 1) * d <= b * d
    BY <2>1
  <2>2. (a + 1) * d = a * d + d
    OBVIOUS
  <2>3. QED
    BY Zenon, <2>1, <2>2
<1>2. a >= b => a * d >= b * d
  OBVIOUS
<1>3. a * d \in Int /\ b * d \in Int
  OBVIOUS
<1>4. QED
  BY <1>1, <1>2, <1>3

(* A multiple of d divided by d.                                            *)
LEMMA Quotient ==
  ASSUME NEW a \in Nat, NEW d \in Nat \ {0}
  PROVE  (a * d) \div d = a
<1>1. a * d \in Nat
  OBVIOUS
<1>2. PICK q \in Nat : q = (a * d) \div d /\ q * d <= a * d /\ a * d < q * d + d
  BY Zenon, <1>1, Divide
<1>3. q * d \in Int
  OBVIOUS
<1>4. ~(q < a) /\ ~(a < q)
  BY <1>1, <1>2, <1>3, Multiples
<1>5. QED
  BY <1>2, <1>4

(* The user pages are those of the multiples of PGSIZE below KERNBASE.      *)
LEMMA Layout ==
  ASSUME Sane, Facts
  PROVE  \E m \in Nat \ {0} : KERNBASE = m * PGSIZE /\ VPages = 0..(m - 1)
BY Zenon, Quotient DEF Sane, VPages

(* There are finitely many user pages.                                      *)
LEMMA VPagesFinite ==
  ASSUME Sane, Facts
  PROVE  /\ KERNBASE \in Nat /\ VPages \in SUBSET Nat /\ IsFiniteSet(VPages)
         /\ \A v \in VPages : PDX(v) \in VPages
<1>1. PICK m \in Nat \ {0} : KERNBASE = m * PGSIZE /\ VPages = 0..(m - 1)
  BY Zenon, Layout
<1>2. PGSIZE \in Nat /\ NPTENTRIES \in Nat \ {0}
  BY Zenon DEF Sane
<1>3. KERNBASE \in Nat
  BY <1>1, <1>2
<1>4. IsFiniteSet(VPages)
  BY <1>1 DEF Facts, Small
<1>5. ASSUME NEW v \in VPages PROVE PDX(v) \in VPages
  <2>1. v \in Nat /\ v <= m - 1
    BY <1>1
  <2>2. PICK q \in Nat : q = v \div NPTENTRIES /\ q * NPTENTRIES <= v
    BY Zenon, <1>2, <2>1, Divide
  <2>3. q <= q * NPTENTRIES
    BY <1>2
  <2>4. q <= v
    BY <1>2, <2>1, <2>2, <2>3
  <2>5. QED
    BY <1>1, <2>1, <2>2, <2>4 DEF PDX
<1>6. QED
  BY <1>1, <1>3, <1>4, <1>5

(* PGROUNDUP(n) is the first multiple of PGSIZE that is not below n.        *)
LEMMA RoundUp ==
  ASSUME Sane, Facts, NEW n \in Nat
  PROVE  \E m \in Nat : /\ PGROUNDUP(n) = m * PGSIZE
                        /\ n <= m * PGSIZE /\ m * PGSIZE < n + PGSIZE
<1>1. PGSIZE \in Nat \ {0} /\ n + PGSIZE - 1 \in Nat
  BY DEF Sane
<1>2. PICK m \in Nat : /\ m = (n + PGSIZE - 1) \div PGSIZE
                       /\ m * PGSIZE <= n + PGSIZE - 1
                       /\ n + PGSIZE - 1 < m * PGSIZE + PGSIZE
  BY Zenon, <1>1, Divide
<1>3. m * PGSIZE \in Int
  BY <1>1
<1>4. PGROUNDUP(n) = m * PGSIZE
  BY Zenon, <1>2 DEF PGROUNDUP
<1>5. n <= m * PGSIZE /\ m * PGSIZE < n + PGSIZE
  BY <1>1, <1>2, <1>3
<1>6. QED
  BY Zenon, <1>4, <1>5

(* The loops of deallocuvm() and copyuvm() visit the pages that start from  *)
(* lo on and below hi.                                                      *)
LEMMA PagesAre ==
  ASSUME Sane, Facts, NEW lo \in Nat, NEW hi \in Int
  PROVE  PagesIn(lo, hi) = {v \in VPages : v * PGSIZE >= lo /\ v * PGSIZE < hi}
<1>1. PGSIZE \in Nat \ {0} /\ VPages \in SUBSET Nat
  BY Zenon, VPagesFinite DEF Sane
<1>2. PICK m \in Nat : /\ PGROUNDUP(lo) = m * PGSIZE
                       /\ lo <= m * PGSIZE /\ m * PGSIZE < lo + PGSIZE
  BY Zenon, RoundUp
<1>3. ASSUME NEW v \in VPages PROVE v * PGSIZE >= PGROUNDUP(lo) <=> v * PGSIZE >= lo
  <2>1. v \in Nat /\ v * PGSIZE \in Int /\ m * PGSIZE \in Int
    BY <1>1
  <2>2. v < m => v * PGSIZE + PGSIZE <= m * PGSIZE
    BY <1>1, <2>1, Multiples
  <2>3. v >= m => v * PGSIZE >= m * PGSIZE
    BY <1>1, <2>1, Multiples
  <2>4. QED
    BY <1>1, <1>2, <2>1, <2>2, <2>3
<1>4. QED
  BY Zenon, <1>3 DEF PagesIn

(* The pages below hi.                                                      *)
LEMMA PagesBelow ==
  ASSUME Sane, Facts, NEW hi \in Int
  PROVE  PagesIn(0, hi) = {v \in VPages : v * PGSIZE < hi}
<1>1. PGSIZE \in Nat /\ VPages \in SUBSET Nat
  BY Zenon, VPagesFinite DEF Sane
<1>2. ASSUME NEW v \in VPages PROVE v * PGSIZE >= 0
  <2>1. v \in Nat
    BY Zenon, <1>1
  <2>2. QED
    BY <1>1, <2>1
<1>3. PagesIn(0, hi) = {v \in VPages : v * PGSIZE >= 0 /\ v * PGSIZE < hi}
  BY Zenon, PagesAre
<1>4. QED
  BY Zenon, <1>2, <1>3

(* An image of size 0 has no pages.                                         *)
LEMMA PagesNone == ASSUME Sane, Facts PROVE PagesIn(0, 0) = {}
<1>1. PGSIZE \in Nat /\ VPages \in SUBSET Nat
  BY Zenon, VPagesFinite DEF Sane
<1>2. ASSUME NEW v \in VPages PROVE ~(v * PGSIZE < 0)
  <2>1. v \in Nat
    BY Zenon, <1>1
  <2>2. QED
    BY <1>1, <2>1
<1>3. PagesIn(0, 0) = {v \in VPages : v * PGSIZE < 0}
  BY PagesBelow
<1>4. QED
  BY Zenon, <1>2, <1>3

(* Up to n and up to the end of n's page are the same pages.                *)
LEMMA PagesRounded ==
  ASSUME Sane, Facts, NEW n \in Nat, NEW m \in Nat, n <= m * PGSIZE, m * PGSIZE < n + PGSIZE
  PROVE  PagesIn(0, m * PGSIZE) = PagesIn(0, n)
<1>1. PGSIZE \in Nat \ {0} /\ VPages \in SUBSET Nat
  BY Zenon, VPagesFinite DEF Sane
<1>a. m * PGSIZE \in Int
  BY <1>1
<1>2. ASSUME NEW v \in VPages PROVE v * PGSIZE < m * PGSIZE <=> v * PGSIZE < n
  <2>1. v \in Nat /\ v * PGSIZE \in Int
    BY <1>1
  <2>2. v * PGSIZE < m * PGSIZE => v * PGSIZE + PGSIZE <= m * PGSIZE
    BY <1>1, <2>1, Multiples
  <2>3. QED
    BY <1>1, <1>a, <2>1, <2>2
<1>3. PagesIn(0, m * PGSIZE) = {v \in VPages : v * PGSIZE < m * PGSIZE}
  BY Zenon, <1>a, PagesBelow
<1>4. PagesIn(0, n) = {v \in VPages : v * PGSIZE < n}
  BY PagesBelow
<1>5. QED
  BY Zenon, <1>2, <1>3, <1>4

(* The page that allocuvm() maps next.                                      *)
LEMMA NextPage ==
  ASSUME Sane, Facts, NEW lo \in Nat, (lo \div PGSIZE) * PGSIZE = lo, lo < KERNBASE
  PROVE  /\ lo \div PGSIZE \in VPages
         /\ lo \div PGSIZE \notin PagesIn(0, lo)
         /\ PagesIn(0, lo + PGSIZE) = PagesIn(0, lo) \cup {lo \div PGSIZE}
         /\ ((lo + PGSIZE) \div PGSIZE) * PGSIZE = lo + PGSIZE
<1>1. PGSIZE \in Nat \ {0} /\ VPages \in SUBSET Nat
  BY Zenon, VPagesFinite DEF Sane
<1>2. PICK m \in Nat \ {0} : KERNBASE = m * PGSIZE /\ VPages = 0..(m - 1)
  BY Zenon, Layout
<1>3. PICK k \in Nat : k = lo \div PGSIZE /\ k * PGSIZE = lo
  BY Zenon, <1>1, Divide
<1>4. k < m
  BY <1>1, <1>2, <1>3, Multiples
<1>5. k \in VPages
  BY <1>2, <1>4
<1>6. (k + 1) * PGSIZE = lo + PGSIZE /\ k + 1 \in Nat
  BY <1>1, <1>3
<1>7. (lo + PGSIZE) \div PGSIZE = k + 1
  BY Zenon, <1>1, <1>6, Quotient
<1>8. ASSUME NEW v \in VPages PROVE v * PGSIZE < lo + PGSIZE <=> v * PGSIZE < lo \/ v = k
  <2>1. v \in Nat
    BY Zenon, <1>1
  <2>2. v * PGSIZE < (k + 1) * PGSIZE <=> v < k + 1
    BY <1>1, <1>6, <2>1, Multiples
  <2>3. v * PGSIZE < k * PGSIZE <=> v < k
    BY <1>1, <2>1, Multiples
  <2>4. QED
    BY <1>3, <1>6, <2>1, <2>2, <2>3
<1>9. PagesIn(0, lo + PGSIZE) = {v \in VPages : v * PGSIZE < lo + PGSIZE}
  <2>1. lo + PGSIZE \in Int
    BY <1>1
  <2>2. QED
    BY Zenon, <2>1, PagesBelow
<1>10. PagesIn(0, lo) = {v \in VPages : v * PGSIZE < lo}
  BY PagesBelow
<1>11. PagesIn(0, lo + PGSIZE) = PagesIn(0, lo) \cup {k}
  BY Zenon, <1>5, <1>8, <1>9, <1>10
<1>12. k \notin PagesIn(0, lo)
  BY <1>3, <1>10
<1>13. QED
  BY Zenon, <1>3, <1>5, <1>6, <1>7, <1>11, <1>12

(* What deallocuvm() leaves of the pages that allocuvm() mapped.            *)
LEMMA PagesLeft ==
  ASSUME Sane, Facts, NEW lo \in Nat, NEW hi \in Nat, NEW sz \in Nat,
         (lo \div PGSIZE) * PGSIZE = lo \/ lo <= hi, lo < hi + PGSIZE, sz <= lo
  PROVE  deallocuvm(PagesIn(0, lo), hi, sz) = PagesIn(0, sz)
<1>1. PGSIZE \in Nat \ {0} /\ VPages \in SUBSET Nat
  BY Zenon, VPagesFinite DEF Sane
<1>2. ASSUME NEW v \in VPages, v * PGSIZE < lo PROVE v * PGSIZE < hi
  <2>1. v \in Nat /\ v * PGSIZE \in Int
    BY <1>1
  <2>2. CASE lo <= hi
    BY <1>2, <2>1, <2>2
  <2>3. CASE (lo \div PGSIZE) * PGSIZE = lo
    <3>1. PICK k \in Nat : k * PGSIZE = lo
      BY Zenon, <1>1, <2>3, Divide
    <3>a. v * PGSIZE < k * PGSIZE => v * PGSIZE + PGSIZE <= k * PGSIZE
      BY <1>1, <2>1, Multiples
    <3>2. v * PGSIZE + PGSIZE <= lo
      BY Zenon, <1>2, <3>1, <3>a
    <3>3. QED
      BY <1>1, <2>1, <3>2
  <2>4. QED
    BY Zenon, <2>2, <2>3
<1>3. \A v \in VPages : v * PGSIZE \in Int
  BY <1>1
<1>4. PagesIn(0, lo) = {v \in VPages : v * PGSIZE < lo}
  BY PagesBelow
<1>5. PagesIn(0, sz) = {v \in VPages : v * PGSIZE < sz}
  BY PagesBelow
<1>6. PagesIn(sz, hi) = {v \in VPages : v * PGSIZE >= sz /\ v * PGSIZE < hi}
  BY PagesAre
<1>7. QED
  BY <1>2, <1>3, <1>4, <1>5, <1>6 DEF deallocuvm

-----------------------------------------------------------------------------
(* The pages of a page table are counted by a number.                       *)
LEMMA SizeType ==
  ASSUME Sane, Facts, NEW pg \in PgDirs
  PROVE  /\ Size(pg) \in Nat /\ IsFiniteSet(pg.tabs) /\ IsFiniteSet(pg.pages)
         /\ Cardinality(pg.tabs) \in Nat /\ Cardinality(pg.pages) \in Nat
<1>1. pg.tabs \in SUBSET VPages /\ pg.pages \in SUBSET VPages
  BY Zenon DEF PgDirs
<1>2. IsFiniteSet(pg.tabs) /\ IsFiniteSet(pg.pages)
  BY Zenon, <1>1, VPagesFinite DEF Facts, Parts
<1>3. Cardinality(pg.tabs) \in Nat /\ Cardinality(pg.pages) \in Nat
  BY Zenon, <1>2 DEF Facts, Sized
<1>4. pg.dir \in Nat /\ pg.ktabs \in Nat
  BY DEF PgDirs, Sane
<1>5. QED
  BY <1>2, <1>3, <1>4 DEF Size

(* A missing page table takes no pages.                                     *)
LEMMA SizeNone == ASSUME Sane, Facts PROVE NoPg \in PgDirs /\ Size(NoPg) = 0 /\ Covered(NoPg)
<1>1. Cardinality({}) = 0
  BY Zenon DEF Facts, Small, Sized
<1>2. QED
  BY <1>1 DEF NoPg, PgDirs, Size, Sane, Covered

(* mappages() of a new page takes it, and a table if there is none.         *)
LEMMA SizeMapped ==
  ASSUME Sane, Facts, NEW pg \in PgDirs, NEW v \in VPages, v \notin pg.pages, Covered(pg),
         NEW new, new = mappages(pg, v)
  PROVE  /\ new \in PgDirs /\ Covered(new)
         /\ new.pages = pg.pages \cup {v}
         /\ Size(new) = Size(pg) + 1 + (IF PDX(v) \in pg.tabs THEN 0 ELSE 1)
<1>1. PDX(v) \in VPages
  BY Zenon, VPagesFinite
<1>2. /\ new \in PgDirs /\ new.pages = pg.pages \cup {v}
      /\ new.tabs = pg.tabs \cup {PDX(v)}
      /\ new.dir = pg.dir /\ new.ktabs = pg.ktabs
  BY Zenon, <1>1 DEF PgDirs, mappages
<1>3. Covered(new)
  BY Zenon, <1>2 DEF Covered
<1>4. Cardinality(new.pages) = Cardinality(pg.pages) + 1
  <2>1. IsFiniteSet(pg.pages)
    BY Zenon, SizeType
  <2>2. QED
    BY ZenonT(60), <1>2, <2>1 DEF Facts, OneMore
<1>5. Cardinality(new.tabs) = Cardinality(pg.tabs) + (IF PDX(v) \in pg.tabs THEN 0 ELSE 1)
  <2>1. CASE PDX(v) \in pg.tabs
    <3>1. new.tabs = pg.tabs
      BY Zenon, <1>2, <2>1
    <3>2. QED
      BY <2>1, <3>1, SizeType
  <2>2. CASE PDX(v) \notin pg.tabs
    <3>1. IsFiniteSet(pg.tabs)
      BY Zenon, SizeType
    <3>2. Cardinality(new.tabs) = Cardinality(pg.tabs) + 1
      BY ZenonT(60), <1>2, <2>2, <3>1 DEF Facts, OneMore
    <3>3. QED
      BY Zenon, <2>2, <3>2
  <2>3. QED
    BY Zenon, <2>1, <2>2
<1>6. pg.dir \in Nat /\ pg.ktabs \in Nat /\ Cardinality(pg.tabs) \in Nat
      /\ Cardinality(pg.pages) \in Nat
  <2>1. pg.dir \in Nat /\ pg.ktabs \in Nat
    BY DEF PgDirs, Sane
  <2>2. QED
    BY Zenon, <2>1, SizeType
<1>7. QED
  BY <1>2, <1>3, <1>4, <1>5, <1>6 DEF Size

(* deallocuvm() takes x pages from a page table, and gives them back.       *)
Trimmed(pg, hi, sz, new, x) ==
  /\ new = [pg EXCEPT !.pages = deallocuvm(pg.pages, hi, sz)]
  /\ x = Cardinality(pg.pages \ deallocuvm(pg.pages, hi, sz))

(* What deallocuvm() takes from a page table and what it leaves add up.     *)
LEMMA SizeLeft ==
  ASSUME Sane, Facts, NEW pg \in PgDirs, Covered(pg), NEW hi, NEW sz, NEW new, NEW x,
         Trimmed(pg, hi, sz, new, x)
  PROVE  /\ new \in PgDirs /\ Covered(new)
         /\ new.pages = deallocuvm(pg.pages, hi, sz)
         /\ x \in Nat /\ Size(pg) = Size(new) + x
<1>b. PICK left : left = deallocuvm(pg.pages, hi, sz)
  BY Zenon
<1>c. new = [pg EXCEPT !.pages = left] /\ x = Cardinality(pg.pages \ left)
  BY Zenon, <1>b DEF Trimmed
<1>a. left \in SUBSET pg.pages
  BY Zenon, <1>b DEF deallocuvm
<1>1. new \in PgDirs /\ new.pages = left /\ new.tabs = pg.tabs
      /\ new.dir = pg.dir /\ new.ktabs = pg.ktabs
  BY Zenon, <1>a, <1>c DEF PgDirs
<1>2. Covered(new)
  BY Zenon, <1>a, <1>1 DEF Covered
<1>3. IsFiniteSet(pg.pages) /\ IsFiniteSet(left) /\ IsFiniteSet(pg.pages \ left)
  BY Zenon, <1>a, SizeType DEF Facts, Parts
<1>4. /\ Cardinality(left) \in Nat /\ Cardinality(pg.pages \ left) \in Nat
      /\ Cardinality(pg.tabs) \in Nat
  BY Zenon, <1>3, SizeType DEF Facts, Sized
<1>5. Cardinality(pg.pages) = Cardinality(left) + Cardinality(pg.pages \ left)
  <2>1. /\ left \cup (pg.pages \ left) = pg.pages
        /\ left \cap (pg.pages \ left) = {}
    BY Zenon, <1>a
  <2>2. QED
    <3> DEFINE rest == pg.pages \ left
    <3>1. IsFiniteSet(left) /\ IsFiniteSet(rest) /\ left \cup rest = pg.pages
          /\ left \cap rest = {}
      BY Zenon, <1>a, <1>3
    <3>2. Cardinality(rest) \in Nat
      BY Zenon, <1>4
    <3> HIDE DEF rest
    <3>3. Cardinality(left \cup rest) = Cardinality(left) + Cardinality(rest)
      BY Zenon, <3>1 DEF Facts, Apart
    <3>4. Cardinality(pg.pages) = Cardinality(left) + Cardinality(rest)
      BY <3>1, <3>3, Zenon
    <3>5. QED
      BY Zenon, <3>4 DEF rest
<1>6. pg.dir \in Nat /\ pg.ktabs \in Nat
  BY DEF PgDirs, Sane
<1>7. QED
  BY <1>b, <1>c, <1>1, <1>2, <1>4, <1>5, <1>6 DEF Size

(* setupkvm() takes a page for the directory, and one for each table.       *)
LEMMA SizeKernel ==
  ASSUME Sane, Facts, NEW pg \in PgDirs, Covered(pg), ~(pg.dir = 1 /\ pg.ktabs = KTABS),
         pg.dir = 0 => pg.ktabs = 0, NEW new,
         new = KernelPage(pg)
  PROVE  /\ new \in PgDirs /\ Covered(new) /\ new.dir = 1
         /\ new.pages = pg.pages /\ new.tabs = pg.tabs
         /\ Size(new) = Size(pg) + 1
<1>1. new.pages = pg.pages /\ new.tabs = pg.tabs /\ new.dir = 1
  BY Zenon DEF PgDirs, KernelPage
<1>2. new.dir + new.ktabs = pg.dir + pg.ktabs + 1
  BY DEF PgDirs, Sane, KernelPage
<1>3. new \in PgDirs
  <2>1. CASE pg.dir = 0
    <3>1. new = [pg EXCEPT !.dir = 1]
      BY <2>1, Zenon DEF KernelPage
    <3>2. QED
      BY <3>1 DEF PgDirs
  <2>2. CASE pg.dir = 1
    <3>1. new = [pg EXCEPT !.ktabs = pg.ktabs + 1]
      BY <2>2 DEF KernelPage
    <3>2. pg.ktabs + 1 \in 0..KTABS
      BY <2>2 DEF PgDirs, Sane
    <3>3. QED
      BY <3>1, <3>2, Zenon DEF PgDirs
  <2>3. QED
    BY <2>1, <2>2, Zenon DEF PgDirs
<1>4. Covered(new)
  BY Zenon, <1>1 DEF Covered
<1>5. pg.dir \in Nat /\ pg.ktabs \in Nat /\ new.ktabs \in Nat
  BY <1>3 DEF PgDirs, Sane
<1>6. Size(new) = Size(pg) + 1
  BY <1>1, <1>2, <1>5, SizeType DEF Size
<1>7. QED
  BY Zenon, <1>1, <1>3, <1>4, <1>6

-----------------------------------------------------------------------------
(* What a process and a call hold.                                          *)
Owned(q) == q.kstack + Size(q.pg)
Held(r) == Size(r.new) + r.mem + r.tofree
Use(P, O) ==
  [s \in Slots |-> P[s].kstack + Size(P[s].pg)
                   + Size(O[s].new) + O[s].mem + O[s].tofree]

(* One turn of the fold that adds them up, and the sum it computes.         *)
Round(P, O, g) ==
  [T \in SUBSET Slots |->
     IF T = {} THEN 0
     ELSE (P[First(T)].kstack + Size(P[First(T)].pg) + Size(O[First(T)].new)
           + O[First(T)].mem + O[First(T)].tofree) + g[T \ {First(T)}]]

(* The sum that PagesAccounted computes is the sum of Use over the slots.   *)
LEMMA UseSum ==
  ASSUME NEW P, NEW O
  PROVE  (CHOOSE g : g = Round(P, O, g))[Slots] = Sum(Use(P, O), Slots)
<1> DEFINE F(g) == [T \in SUBSET Slots |->
             IF T = {} THEN 0 ELSE Use(P, O)[First(T)] + g[T \ {First(T)}]]
<1>1. ASSUME NEW g PROVE Round(P, O, g) = F(g)
  <2>1. ASSUME NEW T \in SUBSET Slots, T # {}
        PROVE  Use(P, O)[First(T)]
                 = P[First(T)].kstack + Size(P[First(T)].pg) + Size(O[First(T)].new)
                   + O[First(T)].mem + O[First(T)].tofree
    <3>1. First(T) \in Slots
      BY Zenon, <2>1 DEF First
    <3>2. QED
      BY Zenon, <3>1 DEF Use
  <2>2. QED
    BY Zenon, <2>1 DEF Round
<1>2. Sum(Use(P, O), Slots) = (CHOOSE g : g = F(g))[Slots]
  BY Zenon DEF Sum, MapThenSumSet, MapThenFoldSet, First
<1> HIDE DEF F
<1>3. (CHOOSE g : g = Round(P, O, g)) = (CHOOSE g : g = F(g))
  BY <1>1, Zenon
<1>4. QED
  BY Zenon, <1>2, <1>3

(* PagesAccounted in terms of that sum, now and after a step.               *)
LEMMA Accounted ==
  /\ PagesAccounted <=> NPAGES = nfree + Sum(Use(proc, op), Slots)
  /\ PagesAccounted' <=> NPAGES = nfree' + Sum(Use(proc', op'), Slots)
<1>1. PagesAccounted <=> NPAGES = nfree + (CHOOSE g : g = Round(proc, op, g))[Slots]
  BY Zenon DEF PagesAccounted, MapThenSumSet, MapThenFoldSet, Round, First
<1>2. PagesAccounted' <=> NPAGES = nfree' + (CHOOSE g : g = Round(proc', op', g))[Slots]
  BY Zenon DEF PagesAccounted, MapThenSumSet, MapThenFoldSet, Round, First, Size
<1>3. QED
  BY Zenon, <1>1, <1>2, UseSum

(* What a process and a call hold is a number of pages.                     *)
LEMMA HeldType ==
  ASSUME Sane, Facts, NEW q \in ProcRecs, NEW r \in Calls
  PROVE  /\ q.kstack \in Nat /\ q.pg \in PgDirs /\ Owned(q) \in Nat
         /\ r.new \in PgDirs /\ r.mem \in Nat /\ r.tofree \in Nat
         /\ Held(r) \in Nat
<1>1. q.kstack \in Nat /\ q.pg \in PgDirs
  BY DEF ProcRecs
<1>2. r.new \in PgDirs /\ r.mem \in Nat /\ r.tofree \in Nat
  <2>1. r.mem \in {0, 1}
    BY Zenon DEF Calls
  <2>2. r.new \in PgDirs
    BY Zenon DEF Calls
  <2>3. r.tofree \in Nat
    BY Zenon DEF Calls
  <2>4. QED
    BY <2>1, <2>2, <2>3
<1>3. Size(q.pg) \in Nat /\ Size(r.new) \in Nat
  BY Zenon, <1>1, <1>2, SizeType
<1>4. QED
  BY <1>1, <1>2, <1>3 DEF Owned, Held

(* What a slot accounts for.                                                *)
LEMMA UseType ==
  ASSUME Sane, Facts, NEW P \in [Slots -> ProcRecs], NEW O \in [Slots -> Calls]
  PROVE  /\ Use(P, O) \in [Slots -> Int]
         /\ \A s \in Slots : /\ Owned(P[s]) \in Nat /\ Held(O[s]) \in Nat
                             /\ Use(P, O)[s] = Owned(P[s]) + Held(O[s])
<1>1. ASSUME NEW s \in Slots
      PROVE  /\ Owned(P[s]) \in Nat /\ Held(O[s]) \in Nat
             /\ P[s].kstack + Size(P[s].pg) + Size(O[s].new) + O[s].mem + O[s].tofree
                  = Owned(P[s]) + Held(O[s])
  <2>1. P[s] \in ProcRecs /\ O[s] \in Calls
    BY Zenon
  <2>2. PICK q \in ProcRecs, r \in Calls : q = P[s] /\ r = O[s]
    BY Zenon, <2>1
  <2>3. /\ q.kstack \in Nat /\ Size(q.pg) \in Nat
        /\ Size(r.new) \in Nat /\ r.mem \in Nat /\ r.tofree \in Nat
    BY Zenon, HeldType, SizeType
  <2>4. QED
    BY <2>2, <2>3 DEF Owned, Held
<1>2. QED
  BY <1>1 DEF Use

(* A call that has no new page table holds the pages it still has to free.  *)
LEMMA HeldIs ==
  ASSUME Sane, Facts, NEW r, r.new = NoPg, r.mem = 0, NEW n \in Nat, r.tofree = n
  PROVE  Held(r) = n
<1>1. Size(r.new) = 0
  BY Zenon, SizeNone
<1>2. Size(r.new) + r.mem + r.tofree = n
  BY <1>1
<1>3. QED
  BY Zenon, <1>2 DEF Held

(* A process outside the calls holds no page of its own.                    *)
LEMMA IdleIs ==
  ASSUME Sane, Facts
  PROVE  /\ Idle \in Calls /\ Idle.pc = "user" /\ Idle.k = "" /\ Idle.np = 0
         /\ Idle.new = NoPg /\ Idle.mem = 0 /\ Idle.tofree = 0 /\ Held(Idle) = 0
         /\ ~Reaping(Idle) /\ ~Growing(Idle) /\ ~Forking(Idle)
<1>1. Idle \in Calls
  BY SizeNone DEF Idle, Calls, PCs
<1>2. /\ Idle.pc = "user" /\ Idle.k = "" /\ Idle.np = 0
      /\ Idle.new = NoPg /\ Idle.mem = 0 /\ Idle.tofree = 0
  BY Zenon DEF Idle
<1>3. ~Reaping(Idle) /\ ~Growing(Idle) /\ ~Forking(Idle)
  BY Zenon, <1>2 DEF Reaping, Growing, Forking
<1>4. QED
  BY Zenon, <1>1, <1>2, <1>3, HeldIs

(* Pages that one slot loses another or the free list gets.                 *)
LEMMA Balance ==
  ASSUME NEW n \in Int, NEW f \in Int, NEW g \in Int, NEW a \in Int, NEW b \in Int,
         NEW c \in Int, NEW d \in Int, NEW x \in Int, NEW y \in Int,
         n = f + x, y = x + (c - d) + (a - b), g + a + c = f + b + d
  PROVE  n = g + y
OBVIOUS

(* The process table is finite, and 0 is not a slot.                        *)
LEMMA SlotsAre ==
  ASSUME Sane, Facts
  PROVE  IsFiniteSet(Slots) /\ 0 \notin Slots /\ init \in Slots /\ Slots \subseteq Nat
<1>1. PICK n \in Nat \ {0} : Slots = 1..n
  BY Zenon DEF Sane
<1>2. QED
  BY <1>1 DEF init, Facts, Small

(* The call r of a running process whose entry is q is in order.            *)
GoodCall(r, q) ==
  /\ r \in Calls /\ q \in ProcRecs /\ OpOK(r) /\ FillOK(r, q)
  /\ Covered(r.new) /\ Covered(q.pg) /\ q.state = "RUN" /\ q.sz <= KERNBASE
  /\ ~Growing(r) => q.pg.pages = PagesIn(0, q.sz)

(* A step of a process that changes its own call and entry.                 *)
LEMMA OwnStep ==
  ASSUME Sane, Facts, IInv, NEW p \in Slots, NEW r, NEW q, GoodCall(r, q),
         op' = [op EXCEPT ![p] = r], proc' = [proc EXCEPT ![p] = q],
         panicked' = panicked, nfree' \in Nat,
         proc[p].state = "RUN", q.kstack = proc[p].kstack, r.np = op[p].np,
         r.np # 0 => /\ Reaping(r) <=> Reaping(op[p])
                     /\ r.pc # "kstack" /\ op[p].pc # "kstack",
         nfree' + Owned(q) + Held(r) = nfree + Owned(proc[p]) + Held(op[p])
  PROVE  IInv'
<1>1. MemoryTypeOK'
  BY Zenon DEF IInv, MemoryTypeOK, GoodCall
<1>2. ASSUME NEW s \in Slots PROVE OpOK(op[s])'
  <2>1. op'[s] = IF s = p THEN r ELSE op[s]
    BY Zenon DEF IInv, MemoryTypeOK
  <2>2. OpOK(op'[s])
    BY Zenon, <2>1 DEF IInv, GoodCall
  <2>3. QED
    BY Zenon, <2>2 DEF OpOK, Growing, Reaping, Forking
<1>3. TableInv'
  <2>1. \A s \in Slots : op'[s] = IF s = p THEN r ELSE op[s]
    BY Zenon DEF IInv, MemoryTypeOK
  <2>2. \A s \in Slots : proc'[s] = IF s = p THEN q ELSE proc[s]
    BY Zenon DEF IInv, MemoryTypeOK
  <2>3. \A s \in Slots : op'[s].np = op[s].np
    BY Zenon, <2>1
  <2>4. \A s \in Slots : proc'[s].state = proc[s].state /\ proc'[s].kstack = proc[s].kstack
    BY Zenon, <2>2 DEF GoodCall
  <2>5. \A s \in Slots : op'[s].pc # "user" => proc'[s].state = "RUN"
    BY <2>1, <2>4 DEF IInv, TableInv
  <2>6. ASSUME NEW s \in Slots, op'[s].np # 0
        PROVE  LET c == proc'[op'[s].np]
               IN /\ c.pg = NoPg
                  /\ c.state = IF Reaping(op'[s]) THEN "ZOMBIE" ELSE "EMBRYO"
                  /\ c.kstack = IF Reaping(op'[s]) \/ op'[s].pc = "kstack" THEN 0 ELSE 1
    <3>1. PICK c \in Slots : c = op[s].np
      BY Zenon, <2>3, <2>6 DEF IInv, MemoryTypeOK, Calls
    <3>2. proc[c].state # "RUN" /\ c # p
      BY <2>3, <2>6, <3>1 DEF IInv, TableInv
    <3>3. proc'[c] = proc[c]
      BY Zenon, <2>2, <3>2
    <3>4. /\ (Reaping(op'[s]) <=> Reaping(op[s]))
          /\ (op'[s].pc = "kstack" <=> op[s].pc = "kstack")
      BY Zenon, <2>1, <2>3, <2>6
    <3>5. /\ proc[c].pg = NoPg
          /\ proc[c].state = IF Reaping(op[s]) THEN "ZOMBIE" ELSE "EMBRYO"
          /\ proc[c].kstack = IF Reaping(op[s]) \/ op[s].pc = "kstack" THEN 0 ELSE 1
      BY <2>3, <2>6, <3>1 DEF IInv, TableInv
    <3>6. QED
      BY Zenon, <2>3, <3>1, <3>3, <3>4, <3>5
  <2>7. \A s, t \in Slots : op'[s].np = op'[t].np /\ op'[s].np # 0 => s = t
    BY SMTT(60), <2>3 DEF IInv, TableInv
  <2>8. \A s \in Slots : proc'[s].state = "UNUSED" => proc'[s].kstack = 0 /\ proc'[s].pg = NoPg
    BY <2>2 DEF IInv, TableInv, GoodCall
  <2>9. \A s \in Slots : proc'[s].state \in {"RUN", "ZOMBIE"} =>
          proc'[s].kstack = 1 \/ \E t \in Slots : op'[t].np = s
    BY SMTT(60), <2>3, <2>4 DEF IInv, TableInv
  <2>10. QED
    BY Zenon, <2>5, <2>6, <2>7, <2>8, <2>9 DEF TableInv, Reaping
<1>4. MapInv'
  <2>1. \A s \in Slots : op'[s] = IF s = p THEN r ELSE op[s]
    BY Zenon DEF IInv, MemoryTypeOK
  <2>2. \A s \in Slots : proc'[s] = IF s = p THEN q ELSE proc[s]
    BY Zenon DEF IInv, MemoryTypeOK
  <2>3. ASSUME NEW s \in Slots
        PROVE  /\ Covered(proc'[s].pg) /\ Covered(op'[s].new)
               /\ proc'[s].state = "RUN" =>
                    /\ proc'[s].sz <= KERNBASE
                    /\ ~Growing(op'[s]) => proc'[s].pg.pages = PagesIn(0, proc'[s].sz)
               /\ FillOK(op'[s], proc'[s])
    <3>1. CASE s = p
      BY Zenon, <2>1, <2>2, <3>1 DEF GoodCall
    <3>2. CASE s # p
      BY <2>1, <2>2, <3>2 DEF IInv, MapInv
    <3>3. QED
      BY Zenon, <3>1, <3>2
  <2>4. QED
    BY Zenon, <2>3 DEF MapInv, FillOK, Covered, Growing
<1>5. PagesAccounted'
  <2>1. /\ Use(proc, op) \in [Slots -> Int]
        /\ \A s \in Slots : /\ Owned(proc[s]) \in Nat /\ Held(op[s]) \in Nat
                            /\ Use(proc, op)[s] = Owned(proc[s]) + Held(op[s])
    BY Zenon, UseType DEF IInv, MemoryTypeOK
  <2>2. /\ Use(proc', op') \in [Slots -> Int]
        /\ \A s \in Slots : /\ Owned(proc'[s]) \in Nat /\ Held(op'[s]) \in Nat
                            /\ Use(proc', op')[s] = Owned(proc'[s]) + Held(op'[s])
    BY Zenon, <1>1, UseType DEF MemoryTypeOK
  <2>3. \A s \in Slots \ {p} : Use(proc', op')[s] = Use(proc, op)[s]
    BY Zenon, <2>1, <2>2 DEF IInv, MemoryTypeOK
  <2>4. Sum(Use(proc', op'), Slots)
          = Sum(Use(proc, op), Slots) + Use(proc', op')[p] - Use(proc, op)[p]
    <3>1. PICK f \in [Slots -> Int] : f = Use(proc, op)
      BY Zenon, <2>1
    <3>2. PICK h \in [Slots -> Int] : h = Use(proc', op')
      BY Zenon, <2>2
    <3>3. \A s \in Slots : s # p => h[s] = f[s]
      BY Zenon, <2>3, <3>1, <3>2
    <3>4. Sum(h, Slots) = Sum(f, Slots) + h[p] - f[p]
      BY <3>3, SlotsAre DEF Facts, SumsMove
    <3>5. QED
      BY Zenon, <3>1, <3>2, <3>4
  <2>5. /\ Use(proc', op')[p] = Owned(q) + Held(r) /\ Owned(q) \in Nat
        /\ Held(r) \in Nat
    BY Zenon, <2>2 DEF IInv, MemoryTypeOK
  <2>6. Sum(Use(proc, op), Slots) \in Int
    BY Zenon, <2>1, SlotsAre DEF Facts, SumsAre
  <2>7. NPAGES = nfree + Sum(Use(proc, op), Slots) /\ nfree \in Nat
    BY Zenon, Accounted DEF IInv, MemoryTypeOK
  <2>8. NPAGES = nfree' + Sum(Use(proc', op'), Slots)
    BY <2>1, <2>4, <2>5, <2>6, <2>7
  <2>9. QED
    BY Zenon, <2>8, Accounted
<1>6. QED
  BY Zenon, <1>1, <1>2, <1>3, <1>4, <1>5 DEF IInv

(* The same, for a step that changes the call only.                         *)
LEMMA CallStep ==
  ASSUME Sane, Facts, IInv, NEW p \in Slots, NEW r, GoodCall(r, proc[p]),
         op' = [op EXCEPT ![p] = r], proc' = proc, panicked' = panicked, nfree' \in Nat,
         r.np = op[p].np,
         r.np # 0 => /\ Reaping(r) <=> Reaping(op[p])
                     /\ r.pc # "kstack" /\ op[p].pc # "kstack",
         nfree' + Held(r) = nfree + Held(op[p])
  PROVE  IInv'
<1>1. PICK q : q = proc[p]
  BY Zenon
<1>2. /\ op[p] \in Calls /\ q \in ProcRecs /\ nfree \in Nat
      /\ proc' = [proc EXCEPT ![p] = q]
  BY Zenon, <1>1 DEF IInv, MemoryTypeOK
<1>3. /\ r \in Calls /\ GoodCall(r, q) /\ proc[p].state = "RUN"
      /\ q.kstack = proc[p].kstack
  BY Zenon, <1>1 DEF GoodCall
<1>4. Owned(q) \in Nat /\ Held(r) \in Nat /\ Held(op[p]) \in Nat
  BY Zenon, <1>2, <1>3, HeldType
<1>5. nfree' + Owned(q) + Held(r) = nfree + Owned(proc[p]) + Held(op[p])
  <2>1. nfree' + Owned(q) + Held(r) = nfree + Owned(q) + Held(op[p])
    BY <1>2, <1>4
  <2>2. QED
    BY Zenon, <1>1, <2>1
<1>6. QED
  BY Zenon, <1>2, <1>3, <1>5, OwnStep

(* The entry q of a process that a call r made, finished or gave up.        *)
GoodChild(r, q, s) ==
  /\ q \in ProcRecs /\ r.np \in {0, s} /\ Covered(q.pg)
  /\ r.np = s => /\ q.pg = NoPg
                 /\ q.state = IF Reaping(r) THEN "ZOMBIE" ELSE "EMBRYO"
                 /\ q.kstack = IF Reaping(r) \/ r.pc = "kstack" THEN 0 ELSE 1
  /\ r.np = 0 => q.state \in {"UNUSED", "RUN"}
  /\ q.state = "UNUSED" => q.kstack = 0 /\ q.pg = NoPg
  /\ q.state = "RUN" => /\ q.kstack = 1 /\ q.sz <= KERNBASE
                        /\ q.pg.pages = PagesIn(0, q.sz)

(* A step of a process that changes its call and the entry of a child.      *)
LEMMA ChildStep ==
  ASSUME Sane, Facts, IInv, NEW p \in Slots, NEW t \in Slots, NEW r, NEW q,
         GoodCall(r, proc[p]), GoodChild(r, q, t),
         op' = [op EXCEPT ![p] = r], proc' = [proc EXCEPT ![t] = q],
         panicked' = panicked, nfree' \in Nat, proc[t].state # "RUN",
         op[p].np = t \/ (op[p].np = 0 /\ \A o \in Slots : op[o].np # t),
         nfree' + Owned(q) + Held(r) = nfree + Owned(proc[t]) + Held(op[p])
  PROVE  IInv'
<1>a. p # t /\ t # 0
  BY Zenon, SlotsAre DEF GoodCall
<1>b. op[t] = Idle
  BY Zenon DEF IInv, TableInv, OpOK
<1>1. MemoryTypeOK'
  BY Zenon DEF IInv, MemoryTypeOK, GoodCall, GoodChild
<1>c. \A s \in Slots : op'[s] = IF s = p THEN r ELSE op[s]
  BY Zenon DEF IInv, MemoryTypeOK
<1>d. \A s \in Slots : proc'[s] = IF s = t THEN q ELSE proc[s]
  BY Zenon DEF IInv, MemoryTypeOK
<1>2. ASSUME NEW s \in Slots PROVE OpOK(op[s])'
  <2>1. OpOK(op'[s])
    BY Zenon, <1>c DEF IInv, GoodCall
  <2>2. QED
    BY Zenon, <2>1 DEF OpOK, Growing, Reaping, Forking
<1>3. TableInv'
  <2>1. ASSUME NEW s \in Slots, s # p PROVE op'[s] = op[s] /\ op[s].np # t
    BY <1>a, <1>c, <2>1 DEF IInv, TableInv
  <2>2. op'[p] = r /\ r.np \in {0, t} /\ proc'[t] = q /\ proc'[p] = proc[p]
    BY Zenon, <1>a, <1>c, <1>d DEF GoodChild
  <2>3. proc[p].state = "RUN"
    BY Zenon DEF GoodCall
  <2>4. ASSUME NEW s \in Slots, op'[s].pc # "user" PROVE proc'[s].state = "RUN"
    <3>1. CASE s = p
      BY Zenon, <2>2, <2>3, <3>1
    <3>2. CASE s = t
      <4>1. op'[s] = Idle
        BY Zenon, <1>a, <1>b, <1>c, <3>2
      <4>2. QED
        BY Zenon, <2>4, <4>1, IdleIs
    <3>3. CASE s # p /\ s # t
      BY SMTT(60), <1>c, <1>d, <2>4, <3>3 DEF IInv, TableInv
    <3>4. QED
      BY Zenon, <3>1, <3>2, <3>3
  <2>5. ASSUME NEW s \in Slots, op'[s].np # 0
        PROVE  LET c == proc'[op'[s].np]
               IN /\ c.pg = NoPg
                  /\ c.state = IF Reaping(op'[s]) THEN "ZOMBIE" ELSE "EMBRYO"
                  /\ c.kstack = IF Reaping(op'[s]) \/ op'[s].pc = "kstack" THEN 0 ELSE 1
    <3>1. CASE s = p
      BY SMTT(60), <2>2, <2>5, <3>1 DEF GoodChild
    <3>2. CASE s # p
      <4>1. PICK c \in Slots : c = op[s].np /\ c # t /\ op'[s] = op[s]
        <5>1. op'[s] = op[s] /\ op[s].np # t /\ op[s].np # 0 /\ op[s] \in Calls
          BY Zenon, <2>1, <2>5, <3>2 DEF IInv, MemoryTypeOK
        <5>2. op[s].np \in Slots
          BY Zenon, <5>1 DEF Calls
        <5>3. QED
          BY Zenon, <5>1, <5>2
      <4>2. proc'[c] = proc[c]
        BY Zenon, <1>d, <4>1
      <4>3. /\ proc[c].pg = NoPg
            /\ proc[c].state = IF Reaping(op[s]) THEN "ZOMBIE" ELSE "EMBRYO"
            /\ proc[c].kstack = IF Reaping(op[s]) \/ op[s].pc = "kstack" THEN 0 ELSE 1
        BY Zenon, <2>5, <4>1 DEF IInv, TableInv
      <4>4. QED
        BY Zenon, <4>1, <4>2, <4>3
    <3>3. QED
      BY Zenon, <3>1, <3>2
  <2>6. ASSUME NEW s \in Slots, NEW o \in Slots, op'[s].np = op'[o].np, op'[s].np # 0
        PROVE  s = o
    <3>1. \A x \in Slots \ {p} : op'[x].np = op[x].np /\ op[x].np # t
      BY Zenon, <2>1
    <3>2. op'[p].np \in {0, t}
      BY Zenon, <2>2
    <3>3. CASE s # p /\ o # p
      BY SMTT(60), <2>6, <3>1, <3>3 DEF IInv, TableInv
    <3>4. QED
      BY <2>6, <3>1, <3>2, <3>3
  <2>7. \A s \in Slots : proc'[s].state = "UNUSED" => proc'[s].kstack = 0 /\ proc'[s].pg = NoPg
    BY <1>d DEF IInv, TableInv, GoodChild
  <2>8. ASSUME NEW s \in Slots, proc'[s].state \in {"RUN", "ZOMBIE"}
        PROVE  proc'[s].kstack = 1 \/ \E x \in Slots : op'[x].np = s
    <3>1. CASE s = t
      <4>1. CASE r.np = t
        BY Zenon, <2>2, <3>1, <4>1
      <4>2. CASE r.np = 0
        BY Zenon, <2>2, <2>8, <3>1, <4>2 DEF GoodChild
      <4>3. QED
        BY Zenon, <2>2, <4>1, <4>2
    <3>2. CASE s # t
      <4>1. proc'[s] = proc[s]
        BY Zenon, <1>d, <3>2
      <4>2. CASE proc[s].kstack = 1
        BY Zenon, <4>1, <4>2
      <4>3. ASSUME NEW x \in Slots, op[x].np = s PROVE op'[x].np = s
        <5>1. x # p
          BY Zenon, <3>2, <4>3, SlotsAre
        <5>2. QED
          BY Zenon, <2>1, <4>3, <5>1
      <4>4. QED
        BY SMTT(60), <2>8, <4>1, <4>2, <4>3 DEF IInv, TableInv
    <3>3. QED
      BY Zenon, <3>1, <3>2
  <2>9. QED
    BY Zenon, <2>4, <2>5, <2>6, <2>7, <2>8 DEF TableInv, Reaping
<1>4. MapInv'
  <2>1. ASSUME NEW s \in Slots
        PROVE  /\ Covered(proc'[s].pg) /\ Covered(op'[s].new)
               /\ proc'[s].state = "RUN" =>
                    /\ proc'[s].sz <= KERNBASE
                    /\ ~Growing(op'[s]) => proc'[s].pg.pages = PagesIn(0, proc'[s].sz)
               /\ FillOK(op'[s], proc'[s])
    <3>1. CASE s = p
      BY ZenonT(60), <1>a, <1>c, <1>d, <3>1 DEF GoodCall
    <3>2. CASE s = t
      <4>1. op'[s] = Idle /\ proc'[s] = q
        BY Zenon, <1>a, <1>b, <1>c, <1>d, <3>2
      <4>2. FillOK(Idle, q)
        BY Zenon DEF FillOK, Idle
      <4>3. Covered(Idle.new)
        BY Zenon, SizeNone DEF Idle
      <4>4. QED
        BY Zenon, <4>1, <4>2, <4>3 DEF GoodChild
    <3>3. CASE s # p /\ s # t
      BY SMTT(60), <1>c, <1>d, <3>3 DEF IInv, MapInv
    <3>4. QED
      BY Zenon, <3>1, <3>2, <3>3
  <2>2. QED
    BY Zenon, <2>1 DEF MapInv, FillOK, Covered, Growing
<1>5. PagesAccounted'
  <2>1. /\ Use(proc, op) \in [Slots -> Int]
        /\ \A s \in Slots : /\ Owned(proc[s]) \in Nat /\ Held(op[s]) \in Nat
                            /\ Use(proc, op)[s] = Owned(proc[s]) + Held(op[s])
    BY Zenon, UseType DEF IInv, MemoryTypeOK
  <2>2. /\ Use(proc', op') \in [Slots -> Int]
        /\ \A s \in Slots : /\ Owned(proc'[s]) \in Nat /\ Held(op'[s]) \in Nat
                            /\ Use(proc', op')[s] = Owned(proc'[s]) + Held(op'[s])
    BY ZenonT(60), <1>1, UseType DEF MemoryTypeOK
  <2>3. \A s \in Slots \ {p, t} : Use(proc', op')[s] = Use(proc, op)[s]
    <3>1. ASSUME NEW s \in Slots, s # p, s # t
          PROVE  op'[s] = op[s] /\ proc'[s] = proc[s]
      BY Zenon, <1>c, <1>d, <3>1
    <3>2. QED
      BY ZenonT(60), <2>1, <2>2, <3>1
  <2>4. Sum(Use(proc', op'), Slots)
          = Sum(Use(proc, op), Slots) + (Use(proc', op')[p] - Use(proc, op)[p])
            + (Use(proc', op')[t] - Use(proc, op)[t])
    <3>1. PICK f \in [Slots -> Int] : f = Use(proc, op)
      BY Zenon, <2>1
    <3>2. PICK h \in [Slots -> Int] : h = Use(proc', op')
      BY Zenon, <2>2
    <3>3. \A s \in Slots \ {p, t} : h[s] = f[s]
      BY ZenonT(60), <2>3, <3>1, <3>2
    <3>4. Sum(h, Slots) = Sum(f, Slots) + (h[p] - f[p]) + (h[t] - f[t])
      BY <1>a, <3>3, SlotsAre DEF Facts, SumsMove
    <3>5. QED
      BY Zenon, <3>1, <3>2, <3>4
  <2>5. /\ Use(proc', op')[p] = Owned(proc[p]) + Held(r)
        /\ Use(proc', op')[t] = Owned(q) + Held(op[t])
        /\ Owned(q) \in Nat /\ Held(r) \in Nat
    BY ZenonT(60), <1>a, <1>c, <1>d, <2>2
  <2>6. Sum(Use(proc, op), Slots) \in Int
    BY Zenon, <2>1, SlotsAre DEF Facts, SumsAre
  <2>7. NPAGES = nfree + Sum(Use(proc, op), Slots) /\ nfree \in Nat
    BY Zenon, Accounted DEF IInv, MemoryTypeOK
  <2>8. NPAGES = nfree' + Sum(Use(proc', op'), Slots)
    <3>1. /\ Use(proc, op)[p] = Owned(proc[p]) + Held(op[p])
          /\ Use(proc, op)[t] = Owned(proc[t]) + Held(op[t])
          /\ Owned(proc[p]) \in Nat /\ Held(op[p]) \in Nat
          /\ Owned(proc[t]) \in Nat /\ Held(op[t]) \in Nat
      BY Zenon, <2>1
    <3>2. Sum(Use(proc', op'), Slots)
            = Sum(Use(proc, op), Slots) + (Held(r) - Held(op[p]))
              + (Owned(q) - Owned(proc[t]))
      BY <2>4, <2>5, <2>6, <3>1
    <3>3. QED
      <4>1. /\ NPAGES \in Int /\ nfree \in Int
            /\ Sum(Use(proc', op'), Slots) \in Int
        <5>1. NPAGES \in Int /\ nfree \in Int
          BY <2>7 DEF Sane
        <5>2. PICK h \in [Slots -> Int] : h = Use(proc', op')
          BY Zenon, <2>2
        <5>3. Sum(h, Slots) \in Int
          BY Zenon, SlotsAre DEF Facts, SumsAre
        <5>4. QED
          BY Zenon, <5>1, <5>2, <5>3
      <4>2. /\ nfree' \in Int /\ Owned(q) \in Int /\ Held(r) \in Int
            /\ Owned(proc[t]) \in Int /\ Held(op[p]) \in Int
        BY <2>5, <3>1
      <4>3. QED
        BY SMTT(60), <2>6, <2>7, <3>2, <4>1, <4>2, Balance
  <2>9. QED
    BY Zenon, <2>8, Accounted
<1>6. QED
  BY Zenon, <1>1, <1>2, <1>3, <1>4, <1>5 DEF IInv

-----------------------------------------------------------------------------
(* The entry of a process that runs and does not grow.                      *)
GoodEntry(q) ==
  /\ q \in ProcRecs /\ Covered(q.pg) /\ q.state = "RUN" /\ q.sz <= KERNBASE
  /\ q.pg.pages = PagesIn(0, q.sz)

(* A process that makes no call holds nothing but its entry.                *)
LEMMA GoodIdle ==
  ASSUME Sane, Facts, NEW q, GoodEntry(q)
  PROVE  GoodCall(Idle, q) /\ Held(Idle) = 0 /\ Idle.np = 0 /\ Idle \in Calls
<1>a. FillOK(Idle, q)
  BY Zenon, IdleIs DEF FillOK
<1>1. OpOK(Idle)
  BY Zenon, IdleIs DEF OpOK
<1>2. QED
  BY Zenon, <1>a, <1>1, IdleIs, SizeNone DEF GoodCall, GoodEntry

(* Pages to give back, one by one, and what comes after.                    *)
LEMMA GoodKfree ==
  ASSUME Sane, Facts, NEW q, GoodEntry(q), NEW r \in Calls, NEW n \in Nat,
         NEW k \in {"user", "forkbad", "reaped"}, r.new = NoPg, r.mem = 0,
         r.np # 0 <=> k # "user", NEW c, c = Kfree(r, n, k)
  PROVE  /\ GoodCall(c, q) /\ Held(c) = n /\ c.np = r.np
         /\ c.pc # "kstack" /\ (Reaping(c) <=> k = "reaped")
<1>1. CASE n = 0 /\ k = "user"
  <2>1. c = Idle
    BY Zenon, <1>1 DEF Kfree, After
  <2>2. r.np = 0
    BY Zenon, <1>1
  <2>3. QED
    BY Zenon, <1>1, <2>1, <2>2, GoodIdle, IdleIs
<1>2. CASE n = 0 /\ k # "user"
  <2>1. c = [r EXCEPT !.pc = k, !.tofree = 0, !.k = ""]
    BY Zenon, <1>2 DEF Kfree, After
  <2>2. /\ c.pc = k /\ c.tofree = 0 /\ c.k = "" /\ c.np = r.np
        /\ c.new = NoPg /\ c.mem = 0
    BY Zenon, <2>1 DEF Calls
  <2>3. c \in Calls
    <3>1. k \in PCs
      BY Zenon DEF PCs
    <3>2. PICK y : y = "" /\ y \in PCs \cup {""}
      BY Zenon
    <3>3. PICK z \in Nat : z = 0
      OBVIOUS
    <3>4. c = [r EXCEPT !.pc = k, !.tofree = z, !.k = y]
      BY Zenon, <2>1, <3>2, <3>3
    <3>5. QED
      BY ZenonT(60), <3>1, <3>2, <3>4 DEF Calls
  <2>a. /\ (Reaping(c) <=> k = "reaped") /\ ~Growing(c)
        /\ (Forking(c) <=> k = "forkbad")
    BY Zenon, <1>2, <2>2 DEF Growing, Reaping, Forking
  <2>b. FillOK(c, q)
    BY Zenon, <1>2, <2>2 DEF FillOK
  <2>4. OpOK(c)
    BY Zenon, <1>2, <2>2, <2>a DEF OpOK
  <2>5. Held(c) = 0
    BY ZenonT(60), <2>2, HeldIs
  <2>6. QED
    BY ZenonT(60), <1>2, <2>2, <2>3, <2>a, <2>b, <2>4, <2>5, SizeNone DEF GoodCall,
       GoodEntry
<1>3. CASE n # 0
  <2>1. c = [r EXCEPT !.pc = "kfree", !.tofree = n, !.k = k]
    BY Zenon, <1>3 DEF Kfree
  <2>2. /\ c.pc = "kfree" /\ c.tofree = n /\ c.k = k /\ c.np = r.np
        /\ c.new = NoPg /\ c.mem = 0
    BY Zenon, <2>1 DEF Calls
  <2>3. c \in Calls
    BY ZenonT(60), <2>1 DEF Calls, PCs
  <2>4. /\ (Reaping(c) <=> k = "reaped") /\ ~Growing(c)
        /\ (Forking(c) <=> k = "forkbad")
    BY Zenon, <2>2 DEF Growing, Reaping, Forking
  <2>5. OpOK(c)
    BY Zenon, <1>3, <2>2, <2>4 DEF OpOK
  <2>6. FillOK(c, q)
    BY Zenon, <2>2 DEF FillOK
  <2>7. Held(c) = n
    BY Zenon, <2>2, HeldIs
  <2>8. QED
    BY Zenon, <2>2, <2>3, <2>4, <2>5, <2>6, <2>7, SizeNone DEF GoodCall, GoodEntry
<1>4. QED
  BY Zenon, <1>1, <1>2, <1>3

(* The same for a call that ends then.                                      *)
LEMMA GoodFree ==
  ASSUME Sane, Facts, NEW q, GoodEntry(q), NEW n \in Nat, NEW c, c = Kfree(Idle, n, "user")
  PROVE  GoodCall(c, q) /\ Held(c) = n /\ c.np = 0
<1>1. PICK k \in {"user", "forkbad", "reaped"} : k = "user"
  BY Zenon
<1>2. PICK r \in Calls : r = Idle /\ r.new = NoPg /\ r.mem = 0 /\ r.np = 0
  BY Zenon, IdleIs
<1>3. c = Kfree(r, n, k)
  BY Zenon, <1>1, <1>2
<1>4. QED
  BY <1>1, <1>2, <1>3, GoodKfree

(* exec() and fork() that fail give back all that their call holds.         *)
LEMMA GoodBad ==
  ASSUME Sane, Facts, NEW q, GoodEntry(q), NEW r \in Calls, OpOK(r), ~Growing(r),
         r.pc \in {"setupkvm", "alloc", "segment", "loaded", "args"}, NEW c, c = Bad(r)
  PROVE  /\ GoodCall(c, q) /\ Held(c) = Held(r) /\ c.np = r.np
         /\ c.pc # "kstack" /\ ~Reaping(c) /\ ~Reaping(r)
<1>1. PICK b : b = [r EXCEPT !.new = NoPg, !.mem = 0]
  BY Zenon
<1>2. b \in Calls /\ b.new = NoPg /\ b.mem = 0 /\ b.np = r.np
  BY Zenon, <1>1, SizeNone DEF Calls
<1>3. PICK n : n = Size(r.new) + r.mem
  BY Zenon
<1>4. PICK k : k = IF r.np = 0 THEN "user" ELSE "forkbad"
  BY Zenon
<1>5. c = Kfree(b, n, k)
  BY Zenon, <1>1, <1>3, <1>4 DEF Bad, freevm
<1>6. r.tofree = 0
  <2>1. r.tofree \in Nat
    BY Zenon, HeldType DEF GoodEntry
  <2>2. QED
    BY Zenon, <2>1 DEF OpOK
<1>7. n \in Nat /\ n = Held(r)
  BY <1>3, <1>6, HeldType, SizeType DEF Held, GoodEntry
<1>8. ~Reaping(r)
  BY Zenon DEF Reaping, OpOK
<1>9. k \in {"user", "forkbad"} /\ (b.np # 0 <=> k # "user")
  BY Zenon, <1>2, <1>4
<1>10. GoodCall(c, q) /\ Held(c) = n /\ c.np = b.np /\ c.pc # "kstack"
       /\ (Reaping(c) <=> k = "reaped")
  BY SMTT(60), <1>2, <1>5, <1>7, <1>9, GoodKfree
<1>11. QED
  BY Zenon, <1>2, <1>7, <1>8, <1>9, <1>10

(* setupkvm() starts with nothing.                                          *)
LEMMA GoodSetup ==
  ASSUME Sane, Facts, NEW q, GoodEntry(q), NEW r \in Calls, r.mem = 0, r.tofree = 0, r.sz = 0,
         NEW k \in {"copyuvm", "segment"}, r.np # 0 <=> k = "copyuvm",
         NEW c, c = Setupkvm(r, k)
  PROVE  /\ GoodCall(c, q) /\ Held(c) = 0 /\ c.np = r.np
         /\ c.pc # "kstack" /\ ~Reaping(c)
<1>1. c = [r EXCEPT !.pc = "setupkvm", !.new = NoPg, !.k = k]
  BY Zenon DEF Setupkvm
<1>2. /\ c.pc = "setupkvm" /\ c.new = NoPg /\ c.k = k /\ c.np = r.np /\ c.sz = 0
      /\ c.mem = 0 /\ c.tofree = 0
  BY Zenon, <1>1 DEF Calls
<1>3. c \in Calls
  BY Zenon, <1>1, SizeNone DEF Calls, PCs
<1>4. ~Reaping(c) /\ ~Growing(c) /\ (Forking(c) <=> k = "copyuvm")
  BY Zenon, <1>2 DEF Reaping, Growing, Forking
<1>5. NoPg.tabs = {} /\ NoPg.pages = {} /\ NoPg.ktabs = 0
  BY Zenon DEF NoPg
<1>6. OpOK(c)
  BY Zenon, <1>2, <1>4, <1>5 DEF OpOK
<1>7. FillOK(c, q)
  BY Zenon, <1>2 DEF FillOK
<1>8. Held(c) = 0
  BY Zenon, <1>2, HeldIs
<1>9. QED
  BY Zenon, <1>2, <1>3, <1>4, <1>6, <1>7, <1>8, SizeNone DEF GoodCall, GoodEntry

(* Max of two numbers is the larger.                                        *)
LEMMA MaxOf ==
  ASSUME NEW a \in Int, NEW b \in Int, NEW c, c = Max({a, b})
  PROVE  c \in {a, b} /\ c >= a /\ c >= b
<1>1. \E x \in {a, b} : \A y \in {a, b} : x >= y
  BY SMTT(60)
<1>2. QED
  BY Zenon, <1>1 DEF Max

(* allocuvm() starts on the first page that is not mapped.                  *)
LEMMA GoodAlloc ==
  ASSUME Sane, Facts, NEW q, GoodEntry(q), NEW r \in Calls, r.mem = 0, r.tofree = 0,
         Covered(r.new), NEW a \in Nat, NEW b \in Nat, a <= KERNBASE, b <= KERNBASE,
         NEW k \in {"grown", "forked", "loaded", "args"}, r.np # 0 <=> k = "forked",
         k = "grown" => a = q.sz /\ r.new = NoPg,
         k # "grown" => r.new.pages = PagesIn(0, a),
         k = "forked" => a = 0 /\ b = q.sz,
         NEW c, c = Allocuvm(r, a, b, k)
  PROVE  /\ GoodCall(c, q) /\ Held(c) = Held(r) /\ c.np = r.np
         /\ c.pc # "kstack" /\ ~Reaping(c)
<1>1. PICK m \in Nat : /\ PGROUNDUP(a) = m * PGSIZE
                       /\ a <= m * PGSIZE /\ m * PGSIZE < a + PGSIZE
  BY Zenon, RoundUp
<1>2. PGSIZE \in Nat \ {0} /\ KERNBASE \in Nat
  BY Zenon, VPagesFinite DEF Sane
<1>3. PICK lo \in Nat : lo = m * PGSIZE
  BY <1>2
<1>4. PICK hi \in Nat : hi = Max({a, b}) /\ hi \in {a, b} /\ hi >= a /\ hi >= b
  <2>1. PICK hi : hi = Max({a, b})
    BY Zenon
  <2>2. hi \in {a, b} /\ hi >= a /\ hi >= b
    <3>1. a \in Int /\ b \in Int
      OBVIOUS
    <3>2. QED
      BY Zenon, <2>1, <3>1, MaxOf
  <2>3. QED
    BY Zenon, <2>1, <2>2
<1>5. c = [r EXCEPT !.pc = "alloc", !.sz = a, !.lo = lo, !.hi = hi, !.k = k]
  BY Zenon, <1>1, <1>3, <1>4 DEF Allocuvm
<1>6. /\ c.pc = "alloc" /\ c.sz = a /\ c.lo = lo /\ c.hi = hi /\ c.k = k
      /\ c.new = r.new /\ c.np = r.np /\ c.mem = 0 /\ c.tofree = 0
  BY Zenon, <1>5 DEF Calls
<1>7. c \in Calls
  BY ZenonT(60), <1>5 DEF Calls, PCs
<1>8. /\ ~Reaping(c) /\ (Growing(c) <=> k = "grown")
      /\ (Forking(c) <=> k = "forked")
  BY Zenon, <1>6 DEF Reaping, Growing, Forking
<1>9. OpOK(c)
  BY Zenon, <1>6, <1>8 DEF OpOK
<1>10. (lo \div PGSIZE) * PGSIZE = lo
  BY Zenon, <1>2, <1>3, Quotient
<1>11. lo < hi + PGSIZE /\ a <= lo /\ hi <= KERNBASE
  BY SMTT(60), <1>1, <1>2, <1>3, <1>4
<1>12. PagesIn(0, lo) = PagesIn(0, a)
  BY Zenon, <1>1, <1>3, PagesRounded
<1>13. k = "forked" => hi = q.sz
  BY SMTT(60), <1>4
<1>14. (IF k = "grown" THEN q.pg ELSE r.new).pages = PagesIn(0, lo)
  BY Zenon, <1>12 DEF GoodEntry
<1>15. FillOK(c, q)
  BY SMTT(60), <1>6, <1>10, <1>11, <1>13, <1>14 DEF FillOK
<1>16. Held(c) = Held(r)
  BY Zenon, <1>6 DEF Held
<1>17. QED
  BY Zenon, <1>6, <1>7, <1>8, <1>9, <1>15, <1>16 DEF GoodCall, GoodEntry

-----------------------------------------------------------------------------
(* What the invariant says of a running process.                            *)
LEMMA Now ==
  ASSUME Sane, Facts, IInv, NEW p \in Slots, proc[p].state = "RUN" \/ op[p].pc # "user"
  PROVE  /\ GoodCall(op[p], proc[p]) /\ proc[p].state = "RUN"
         /\ op[p] \in Calls /\ proc[p] \in ProcRecs /\ OpOK(op[p])
         /\ ~Growing(op[p]) => GoodEntry(proc[p])
         /\ op[p].pc = "user" => op[p] = Idle /\ GoodEntry(proc[p])
         /\ proc = [proc EXCEPT ![p] = proc[p]] /\ nfree \in Nat
<1>1. /\ op[p] \in Calls /\ proc[p] \in ProcRecs /\ OpOK(op[p]) /\ nfree \in Nat
      /\ proc = [proc EXCEPT ![p] = proc[p]]
  BY Zenon DEF IInv, MemoryTypeOK
<1>2. proc[p].state = "RUN"
  BY Zenon DEF IInv, TableInv
<1>3. /\ Covered(proc[p].pg) /\ Covered(op[p].new) /\ FillOK(op[p], proc[p])
      /\ proc[p].sz <= KERNBASE
      /\ ~Growing(op[p]) => proc[p].pg.pages = PagesIn(0, proc[p].sz)
  BY Zenon, <1>2 DEF IInv, MapInv
<1>4. op[p].pc = "user" => op[p] = Idle
  BY Zenon, <1>1 DEF OpOK
<1>5. QED
  BY ZenonT(60), <1>1, <1>2, <1>3, <1>4, IdleIs DEF GoodCall, GoodEntry

(* A call that is not freeing or mapping holds its new page table only.     *)
LEMMA HeldNow ==
  ASSUME Sane, Facts, NEW r \in Calls, OpOK(r), r.pc # "kfree"
  PROVE  r.tofree = 0 /\ Held(r) = Size(r.new) + r.mem
<1>1. r.tofree = 0
  BY Zenon DEF OpOK, Calls
<1>2. r.mem \in {0, 1} /\ r.new \in PgDirs
  BY Zenon DEF Calls
<1>3. Size(r.new) \in Nat
  BY Zenon, <1>2, SizeType
<1>4. QED
  BY <1>1, <1>2, <1>3 DEF Held

(* kfree() of one page.                                                     *)
LEMMA KfreeStepKeeps ==
  ASSUME Sane, Facts, IInv, NEW p \in Slots, KfreeStep(p)
  PROVE  IInv'
<1>1. PICK r : r = op[p] /\ r.pc = "kfree"
  BY Zenon DEF KfreeStep
<1>2. /\ r \in Calls /\ OpOK(r) /\ proc[p].state = "RUN" /\ proc[p] \in ProcRecs
      /\ proc = [proc EXCEPT ![p] = proc[p]] /\ nfree \in Nat
      /\ ~Growing(r) => GoodEntry(proc[p])
  BY Zenon, <1>1, Now
<1>3. /\ r.k \in {"user", "forkbad", "reaped"} /\ r.new = NoPg /\ r.mem = 0
      /\ r.tofree \in Nat /\ r.tofree # 0
      /\ r.np # 0 <=> Forking(r) \/ Reaping(r)
  BY Zenon, <1>1, <1>2, HeldType DEF OpOK
<1>4. /\ ~Growing(r) /\ (Reaping(r) <=> r.k = "reaped")
      /\ (Forking(r) <=> r.k = "forkbad")
  BY Zenon, <1>1, <1>3 DEF Growing, Reaping, Forking
<1>5. PICK n \in Nat : n = r.tofree - 1
  BY <1>3
<1>6. PICK c : c = Kfree(r, n, r.k)
  BY Zenon
<1>7. /\ GoodCall(c, proc[p]) /\ Held(c) = n /\ c.np = r.np
      /\ c.pc # "kstack" /\ (Reaping(c) <=> r.k = "reaped")
  BY SMTT(60), <1>2, <1>3, <1>4, <1>5, <1>6, GoodKfree
<1>8. Held(r) = r.tofree
  BY Zenon, <1>3, HeldIs
<1>9. /\ nfree' = nfree + 1 /\ op' = [op EXCEPT ![p] = c]
      /\ proc' = proc /\ panicked' = panicked
  BY Zenon, <1>1, <1>5, <1>6 DEF KfreeStep, Go
<1>10. nfree' \in Nat /\ nfree' + Held(c) = nfree + Held(op[p])
  BY SMTT(60), <1>1, <1>2, <1>3, <1>5, <1>7, <1>8, <1>9
<1>11. QED
  BY ZenonT(60), <1>1, <1>4, <1>7, <1>9, <1>10, CallStep

(* setupkvm(): one kalloc(), or the end.                                    *)
LEMMA SetupkvmStepKeeps ==
  ASSUME Sane, Facts, IInv, NEW p \in Slots, SetupkvmStep(p)
  PROVE  IInv'
<1>1. PICK r : r = op[p] /\ r.pc = "setupkvm"
  BY Zenon DEF SetupkvmStep
<1>2. /\ r \in Calls /\ OpOK(r) /\ GoodCall(r, proc[p]) /\ nfree \in Nat
      /\ ~Growing(r) => GoodEntry(proc[p])
  BY Zenon, <1>1, Now
<1>3. /\ r.k \in {"copyuvm", "segment"} /\ r.sz = 0 /\ r.mem = 0 /\ r.tofree = 0
      /\ r.new.tabs = {} /\ r.new.pages = {}
      /\ (r.new.dir = 0 => r.new.ktabs = 0)
      /\ r.np # 0 <=> Forking(r) \/ Reaping(r)
  BY Zenon, <1>1, <1>2 DEF OpOK
<1>4. ~Growing(r) /\ ~Reaping(r) /\ (Forking(r) <=> r.k = "copyuvm")
  BY Zenon, <1>1, <1>3 DEF Growing, Reaping, Forking
<1>5. GoodEntry(proc[p])
  BY Zenon, <1>2, <1>4
<1>6. proc' = proc /\ panicked' = panicked
  BY Zenon DEF SetupkvmStep
<1>7. CASE r.new.dir = 1 /\ r.new.ktabs = KTABS
  <2>1. PICK c : c = [r EXCEPT !.pc = r.k, !.k = ""]
    BY Zenon
  <2>2. op' = [op EXCEPT ![p] = c] /\ nfree' = nfree
    BY Zenon, <1>1, <1>7, <2>1 DEF SetupkvmStep, Go
  <2>3. /\ c.pc = r.k /\ c.k = "" /\ c.new = r.new /\ c.sz = 0 /\ c.mem = 0
        /\ c.tofree = 0 /\ c.np = r.np
    BY Zenon, <1>2, <1>3, <2>1 DEF Calls
  <2>4. c \in Calls
    <3>1. r.k \in PCs
      BY Zenon, <1>3 DEF PCs
    <3>2. PICK y : y = "" /\ y \in PCs \cup {""}
      BY Zenon
    <3>3. c = [r EXCEPT !.pc = r.k, !.k = y]
      BY Zenon, <2>1, <3>2
    <3>4. QED
      BY ZenonT(60), <1>2, <3>1, <3>2, <3>3 DEF Calls
  <2>5. ~Growing(c) /\ ~Reaping(c) /\ (Forking(c) <=> r.k = "copyuvm")
    BY Zenon, <1>3, <2>3 DEF Growing, Reaping, Forking
  <2>6. OpOK(c)
    BY ZenonT(60), <1>3, <1>4, <2>3, <2>5 DEF OpOK
  <2>7. FillOK(c, proc[p])
    <3>1. c.new.pages = PagesIn(0, c.sz)
      BY Zenon, <1>3, <2>3, PagesNone
    <3>2. c.sz <= KERNBASE
      <4>1. KERNBASE \in Nat
        BY Zenon, VPagesFinite
      <4>2. 0 <= KERNBASE
        BY <4>1
      <4>3. c.sz = 0
        BY Zenon, <2>3
      <4>4. QED
        BY <4>2, <4>3, Zenon
    <3>3. c.pc \in {"copyuvm", "segment"}
      BY Zenon, <1>3, <2>3
    <3>4. QED
      BY Zenon, <3>1, <3>2, <3>3 DEF FillOK
  <2>8. GoodCall(c, proc[p])
    BY Zenon, <1>2, <1>5, <2>3, <2>4, <2>6, <2>7 DEF GoodCall, GoodEntry
  <2>9. Held(c) = Held(r)
    BY Zenon, <1>3, <2>3 DEF Held
  <2>10. nfree' \in Nat /\ nfree' + Held(c) = nfree + Held(op[p])
    BY Zenon, <1>1, <1>2, <2>2, <2>9
  <2>11. c.pc # "kstack"
    BY Zenon, <1>3, <2>3
  <2>12. QED
    BY ZenonT(60), <1>1, <1>4, <1>6, <2>2, <2>3, <2>5, <2>8, <2>10, <2>11, CallStep
<1>8. CASE ~(r.new.dir = 1 /\ r.new.ktabs = KTABS) /\ nfree > 0
  <2>1. PICK new : new = KernelPage(r.new)
    BY Zenon
  <2>2. PICK c : c = [r EXCEPT !.new = new]
    BY Zenon
  <2>3. op' = [op EXCEPT ![p] = c] /\ nfree' = nfree - 1
    BY Zenon, <1>1, <1>8, <2>1, <2>2 DEF SetupkvmStep, Go, Kalloc
  <2>4. r.new \in PgDirs /\ Covered(r.new)
    BY ZenonT(60), <1>2 DEF Calls, GoodCall
  <2>5. /\ new \in PgDirs /\ Covered(new) /\ new.dir = 1
        /\ new.pages = r.new.pages /\ new.tabs = r.new.tabs
        /\ Size(new) = Size(r.new) + 1
    BY Zenon, <1>3, <1>8, <2>1, <2>4, SizeKernel
  <2>6. /\ c.pc = "setupkvm" /\ c.k = r.k /\ c.new = new /\ c.sz = 0
        /\ c.mem = 0
        /\ c.tofree = 0 /\ c.np = r.np
    BY Zenon, <1>1, <1>2, <1>3, <2>2 DEF Calls
  <2>7. c \in Calls
    BY Zenon, <1>2, <2>2, <2>5 DEF Calls
  <2>8. ~Growing(c) /\ ~Reaping(c) /\ (Forking(c) <=> r.k = "copyuvm")
    BY ZenonT(60), <1>3, <2>6 DEF Growing, Reaping, Forking
  <2>9. OpOK(c)
    BY SMTT(60), <1>3, <1>4, <2>5, <2>6, <2>8 DEF OpOK
  <2>10. FillOK(c, proc[p])
    BY Zenon, <2>6 DEF FillOK
  <2>11. GoodCall(c, proc[p])
    BY Zenon, <1>5, <2>5, <2>6, <2>7, <2>9, <2>10 DEF GoodCall, GoodEntry
  <2>12. Held(c) = Held(r) + 1
    <3>1. Size(r.new) \in Nat
      BY Zenon, <2>4, SizeType
    <3>2. QED
      BY SMTT(60), <1>3, <2>5, <2>6, <3>1 DEF Held
  <2>13. nfree' \in Nat /\ nfree' + Held(c) = nfree + Held(op[p])
    <3>1. Held(r) \in Nat
      BY Zenon, <1>2, HeldType DEF GoodCall
    <3>2. QED
      BY SMTT(60), <1>1, <1>2, <1>8, <2>3, <2>12, <3>1
  <2>14. QED
    BY ZenonT(60), <1>1, <1>4, <1>6, <2>3, <2>6, <2>8, <2>11, <2>13, CallStep
<1>9. CASE ~(r.new.dir = 1 /\ r.new.ktabs = KTABS) /\ ~(nfree > 0)
  <2>1. PICK c : c = Bad(r)
    BY Zenon
  <2>2. op' = [op EXCEPT ![p] = c] /\ nfree' = nfree
    BY Zenon, <1>1, <1>9, <2>1 DEF SetupkvmStep, Go, Kalloc
  <2>3. /\ GoodCall(c, proc[p]) /\ Held(c) = Held(r) /\ c.np = r.np
        /\ c.pc # "kstack" /\ ~Reaping(c)
    BY Zenon, <1>1, <1>2, <1>4, <1>5, <2>1, GoodBad
  <2>4. nfree' \in Nat /\ nfree' + Held(c) = nfree + Held(op[p])
    BY Zenon, <1>1, <1>2, <2>2, <2>3
  <2>5. QED
    BY ZenonT(60), <1>1, <1>4, <1>6, <2>2, <2>3, <2>4, CallStep
<1>10. QED
  BY Zenon, <1>7, <1>8, <1>9

(* allocuvm() and copyuvm() that run out of memory.                         *)
LEMMA FailedKeeps ==
  ASSUME Sane, Facts, IInv, NEW p \in Slots, op[p].pc = "alloc", AllocFailed(p),
         nfree' = nfree, panicked' = panicked
  PROVE  IInv'
<1>1. PICK r : r = op[p]
  BY Zenon
<1>2. PICK q : q = proc[p]
  BY Zenon
<1>3. /\ r \in Calls /\ OpOK(r) /\ GoodCall(r, q) /\ nfree \in Nat
      /\ q \in ProcRecs
      /\ ~Growing(r) => GoodEntry(q)
  BY Zenon, <1>1, <1>2, Now
<1>4. /\ r.pc = "alloc" /\ r.k \in {"grown", "forked", "loaded", "args"}
      /\ (r.np # 0 <=> Forking(r) \/ Reaping(r)) /\ (Growing(r) => r.new = NoPg)
  BY Zenon, <1>1, <1>3 DEF OpOK
<1>5. /\ ~Reaping(r) /\ (Growing(r) <=> r.k = "grown")
      /\ (Forking(r) <=> r.k = "forked")
  BY Zenon, <1>4 DEF Growing, Reaping, Forking
<1>6. r.tofree = 0 /\ Held(r) = Size(r.new) + r.mem
  BY Zenon, <1>3, <1>4, HeldNow
<1>7. CASE r.k = "grown"
  <2>1. PICK left : left = deallocuvm(q.pg.pages, r.hi, r.sz)
    BY Zenon
  <2>2. left = PagesIn(0, q.sz)
    <3>1. /\ (r.lo \div PGSIZE) * PGSIZE = r.lo /\ r.lo < r.hi + PGSIZE
          /\ r.sz <= r.lo /\ q.pg.pages = PagesIn(0, r.lo) /\ r.sz = q.sz
      BY Zenon, <1>3, <1>4, <1>7 DEF GoodCall, FillOK
    <3>2. r.lo \in Nat /\ r.hi \in Nat /\ r.sz \in Nat
      BY Zenon, <1>3 DEF Calls
    <3>3. QED
      BY SMTT(60), <2>1, <3>1, <3>2, PagesLeft
  <2>4. PICK new : new = [q.pg EXCEPT !.pages = left]
    BY ZenonT(60)
  <2>5. q.pg \in PgDirs /\ Covered(q.pg)
    BY Zenon, <1>3 DEF ProcRecs, GoodCall
  <2>6. PICK x : x = Cardinality(q.pg.pages \ left)
    BY ZenonT(60)
  <2>7. /\ new \in PgDirs /\ Covered(new) /\ new.pages = left
        /\ x \in Nat /\ Size(q.pg) = Size(new) + x
    <3>1. Trimmed(q.pg, r.hi, r.sz, new, x)
      BY Zenon, <2>1, <2>4, <2>6 DEF Trimmed
    <3>2. QED
      BY SMTT(60), <2>1, <2>5, <3>1, SizeLeft
  <2>8. PICK d : d = [q EXCEPT !.pg = new]
    BY Zenon
  <2>9. /\ d \in ProcRecs /\ d.pg = new /\ d.state = q.state
        /\ d.kstack = q.kstack
        /\ d.sz = q.sz
    BY Zenon, <1>3, <2>7, <2>8 DEF ProcRecs
  <2>10. GoodEntry(d)
    BY Zenon, <1>3, <2>2, <2>7, <2>9 DEF GoodEntry, GoodCall
  <2>11. r.mem \in Nat
    BY Zenon, <1>3, HeldType
  <2>12. PICK n \in Nat : n = x + r.mem
    BY <2>7, <2>11
  <2>13. PICK c : c = Kfree(Idle, n, "user")
    BY ZenonT(60)
  <2>14. GoodCall(c, d) /\ Held(c) = n /\ c.np = 0
    BY Zenon, <2>10, <2>12, <2>13, GoodFree
  <2>15. op' = [op EXCEPT ![p] = c] /\ proc' = [proc EXCEPT ![p] = d]
    <3>1. /\ proc' = [proc EXCEPT ![p].pg.pages = left]
          /\ Go(p, Kfree(Idle, n, "user"))
      BY Zenon, <1>1, <1>2, <1>7, <2>1, <2>6, <2>12 DEF AllocFailed
    <3>2. [proc EXCEPT ![p].pg.pages = left] = [proc EXCEPT ![p] = d]
      BY Zenon, <1>2, <2>4, <2>8
    <3>3. QED
      BY Zenon, <2>13, <3>1, <3>2 DEF Go
  <2>16. r.np = 0
    BY Zenon, <1>4, <1>5, <1>7
  <2>17. nfree' + Owned(d) + Held(c) = nfree + Owned(proc[p]) + Held(op[p])
    <3>1. q.kstack \in Nat /\ Size(new) \in Nat
      BY Zenon, <1>3, <2>7, HeldType, SizeType
    <3>2. Size(r.new) = 0
      BY Zenon, <1>4, <1>5, <1>7, SizeNone
    <3>3. Owned(d) = q.kstack + Size(new) /\ Owned(q) = q.kstack + Size(new) + x
      BY SMTT(60), <2>7, <2>9, <3>1 DEF Owned
    <3>4. nfree' + Owned(d) + Held(c) = nfree + Owned(q) + Held(r)
      BY SMTT(60), <1>3, <1>6, <2>7, <2>11, <2>12, <2>14, <3>1, <3>2, <3>3
    <3>5. QED
      BY Zenon, <1>1, <1>2, <3>4
  <2>18. proc[p].state = "RUN" /\ d.kstack = proc[p].kstack /\ nfree' \in Nat
    BY Zenon, <1>2, <1>3, <2>9 DEF GoodCall
  <2>19. QED
    BY ZenonT(60), <1>1, <2>14, <2>15, <2>16, <2>17, <2>18, OwnStep
<1>8. CASE r.k # "grown"
  <2>1. PICK c : c = Bad(r)
    BY Zenon
  <2>2. op' = [op EXCEPT ![p] = c] /\ proc' = proc
    BY Zenon, <1>1, <1>8, <2>1 DEF AllocFailed, Go
  <2>3. /\ GoodCall(c, q) /\ Held(c) = Held(r) /\ c.np = r.np
        /\ c.pc # "kstack" /\ ~Reaping(c)
    BY Zenon, <1>3, <1>4, <1>5, <1>8, <2>1, GoodBad
  <2>4. nfree' \in Nat /\ nfree' + Held(c) = nfree + Held(op[p])
    BY Zenon, <1>1, <1>3, <2>3
  <2>5. QED
    BY ZenonT(60), <1>1, <1>2, <1>4, <1>5, <2>2, <2>3, <2>4, CallStep
<1>9. QED
  BY Zenon, <1>7, <1>8

(* kalloc() of a page to map.                                               *)
LEMMA AllocPageKeeps ==
  ASSUME Sane, Facts, IInv, NEW p \in Slots, AllocPage(p)
  PROVE  IInv'
<1>1. PICK r : r = op[p] /\ r.pc = "alloc" /\ r.lo < r.hi /\ r.mem = 0
  BY Zenon DEF AllocPage
<1>2. PICK q : q = proc[p]
  BY Zenon
<1>3. r \in Calls /\ OpOK(r) /\ GoodCall(r, q) /\ nfree \in Nat
  BY Zenon, <1>1, <1>2, Now
<1>4. panicked' = panicked
  BY Zenon DEF AllocPage
<1>5. CASE nfree > 0
  <2>1. PICK c : c = [r EXCEPT !.mem = 1]
    BY Zenon
  <2>2. op' = [op EXCEPT ![p] = c] /\ nfree' = nfree - 1 /\ proc' = proc
    BY Zenon, <1>1, <1>5, <2>1 DEF AllocPage, Go
  <2>3. /\ c.pc = r.pc /\ c.k = r.k /\ c.new = r.new /\ c.sz = r.sz /\ c.mem = 1
        /\ c.lo = r.lo /\ c.hi = r.hi /\ c.tofree = r.tofree /\ c.np = r.np
    BY Zenon, <1>3, <2>1 DEF Calls
  <2>4. c \in Calls
    BY Zenon, <1>3, <2>1 DEF Calls
  <2>5. /\ (Growing(c) <=> Growing(r)) /\ (Reaping(c) <=> Reaping(r))
        /\ (Forking(c) <=> Forking(r))
    BY Zenon, <2>3 DEF Growing, Reaping, Forking
  <2>6. OpOK(c)
    BY Zenon, <1>1, <1>3, <2>3, <2>5 DEF OpOK
  <2>7. FillOK(c, q)
    <3>1. FillOK(r, q)
      BY Zenon, <1>3 DEF GoodCall
    <3>2. QED
      BY Zenon, <1>1, <2>3, <3>1 DEF FillOK
  <2>8. GoodCall(c, q)
    BY ZenonT(60), <1>3, <2>3, <2>4, <2>5, <2>6, <2>7 DEF GoodCall
  <2>9. Held(c) = Held(r) + 1
    <3>1. Size(r.new) \in Nat /\ r.tofree \in Nat
      BY Zenon, <1>3, HeldType, SizeType DEF GoodCall
    <3>2. QED
      BY SMTT(60), <1>1, <2>3, <3>1 DEF Held
  <2>10. nfree' \in Nat /\ nfree' + Held(c) = nfree + Held(op[p])
    <3>1. Held(r) \in Nat
      BY Zenon, <1>3, HeldType DEF GoodCall
    <3>2. QED
      BY SMTT(60), <1>1, <1>3, <1>5, <2>2, <2>9, <3>1
  <2>11. QED
    BY ZenonT(60), <1>1, <1>2, <1>4, <2>2, <2>3, <2>5, <2>8, <2>10, CallStep
<1>6. CASE ~(nfree > 0)
  <2>1. AllocFailed(p) /\ nfree' = nfree
    BY Zenon, <1>6 DEF AllocPage
  <2>2. QED
    BY Zenon, <1>1, <1>4, <2>1, FailedKeeps
<1>7. QED
  BY Zenon, <1>5, <1>6

(* mappages() of the page; it is not mapped yet.                            *)
LEMMA MapPageKeeps ==
  ASSUME Sane, Facts, IInv, NEW p \in Slots, MapPage(p)
  PROVE  IInv'
<1>1. PICK r : r = op[p] /\ r.pc = "alloc" /\ r.lo < r.hi /\ r.mem = 1
  BY Zenon DEF MapPage
<1>2. PICK q : q = proc[p]
  BY Zenon
<1>3. /\ r \in Calls /\ OpOK(r) /\ GoodCall(r, q) /\ nfree \in Nat
      /\ q \in ProcRecs
  BY Zenon, <1>1, <1>2, Now
<1>4. /\ r.k \in {"grown", "forked", "loaded", "args"} /\ r.tofree = 0
      /\ (r.np # 0 <=> Forking(r) \/ Reaping(r)) /\ (Growing(r) => r.new = NoPg)
  BY Zenon, <1>1, <1>3 DEF OpOK
<1>5. /\ ~Reaping(r) /\ (Growing(r) <=> r.k = "grown")
      /\ (Forking(r) <=> r.k = "forked")
  BY Zenon, <1>1, <1>4 DEF Growing, Reaping, Forking
<1>6. PICK pg : pg = IF r.k = "grown" THEN q.pg ELSE r.new
  BY Zenon
<1>7. PICK v : v = r.lo \div PGSIZE
  BY ZenonT(60)
<1>8. /\ (r.lo \div PGSIZE) * PGSIZE = r.lo /\ r.hi <= KERNBASE /\ r.sz <= r.lo
      /\ pg.pages = PagesIn(0, r.lo)
      /\ (r.k = "grown" => r.sz = q.sz) /\ (r.k = "forked" => r.hi = q.sz)
  BY Zenon, <1>1, <1>3, <1>6 DEF GoodCall, FillOK
<1>9. r.lo \in Nat /\ r.hi \in Nat /\ r.sz \in Nat /\ r.lo < KERNBASE
      /\ KERNBASE \in Nat /\ PGSIZE \in Nat \ {0}
  <2>1. r.lo \in Nat /\ r.hi \in Nat /\ r.sz \in Nat
    BY Zenon, <1>3 DEF Calls
  <2>2. KERNBASE \in Nat /\ PGSIZE \in Nat \ {0}
    BY Zenon, VPagesFinite DEF Sane
  <2>3. QED
    BY SMTT(60), <1>1, <1>8, <2>1, <2>2
<1>10. PICK lo \in Nat : lo = r.lo + PGSIZE
  BY SMTT(60), <1>9
<1>11. /\ v \in VPages /\ v \notin pg.pages
       /\ PagesIn(0, lo) = pg.pages \cup {v}
       /\ (lo \div PGSIZE) * PGSIZE = lo
  BY Zenon, <1>7, <1>8, <1>9, <1>10, NextPage
<1>12. pg = Target(p)
  BY Zenon, <1>1, <1>2, <1>6 DEF Target
<1>13. PICK need : need = IF PDX(v) \in pg.tabs THEN 0 ELSE 1
  BY Zenon
<1>14. CASE need = 1 /\ nfree = 0
  <2>1. AllocFailed(p) /\ nfree' = nfree /\ panicked' = panicked
    BY SMTT(60), <1>1, <1>7, <1>11, <1>12, <1>13, <1>14 DEF MapPage
  <2>2. QED
    BY Zenon, <1>1, <2>1, FailedKeeps
<1>15. CASE ~(need = 1 /\ nfree = 0)
  <2>1. PICK new : new = mappages(pg, v)
    BY Zenon
  <2>2. pg \in PgDirs /\ Covered(pg)
    BY Zenon, <1>3, <1>6 DEF GoodCall, ProcRecs, Calls
  <2>3. /\ new \in PgDirs /\ Covered(new) /\ new.pages = PagesIn(0, lo)
        /\ Size(new) = Size(pg) + 1 + need
    BY ZenonT(60), <1>11, <1>13, <2>1, <2>2, SizeMapped
  <2>4. PICK b : b = [r EXCEPT !.mem = 0, !.lo = lo]
    BY Zenon
  <2>5. /\ b \in Calls /\ b.pc = "alloc" /\ b.k = r.k /\ b.new = r.new
        /\ b.sz = r.sz
        /\ b.mem = 0 /\ b.lo = lo /\ b.hi = r.hi /\ b.tofree = 0 /\ b.np = r.np
    BY ZenonT(60), <1>1, <1>3, <1>4, <2>4 DEF Calls
  <2>6. nfree' = nfree - need /\ nfree' \in Nat /\ panicked' = panicked
    <3>1. /\ nfree' = (IF PDX(v) \notin pg.tabs THEN nfree - 1 ELSE nfree)
          /\ panicked' = panicked
      BY Zenon, <1>1, <1>7, <1>11, <1>12, <1>13, <1>15 DEF MapPage
    <3>2. QED
      BY SMTT(60), <1>3, <1>13, <1>15, <3>1
  <2>7. lo < r.hi + PGSIZE /\ r.sz <= lo
    BY SMTT(60), <1>1, <1>8, <1>9, <1>10
  <2>8. /\ Size(pg) \in Nat /\ Size(r.new) \in Nat /\ q.kstack \in Nat
        /\ Size(q.pg) \in Nat
    BY Zenon, <1>3, <2>2, SizeType, HeldType
  <2>9. Held(r) = Size(r.new) + 1
    BY SMTT(60), <1>1, <1>4, <2>8 DEF Held
  <2>10. need \in {0, 1}
    BY Zenon, <1>13
  <2>11. CASE r.k = "grown"
    <3>1. PICK d : d = [q EXCEPT !.pg = new]
      BY Zenon
    <3>2. /\ d \in ProcRecs /\ d.pg = new /\ d.state = q.state
          /\ d.kstack = q.kstack
          /\ d.sz = q.sz
      BY ZenonT(60), <1>3, <2>3, <3>1 DEF ProcRecs
    <3>3. op' = [op EXCEPT ![p] = b] /\ proc' = [proc EXCEPT ![p] = d]
      <4>1. /\ proc' = [proc EXCEPT ![p].pg = mappages(@, v)]
            /\ op' = [op EXCEPT ![p] = [r EXCEPT !.mem = 0, !.lo = @ + PGSIZE]]
        BY ZenonT(60), <1>1, <1>7, <1>11, <1>12, <1>13, <1>15, <2>11 DEF MapPage, Go
      <4>2. [proc EXCEPT ![p].pg = mappages(@, v)] = [proc EXCEPT ![p] = d]
        BY Zenon, <1>2, <1>6, <2>1, <2>11, <3>1
      <4>3. [r EXCEPT !.mem = 0, !.lo = @ + PGSIZE] = b
        BY Zenon, <1>10, <2>4
      <4>4. QED
        BY ZenonT(60), <4>1, <4>2, <4>3
    <3>4. /\ (Growing(b) <=> Growing(r)) /\ (Reaping(b) <=> Reaping(r))
          /\ (Forking(b) <=> Forking(r))
      BY Zenon, <1>1, <2>5 DEF Growing, Reaping, Forking
    <3>5. OpOK(b)
      BY Zenon, <1>4, <1>5, <2>5, <2>11, <3>4 DEF OpOK
    <3>6. FillOK(b, d)
      BY SMTT(60), <1>8, <1>11, <2>3, <2>5, <2>7, <2>11, <3>2 DEF FillOK
    <3>7. GoodCall(b, d)
      BY ZenonT(60), <1>3, <1>5, <2>3, <2>5, <2>11, <3>2, <3>4, <3>5, <3>6
         DEF GoodCall
    <3>8. Size(r.new) = 0
      BY Zenon, <1>4, <1>5, <2>11, SizeNone
    <3>9. nfree' + Owned(d) + Held(b) = nfree + Owned(proc[p]) + Held(op[p])
      <4>1. Owned(d) = q.kstack + Size(new) /\ Owned(q) = q.kstack + Size(pg)
        BY Zenon, <1>6, <2>11, <3>2 DEF Owned
      <4>2. Held(b) = 0
        BY SMTT(60), <2>5, <3>8 DEF Held
      <4>3. nfree' + Owned(d) + Held(b) = nfree + Owned(q) + Held(r)
        BY SMTT(60), <1>3, <2>3, <2>6, <2>8, <2>9, <2>10, <3>8, <4>1, <4>2
      <4>4. QED
        BY Zenon, <1>1, <1>2, <4>3
    <3>10. /\ proc[p].state = "RUN" /\ d.kstack = proc[p].kstack
           /\ b.np = op[p].np
           /\ r.np = 0
      BY ZenonT(60), <1>1, <1>2, <1>3, <1>4, <1>5, <2>5, <2>11, <3>2 DEF GoodCall
    <3>11. QED
      BY ZenonT(60), <1>1, <2>6, <3>3, <3>7, <3>9, <3>10, OwnStep
  <2>12. CASE r.k # "grown"
    <3>1. PICK c : c = [b EXCEPT !.new = new]
      BY Zenon
    <3>2. /\ c \in Calls /\ c.pc = "alloc" /\ c.k = r.k /\ c.new = new
          /\ c.sz = r.sz
          /\ c.mem = 0 /\ c.lo = lo /\ c.hi = r.hi /\ c.tofree = 0
          /\ c.np = r.np
      BY Zenon, <2>3, <2>5, <3>1 DEF Calls
    <3>3. op' = [op EXCEPT ![p] = c] /\ proc' = proc
      <4>1. /\ proc' = proc
            /\ op' = [op EXCEPT ![p] =
                 [[r EXCEPT !.mem = 0, !.lo = @ + PGSIZE] EXCEPT !.new = mappages(r.new, v)]]
        BY ZenonT(60), <1>1, <1>7, <1>11, <1>12, <1>13, <1>15, <2>12 DEF MapPage, Go
      <4>2. [r EXCEPT !.mem = 0, !.lo = @ + PGSIZE] = b
        BY Zenon, <1>10, <2>4
      <4>3. mappages(r.new, v) = new
        BY Zenon, <1>6, <2>1, <2>12
      <4>4. QED
        BY ZenonT(60), <3>1, <4>1, <4>2, <4>3
    <3>4. /\ (Growing(c) <=> Growing(r)) /\ (Reaping(c) <=> Reaping(r))
          /\ (Forking(c) <=> Forking(r))
      BY Zenon, <1>1, <3>2 DEF Growing, Reaping, Forking
    <3>5. OpOK(c)
      BY ZenonT(60), <1>4, <1>5, <2>12, <3>2, <3>4 DEF OpOK
    <3>6. FillOK(c, q)
      BY SMTT(60), <1>8, <1>11, <2>3, <2>7, <2>12, <3>2 DEF FillOK
    <3>7. GoodCall(c, q)
      BY ZenonT(60), <1>3, <2>3, <3>2, <3>4, <3>5, <3>6 DEF GoodCall
    <3>8. nfree' + Held(c) = nfree + Held(op[p])
      <4>1. Held(c) = Size(new)
        <5>1. Size(new) \in Nat
          BY Zenon, <2>3, SizeType
        <5>2. QED
          BY SMTT(60), <3>2, <5>1 DEF Held
      <4>2. nfree' + Held(c) = nfree + Held(r)
        <5>1. pg = r.new
          BY Zenon, <1>6, <2>12
        <5>2. QED
          BY SMTT(60), <1>3, <2>3, <2>6, <2>8, <2>9, <2>10, <4>1, <5>1
      <4>3. QED
        BY Zenon, <1>1, <4>2
    <3>9. QED
      BY ZenonT(60), <1>1, <1>2, <1>5, <2>6, <3>2, <3>3, <3>4, <3>7, <3>8, CallStep
  <2>13. QED
    BY Zenon, <2>11, <2>12
<1>16. QED
  BY Zenon, <1>14, <1>15

(* The end of allocuvm().                                                   *)
LEMMA AllocDoneKeeps ==
  ASSUME Sane, Facts, IInv, NEW p \in Slots, AllocDone(p)
  PROVE  IInv'
<1>1. PICK r : r = op[p] /\ r.pc = "alloc" /\ r.lo >= r.hi
  BY Zenon DEF AllocDone
<1>2. PICK q : q = proc[p]
  BY Zenon
<1>3. r \in Calls /\ OpOK(r) /\ GoodCall(r, q) /\ nfree \in Nat
  BY Zenon, <1>1, <1>2, Now
<1>4. /\ r.k \in {"grown", "forked", "loaded", "args"} /\ r.tofree = 0
      /\ (r.np # 0 <=> Forking(r) \/ Reaping(r)) /\ (Growing(r) => r.new = NoPg)
  BY Zenon, <1>1, <1>3 DEF OpOK
<1>5. /\ ~Reaping(r) /\ (Growing(r) <=> r.k = "grown")
      /\ (Forking(r) <=> r.k = "forked")
  BY ZenonT(60), <1>1, <1>4 DEF Growing, Reaping, Forking
<1>6. /\ (r.lo \div PGSIZE) * PGSIZE = r.lo /\ r.lo < r.hi + PGSIZE
      /\ r.hi <= KERNBASE
      /\ (IF r.k = "grown" THEN q.pg ELSE r.new).pages = PagesIn(0, r.lo)
      /\ (r.k = "forked" => r.hi = q.sz) /\ (r.mem = 1 => r.lo < r.hi)
  BY Zenon, <1>1, <1>3 DEF GoodCall, FillOK
<1>7. r.lo \in Nat /\ r.hi \in Nat /\ r.mem \in {0, 1}
  BY Zenon, <1>3 DEF Calls
<1>8. r.mem = 0
  BY <1>1, <1>6, <1>7
<1>9. PagesIn(0, r.lo) = PagesIn(0, r.hi)
  <2>1. PGSIZE \in Nat \ {0}
    BY Zenon DEF Sane
  <2>2. PICK m \in Nat : m * PGSIZE = r.lo
    BY ZenonT(60), <1>6, <1>7, <2>1, Divide
  <2>3. r.hi <= m * PGSIZE /\ m * PGSIZE < r.hi + PGSIZE
    BY Zenon, <1>1, <1>6, <1>7, <2>2
  <2>4. QED
    BY Zenon, <1>7, <2>2, <2>3, PagesRounded
<1>10. PICK c : c = [r EXCEPT !.pc = r.k, !.k = "", !.sz = r.hi, !.lo = 0, !.hi = 0]
  BY Zenon
<1>11. /\ op' = [op EXCEPT ![p] = c] /\ proc' = proc /\ nfree' = nfree
       /\ panicked' = panicked
  BY Zenon, <1>1, <1>10 DEF AllocDone, Go
<1>12. /\ c.pc = r.k /\ c.k = "" /\ c.new = r.new /\ c.sz = r.hi /\ c.mem = 0
       /\ c.tofree = 0 /\ c.np = r.np
  BY ZenonT(60), <1>3, <1>4, <1>8, <1>10 DEF Calls
<1>13. c \in Calls
  <2>1. r.k \in PCs
    BY Zenon, <1>4 DEF PCs
  <2>2. PICK y : y = "" /\ y \in PCs \cup {""}
    BY Zenon
  <2>3. PICK z \in Nat : z = 0
    BY Zenon
  <2>4. c = [r EXCEPT !.pc = r.k, !.k = y, !.sz = r.hi, !.lo = z, !.hi = z]
    BY Zenon, <1>10, <2>2, <2>3
  <2>5. QED
    BY ZenonT(60), <1>3, <1>7, <2>1, <2>2, <2>4 DEF Calls
<1>14. /\ ~Reaping(c) /\ (Growing(c) <=> r.k = "grown")
       /\ (Forking(c) <=> r.k = "forked")
  BY Zenon, <1>4, <1>12 DEF Growing, Reaping, Forking
<1>15. OpOK(c)
  BY Zenon, <1>4, <1>5, <1>12, <1>14 DEF OpOK
<1>16. FillOK(c, q)
  BY Zenon, <1>4, <1>6, <1>9, <1>12 DEF FillOK
<1>17. GoodCall(c, q)
  BY ZenonT(60), <1>3, <1>5, <1>12, <1>13, <1>14, <1>15, <1>16 DEF GoodCall
<1>18. Held(c) = Held(r)
  BY Zenon, <1>4, <1>8, <1>12 DEF Held
<1>19. nfree' \in Nat /\ nfree' + Held(c) = nfree + Held(op[p])
  BY Zenon, <1>1, <1>3, <1>11, <1>18
<1>20. c.pc # "kstack"
  BY Zenon, <1>4, <1>12
<1>21. QED
  BY ZenonT(60), <1>1, <1>2, <1>5, <1>11, <1>12, <1>14, <1>17, <1>19, <1>20, CallStep


-----------------------------------------------------------------------------
(* A step that changes nothing.                                             *)
LEMMA StutterKeeps ==
  ASSUME Sane, Facts, IInv, UNCHANGED memoryVars
  PROVE  IInv'
<1>1. nfree' = nfree /\ proc' = proc /\ op' = op /\ panicked' = panicked
  BY Zenon DEF memoryVars
<1>2. PagesAccounted'
  BY Zenon, <1>1, Accounted DEF IInv
<1>3. MemoryTypeOK' /\ (\A s \in Slots : OpOK(op[s])') /\ TableInv' /\ MapInv'
  <2>1. MemoryTypeOK'
    BY Zenon, <1>1 DEF IInv, MemoryTypeOK
  <2>2. \A s \in Slots : OpOK(op[s])'
    BY ZenonT(60), <1>1 DEF IInv, OpOK, Growing, Reaping, Forking
  <2>3. TableInv'
    BY ZenonT(60), <1>1 DEF IInv, TableInv, Reaping
  <2>4. MapInv'
    BY ZenonT(60), <1>1 DEF IInv, MapInv, FillOK, Covered, Growing
  <2>5. QED
    BY Zenon, <2>1, <2>2, <2>3, <2>4
<1>4. QED
  BY Zenon, <1>1, <1>2, <1>3 DEF IInv

(* sbrk().                                                                  *)
LEMMA SbrkKeeps ==
  ASSUME Sane, Facts, IInv, NEW p \in Slots, NEW n \in Sbrks, Sbrk(p, n)
  PROVE  IInv'
<1>1. PICK q : q = proc[p]
  BY Zenon
<1>2. q.state = "RUN" /\ op[p].pc = "user" /\ q.sz + n # 0
  BY Zenon, <1>1 DEF Sbrk, Sane
<1>3. op[p] = Idle /\ GoodEntry(q) /\ nfree \in Nat /\ q \in ProcRecs
  BY Zenon, <1>1, <1>2, Now
<1>4. n \in Int /\ q.sz \in Nat /\ q.sz <= KERNBASE /\ KERNBASE \in Nat
  <2>1. n \in Int /\ KERNBASE \in Nat
    BY Zenon, VPagesFinite DEF Sane
  <2>2. q.sz \in Nat /\ q.sz <= KERNBASE
    BY Zenon, <1>3 DEF ProcRecs, GoodEntry
  <2>3. QED
    BY Zenon, <2>1, <2>2
<1>5. nfree' = nfree /\ panicked' = panicked
  BY Zenon DEF Sbrk
<1>6. CASE n > 0 /\ q.sz + n >= KERNBASE
  <2>1. op' = [op EXCEPT ![p] = Idle] /\ proc' = proc
    BY Zenon, <1>1, <1>6 DEF Sbrk, Go
  <2>2. nfree' \in Nat /\ nfree' + Held(Idle) = nfree + Held(op[p])
    BY Zenon, <1>3, <1>5
  <2>3. QED
    BY Zenon, <1>1, <1>3, <1>5, <2>1, <2>2, GoodIdle, CallStep
<1>7. CASE n > 0 /\ ~(q.sz + n >= KERNBASE)
  <2>1. PICK b \in Nat : b = q.sz + n
    BY <1>4, <1>7
  <2>2. PICK c : c = Allocuvm(Idle, q.sz, b, "grown")
    BY Zenon
  <2>3. op' = [op EXCEPT ![p] = c] /\ proc' = proc
    BY Zenon, <1>1, <1>7, <2>1, <2>2 DEF Sbrk, Go
  <2>4. b <= KERNBASE
    BY SMTT(60), <1>4, <1>7, <2>1
  <2>5. GoodCall(c, q) /\ Held(c) = Held(Idle) /\ c.np = 0
    <3>1. PICK k \in {"grown", "forked", "loaded", "args"} : k = "grown"
      BY Zenon
    <3>2. PICK r \in Calls : /\ r = Idle /\ r.mem = 0 /\ r.tofree = 0 /\ r.np = 0
                             /\ r.new = NoPg /\ Covered(r.new)
      BY Zenon, IdleIs, SizeNone
    <3>3. c = Allocuvm(r, q.sz, b, k)
      BY Zenon, <2>2, <3>1, <3>2
    <3>4. QED
      BY SMTT(60), <1>3, <1>4, <2>4, <3>1, <3>2, <3>3, GoodAlloc
  <2>6. nfree' \in Nat /\ nfree' + Held(c) = nfree + Held(op[p])
    BY Zenon, <1>3, <1>5, <2>5
  <2>7. QED
    BY ZenonT(60), <1>1, <1>3, <1>5, <2>3, <2>5, <2>6, IdleIs, CallStep
<1>8. CASE ~(n > 0) /\ q.sz + n < 0
  <2>1. UNCHANGED memoryVars
    BY Zenon, <1>1, <1>5, <1>8 DEF Sbrk, memoryVars
  <2>2. QED
    BY Zenon, <2>1, StutterKeeps
<1>9. CASE ~(n > 0) /\ ~(q.sz + n < 0)
  <2>1. PICK b \in Nat : b = q.sz + n /\ b # 0 /\ b <= q.sz
    BY <1>2, <1>4, <1>9
  <2>2. PICK left : left = deallocuvm(q.pg.pages, q.sz, b)
    BY Zenon
  <2>3. left = PagesIn(0, b)
    <3>1. q.pg.pages = PagesIn(0, q.sz) /\ q.sz < q.sz + PGSIZE
      BY <1>3, <1>4 DEF GoodEntry, Sane
    <3>2. QED
      BY SMTT(60), <1>4, <2>1, <2>2, <3>1, PagesLeft
  <2>4. PICK new : new = [q.pg EXCEPT !.pages = left]
    BY Zenon
  <2>5. q.pg \in PgDirs /\ Covered(q.pg)
    BY Zenon, <1>3 DEF ProcRecs, GoodEntry
  <2>6. PICK x : x = Cardinality(q.pg.pages \ left)
    BY Zenon
  <2>7. /\ new \in PgDirs /\ Covered(new) /\ new.pages = left
        /\ x \in Nat /\ Size(q.pg) = Size(new) + x
    <3>1. Trimmed(q.pg, q.sz, b, new, x)
      BY Zenon, <2>2, <2>4, <2>6 DEF Trimmed
    <3>2. QED
      BY SMTT(60), <2>2, <2>5, <3>1, SizeLeft
  <2>8. PICK d : d = [q EXCEPT !.pg = new, !.sz = b]
    BY Zenon
  <2>9. /\ d \in ProcRecs /\ d.pg = new /\ d.state = q.state
        /\ d.kstack = q.kstack
        /\ d.sz = b
    BY ZenonT(60), <1>3, <2>1, <2>7, <2>8 DEF ProcRecs
  <2>10. GoodEntry(d)
    <3>1. b <= KERNBASE
      BY <1>4, <2>1
    <3>2. QED
      BY Zenon, <1>3, <2>3, <2>7, <2>9, <3>1 DEF GoodEntry
  <2>11. PICK c : c = Kfree(Idle, x, "user")
    BY Zenon
  <2>12. GoodCall(c, d) /\ Held(c) = x /\ c.np = 0
    BY Zenon, <2>7, <2>10, <2>11, GoodFree
  <2>13. op' = [op EXCEPT ![p] = c] /\ proc' = [proc EXCEPT ![p] = d]
    <3>1. /\ proc' = [proc EXCEPT ![p].pg.pages = left, ![p].sz = IF b = 0 THEN @ ELSE b]
          /\ Go(p, Kfree(Idle, x, "user"))
      BY Zenon, <1>1, <1>9, <2>1, <2>2, <2>6 DEF Sbrk
    <3>2. [proc EXCEPT ![p].pg.pages = left, ![p].sz = IF b = 0 THEN @ ELSE b]
            = [proc EXCEPT ![p] = d]
      BY Zenon, <1>1, <2>1, <2>4, <2>8
    <3>3. QED
      BY Zenon, <2>11, <3>1, <3>2 DEF Go
  <2>14. nfree' + Owned(d) + Held(c) = nfree + Owned(proc[p]) + Held(op[p])
    <3>1. q.kstack \in Nat /\ Size(new) \in Nat
      BY ZenonT(60), <1>3, <2>7, HeldType, SizeType, IdleIs
    <3>2. Owned(d) = q.kstack + Size(new) /\ Owned(q) = q.kstack + Size(new) + x
      BY <2>7, <2>9, <3>1 DEF Owned
    <3>3. Held(op[p]) = 0
      BY Zenon, <1>3, IdleIs
    <3>4. nfree' + Owned(d) + Held(c) = nfree + Owned(q) + 0
      BY SMTT(60), <1>3, <1>5, <2>7, <2>12, <3>1, <3>2
    <3>5. QED
      BY Zenon, <1>1, <3>3, <3>4
  <2>15. /\ proc[p].state = "RUN" /\ d.kstack = proc[p].kstack /\ nfree' \in Nat
         /\ op[p].np = 0
    BY ZenonT(60), <1>1, <1>2, <1>3, <1>5, <2>9, IdleIs
  <2>16. QED
    BY ZenonT(60), <1>5, <2>12, <2>13, <2>14, <2>15, OwnStep
<1>10. QED
  BY Zenon, <1>6, <1>7, <1>8, <1>9

(* The end of growproc().                                                   *)
LEMMA GrownKeeps ==
  ASSUME Sane, Facts, IInv, NEW p \in Slots, Grown(p)
  PROVE  IInv'
<1>1. PICK r : r = op[p] /\ r.pc = "grown"
  BY Zenon DEF Grown
<1>2. PICK q : q = proc[p]
  BY Zenon
<1>3. /\ r \in Calls /\ OpOK(r) /\ GoodCall(r, q) /\ nfree \in Nat
      /\ q \in ProcRecs
  BY Zenon, <1>1, <1>2, Now
<1>4. Growing(r) /\ ~Reaping(r) /\ ~Forking(r)
  BY Zenon, <1>1, <1>3 DEF Growing, Reaping, Forking, OpOK
<1>5. r.new = NoPg /\ r.mem = 0 /\ r.tofree = 0 /\ r.np = 0
  BY Zenon, <1>1, <1>3, <1>4 DEF OpOK
<1>6. q.pg.pages = PagesIn(0, r.sz) /\ r.sz <= KERNBASE
  BY Zenon, <1>1, <1>3 DEF GoodCall, FillOK
<1>7. PICK d : d = [q EXCEPT !.sz = r.sz]
  BY Zenon
<1>8. /\ d \in ProcRecs /\ d.pg = q.pg /\ d.state = q.state
      /\ d.kstack = q.kstack /\ d.sz = r.sz
  <2>1. r.sz \in Nat
    BY Zenon, <1>3 DEF Calls
  <2>2. QED
    BY Zenon, <1>3, <1>7, <2>1 DEF ProcRecs
<1>9. GoodEntry(d)
  BY Zenon, <1>3, <1>6, <1>8 DEF GoodEntry, GoodCall
<1>10. /\ op' = [op EXCEPT ![p] = Idle] /\ proc' = [proc EXCEPT ![p] = d]
       /\ nfree' = nfree /\ panicked' = panicked
  BY Zenon, <1>1, <1>2, <1>7 DEF Grown, Go
<1>11. Held(r) = 0
  BY Zenon, <1>5, HeldIs
<1>12. Owned(d) = Owned(q)
  BY Zenon, <1>8 DEF Owned
<1>13. nfree' + Owned(d) + Held(Idle) = nfree + Owned(proc[p]) + Held(op[p])
  BY ZenonT(60), <1>1, <1>2, <1>10, <1>11, <1>12, IdleIs
<1>14. /\ proc[p].state = "RUN" /\ d.kstack = proc[p].kstack /\ nfree' \in Nat
       /\ Idle.np = op[p].np /\ op[p].np = 0
  BY ZenonT(60), <1>1, <1>2, <1>3, <1>5, <1>8, <1>10, IdleIs DEF GoodCall
<1>15. QED
  BY ZenonT(60), <1>9, <1>10, <1>13, <1>14, GoodIdle, OwnStep

-----------------------------------------------------------------------------
(* The first unused slot is unused.                                         *)
LEMMA SlotTaken ==
  ASSUME Sane, Facts, NEW P \in [Slots -> ProcRecs], NEW s \in Slots,
         s = Min({t \in Slots : P[t].state = "UNUSED"} \cup {Cardinality(Slots) + 1})
  PROVE  P[s].state = "UNUSED"
<1>1. PICK n \in Nat \ {0} : Slots = 1..n
  BY Zenon DEF Sane
<1>2. Cardinality(Slots) = n
  BY Zenon, <1>1 DEF Facts, Small
<1> DEFINE N == {t \in Slots : P[t].state = "UNUSED"} \cup {n + 1}
<1>3. N \in SUBSET Nat /\ N # {} /\ s = Min(N)
  <2>1. N \in SUBSET Nat
    BY <1>1
  <2>2. s = Min(N)
    BY Zenon, <1>2
  <2>3. QED
    BY Zenon, <2>1, <2>2
<1>4. s \in N
  <2> HIDE DEF N
  <2>1. \E x \in N : \A y \in N : x <= y
    <3>1. PICK x \in N : \A y \in N : y >= x
      BY Zenon, <1>3 DEF Facts, WellOrdered
    <3>2. \A y \in N : y \in Int
      BY <1>3
    <3>3. QED
      BY Zenon, <3>1, <3>2
  <2>2. QED
    BY Zenon, <1>3, <2>1 DEF Min
<1>5. s # n + 1
  BY SMTT(60), <1>1
<1>6. QED
  BY Zenon, <1>4, <1>5

(* A slot that a call names is not running; one that is unused has no name. *)
LEMMA Named ==
  ASSUME Sane, Facts, IInv, NEW p \in Slots, op[p].np # 0
  PROVE  /\ op[p].np \in Slots /\ proc[op[p].np] \in ProcRecs
         /\ proc[op[p].np].pg = NoPg
         /\ proc[op[p].np].state = IF Reaping(op[p]) THEN "ZOMBIE" ELSE "EMBRYO"
         /\ proc[op[p].np].kstack = IF Reaping(op[p]) \/ op[p].pc = "kstack" THEN 0 ELSE 1
<1>1. op[p] \in Calls
  BY Zenon DEF IInv, MemoryTypeOK
<1>2. op[p].np \in Slots
  BY Zenon, <1>1 DEF Calls
<1>3. proc[op[p].np] \in ProcRecs
  BY Zenon, <1>2 DEF IInv, MemoryTypeOK
<1>4. QED
  BY Zenon, <1>2, <1>3 DEF IInv, TableInv

(* An unused slot owns no page.                                             *)
LEMMA UnusedIs ==
  ASSUME Sane, Facts
  PROVE  /\ Unused \in ProcRecs /\ Unused.state = "UNUSED" /\ Unused.kstack = 0
         /\ Unused.pg = NoPg /\ Owned(Unused) = 0
<1>1. Unused \in ProcRecs
  BY Zenon, SizeNone DEF Unused, ProcRecs
<1>2. Unused.state = "UNUSED" /\ Unused.kstack = 0 /\ Unused.pg = NoPg
  BY Zenon DEF Unused
<1>3. QED
  BY SMTT(60), <1>1, <1>2, SizeNone DEF Owned

(* What an entry without a page table owns.                                 *)
LEMMA OwnedIs ==
  ASSUME Sane, Facts, NEW q, q.pg = NoPg, NEW n \in Nat, q.kstack = n
  PROVE  Owned(q) = n
<1>1. Size(q.pg) = 0
  BY Zenon, SizeNone
<1>2. q.kstack + Size(q.pg) = n
  BY <1>1
<1>3. QED
  BY Zenon, <1>2 DEF Owned

(* A slot given back, by a call that ends.                                  *)
LEMMA UnusedGood ==
  ASSUME Sane, Facts, NEW s \in Slots
  PROVE  GoodChild(Idle, Unused, s)
<1>1. Covered(Unused.pg)
  BY Zenon, UnusedIs, SizeNone
<1>2. s # 0
  BY Zenon, SlotsAre
<1>3. QED
  BY Zenon, <1>1, <1>2, UnusedIs, IdleIs DEF GoodChild

(* allocproc() takes a slot.                                                *)
LEMMA ForkKeeps ==
  ASSUME Sane, Facts, IInv, NEW p \in Slots, NEW s \in Slots, Fork(p, s)
  PROVE  IInv'
<1>1. proc[p].state = "RUN" /\ op[p].pc = "user"
  BY Zenon DEF Fork
<1>2. op[p] = Idle /\ GoodEntry(proc[p]) /\ nfree \in Nat
  BY Zenon, <1>1, Now
<1>3. proc[s].state = "UNUSED" /\ proc[s] \in ProcRecs
  BY Zenon, SlotTaken DEF Fork, IInv, MemoryTypeOK
<1>4. proc[s].kstack = 0 /\ proc[s].pg = NoPg
  BY Zenon, <1>3 DEF IInv, TableInv
<1>5. PICK q : q = [proc[s] EXCEPT !.state = "EMBRYO"]
  BY Zenon
<1>6. q \in ProcRecs /\ q.state = "EMBRYO" /\ q.kstack = 0 /\ q.pg = NoPg
  BY Zenon, <1>3, <1>4, <1>5 DEF ProcRecs
<1>7. PICK r : r = [Idle EXCEPT !.pc = "kstack", !.np = s]
  BY Zenon
<1>8. /\ r.pc = "kstack" /\ r.k = "" /\ r.new = NoPg /\ r.mem = 0
      /\ r.tofree = 0
      /\ r.np = s /\ r.sz = 0
  BY Zenon, <1>7 DEF Idle
<1>9. r \in Calls
  BY Zenon, <1>7, IdleIs DEF Calls, PCs
<1>10. s # 0
  BY Zenon, SlotsAre
<1>11. Forking(r) /\ ~Reaping(r) /\ ~Growing(r)
  BY Zenon, <1>8 DEF Forking, Reaping, Growing
<1>12. OpOK(r)
  BY Zenon, <1>8, <1>10, <1>11 DEF OpOK
<1>13. FillOK(r, proc[p])
  BY Zenon, <1>8 DEF FillOK
<1>14. GoodCall(r, proc[p])
  BY Zenon, <1>2, <1>8, <1>9, <1>12, <1>13, SizeNone DEF GoodCall, GoodEntry
<1>15. GoodChild(r, q, s)
  BY ZenonT(60), <1>6, <1>8, <1>10, <1>11, SizeNone DEF GoodChild
<1>16. /\ op' = [op EXCEPT ![p] = r] /\ proc' = [proc EXCEPT ![s] = q]
       /\ nfree' = nfree /\ panicked' = panicked
  BY Zenon, <1>5, <1>7 DEF Fork, Go
<1>17. ASSUME NEW o \in Slots PROVE op[o].np # s
  <2>1. op[o].np # 0 => proc[op[o].np].state # "UNUSED"
    BY Zenon, Named
  <2>2. QED
    BY Zenon, <1>3, <1>10, <2>1
<1>18. Owned(q) = 0 /\ Owned(proc[s]) = 0 /\ Held(r) = 0 /\ Held(op[p]) = 0
  BY ZenonT(60), <1>2, <1>4, <1>6, <1>8, OwnedIs, HeldIs, IdleIs
<1>19. /\ nfree' \in Nat
       /\ nfree' + Owned(q) + Held(r) = nfree + Owned(proc[s]) + Held(op[p])
  BY Zenon, <1>2, <1>16, <1>18
<1>20. op[p].np = 0 /\ proc[s].state # "RUN"
  BY Zenon, <1>2, <1>3, IdleIs
<1>21. QED
  BY ZenonT(60), <1>14, <1>15, <1>16, <1>17, <1>19, <1>20, ChildStep

(* allocproc() takes a kernel stack.                                        *)
LEMMA AllocprocKeeps ==
  ASSUME Sane, Facts, IInv, NEW p \in Slots, Allocproc(p)
  PROVE  IInv'
<1>1. PICK r : r = op[p] /\ r.pc = "kstack"
  BY Zenon DEF Allocproc
<1>2. /\ r \in Calls /\ OpOK(r) /\ GoodCall(r, proc[p]) /\ nfree \in Nat
      /\ (~Growing(r) => GoodEntry(proc[p]))
  BY Zenon, <1>1, Now
<1>3. r.k = "" /\ r.mem = 0 /\ r.tofree = 0 /\ r.new = NoPg
      /\ (r.np # 0 <=> Forking(r) \/ Reaping(r))
  BY Zenon, <1>1, <1>2 DEF OpOK
<1>4. Forking(r) /\ ~Reaping(r) /\ ~Growing(r)
  BY Zenon, <1>1, <1>3 DEF Forking, Reaping, Growing
<1>5. GoodEntry(proc[p])
  BY Zenon, <1>2, <1>4
<1>6. PICK t \in Slots : /\ t = r.np /\ proc[t] \in ProcRecs /\ proc[t].pg = NoPg
                         /\ proc[t].state = "EMBRYO" /\ proc[t].kstack = 0
  BY Zenon, <1>1, <1>3, <1>4, Named
<1>7. Held(r) = 0 /\ Owned(proc[t]) = 0
  BY ZenonT(60), <1>3, <1>6, HeldIs, OwnedIs
<1>8. panicked' = panicked
  BY Zenon DEF Allocproc
<1>9. CASE nfree > 0
  <2>1. PICK q : q = [proc[t] EXCEPT !.kstack = 1]
    BY Zenon
  <2>2. q \in ProcRecs /\ q.state = "EMBRYO" /\ q.kstack = 1 /\ q.pg = NoPg
    BY Zenon, <1>6, <2>1 DEF ProcRecs
  <2>3. PICK c : c = Setupkvm(r, "copyuvm")
    BY Zenon
  <2>4. /\ op' = [op EXCEPT ![p] = c] /\ proc' = [proc EXCEPT ![t] = q]
        /\ nfree' = nfree - 1
    BY Zenon, <1>1, <1>6, <1>9, <2>1, <2>3 DEF Allocproc, Go
  <2>5. r.sz = 0
    BY Zenon, <1>1, <1>2 DEF OpOK
  <2>6. /\ GoodCall(c, proc[p]) /\ Held(c) = 0 /\ c.np = r.np
        /\ c.pc # "kstack" /\ ~Reaping(c)
    <3>1. PICK k \in {"copyuvm", "segment"} : k = "copyuvm"
      BY Zenon
    <3>2. c = Setupkvm(r, k)
      BY Zenon, <2>3, <3>1
    <3>3. QED
      BY ZenonT(60), <1>2, <1>3, <1>4, <1>5, <2>5, <3>1, <3>2, GoodSetup
  <2>7. GoodChild(c, q, t)
    BY ZenonT(60), <1>6, <2>2, <2>6, SizeNone, SlotsAre DEF GoodChild
  <2>8. Owned(q) = 1
    BY Zenon, <2>2, OwnedIs
  <2>9. /\ nfree' \in Nat
        /\ nfree' + Owned(q) + Held(c) = nfree + Owned(proc[t]) + Held(op[p])
    BY SMTT(60), <1>1, <1>2, <1>7, <1>9, <2>4, <2>6, <2>8
  <2>10. QED
    BY ZenonT(60), <1>1, <1>6, <1>8, <2>4, <2>6, <2>7, <2>9, ChildStep
<1>10. CASE ~(nfree > 0)
  <2>1. /\ op' = [op EXCEPT ![p] = Idle] /\ proc' = [proc EXCEPT ![t] = Unused]
        /\ nfree' = nfree
    BY Zenon, <1>1, <1>6, <1>10 DEF Allocproc, Go
  <2>2. nfree' \in Nat
        /\ nfree' + Owned(Unused) + Held(Idle) = nfree + Owned(proc[t]) + Held(op[p])
    BY ZenonT(60), <1>1, <1>2, <1>7, <2>1, UnusedIs, IdleIs
  <2>3. GoodCall(Idle, proc[p]) /\ GoodChild(Idle, Unused, t)
    BY Zenon, <1>5, GoodIdle, UnusedGood
  <2>4. QED
    BY ZenonT(60), <1>1, <1>6, <1>8, <2>1, <2>2, <2>3, ChildStep
<1>11. QED
  BY Zenon, <1>9, <1>10

(* copyuvm() finds the pages of the parent, and starts to copy them.        *)
LEMMA CopyuvmKeeps ==
  ASSUME Sane, Facts, IInv, NEW p \in Slots, Copyuvm(p)
  PROVE  IInv'
<1>1. PICK r : r = op[p] /\ r.pc = "copyuvm"
  BY Zenon DEF Copyuvm
<1>2. PICK q : q = proc[p]
  BY Zenon
<1>3. /\ r \in Calls /\ OpOK(r) /\ GoodCall(r, q) /\ nfree \in Nat
      /\ q \in ProcRecs
      /\ (~Growing(r) => GoodEntry(q))
  BY Zenon, <1>1, <1>2, Now
<1>4. r.k = "" /\ r.mem = 0 /\ r.tofree = 0 /\ r.new.pages = {}
      /\ (r.np # 0 <=> Forking(r) \/ Reaping(r))
  BY Zenon, <1>1, <1>3 DEF OpOK
<1>5. Forking(r) /\ ~Reaping(r) /\ ~Growing(r)
  BY Zenon, <1>1, <1>4 DEF Forking, Reaping, Growing
<1>6. GoodEntry(q)
  BY Zenon, <1>3, <1>5
<1>7. PICK c : c = Allocuvm(r, 0, q.sz, "forked")
  BY Zenon
<1>8. /\ op' = [op EXCEPT ![p] = c] /\ panicked' = panicked
      /\ nfree' = nfree /\ proc' = proc
  BY Zenon, <1>1, <1>2, <1>6, <1>7 DEF Copyuvm, Go, GoodEntry
<1>9. q.sz \in Nat /\ q.sz <= KERNBASE /\ 0 <= KERNBASE
  <2>1. KERNBASE \in Nat
    BY Zenon, VPagesFinite
  <2>2. q.sz \in Nat /\ q.sz <= KERNBASE
    BY Zenon, <1>6 DEF GoodEntry, ProcRecs
  <2>3. QED
    BY SMTT(60), <2>1, <2>2
<1>10. /\ GoodCall(c, q) /\ Held(c) = Held(r) /\ c.np = r.np
       /\ c.pc # "kstack" /\ ~Reaping(c)
  <2>1. PICK k \in {"grown", "forked", "loaded", "args"} : k = "forked"
    BY Zenon
  <2>2. PICK a \in Nat : a = 0
    BY Zenon
  <2>3. /\ c = Allocuvm(r, a, q.sz, k) /\ r.new.pages = PagesIn(0, a)
        /\ a <= KERNBASE
    BY ZenonT(60), <1>4, <1>7, <1>9, <2>1, <2>2, PagesNone
  <2>4. Covered(r.new)
    BY Zenon, <1>3 DEF GoodCall
  <2>5. (r.np # 0 <=> k = "forked") /\ k # "grown" /\ a = 0 /\ k = "forked"
    BY Zenon, <1>4, <1>5, <2>1, <2>2
  <2>6. PICK b \in Nat : b = q.sz /\ b <= KERNBASE
    BY Zenon, <1>9
  <2>7. c = Allocuvm(r, a, b, k)
    BY Zenon, <2>3, <2>6
  <2>8. k = "forked" => a = 0 /\ b = q.sz
    BY Zenon, <2>5, <2>6
  <2>9. k # "grown" => r.new.pages = PagesIn(0, a)
    BY Zenon, <2>3
  <2>10. /\ r.mem = 0 /\ r.tofree = 0 /\ r \in Calls /\ k # "grown"
         /\ a <= KERNBASE
         /\ (r.np # 0 <=> k = "forked")
    BY ZenonT(60), <1>3, <1>4, <2>3, <2>5
  <2>11. QED
    BY SMTT(60), <1>6, <2>4, <2>6, <2>7, <2>8, <2>9, <2>10, GoodAlloc
<1>11. nfree' \in Nat /\ nfree' + Held(c) = nfree + Held(op[p])
  BY Zenon, <1>1, <1>3, <1>8, <1>10
<1>12. QED
  BY ZenonT(60), <1>1, <1>2, <1>5, <1>8, <1>10, <1>11, CallStep

(* The child is ready to run.                                               *)
LEMMA ForkedKeeps ==
  ASSUME Sane, Facts, IInv, NEW p \in Slots, Forked(p)
  PROVE  IInv'
<1>1. PICK r : r = op[p] /\ r.pc = "forked"
  BY Zenon DEF Forked
<1>2. /\ r \in Calls /\ OpOK(r) /\ GoodCall(r, proc[p]) /\ nfree \in Nat
      /\ (~Growing(r) => GoodEntry(proc[p]))
  BY Zenon, <1>1, Now
<1>3. /\ r.k = "" /\ r.mem = 0 /\ r.tofree = 0
      /\ (r.np # 0 <=> Forking(r) \/ Reaping(r))
  BY Zenon, <1>1, <1>2 DEF OpOK
<1>4. Forking(r) /\ ~Reaping(r) /\ ~Growing(r)
  BY Zenon, <1>1, <1>3 DEF Forking, Reaping, Growing
<1>5. GoodEntry(proc[p])
  BY Zenon, <1>2, <1>4
<1>6. PICK t \in Slots : /\ t = r.np /\ proc[t] \in ProcRecs /\ proc[t].pg = NoPg
                         /\ proc[t].state = "EMBRYO" /\ proc[t].kstack = 1
  BY Zenon, <1>1, <1>3, <1>4, Named
<1>7. PICK z \in Nat : z = proc[p].sz /\ z <= KERNBASE
  BY Zenon, <1>5 DEF GoodEntry, ProcRecs
<1>8. PICK q : q = [proc[t] EXCEPT !.state = "RUN", !.pg = r.new, !.sz = z, !.parent = p]
  BY Zenon
<1>9. r.new \in PgDirs /\ Covered(r.new) /\ r.new.pages = PagesIn(0, z)
  <2>1. r.new \in PgDirs
    BY Zenon, <1>2 DEF Calls
  <2>2. Covered(r.new) /\ FillOK(r, proc[p])
    BY Zenon, <1>2 DEF GoodCall
  <2>3. QED
    BY Zenon, <1>1, <1>7, <2>1, <2>2 DEF FillOK
<1>10. /\ q \in ProcRecs /\ q.state = "RUN" /\ q.kstack = 1 /\ q.pg = r.new
       /\ q.sz = z
  BY Zenon, <1>6, <1>8, <1>9 DEF ProcRecs
<1>11. /\ op' = [op EXCEPT ![p] = Idle] /\ proc' = [proc EXCEPT ![t] = q]
       /\ nfree' = nfree /\ panicked' = panicked
  BY Zenon, <1>1, <1>6, <1>7, <1>8 DEF Forked, Go
<1>12. GoodChild(Idle, q, t)
  BY ZenonT(60), <1>7, <1>9, <1>10, IdleIs, SlotsAre DEF GoodChild
<1>13. /\ nfree' \in Nat
       /\ nfree' + Owned(q) + Held(Idle) = nfree + Owned(proc[t]) + Held(op[p])
  <2>1. Size(r.new) \in Nat
    BY Zenon, <1>9, SizeType
  <2>2. Owned(proc[t]) = 1
    BY Zenon, <1>6, OwnedIs
  <2>3. Owned(q) = 1 + Size(r.new)
    BY Zenon, <1>10 DEF Owned
  <2>4. Held(r) = Size(r.new)
    <3>1. Held(r) = Size(r.new) + 0
      BY Zenon, <1>1, <1>2, <1>3, HeldNow
    <3>2. QED
      BY <2>1, <3>1
  <2>5. Held(Idle) = 0 /\ Held(op[p]) = Size(r.new)
    BY Zenon, <1>1, <2>4, IdleIs
  <2>6. QED
    BY SMTT(60), <1>2, <1>11, <2>1, <2>2, <2>3, <2>5
<1>14. GoodCall(Idle, proc[p])
  BY Zenon, <1>5, GoodIdle
<1>15. QED
  BY ZenonT(60), <1>1, <1>6, <1>11, <1>12, <1>13, <1>14, ChildStep

(* The end of a fork() that failed.                                         *)
LEMMA ForkBadKeeps ==
  ASSUME Sane, Facts, IInv, NEW p \in Slots, ForkBad(p)
  PROVE  IInv'
<1>1. PICK r : r = op[p] /\ r.pc = "forkbad"
  BY Zenon DEF ForkBad
<1>2. /\ r \in Calls /\ OpOK(r) /\ GoodCall(r, proc[p]) /\ nfree \in Nat
      /\ (~Growing(r) => GoodEntry(proc[p]))
  BY Zenon, <1>1, Now
<1>3. r.k = "" /\ r.mem = 0 /\ r.tofree = 0 /\ r.new = NoPg
      /\ (r.np # 0 <=> Forking(r) \/ Reaping(r))
  BY Zenon, <1>1, <1>2 DEF OpOK
<1>4. Forking(r) /\ ~Reaping(r) /\ ~Growing(r)
  BY Zenon, <1>1, <1>3 DEF Forking, Reaping, Growing
<1>5. GoodEntry(proc[p])
  BY Zenon, <1>2, <1>4
<1>6. PICK t \in Slots : /\ t = r.np /\ proc[t] \in ProcRecs /\ proc[t].pg = NoPg
                         /\ proc[t].state = "EMBRYO" /\ proc[t].kstack = 1
  BY Zenon, <1>1, <1>3, <1>4, Named
<1>7. Held(r) = 0 /\ Owned(proc[t]) = 1
  BY ZenonT(60), <1>3, <1>6, HeldIs, OwnedIs
<1>8. /\ op' = [op EXCEPT ![p] = Idle] /\ proc' = [proc EXCEPT ![t] = Unused]
      /\ nfree' = nfree + 1 /\ panicked' = panicked
  BY Zenon, <1>1, <1>6 DEF ForkBad, Go
<1>9. nfree' \in Nat
      /\ nfree' + Owned(Unused) + Held(Idle) = nfree + Owned(proc[t]) + Held(op[p])
  <2>1. Owned(Unused) = 0 /\ Held(Idle) = 0 /\ Held(op[p]) = 0
    BY ZenonT(60), <1>1, <1>7, UnusedIs, IdleIs
  <2>2. QED
    BY SMTT(60), <1>2, <1>7, <1>8, <2>1
<1>10. GoodCall(Idle, proc[p]) /\ GoodChild(Idle, Unused, t)
  BY Zenon, <1>5, GoodIdle, UnusedGood
<1>11. QED
  BY ZenonT(60), <1>1, <1>6, <1>8, <1>9, <1>10, ChildStep

(* wait() starts to free a child.                                           *)
LEMMA WaitKeeps ==
  ASSUME Sane, Facts, IInv, NEW p \in Slots, NEW s \in Slots, Wait(p, s)
  PROVE  IInv'
<1>1. /\ proc[p].state = "RUN" /\ op[p].pc = "user" /\ PtableFree
      /\ proc[s].state = "ZOMBIE" /\ proc[s] \in ProcRecs
  BY Zenon DEF Wait, IInv, MemoryTypeOK
<1>2. op[p] = Idle /\ GoodEntry(proc[p]) /\ nfree \in Nat
  BY Zenon, <1>1, Now
<1>3. ASSUME NEW o \in Slots PROVE op[o].np # s
  <2>1. ~Reaping(op[o])
    BY Zenon, <1>1 DEF PtableFree, Reaping
  <2>2. op[o].np # 0 => proc[op[o].np].state = "EMBRYO"
    BY Zenon, <2>1, Named
  <2>3. QED
    BY Zenon, <1>1, <2>2, SlotsAre
<1>4. proc[s].kstack = 1
  BY ZenonT(60), <1>1, <1>3 DEF IInv, TableInv
<1>5. PICK q : q = [proc[s] EXCEPT !.kstack = 0, !.pg = NoPg]
  BY Zenon
<1>6. q \in ProcRecs /\ q.state = "ZOMBIE" /\ q.kstack = 0 /\ q.pg = NoPg
  BY Zenon, <1>1, <1>5, SizeNone DEF ProcRecs
<1>7. PICK b : b = [Idle EXCEPT !.np = s]
  BY Zenon
<1>8. b \in Calls /\ b.new = NoPg /\ b.mem = 0 /\ b.np = s /\ s # 0
  BY ZenonT(60), <1>7, IdleIs, SlotsAre DEF Calls, Idle
<1>9. proc[s].pg \in PgDirs
  BY Zenon, <1>1 DEF ProcRecs
<1>10. PICK n \in Nat : n = 1 + Size(proc[s].pg)
  BY <1>9, SizeType
<1>11. PICK c : c = Kfree(b, n, "reaped")
  BY Zenon
<1>12. GoodCall(c, proc[p]) /\ Held(c) = n /\ c.np = s /\ Reaping(c)
  <2>1. PICK k \in {"user", "forkbad", "reaped"} : k = "reaped"
    BY Zenon
  <2>2. c = Kfree(b, n, k)
    BY Zenon, <1>11, <2>1
  <2>3. QED
    BY ZenonT(60), <1>2, <1>8, <2>1, <2>2, GoodKfree
<1>13. /\ op' = [op EXCEPT ![p] = c] /\ proc' = [proc EXCEPT ![s] = q]
       /\ nfree' = nfree /\ panicked' = panicked
  BY ZenonT(60), <1>5, <1>7, <1>10, <1>11 DEF Wait, Go, freevm
<1>14. GoodChild(c, q, s)
  BY Zenon, <1>6, <1>8, <1>12, SizeNone DEF GoodChild
<1>15. /\ nfree' \in Nat
       /\ nfree' + Owned(q) + Held(c) = nfree + Owned(proc[s]) + Held(op[p])
  <2>1. Owned(q) = 0
    BY SMTT(60), <1>6, OwnedIs
  <2>2. Owned(proc[s]) = n
    BY Zenon, <1>4, <1>10 DEF Owned
  <2>3. Held(op[p]) = 0
    BY Zenon, <1>2, IdleIs
  <2>4. QED
    BY SMTT(60), <1>2, <1>10, <1>12, <1>13, <2>1, <2>2, <2>3
<1>16. op[p].np = 0 /\ proc[s].state # "RUN"
  BY Zenon, <1>1, <1>2, IdleIs
<1>17. QED
  BY ZenonT(60), <1>3, <1>12, <1>13, <1>14, <1>15, <1>16, ChildStep

(* The slot of a child that wait() freed.                                   *)
LEMMA ReapedKeeps ==
  ASSUME Sane, Facts, IInv, NEW p \in Slots, Reaped(p)
  PROVE  IInv'
<1>1. PICK r : r = op[p] /\ r.pc = "reaped"
  BY Zenon DEF Reaped
<1>2. /\ r \in Calls /\ OpOK(r) /\ GoodCall(r, proc[p]) /\ nfree \in Nat
      /\ (~Growing(r) => GoodEntry(proc[p]))
  BY Zenon, <1>1, Now
<1>3. r.k = "" /\ r.mem = 0 /\ r.tofree = 0 /\ r.new = NoPg
      /\ (r.np # 0 <=> Forking(r) \/ Reaping(r))
  BY Zenon, <1>1, <1>2 DEF OpOK
<1>4. Reaping(r) /\ ~Growing(r)
  BY Zenon, <1>1, <1>3 DEF Reaping, Growing
<1>5. GoodEntry(proc[p])
  BY Zenon, <1>2, <1>4
<1>6. PICK t \in Slots : /\ t = r.np /\ proc[t] \in ProcRecs /\ proc[t].pg = NoPg
                         /\ proc[t].state = "ZOMBIE" /\ proc[t].kstack = 0
  BY Zenon, <1>1, <1>3, <1>4, Named
<1>7. Held(r) = 0 /\ Owned(proc[t]) = 0
  BY ZenonT(60), <1>3, <1>6, HeldIs, OwnedIs
<1>8. /\ op' = [op EXCEPT ![p] = Idle] /\ proc' = [proc EXCEPT ![t] = Unused]
      /\ nfree' = nfree /\ panicked' = panicked
  BY Zenon, <1>1, <1>6 DEF Reaped, Go
<1>9. nfree' \in Nat
      /\ nfree' + Owned(Unused) + Held(Idle) = nfree + Owned(proc[t]) + Held(op[p])
  <2>1. Owned(Unused) = 0 /\ Held(Idle) = 0 /\ Held(op[p]) = 0
    BY ZenonT(60), <1>1, <1>7, UnusedIs, IdleIs
  <2>2. QED
    BY Zenon, <1>2, <1>7, <1>8, <2>1
<1>10. GoodCall(Idle, proc[p]) /\ GoodChild(Idle, Unused, t)
  BY Zenon, <1>5, GoodIdle, UnusedGood
<1>11. QED
  BY ZenonT(60), <1>1, <1>6, <1>8, <1>9, <1>10, ChildStep

-----------------------------------------------------------------------------
(* exec() starts.                                                           *)
LEMMA ExecKeeps ==
  ASSUME Sane, Facts, IInv, NEW p \in Slots, NEW segs \in Programs, Exec(p, segs)
  PROVE  IInv'
<1>1. proc[p].state = "RUN" /\ op[p].pc = "user"
  BY Zenon DEF Exec
<1>2. op[p] = Idle /\ GoodEntry(proc[p]) /\ nfree \in Nat
  BY Zenon, <1>1, Now
<1>3. PICK b : b = [Idle EXCEPT !.segs = segs]
  BY Zenon
<1>4. b \in Calls /\ b.mem = 0 /\ b.tofree = 0 /\ b.sz = 0 /\ b.np = 0
  <2>1. segs \in Seq(Nat)
    BY Zenon DEF Sane
  <2>2. b \in Calls
    BY Zenon, <1>3, <2>1, IdleIs DEF Calls
  <2>3. QED
    BY Zenon, <1>3, <2>2 DEF Idle
<1>5. PICK c : c = Setupkvm(b, "segment")
  BY Zenon
<1>6. GoodCall(c, proc[p]) /\ Held(c) = 0 /\ c.np = 0
  <2>1. PICK k \in {"copyuvm", "segment"} : k = "segment"
    BY Zenon
  <2>2. c = Setupkvm(b, k)
    BY Zenon, <1>5, <2>1
  <2>3. QED
    BY ZenonT(60), <1>2, <1>4, <2>1, <2>2, GoodSetup
<1>7. /\ op' = [op EXCEPT ![p] = c] /\ proc' = proc
      /\ nfree' = nfree /\ panicked' = panicked
  BY Zenon, <1>3, <1>5 DEF Exec, Go
<1>8. nfree' \in Nat /\ nfree' + Held(c) = nfree + Held(op[p]) /\ op[p].np = 0
  BY ZenonT(60), <1>2, <1>6, <1>7, IdleIs
<1>9. QED
  BY Zenon, <1>6, <1>7, <1>8, CallStep

(* exec() that fails.                                                       *)
LEMMA BadKeeps ==
  ASSUME Sane, Facts, IInv, NEW p \in Slots, op[p].pc \in {"segment", "loaded", "args"},
         op' = [op EXCEPT ![p] = Bad(op[p])], proc' = proc, nfree' = nfree,
         panicked' = panicked
  PROVE  IInv'
<1>1. PICK r : r = op[p]
  BY Zenon
<1>2. /\ r \in Calls /\ OpOK(r) /\ nfree \in Nat
      /\ (~Growing(r) => GoodEntry(proc[p]))
  BY Zenon, <1>1, Now
<1>3. r.pc \in {"segment", "loaded", "args"} /\ r.k = ""
  BY Zenon, <1>1, <1>2 DEF OpOK
<1>4. ~Growing(r) /\ ~Reaping(r)
  BY Zenon, <1>3 DEF Growing, Reaping
<1>5. PICK c : c = Bad(r)
  BY Zenon
<1>6. /\ GoodCall(c, proc[p]) /\ Held(c) = Held(r) /\ c.np = r.np
      /\ c.pc # "kstack" /\ ~Reaping(c)
  BY ZenonT(60), <1>2, <1>3, <1>4, <1>5, GoodBad
<1>7. /\ op' = [op EXCEPT ![p] = c] /\ nfree' \in Nat
      /\ nfree' + Held(c) = nfree + Held(op[p])
  BY ZenonT(60), <1>1, <1>2, <1>5, <1>6
<1>8. QED
  BY ZenonT(60), <1>1, <1>3, <1>4, <1>6, <1>7, CallStep

(* exec() goes on to map a segment, or the stack.                           *)
LEMMA SegmentKeeps ==
  ASSUME Sane, Facts, IInv, NEW p \in Slots, Segment(p)
  PROVE  IInv'
<1>1. PICK r : r = op[p] /\ r.pc = "segment"
  BY Zenon DEF Segment
<1>2. PICK q : q = proc[p]
  BY Zenon
<1>3. /\ r \in Calls /\ OpOK(r) /\ GoodCall(r, q) /\ nfree \in Nat
      /\ (~Growing(r) => GoodEntry(q))
  BY Zenon, <1>1, <1>2, Now
<1>4. /\ r.k = "" /\ r.mem = 0 /\ r.tofree = 0
      /\ (r.np # 0 <=> Forking(r) \/ Reaping(r))
  BY Zenon, <1>1, <1>3 DEF OpOK
<1>5. ~Growing(r) /\ ~Reaping(r) /\ ~Forking(r) /\ r.np = 0
  BY Zenon, <1>1, <1>4 DEF Growing, Reaping, Forking
<1>6. GoodEntry(q)
  BY Zenon, <1>3, <1>5
<1>7. Covered(r.new) /\ r.new.pages = PagesIn(0, r.sz) /\ r.sz <= KERNBASE
  BY Zenon, <1>1, <1>3 DEF GoodCall, FillOK
<1>8. r.sz \in Nat /\ r.segs \in Seq(Nat)
  BY Zenon, <1>3 DEF Calls
<1>9. nfree' = nfree /\ proc' = proc /\ panicked' = panicked
  BY Zenon DEF Segment
<1>10. ASSUME NEW b \in Calls, b.mem = 0, b.tofree = 0, b.np = 0, b.new = r.new,
              NEW lo \in Nat, NEW hi \in Nat, lo <= KERNBASE, hi <= KERNBASE,
              r.new.pages = PagesIn(0, lo), NEW k \in {"loaded", "args"},
              op' = [op EXCEPT ![p] = Allocuvm(b, lo, hi, k)]
       PROVE  IInv'
  <2>1. PICK c : c = Allocuvm(b, lo, hi, k)
    BY Zenon
  <2>2. PICK x \in {"grown", "forked", "loaded", "args"} : x = k /\ x # "grown" /\ x # "forked"
    BY Zenon, <1>10
  <2>3. /\ c = Allocuvm(b, lo, hi, x) /\ Covered(b.new)
        /\ b.new.pages = PagesIn(0, lo)
    BY Zenon, <1>7, <1>10, <2>1, <2>2
  <2>4. /\ GoodCall(c, q) /\ Held(c) = Held(b) /\ c.np = 0
    BY SMTT(60), <1>6, <1>10, <2>2, <2>3, GoodAlloc
  <2>5. Held(b) = Held(r)
    BY Zenon, <1>4, <1>10 DEF Held
  <2>6. nfree' \in Nat /\ nfree' + Held(c) = nfree + Held(op[p])
    BY Zenon, <1>1, <1>3, <1>9, <2>4, <2>5
  <2>7. op' = [op EXCEPT ![p] = c]
    BY Zenon, <1>10, <2>1
  <2>8. QED
    BY ZenonT(60), <1>1, <1>2, <1>5, <1>9, <2>4, <2>6, <2>7, CallStep
<1>11. CASE r.segs # <<>> /\ Head(r.segs) >= KERNBASE
  <2>1. op' = [op EXCEPT ![p] = Bad(op[p])]
    BY Zenon, <1>1, <1>11 DEF Segment, Go
  <2>2. QED
    BY ZenonT(60), <1>1, <1>9, <2>1, BadKeeps
<1>12. CASE r.segs # <<>> /\ ~(Head(r.segs) >= KERNBASE)
  <2>1. PICK hi \in Nat : hi = Head(r.segs)
    BY <1>8, <1>12
  <2>2. PICK rest \in Seq(Nat) : rest = Tail(r.segs)
    <3>1. PICK s \in Seq(Nat) : s = r.segs /\ s # <<>>
      BY Zenon, <1>8, <1>12
    <3>2. Tail(s) \in Seq(Nat)
      BY <3>1
    <3>3. QED
      BY Zenon, <3>1, <3>2
  <2>3. PICK b : b = [r EXCEPT !.segs = rest]
    BY Zenon
  <2>4. b \in Calls /\ b.mem = 0 /\ b.tofree = 0 /\ b.np = 0 /\ b.new = r.new
    BY ZenonT(60), <1>3, <1>4, <1>5, <2>3 DEF Calls
  <2>5. op' = [op EXCEPT ![p] = Allocuvm(b, r.sz, hi, "loaded")]
    BY ZenonT(60), <1>1, <1>12, <2>1, <2>2, <2>3 DEF Segment, Go
  <2>6. hi <= KERNBASE
    <3>1. KERNBASE \in Nat
      BY Zenon, VPagesFinite
    <3>2. QED
      BY SMTT(60), <1>12, <2>1, <3>1
  <2>7. QED
    BY ZenonT(60), <1>7, <1>8, <1>10, <2>4, <2>5, <2>6
<1>13. PICK m \in Nat : /\ PGROUNDUP(r.sz) = m * PGSIZE
                        /\ r.sz <= m * PGSIZE /\ m * PGSIZE < r.sz + PGSIZE
  BY Zenon, <1>8, RoundUp
<1>14. PGSIZE \in Nat \ {0} /\ KERNBASE \in Nat
  BY Zenon, VPagesFinite DEF Sane
<1>15. PICK top \in Nat : top = m * PGSIZE
  BY SMTT(60), <1>14
<1>16. PGROUNDUP(r.sz) = top /\ PagesIn(0, top) = PagesIn(0, r.sz)
  BY Zenon, <1>8, <1>13, <1>15, PagesRounded
<1>17. CASE r.segs = <<>> /\ top + 2 * PGSIZE >= KERNBASE
  <2>1. op' = [op EXCEPT ![p] = Bad(op[p])]
    BY Zenon, <1>1, <1>16, <1>17 DEF Segment, Go
  <2>2. QED
    BY ZenonT(60), <1>1, <1>9, <2>1, BadKeeps
<1>18. CASE r.segs = <<>> /\ ~(top + 2 * PGSIZE >= KERNBASE)
  <2>1. op' = [op EXCEPT ![p] = Allocuvm(r, top, top + 2 * PGSIZE, "args")]
    BY Zenon, <1>1, <1>16, <1>18 DEF Segment, Go
  <2>2. PICK hi \in Nat : hi = top + 2 * PGSIZE
    BY SMTT(60), <1>14
  <2>3. top <= KERNBASE /\ hi <= KERNBASE
    BY SMTT(60), <1>14, <1>18, <2>2
  <2>4. r.new.pages = PagesIn(0, top)
    BY Zenon, <1>7, <1>16
  <2>5. op' = [op EXCEPT ![p] = Allocuvm(r, top, hi, "args")]
    BY Zenon, <2>1, <2>2
  <2>6. QED
    BY ZenonT(60), <1>3, <1>4, <1>5, <1>10, <2>3, <2>4, <2>5
<1>19. QED
  BY Zenon, <1>11, <1>12, <1>17, <1>18

(* A segment is loaded.                                                     *)
LEMMA LoadedKeeps ==
  ASSUME Sane, Facts, IInv, NEW p \in Slots, Loaded(p)
  PROVE  IInv'
<1>1. PICK r : r = op[p] /\ r.pc = "loaded"
  BY Zenon DEF Loaded
<1>2. PICK q : q = proc[p]
  BY Zenon
<1>3. r \in Calls /\ OpOK(r) /\ GoodCall(r, q) /\ nfree \in Nat
  BY Zenon, <1>1, <1>2, Now
<1>4. nfree' = nfree /\ proc' = proc /\ panicked' = panicked
  BY Zenon DEF Loaded
<1>5. CASE op' = [op EXCEPT ![p] = Bad(op[p])]
  BY ZenonT(60), <1>1, <1>4, <1>5, BadKeeps
<1>6. CASE op' = [op EXCEPT ![p] = [op[p] EXCEPT !.pc = "segment"]]
  <2>1. PICK c : c = [r EXCEPT !.pc = "segment"]
    BY Zenon
  <2>2. /\ c.pc = "segment" /\ c.k = r.k /\ c.new = r.new /\ c.sz = r.sz
        /\ c.mem = r.mem
        /\ c.tofree = r.tofree /\ c.np = r.np
    BY Zenon, <1>3, <2>1 DEF Calls
  <2>3. c \in Calls
    BY Zenon, <1>3, <2>1 DEF Calls, PCs
  <2>4. /\ (Growing(c) <=> Growing(r)) /\ (Reaping(c) <=> Reaping(r))
        /\ (Forking(c) <=> Forking(r))
    BY <1>1, <2>2 DEF Growing, Reaping, Forking
  <2>5. OpOK(c)
    BY ZenonT(60), <1>1, <1>3, <2>2, <2>4 DEF OpOK
  <2>6. FillOK(c, q)
    BY Zenon, <1>1, <1>3, <2>2 DEF FillOK, GoodCall
  <2>7. GoodCall(c, q)
    BY ZenonT(60), <1>3, <2>2, <2>3, <2>4, <2>5, <2>6 DEF GoodCall
  <2>8. Held(c) = Held(r)
    BY Zenon, <2>2 DEF Held
  <2>9. /\ op' = [op EXCEPT ![p] = c] /\ nfree' \in Nat
        /\ nfree' + Held(c) = nfree + Held(op[p])
    BY ZenonT(60), <1>1, <1>3, <1>4, <1>6, <2>1, <2>8
  <2>10. QED
    BY ZenonT(60), <1>1, <1>2, <1>4, <2>2, <2>4, <2>7, <2>9, CallStep
<1>7. QED
  BY Zenon, <1>5, <1>6 DEF Loaded, Go

(* exec() commits to the new image.                                         *)
LEMMA CommitKeeps ==
  ASSUME Sane, Facts, IInv, NEW p \in Slots, Commit(p)
  PROVE  IInv'
<1>1. PICK r : r = op[p] /\ r.pc = "args"
  BY Zenon DEF Commit
<1>2. PICK q : q = proc[p]
  BY Zenon
<1>3. /\ r \in Calls /\ OpOK(r) /\ GoodCall(r, q) /\ nfree \in Nat
      /\ q \in ProcRecs
  BY Zenon, <1>1, <1>2, Now
<1>4. nfree' = nfree /\ panicked' = panicked
  BY Zenon DEF Commit
<1>5. CASE op' = [op EXCEPT ![p] = Bad(op[p])] /\ proc' = proc
  BY Zenon, <1>1, <1>4, <1>5, BadKeeps
<1>6. CASE /\ proc' = [proc EXCEPT ![p].pg = op[p].new, ![p].sz = op[p].sz]
           /\ op' = [op EXCEPT ![p] = Kfree(Idle, freevm(proc[p].pg), "user")]
  <2>1. r.k = "" /\ r.mem = 0 /\ (r.np # 0 <=> Forking(r) \/ Reaping(r))
    BY Zenon, <1>1, <1>3 DEF OpOK
  <2>2. r.np = 0
    BY Zenon, <1>1, <2>1 DEF Forking, Reaping
  <2>3. r.new \in PgDirs /\ r.sz \in Nat
    BY Zenon, <1>3 DEF Calls
  <2>4. Covered(r.new) /\ r.new.pages = PagesIn(0, r.sz) /\ r.sz <= KERNBASE
    BY Zenon, <1>1, <1>3 DEF GoodCall, FillOK
  <2>5. PICK d : d = [q EXCEPT !.pg = r.new, !.sz = r.sz]
    BY Zenon
  <2>6. /\ d \in ProcRecs /\ d.pg = r.new /\ d.state = q.state
        /\ d.kstack = q.kstack
        /\ d.sz = r.sz
    BY ZenonT(60), <1>3, <2>3, <2>5 DEF ProcRecs
  <2>7. GoodEntry(d)
    BY Zenon, <1>3, <2>4, <2>6 DEF GoodEntry, GoodCall
  <2>8. q.pg \in PgDirs /\ q.kstack \in Nat
    BY Zenon, <1>3, HeldType
  <2>9. PICK n \in Nat : n = Size(q.pg)
    BY Zenon, <2>8, SizeType
  <2>10. PICK c : c = Kfree(Idle, n, "user")
    BY Zenon
  <2>11. GoodCall(c, d) /\ Held(c) = n /\ c.np = 0
    BY Zenon, <2>7, <2>10, GoodFree
  <2>12. op' = [op EXCEPT ![p] = c] /\ proc' = [proc EXCEPT ![p] = d]
    BY ZenonT(60), <1>1, <1>2, <1>6, <2>5, <2>9, <2>10 DEF freevm
  <2>13. nfree' + Owned(d) + Held(c) = nfree + Owned(proc[p]) + Held(op[p])
    <3>1. Size(r.new) \in Nat
      BY Zenon, <2>3, SizeType
    <3>2. Held(r) = Size(r.new)
      <4>1. Held(r) = Size(r.new) + 0
        BY ZenonT(60), <1>1, <1>3, <2>1, HeldNow
      <4>2. QED
        BY <3>1, <4>1
    <3>3. Owned(d) = q.kstack + Size(r.new) /\ Owned(q) = q.kstack + n
      BY Zenon, <2>6, <2>9 DEF Owned
    <3>4. nfree' + Owned(d) + Held(c) = nfree + Owned(q) + Held(r)
      BY SMTT(60), <1>3, <1>4, <2>8, <2>11, <3>1, <3>2, <3>3
    <3>5. QED
      BY Zenon, <1>1, <1>2, <3>4
  <2>14. /\ proc[p].state = "RUN" /\ d.kstack = proc[p].kstack /\ nfree' \in Nat
         /\ op[p].np = 0
    BY ZenonT(60), <1>1, <1>2, <1>3, <1>4, <2>2, <2>6 DEF GoodCall
  <2>15. QED
    BY ZenonT(60), <1>4, <2>11, <2>12, <2>13, <2>14, OwnStep
<1>7. QED
  BY Zenon, <1>5, <1>6 DEF Commit, Go

(* exit() hands the children to init and becomes a zombie.                  *)
LEMMA ExitKeeps ==
  ASSUME Sane, Facts, IInv, NEW p \in Slots, Exit(p)
  PROVE  IInv'
<1>1. proc[p].state = "RUN" /\ op[p].pc = "user" /\ PtableFree
      /\ nfree' = nfree /\ op' = op /\ panicked' = panicked
  BY Zenon DEF Exit
<1>2. op[p] = Idle /\ GoodEntry(proc[p]) /\ nfree \in Nat
  BY Zenon, <1>1, Now
<1>3. ASSUME NEW s \in Slots
      PROVE  /\ proc'[s] \in ProcRecs /\ proc'[s].kstack = proc[s].kstack
             /\ proc'[s].pg = proc[s].pg /\ proc'[s].sz = proc[s].sz
             /\ proc'[s].state = IF s = p THEN "ZOMBIE" ELSE proc[s].state
  <2>1. PICK q : q = IF proc[s].parent = p THEN [proc[s] EXCEPT !.parent = init] ELSE proc[s]
    BY Zenon
  <2>2. proc[s] \in ProcRecs
    BY Zenon DEF IInv, MemoryTypeOK
  <2>3. /\ q \in ProcRecs /\ q.kstack = proc[s].kstack /\ q.pg = proc[s].pg
        /\ q.sz = proc[s].sz /\ q.state = proc[s].state
    BY Zenon, <2>1, <2>2, SlotsAre DEF ProcRecs
  <2>4. proc'[s] = IF s = p THEN [q EXCEPT !.state = "ZOMBIE"] ELSE q
    BY Zenon, <2>1 DEF Exit
  <2>5. QED
    BY ZenonT(60), <2>3, <2>4 DEF ProcRecs
<1>4. MemoryTypeOK'
  <2>1. proc' = [s \in Slots |-> proc'[s]]
    BY Zenon DEF Exit
  <2>2. QED
    BY Zenon, <1>1, <1>2, <1>3, <2>1 DEF IInv, MemoryTypeOK
<1>5. \A s \in Slots : OpOK(op[s])'
  BY ZenonT(60), <1>1 DEF IInv, OpOK, Growing, Reaping, Forking
<1>6. TableInv'
  <2>1. ASSUME NEW s \in Slots PROVE op[s].pc # "user" => proc'[s].state = "RUN"
    BY <1>1, <1>3 DEF IInv, TableInv
  <2>2. ASSUME NEW s \in Slots, op[s].np # 0
        PROVE  LET c == proc'[op[s].np]
               IN /\ c.pg = NoPg
                  /\ c.state = IF Reaping(op[s]) THEN "ZOMBIE" ELSE "EMBRYO"
                  /\ c.kstack = IF Reaping(op[s]) \/ op[s].pc = "kstack" THEN 0 ELSE 1
    <3>1. PICK c \in Slots :
            /\ c = op[s].np /\ proc[c].pg = NoPg
            /\ proc[c].state = IF Reaping(op[s]) THEN "ZOMBIE" ELSE "EMBRYO"
            /\ proc[c].kstack = IF Reaping(op[s]) \/ op[s].pc = "kstack" THEN 0 ELSE 1
      BY Zenon, <2>2, Named
    <3>2. c # p
      BY Zenon, <1>1, <3>1
    <3>3. QED
      BY Zenon, <1>3, <3>1, <3>2
  <2>3. \A s, t \in Slots : op[s].np = op[t].np /\ op[s].np # 0 => s = t
    BY Zenon DEF IInv, TableInv
  <2>4. \A s \in Slots : proc'[s].state = "UNUSED" => proc'[s].kstack = 0 /\ proc'[s].pg = NoPg
    BY SMTT(60), <1>3 DEF IInv, TableInv
  <2>5. \A s \in Slots : proc'[s].state \in {"RUN", "ZOMBIE"} =>
          proc'[s].kstack = 1 \/ \E t \in Slots : op[t].np = s
    BY SMTT(60), <1>1, <1>3 DEF IInv, TableInv
  <2>6. QED
    BY ZenonT(60), <1>1, <2>1, <2>2, <2>3, <2>4, <2>5 DEF TableInv, Reaping
<1>7. MapInv'
  <2>1. ASSUME NEW s \in Slots
        PROVE  /\ Covered(proc'[s].pg) /\ Covered(op[s].new)
               /\ proc'[s].state = "RUN" =>
                    /\ proc'[s].sz <= KERNBASE
                    /\ ~Growing(op[s]) => proc'[s].pg.pages = PagesIn(0, proc'[s].sz)
               /\ FillOK(op[s], proc'[s])
    <3>1. /\ Covered(proc[s].pg) /\ Covered(op[s].new)
          /\ proc[s].state = "RUN" =>
               /\ proc[s].sz <= KERNBASE
               /\ ~Growing(op[s]) => proc[s].pg.pages = PagesIn(0, proc[s].sz)
          /\ FillOK(op[s], proc[s])
      BY Zenon DEF IInv, MapInv
    <3>2. FillOK(op[s], proc'[s])
      BY Zenon, <1>3, <3>1 DEF FillOK
    <3>3. proc'[s].state = "RUN" => proc[s].state = "RUN"
      BY Zenon, <1>3
    <3>4. QED
      BY Zenon, <1>3, <3>1, <3>2, <3>3
  <2>2. QED
    BY ZenonT(60), <1>1, <2>1 DEF MapInv, FillOK, Covered, Growing
<1>8. PagesAccounted'
  <2>1. Use(proc', op') = Use(proc, op)
    BY Zenon, <1>1, <1>3 DEF Use
  <2>2. QED
    BY Zenon, <1>1, <2>1, Accounted DEF IInv
<1>9. QED
  BY ZenonT(60), <1>1, <1>4, <1>5, <1>6, <1>7, <1>8 DEF IInv

-----------------------------------------------------------------------------
(* userinit() leaves the first process with one page.                       *)
LEMMA InitHolds ==
  ASSUME Sane, Facts, MemoryInit
  PROVE  IInv
<1>1. PICK pg : pg = [dir |-> 1, ktabs |-> KTABS, tabs |-> {0}, pages |-> {0}]
  BY Zenon
<1>2. PICK first : first = [state |-> "RUN", kstack |-> 1, pg |-> pg, sz |-> PGSIZE,
                            parent |-> 0]
  BY Zenon
<1>3. /\ proc = [s \in Slots |-> IF s = init THEN first ELSE Unused]
      /\ nfree = NPAGES - 1 - Size(pg) /\ op = [s \in Slots |-> Idle]
      /\ ~panicked
  BY Zenon, <1>1, <1>2 DEF MemoryInit
<1>4. PICK m \in Nat \ {0} : KERNBASE = m * PGSIZE /\ VPages = 0..(m - 1)
  BY Zenon, Layout
<1>5. /\ PGSIZE \in Nat \ {0} /\ NPTENTRIES \in Nat \ {0} /\ KTABS \in Nat
      /\ NPAGES \in Nat
      /\ NPAGES >= 4 + KTABS
  BY Zenon DEF Sane
<1>6. 0 \in VPages /\ PDX(0) = 0
  <2>1. 0 \in VPages
    BY SMTT(60), <1>4
  <2>2. PICK x \in Nat : x = 0 /\ x \div NPTENTRIES \in Nat
                         /\ (x \div NPTENTRIES) * NPTENTRIES <= x
    BY Zenon, <1>5, Divide
  <2>3. 0 * NPTENTRIES = 0
    BY SMTT(60), <1>5
  <2>4. (x \div NPTENTRIES) = 0
    BY Zenon, <1>5, <2>2, <2>3, Quotient
  <2>5. QED
    BY Zenon, <2>1, <2>2, <2>4 DEF PDX
<1>7. pg \in PgDirs /\ Covered(pg)
  BY SMTT(60), <1>1, <1>5, <1>6 DEF PgDirs, Covered
<1>8. Size(pg) = 3 + KTABS
  <2>1. Cardinality({0}) = 1
    BY Zenon DEF Facts, Small
  <2>2. QED
    BY SMTT(60), <1>1, <1>5, <2>1 DEF Size
<1>9. PGSIZE <= KERNBASE
  <2>1. (m - 1) * PGSIZE >= 0 /\ m * PGSIZE = (m - 1) * PGSIZE + PGSIZE
    BY <1>4, <1>5
  <2>2. (m - 1) * PGSIZE \in Int
    BY <1>4, <1>5
  <2>3. QED
    BY SMTT(60), <1>4, <1>5, <2>1, <2>2
<1>10. PagesIn(0, PGSIZE) = {0}
  <2>1. 0 \in Nat /\ (0 \div PGSIZE) * PGSIZE = 0 /\ 0 \div PGSIZE = 0
    <3>1. 0 * PGSIZE = 0
      BY <1>5
    <3>2. 0 \div PGSIZE = 0
      BY Zenon, <1>5, <3>1, Quotient
    <3>3. QED
      BY Zenon, <3>1, <3>2
  <2>2. PICK z \in Nat : z = 0
    BY Zenon
  <2>3. z < KERNBASE /\ z + PGSIZE = PGSIZE /\ (z \div PGSIZE) * PGSIZE = z
    <3>1. KERNBASE \in Nat
      BY Zenon, VPagesFinite
    <3>2. QED
      BY SMTT(60), <1>5, <1>9, <2>1, <2>2, <3>1
  <2>4. PagesIn(0, z + PGSIZE) = PagesIn(0, z) \cup {z \div PGSIZE}
    BY Zenon, <2>3, NextPage
  <2>5. QED
    BY Zenon, <2>1, <2>2, <2>3, <2>4, PagesNone
<1>11. /\ first \in ProcRecs /\ first.state = "RUN" /\ first.kstack = 1
       /\ first.pg = pg
       /\ first.sz = PGSIZE
  BY Zenon, <1>2, <1>5, <1>7 DEF ProcRecs
<1>12. GoodEntry(first)
  BY SMTT(60), <1>1, <1>7, <1>9, <1>10, <1>11 DEF GoodEntry
<1>13. nfree \in Nat
  BY SMTT(60), <1>3, <1>5, <1>8
<1>14. MemoryTypeOK
  BY ZenonT(60), <1>3, <1>11, <1>13, UnusedIs, IdleIs DEF MemoryTypeOK
<1>15. \A s \in Slots : op[s] = Idle /\ proc[s] = IF s = init THEN first ELSE Unused
  BY Zenon, <1>3
<1>16. GoodCall(Idle, first)
  BY Zenon, <1>12, GoodIdle
<1>17. \A s \in Slots : OpOK(op[s])
  BY Zenon, <1>15, <1>16 DEF GoodCall
<1>18. TableInv
  BY ZenonT(60), <1>11, <1>15, IdleIs, UnusedIs DEF TableInv
<1>19. MapInv
  <2>1. FillOK(Idle, Unused) /\ FillOK(Idle, first)
    BY Zenon, IdleIs DEF FillOK
  <2>2. Covered(NoPg) /\ Covered(pg)
    BY Zenon, <1>7, SizeNone
  <2>3. QED
    BY ZenonT(60), <1>11, <1>12, <1>15, <2>1, <2>2, IdleIs, UnusedIs DEF MapInv, GoodEntry
<1>20. PagesAccounted
  <2>1. Use(proc, op) \in [Slots -> Int]
        /\ \A s \in Slots : Use(proc, op)[s] = Owned(proc[s]) + Held(op[s])
    BY Zenon, <1>14, UseType DEF MemoryTypeOK
  <2>2. PICK f \in [Slots -> Int] : f = Use(proc, op)
    BY Zenon, <2>1
  <2>3. PICK h \in [Slots -> Int] : \A s \in Slots : h[s] = 0
    <3>1. [s \in Slots |-> 0] \in [Slots -> Int]
      OBVIOUS
    <3>2. \A s \in Slots : [t \in Slots |-> 0][s] = 0
      BY Zenon
    <3>3. QED
      BY ZenonT(60), <3>1, <3>2
  <2>4. Owned(first) = 4 + KTABS
    BY SMTT(60), <1>5, <1>8, <1>11 DEF Owned
  <2>5. f[init] = 4 + KTABS
    <3>1. f[init] = Owned(first) + Held(Idle)
      BY Zenon, <1>15, <2>1, <2>2, SlotsAre
    <3>2. Held(Idle) = 0
      BY Zenon, IdleIs
    <3>3. QED
      BY SMTT(60), <1>5, <2>4, <3>1, <3>2
  <2>6. \A s \in Slots \ {init} : f[s] = h[s]
    <3>1. ASSUME NEW s \in Slots, s # init PROVE f[s] = 0
      <4>1. f[s] = Owned(Unused) + Held(Idle)
        BY Zenon, <1>15, <2>1, <2>2, <3>1
      <4>2. Owned(Unused) = 0 /\ Held(Idle) = 0
        BY ZenonT(60), UnusedIs, IdleIs
      <4>3. QED
        BY SMTT(60), <4>1, <4>2
    <3>2. QED
      BY Zenon, <2>3, <3>1
  <2>7. Sum(f, Slots) = Sum(h, Slots) + f[init] - h[init]
    BY SMTT(60), <2>6, SlotsAre DEF Facts, SumsMove
  <2>8. Sum(h, Slots) = 0 /\ h[init] = 0
    BY Zenon, <2>3, SlotsAre DEF Facts, SumsAre
  <2>9. NPAGES = nfree + Sum(f, Slots)
    BY SMTT(60), <1>3, <1>5, <1>8, <2>5, <2>7, <2>8
  <2>10. QED
    BY Zenon, <2>2, <2>9, Accounted
<1>21. QED
  BY ZenonT(60), <1>3, <1>14, <1>17, <1>18, <1>19, <1>20 DEF IInv

(* Every step keeps the invariant.                                          *)
LEMMA StepKeeps ==
  ASSUME Sane, Facts, IInv, [MemoryNext]_memoryVars
  PROVE  IInv'
<1>1. CASE UNCHANGED memoryVars
  BY Zenon, <1>1, StutterKeeps
<1>2. CASE MemoryNext
  BY Zenon, <1>2, SbrkKeeps, ForkKeeps, WaitKeeps, ExecKeeps, KfreeStepKeeps,
     SetupkvmStepKeeps, AllocPageKeeps, MapPageKeeps, AllocDoneKeeps, GrownKeeps,
     AllocprocKeeps, CopyuvmKeeps, ForkedKeeps, ForkBadKeeps, SegmentKeeps,
     LoadedKeeps, CommitKeeps, ExitKeeps, ReapedKeeps
     DEF MemoryNext
<1>3. QED
  BY Zenon, <1>1, <1>2

(* The invariant of Memory.                                                 *)
LEMMA MemoryInvariant ==
  ASSUME Sane, Facts
  PROVE  MemorySpec => []IInv
<1>1. MemoryInit => IInv
  BY Zenon, InitHolds
<1>2. IInv /\ [MemoryNext]_memoryVars => IInv'
  BY Zenon, StepKeeps
<1>3. QED
  BY <1>1, <1>2, PTL DEF MemorySpec
=============================================================================
