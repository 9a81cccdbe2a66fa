------------------------------- MODULE Memory -------------------------------
(***************************************************************************)
(* Physical pages: kalloc.c, and the page tables of vm.c under fork(),     *)
(* exec(), sbrk(), exit() and wait(), with kalloc() failing at any point.  *)
(* A step is one kalloc() or kfree() of a process and what it does up to   *)
(* the next.  A page table is the set of user pages it maps, of second-    *)
(* level tables below KERNBASE, and a count of those above.                *)
(***************************************************************************)
EXTENDS Integers, Sequences, FiniteSetsExt

CONSTANTS
  NPAGES,       \* pages between end and PHYSTOP
  Slots,        \* of the process table
  PGSIZE, KERNBASE, NPTENTRIES,
  KTABS,        \* second-level tables that kmap needs
  Sbrks,        \* arguments of sbrk()
  Programs,     \* the ends of the segments of the files that exec() can load
  ShrinkToZero  \* whether sbrk() is asked to give back everything

VARIABLES nfree, proc, op, panicked

memoryVars == <<nfree, proc, op, panicked>>

init == 1
VPages == 0..(KERNBASE \div PGSIZE - 1)

PGROUNDUP(n) == ((n + PGSIZE - 1) \div PGSIZE) * PGSIZE
PDX(v) == v \div NPTENTRIES

(* The pages a loop from PGROUNDUP(lo) to hi visits.                         *)
PagesIn(lo, hi) == {v \in VPages : v * PGSIZE >= PGROUNDUP(lo) /\ v * PGSIZE < hi}

NoPg  == [dir |-> 0, ktabs |-> 0, tabs |-> {}, pages |-> {}]
Size(pg) == pg.dir + pg.ktabs + Cardinality(pg.tabs) + Cardinality(pg.pages)
Unused == [state |-> "UNUSED", kstack |-> 0, pg |-> NoPg, sz |-> 0, parent |-> 0]
Idle  == [pc |-> "user", new |-> NoPg, sz |-> 0, lo |-> 0, hi |-> 0, mem |-> 0,
          tofree |-> 0, k |-> "", np |-> 0, segs |-> <<>>]

(* userinit(): setupkvm() and one page for initcode.                         *)
MemoryInit ==
  LET pg == [dir |-> 1, ktabs |-> KTABS, tabs |-> {0}, pages |-> {0}]
  IN /\ proc = [s \in Slots |-> IF s = init
                  THEN [state |-> "RUN", kstack |-> 1, pg |-> pg, sz |-> PGSIZE, parent |-> 0]
                  ELSE Unused]
     /\ nfree = NPAGES - 1 - Size(pg)
     /\ op = [s \in Slots |-> Idle] /\ panicked = FALSE

Go(p, r) == op' = [op EXCEPT ![p] = r]

(* kalloc() with what follows on success and on failure.                     *)
Kalloc(p, ok, failed) ==
  IF nfree > 0 THEN nfree' = nfree - 1 /\ Go(p, ok) ELSE Go(p, failed) /\ UNCHANGED nfree

(* kfree() of n pages one by one, then on to k.                              *)
After(r, k) == IF k = "user" THEN Idle ELSE [r EXCEPT !.pc = k, !.tofree = 0, !.k = ""]
Kfree(r, n, k) ==
  IF n = 0 THEN After(r, k) ELSE [r EXCEPT !.pc = "kfree", !.tofree = n, !.k = k]

KfreeStep(p) ==
  LET r == op[p]
  IN /\ r.pc = "kfree"
     /\ nfree' = nfree + 1
     /\ Go(p, Kfree(r, r.tofree - 1, r.k))
     /\ UNCHANGED <<proc, panicked>>

(* Mutant: the tables below KERNBASE are not freed.                          *)
freevmKeepsTabs(pg) == pg.dir + pg.ktabs + Cardinality(pg.pages)

(* freevm(): how many pages a page table gives back.                         *)
freevm(pg) == Size(pg)

(* Mutant: a page at the new end stays.                                      *)
deallocuvmStrict(pages, oldsz, newsz) == pages \ PagesIn(newsz + 1, oldsz)

(* deallocuvm(): what is left of the pages.                                  *)
deallocuvm(pages, oldsz, newsz) == pages \ PagesIn(newsz, oldsz)

-----------------------------------------------------------------------------
(* setupkvm(): the directory, then the tables of kmap, then on to who.  *)
Setupkvm(r, who) == [r EXCEPT !.pc = "setupkvm", !.new = NoPg, !.k = who]

(* "bad": freevm() of the new page table, and kfree() of a page that is not  *)
(* in it yet; exec() returns, fork() goes on to give the kernel stack back.  *)
Bad(r) ==
  Kfree([r EXCEPT !.new = NoPg, !.mem = 0], freevm(r.new) + r.mem,
        IF r.np = 0 THEN "user" ELSE "forkbad")

(* setupkvm(): the directory, then the tables of the kernel's part.          *)
KernelPage(pg) ==
  IF pg.dir = 0 THEN [pg EXCEPT !.dir = 1] ELSE [pg EXCEPT !.ktabs = @ + 1]

SetupkvmStep(p) ==
  LET r == op[p]
      more == [r EXCEPT !.new = KernelPage(r.new)]
  IN /\ r.pc = "setupkvm"
     /\ IF r.new.dir = 1 /\ r.new.ktabs = KTABS
        THEN Go(p, [r EXCEPT !.pc = r.k, !.k = ""]) /\ UNCHANGED nfree
        ELSE Kalloc(p, more, Bad(r))
     /\ UNCHANGED <<proc, panicked>>

(* allocuvm() and the loop of copyuvm(): r.lo is the next page, r.hi the end; *)
(* growproc() grows the page table in use, the others a new one.             *)
Target(p) == IF op[p].k = "grown" THEN proc[p].pg ELSE op[p].new

(* allocuvm()'s "out of memory": the pages so far and mem are given back.    *)
AllocFailed(p) ==
  LET r == op[p]
      left == deallocuvm(proc[p].pg.pages, r.hi, r.sz)
      n == Cardinality(proc[p].pg.pages \ left) + r.mem
  IN IF r.k = "grown"
     THEN proc' = [proc EXCEPT ![p].pg.pages = left] /\ Go(p, Kfree(Idle, n, "user"))
     ELSE Go(p, Bad(r)) /\ UNCHANGED proc

(* kalloc() of the page.                                                     *)
AllocPage(p) ==
  LET r == op[p]
  IN /\ r.pc = "alloc" /\ r.lo < r.hi /\ r.mem = 0
     /\ IF nfree > 0
        THEN nfree' = nfree - 1 /\ Go(p, [r EXCEPT !.mem = 1]) /\ UNCHANGED proc
        ELSE AllocFailed(p) /\ UNCHANGED nfree
     /\ UNCHANGED panicked

(* mappages() of a page, with the table that walkpgdir() may need.           *)
mappages(pg, v) == [pg EXCEPT !.pages = @ \cup {v}, !.tabs = @ \cup {PDX(v)}]

MapPage(p) ==
  LET r == op[p] v == r.lo \div PGSIZE
      needtab == PDX(v) \notin Target(p).tabs
      next == [r EXCEPT !.mem = 0, !.lo = @ + PGSIZE]
  IN /\ r.pc = "alloc" /\ r.lo < r.hi /\ r.mem = 1
     /\ IF v \in Target(p).pages
        THEN panicked' = TRUE /\ UNCHANGED <<nfree, proc, op>>
        ELSE IF needtab /\ nfree = 0
        THEN AllocFailed(p) /\ UNCHANGED <<nfree, panicked>>
        ELSE /\ nfree' = IF needtab THEN nfree - 1 ELSE nfree
             /\ IF r.k = "grown"
                THEN proc' = [proc EXCEPT ![p].pg = mappages(@, v)] /\ Go(p, next)
                ELSE Go(p, [next EXCEPT !.new = mappages(r.new, v)]) /\ UNCHANGED proc
             /\ UNCHANGED panicked

AllocDone(p) ==
  LET r == op[p]
  IN /\ r.pc = "alloc" /\ r.lo >= r.hi
     /\ Go(p, [r EXCEPT !.pc = r.k, !.k = "", !.sz = r.hi, !.lo = 0, !.hi = 0])
     /\ UNCHANGED <<nfree, proc, panicked>>

(* allocuvm(pgdir, oldsz, newsz), from there to k; it never shrinks.         *)
Allocuvm(r, oldsz, newsz, k) ==
  [r EXCEPT !.pc = "alloc", !.sz = oldsz, !.lo = PGROUNDUP(oldsz),
            !.hi = Max({oldsz, newsz}), !.k = k]

-----------------------------------------------------------------------------
(* sys_sbrk() and growproc(): deallocuvm() of everything returns 0, which    *)
(* growproc() takes for an error.                                            *)
Sbrk(p, n) ==
  LET sz == proc[p].sz new == sz + n
  IN /\ proc[p].state = "RUN" /\ op[p].pc = "user" /\ (new # 0 \/ ShrinkToZero)
     /\ IF n > 0
        THEN /\ Go(p, IF new >= KERNBASE THEN Idle ELSE Allocuvm(Idle, sz, new, "grown"))
             /\ UNCHANGED proc
        ELSE IF new < 0 THEN UNCHANGED <<proc, op>>
        ELSE LET left == deallocuvm(proc[p].pg.pages, sz, new)
             IN /\ proc' = [proc EXCEPT ![p].pg.pages = left,
                                        ![p].sz = IF new = 0 THEN @ ELSE new]
                /\ Go(p, Kfree(Idle, Cardinality(proc[p].pg.pages \ left), "user"))
     /\ UNCHANGED <<nfree, panicked>>

Grown(p) ==
  /\ op[p].pc = "grown"
  /\ proc' = [proc EXCEPT ![p].sz = op[p].sz]
  /\ Go(p, Idle)
  /\ UNCHANGED <<nfree, panicked>>

(* ptable.lock is held while wait() frees a child.                           *)
PtableFree == \A q \in Slots : "reaped" \notin {op[q].pc, op[q].k}

(* fork(): allocproc() takes a slot, then a kernel stack.                    *)
Fork(p, s) ==
  /\ proc[p].state = "RUN" /\ op[p].pc = "user" /\ PtableFree
  /\ s = Min({t \in Slots : proc[t].state = "UNUSED"} \cup {Cardinality(Slots) + 1})
  /\ proc' = [proc EXCEPT ![s].state = "EMBRYO"]
  /\ Go(p, [Idle EXCEPT !.pc = "kstack", !.np = s])
  /\ UNCHANGED <<nfree, panicked>>

Allocproc(p) ==
  LET r == op[p]
  IN /\ r.pc = "kstack"
     /\ IF nfree > 0
        THEN /\ nfree' = nfree - 1 /\ proc' = [proc EXCEPT ![r.np].kstack = 1]
             /\ Go(p, Setupkvm(r, "copyuvm"))
        ELSE /\ proc' = [proc EXCEPT ![r.np] = Unused] /\ Go(p, Idle) /\ UNCHANGED nfree
     /\ UNCHANGED panicked

(* copyuvm(): a page of the parent that is missing is a panic.               *)
Copyuvm(p) ==
  /\ op[p].pc = "copyuvm"
  /\ IF PagesIn(0, proc[p].sz) \subseteq proc[p].pg.pages
     THEN Go(p, Allocuvm(op[p], 0, proc[p].sz, "forked")) /\ UNCHANGED panicked
     ELSE panicked' = TRUE /\ UNCHANGED op
  /\ UNCHANGED <<nfree, proc>>

Forked(p) ==
  LET r == op[p]
  IN /\ r.pc = "forked"
     /\ proc' = [proc EXCEPT ![r.np] = [@ EXCEPT !.state = "RUN", !.pg = r.new,
                                                 !.sz = proc[p].sz, !.parent = p]]
     /\ Go(p, Idle)
     /\ UNCHANGED <<nfree, panicked>>

(* copyuvm() failed: the kernel stack is given back, then the slot.          *)
ForkBad(p) ==
  /\ op[p].pc = "forkbad"
  /\ nfree' = nfree + 1
  /\ proc' = [proc EXCEPT ![op[p].np] = Unused]
  /\ Go(p, Idle)
  /\ UNCHANGED panicked

-----------------------------------------------------------------------------
(* exec() of a file with segments that end at segs; a bad header fails at once. *)
Exec(p, segs) ==
  /\ proc[p].state = "RUN" /\ op[p].pc = "user"
  /\ Go(p, Setupkvm([Idle EXCEPT !.segs = segs], "segment"))
  /\ UNCHANGED <<nfree, proc, panicked>>

(* The next segment, or the two pages of the stack.                          *)
Segment(p) ==
  LET r == op[p] top == PGROUNDUP(r.sz) IN
  /\ r.pc = "segment"
  /\ IF r.segs # <<>>
     THEN Go(p, IF Head(r.segs) >= KERNBASE THEN Bad(r)
                ELSE Allocuvm([r EXCEPT !.segs = Tail(@)], r.sz, Head(r.segs), "loaded"))
     ELSE Go(p, IF top + 2 * PGSIZE >= KERNBASE THEN Bad(r)
                ELSE Allocuvm(r, top, top + 2 * PGSIZE, "args"))
  /\ UNCHANGED <<nfree, proc, panicked>>

(* loaduvm() or copyout() of the arguments fails, or exec() goes on.         *)
Loaded(p) ==
  /\ op[p].pc = "loaded"
  /\ Go(p, [op[p] EXCEPT !.pc = "segment"]) \/ Go(p, Bad(op[p]))
  /\ UNCHANGED <<nfree, proc, panicked>>

(* "Commit to the user image", and freevm() of the old one.                  *)
Commit(p) ==
  LET r == op[p]
  IN /\ r.pc = "args"
     /\ \/ /\ proc' = [proc EXCEPT ![p].pg = r.new, ![p].sz = r.sz]
           /\ Go(p, Kfree(Idle, freevm(proc[p].pg), "user"))
        \/ Go(p, Bad(r)) /\ UNCHANGED proc
     /\ UNCHANGED <<nfree, panicked>>

-----------------------------------------------------------------------------
(* exit() keeps stack and page table; wait() of the parent frees them.       *)
Exit(p) ==
  /\ p # init /\ proc[p].state = "RUN" /\ op[p].pc = "user" /\ PtableFree
  /\ proc' = [s \in Slots |->
       LET q == IF proc[s].parent = p THEN [proc[s] EXCEPT !.parent = init] ELSE proc[s]
       IN IF s = p THEN [q EXCEPT !.state = "ZOMBIE"] ELSE q]
  /\ UNCHANGED <<nfree, op, panicked>>

Wait(p, s) ==
  /\ proc[p].state = "RUN" /\ op[p].pc = "user" /\ PtableFree
  /\ proc[s].state = "ZOMBIE" /\ proc[s].parent = p
  /\ proc' = [proc EXCEPT ![s].kstack = 0, ![s].pg = NoPg]
  /\ Go(p, Kfree([Idle EXCEPT !.np = s], 1 + freevm(proc[s].pg), "reaped"))
  /\ UNCHANGED <<nfree, panicked>>

Reaped(p) ==
  /\ op[p].pc = "reaped"
  /\ proc' = [proc EXCEPT ![op[p].np] = Unused]
  /\ Go(p, Idle)
  /\ UNCHANGED <<nfree, panicked>>

MemoryNext ==
  /\ ~panicked
  /\ \E p \in Slots :
       \/ \E n \in Sbrks : Sbrk(p, n)
       \/ \E s \in Slots : Fork(p, s) \/ Wait(p, s)
       \/ \E segs \in Programs : Exec(p, segs)
       \/ KfreeStep(p) \/ SetupkvmStep(p) \/ AllocPage(p) \/ MapPage(p) \/ AllocDone(p)
       \/ Grown(p) \/ Allocproc(p) \/ Copyuvm(p) \/ Forked(p) \/ ForkBad(p)
       \/ Segment(p) \/ Loaded(p) \/ Commit(p) \/ Exit(p) \/ Reaped(p)

MemorySpec == MemoryInit /\ [][MemoryNext]_memoryVars

-----------------------------------------------------------------------------
(* Every page is free or has one owner: a process, or a call in progress.    *)
(* No path out of a failed fork(), exec() or sbrk() loses or doubles one.    *)
PagesAccounted ==
  NPAGES = nfree + MapThenSumSet(LAMBDA s :
             proc[s].kstack + Size(proc[s].pg)
             + Size(op[s].new) + op[s].mem + op[s].tofree, Slots)

(* mappages() never finds a page there ("remap"), and copyuvm() never misses *)
(* one of the parent ("pte should exist"), after any sequence of calls.      *)
NoPanic == ~panicked

(* A process that does not just change its size has exactly the pages below  *)
(* it, with their tables; so none is mapped twice or missing in fork().      *)
SzMapped ==
  /\ NoPanic
  /\ \A s \in Slots : proc[s].state = "RUN" /\ op[s].k # "grown" /\ op[s].pc # "grown" =>
       /\ proc[s].pg.pages = PagesIn(0, proc[s].sz)
       /\ {PDX(v) : v \in proc[s].pg.pages} \subseteq proc[s].pg.tabs
=============================================================================
