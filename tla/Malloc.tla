------------------------------- MODULE Malloc -------------------------------
(***************************************************************************)
(* The allocator of umalloc.c: a circular list of free blocks in address   *)
(* order.  Addresses and sizes are in units of a Header; base is a header  *)
(* below the heap.  The program frees what it was given, and may call      *)
(* sbrk() itself, which leaves a gap.                                      *)
(***************************************************************************)
EXTENDS Integers, Sequences, FiniteSetsExt, Functions, TLC

CONSTANTS HEADER, NALLOC, BRKMAX, Sizes

VARIABLES heap, live

mallocVars == <<heap, live>>

base == 0
HEAP == 2

(* freep = 0 is drawn as an empty ptr; gaps are the program's own.           *)
MallocInit ==
  /\ heap = [ptr |-> <<>>, size |-> <<>>, freep |-> base, brk |-> HEAP, gaps |-> {}]
  /\ live = {}

nunits(nbytes) == (nbytes + HEADER - 1) \div HEADER + 1

Blocks(h) == DOMAIN h.ptr
Set(f, a, v) == [x \in DOMAIN f \cup {a} |-> IF x = a THEN v ELSE f[x]]
Drop(f, a) == Restrict(f, DOMAIN f \ {a})

(* The n-th block of the list from freep on.                                 *)
Nth(h) ==
  LET walk[n \in Nat] == IF n = 0 THEN h.freep ELSE h.ptr[walk[n - 1]] IN walk

Round(h) == 0..(Cardinality(Blocks(h)) - 1)

(* Where bp belongs: between p and the next, or past either end of the heap. *)
Fits(h, bp, p) ==
  LET next == h.ptr[p]
  IN (bp > p /\ bp < next) \/ (p >= next /\ (bp > p \/ bp < next))

(* The first half of free(): bp with the block behind it.                    *)
JoinNext(h, bp, p) ==
  LET next == h.ptr[p]
  IN IF bp + h.size[bp] = next
     THEN [h EXCEPT !.size = Drop(Set(@, bp, @[bp] + @[next]), next),
                    !.ptr = Drop(Set(@, bp, @[next]), next)]
     ELSE [h EXCEPT !.ptr = Set(@, bp, next)]

(* The second half: the block before with bp.                                *)
JoinPrev(h, bp, p) ==
  IF p + h.size[p] = bp
  THEN [h EXCEPT !.size = Drop(Set(@, p, @[p] + @[bp]), bp),
                 !.ptr = Drop(Set(@, p, @[bp]), bp)]
  ELSE [h EXCEPT !.ptr = Set(@, p, bp)]

free(h0, bp, size) ==
  LET h == [h0 EXCEPT !.size = Set(@, bp, size)]
      p == Nth(h0)[Min({n \in Round(h0) : Fits(h0, bp, Nth(h0)[n])})]
  IN [JoinPrev(JoinNext(h, bp, p), bp, p) EXCEPT !.freep = p]

(* morecore(): sbrk() of NALLOC units at least, given to free().             *)
morecore(h, nu) ==
  LET more == Max({nu, NALLOC}) IN free([h EXCEPT !.brk = @ + more], h.brk, more)

Started(h) ==
  IF h.ptr = <<>> THEN [h EXCEPT !.ptr = base :> base, !.size = base :> 0] ELSE h

(* The blocks in the order in which malloc() looks at them, from the one     *)
(* after freep to freep.                                                     *)
Enough(h, nu) == {n \in {k + 1 : k \in Round(h)} : h.size[Nth(h)[n]] >= nu}

(* Mutant: the head of a larger block is handed out with its header.         *)
CarveHead(h, p, prevp, nu) ==
  [heap |-> [h EXCEPT !.size = Set(@, p, @[p] - nu), !.freep = prevp], got |-> p]

(* A block of the size is unlinked, a larger one gives its tail.             *)
Carve(h, p, prevp, nu) ==
  IF h.size[p] = nu
  THEN [heap |-> [h EXCEPT !.ptr = Drop(Set(@, prevp, @[p]), p), !.size = Drop(@, p),
                           !.freep = prevp], got |-> p]
  ELSE [heap |-> [h EXCEPT !.size = Set(@, p, @[p] - nu), !.freep = prevp],
        got |-> p + h.size[p] - nu]

MallocCall(nbytes) ==
  LET nu == nunits(nbytes)
      h == Started(heap)
      more == Enough(h, nu) = {}
      g == IF more THEN morecore(h, nu) ELSE h
      n == Min(Enough(g, nu))
      r == Carve(g, Nth(g)[n], Nth(g)[n - 1], nu)
  IN IF more /\ h.brk + Max({nu, NALLOC}) > BRKMAX
     THEN heap' = h /\ UNCHANGED live
     ELSE heap' = r.heap /\ live' = live \cup {[addr |-> r.got, size |-> nu, bytes |-> nbytes]}

FreeCall(b) ==
  /\ heap' = free(heap, b.addr, b.size)
  /\ live' = live \ {b}

(* The program moves the break by a unit.                                    *)
OwnSbrk ==
  /\ heap.gaps = {} /\ heap.brk < BRKMAX
  /\ heap' = [heap EXCEPT !.gaps = @ \cup {heap.brk}, !.brk = @ + 1]
  /\ UNCHANGED live

MallocNext ==
  \/ \E nbytes \in Sizes : MallocCall(nbytes)
  \/ \E b \in live : FreeCall(b)
  \/ OwnSbrk

MallocSpec == MallocInit /\ [][MallocNext]_mallocVars

-----------------------------------------------------------------------------
Units(a, n) == a..(a + n - 1)
FreeBlocks == {[addr |-> a, size |-> heap.size[a]] : a \in Blocks(heap) \ {base}}
LiveBlocks == {[addr |-> b.addr, size |-> b.size] : b \in live}

(* Every unit below the break is in one block that the program has, in one   *)
(* that is free, or in a gap; a block has the room that was asked for.       *)
HeapPartitioned ==
  /\ \A b, c \in FreeBlocks \cup LiveBlocks : b # c => Units(b.addr, b.size) \cap Units(c.addr, c.size) = {}
  /\ FreeBlocks \cap LiveBlocks = {}
  /\ UNION {Units(b.addr, b.size) : b \in FreeBlocks \cup LiveBlocks} \cup heap.gaps = HEAP..(heap.brk - 1)
  /\ \A b \in live : (b.size - 1) * HEADER >= b.bytes

(* The list is one circle in address order through every free block, and no  *)
(* two free blocks touch: freeing in any order gives the heap back whole.    *)
ListCoalesced ==
  Blocks(heap) # {} =>
    /\ heap.freep \in Blocks(heap)
    /\ \A a \in Blocks(heap) :
         LET above == {x \in Blocks(heap) : x > a}
         IN heap.ptr[a] = IF above = {} THEN base ELSE Min(above)
    /\ \A b, c \in FreeBlocks : b.addr + b.size # c.addr

(* No sequence of calls overlaps two blocks, loses a unit or leaves free     *)
(* neighbours apart.                                                         *)
HeapSound == HeapPartitioned /\ ListCoalesced
=============================================================================
