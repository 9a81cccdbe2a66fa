---------------------------- MODULE FilesProofs ----------------------------
(***************************************************************************)
(* The safety properties of Files, for any number of processes, entries,   *)
(* descriptors and pipes.  That the last reference alone gives back what   *)
(* is behind an entry rests on the count: an entry with one reference is   *)
(* named by one descriptor or call, so nobody else can see it go.          *)
(***************************************************************************)
EXTENDS Files, SetFacts, TLAPS

(* The sizes are numbers, and processes, finitely many, are numbered from 1.*)
FilesSane ==
  /\ NFILE \in Nat /\ NOFILE \in Nat /\ NPIPE \in Nat
  /\ IsFiniteSet(FProcs) /\ FProcs # {} /\ FProcs \subseteq Nat \ {0}

FileRecs == [ref : Int, type : {"FD_NONE", "FD_PIPE", "FD_INODE"},
             pipe : 0..NPIPE, writable : BOOLEAN]
Singles == {<<a>> : a \in Entries}
Pairs == {<<a, b>> : a \in Entries, b \in Entries}
Few == {<<>>} \cup Singles \cup Pairs
FilePCs == {"user", "open", "dup", "close", "object", "pipe", "fork", "exit"}
FileOps == [pc : FilePCs, held : Few, owed : 0..NFILE, close : Few, obj : FileRecs,
            child : FProcs \cup {0}, fd : 0..NOFILE]

FilesTypeOK ==
  /\ ftable \in [Entries -> FileRecs]
  /\ ofile \in [FProcs -> [Fds -> 0..NFILE]]
  /\ alive \subseteq FProcs
  /\ pipe \in [1..NPIPE -> [readopen : BOOLEAN, writeopen : BOOLEAN]]
  /\ iref \in Int
  /\ fop \in [FProcs -> FileOps]

(* What a call has at hand at each of its steps.                            *)
CallOK(r) ==
  /\ r.pc \notin {"open", "pipe"} => r.held = <<>>
  /\ r.pc = "open" => r.held \in Singles
  /\ r.pc = "pipe" => r.held \in Singles \cup Pairs
  /\ r.pc \notin {"close", "object"} => r.close = <<>>
  /\ r.pc = "close" => r.close \in Singles \cup Pairs
  /\ r.pc = "object" => r.close \in {<<>>} \cup Singles
  /\ r.pc # "object" => r.obj = FreeFile
  /\ r.pc = "dup" <=> r.owed # 0
  /\ r.pc = "fork" <=> r.child # 0

(* The child of a fork() is nobody else's and does nothing yet, and has the *)
(* descriptors copied so far; a process that is gone has none.              *)
ForkInv ==
  /\ \A p \in FProcs : fop[p].child # 0 =>
       /\ fop[p].child \notin alive /\ fop[fop[p].child].pc = "user"
       /\ \A fd \in Fds : fd >= fop[p].fd => ofile[fop[p].child][fd] = 0
       /\ \A o \in FProcs : fop[o].child = fop[p].child => o = p
  /\ \A p \in FProcs : p \notin alive =>
       /\ fop[p].pc \in {"user", "exit", "close", "object"}
       /\ fop[p].pc = "user" /\ (\A o \in FProcs : fop[o].child # p) =>
            \A fd \in Fds : ofile[p][fd] = 0

(* An entry that filealloc() gave to a call is as filealloc() left it, and  *)
(* dup() owes a reference for one of two descriptors.                       *)
NewFile == [FreeFile EXCEPT !.ref = 1]
InSeq(s, f) == \E i \in DOMAIN s : s[i] = f
HeldInv ==
  \A p \in FProcs :
    /\ \A f \in Entries : InSeq(fop[p].held, f) => ftable[f] = NewFile
    /\ fop[p].owed # 0 =>
         \E a, b \in Fds : a # b /\ ofile[p][a] = fop[p].owed /\ ofile[p][b] = fop[p].owed

(* The inductive invariant.                                                 *)
FilesInv ==
  /\ FilesTypeOK /\ (\A p \in FProcs : CallOK(fop[p])) /\ ForkInv /\ HeldInv
  /\ RefsCounted /\ OpenIsTyped /\ ObjectsHeld

-----------------------------------------------------------------------------
(* A set that gains or loses one element.                                   *)
LEMMA CardChange ==
  ASSUME Facts, NEW A, NEW B, IsFiniteSet(A), NEW x, A \ {x} = B \ {x}
  PROVE  /\ IsFiniteSet(B) /\ Cardinality(A) \in Nat /\ Cardinality(B) \in Nat
         /\ Cardinality(B) = Cardinality(A) - One(x \in A) + One(x \in B)
<1> DEFINE C == A \ {x}
<1>1. IsFiniteSet(C) /\ Cardinality(C) \in Nat
  BY Zenon DEF Facts, OneLess, Sized, Parts
<1>2. x \notin C
  BY Zenon
<1>3. ASSUME NEW D, D \ {x} = C
      PROVE  /\ IsFiniteSet(D) /\ Cardinality(D) \in Nat
             /\ Cardinality(D) = Cardinality(C) + One(x \in D)
  <2>1. CASE x \in D
    <3>1. D = C \cup {x}
      BY Zenon, <1>3, <2>1
    <3> HIDE DEF C
    <3>2. IsFiniteSet(D) /\ Cardinality(D) = Cardinality(C) + 1
      BY Zenon, <1>1, <1>2, <3>1 DEF Facts, OneMore
    <3>3. QED
      BY <1>1, <2>1, <3>2 DEF One
  <2>2. CASE x \notin D
    <3>1. D = C
      BY Zenon, <1>3, <2>2
    <3> HIDE DEF C
    <3>2. QED
      BY <1>1, <2>2, <3>1 DEF One
  <2>3. QED
    BY Zenon, <2>1, <2>2
<1>4. A \ {x} = C /\ B \ {x} = C
  BY Zenon
<1> HIDE DEF C
<1>5. /\ IsFiniteSet(B) /\ Cardinality(A) \in Nat /\ Cardinality(B) \in Nat
      /\ Cardinality(A) = Cardinality(C) + One(x \in A)
      /\ Cardinality(B) = Cardinality(C) + One(x \in B)
  BY Zenon, <1>3, <1>4
<1>6. QED
  BY <1>1, <1>5 DEF One

(* Descriptors are finitely many, entries and pipes too.                    *)
LEMMA Finite ==
  ASSUME FilesSane, Facts
  PROVE  IsFiniteSet(Entries) /\ IsFiniteSet(Fds) /\ IsFiniteSet(1..NPIPE)
<1>1. IsFiniteSet(1..NFILE) /\ IsFiniteSet(0..(NOFILE - 1)) /\ IsFiniteSet(1..NPIPE)
  BY DEF FilesSane, Facts, Small
<1>2. QED
  BY Zenon, <1>1 DEF Entries, Fds

(* How often an entry is in a sequence of at most two.                      *)
Is(a, b) == IF a = b THEN 1 ELSE 0

(* A sequence of at most two entries names each of them once.               *)
LEMMA CountFew ==
  ASSUME Facts, NEW f
  PROVE  /\ Count(<<>>, f) = 0
         /\ \A a : Count(<<a>>, f) = Is(a, f)
         /\ \A a, b : Count(<<a, b>>, f) = Is(a, f) + Is(b, f)
<1>1. Count(<<>>, f) = 0
  <2>1. {i \in DOMAIN <<>> : <<>>[i] = f} = {}
    OBVIOUS
  <2>2. QED
    BY Zenon, <2>1 DEF Count, Facts, Small, Sized
<1>2. ASSUME NEW a PROVE Count(<<a>>, f) = Is(a, f)
  <2>1. {i \in DOMAIN <<a>> : <<a>>[i] = f} = IF a = f THEN {1} ELSE {}
    OBVIOUS
  <2>2. QED
    BY Zenon, <2>1 DEF Count, Is, Facts, Small, Sized
<1>3. ASSUME NEW a, NEW b
      PROVE  Count(<<a, b>>, f) = Is(a, f) + Is(b, f)
  <2> DEFINE A == {i \in DOMAIN <<a>> : <<a>>[i] = f}
             B == {i \in DOMAIN <<a, b>> : <<a, b>>[i] = f}
  <2>1. A = IF a = f THEN {1} ELSE {}
    OBVIOUS
  <2>2. B = (IF a = f THEN {1} ELSE {}) \cup (IF b = f THEN {2} ELSE {})
    OBVIOUS
  <2>3. A \ {2} = B \ {2} /\ 2 \notin A /\ (2 \in B <=> b = f)
    BY <2>1, <2>2
  <2>4. IsFiniteSet(A)
    <3>1. A = {} \/ A = {1}
      BY Zenon, <2>1
    <3> HIDE DEF A
    <3>2. IsFiniteSet({}) /\ IsFiniteSet({1})
      BY Zenon DEF Facts, Small, Sized
    <3>3. QED
      BY <3>1, <3>2, Zenon
  <2>5. /\ Cardinality(A) = Is(a, f)
        /\ Cardinality(B) = Count(<<a, b>>, f)
    BY Zenon, <1>2 DEF Count
  <2> HIDE DEF A, B
  <2>6. Cardinality(B) = Cardinality(A) - One(2 \in A) + One(2 \in B)
    <3>1. A \ {2} = B \ {2}
      BY Zenon, <2>3
    <3>2. QED
      BY Zenon, <2>4, <3>1, CardChange
  <2>7. QED
    BY <2>3, <2>5, <2>6 DEF One, Is
<1>4. QED
  BY Zenon, <1>1, <1>2, <1>3

(* How often an entry is among descriptors, and a change of one of them.    *)
LEMMA CountPut ==
  ASSUME FilesSane, Facts, NEW of \in [Fds -> 0..NFILE], NEW f, NEW d \in Fds, NEW v,
         NEW new, new = [of EXCEPT ![d] = v]
  PROVE  /\ Count(of, f) \in Nat /\ Count(new, f) \in Nat
         /\ Count(new, f) = Count(of, f) - Is(of[d], f) + Is(v, f)
<1> DEFINE A == {i \in DOMAIN of : of[i] = f}
           B == {i \in DOMAIN new : new[i] = f}
<1>1. A \ {d} = B \ {d} /\ (d \in A <=> of[d] = f) /\ (d \in B <=> v = f)
  BY Zenon
<1>2. IsFiniteSet(A)
  <2>1. A \subseteq Fds
    BY Zenon
  <2> HIDE DEF A
  <2>2. QED
    BY Zenon, <2>1, Finite DEF Facts, Parts
<1>3. Count(of, f) = Cardinality(A) /\ Count(new, f) = Cardinality(B)
  BY Zenon DEF Count
<1> HIDE DEF A, B
<1>4. /\ Cardinality(A) \in Nat /\ Cardinality(B) \in Nat
      /\ Cardinality(B) = Cardinality(A) - One(d \in A) + One(d \in B)
  <2>1. A \ {d} = B \ {d}
    BY Zenon, <1>1
  <2>2. QED
    BY Zenon, <2>1, <1>2, CardChange
<1>5. /\ One(d \in A) = Is(of[d], f)
      /\ One(d \in B) = Is(v, f)
  BY Zenon, <1>1 DEF One, Is
<1>6. QED
  BY Zenon, <1>3, <1>4, <1>5

(* The same with the change as a relation.                                  *)
Put(of, new, d, v) == new = [of EXCEPT ![d] = v]
(* A descriptor that is set moves one count down and one up.                *)
LEMMA CountAfter ==
  ASSUME FilesSane, Facts, NEW of \in [Fds -> 0..NFILE], NEW f, NEW d \in Fds, NEW v,
         NEW new, Put(of, new, d, v)
  PROVE  /\ Count(of, f) \in Nat /\ Count(new, f) \in Nat
         /\ Count(new, f) = Count(of, f) - Is(of[d], f) + Is(v, f)
<1>1. new = [of EXCEPT ![d] = v]
  BY Zenon DEF Put
<1>2. QED
  BY Zenon, <1>1, CountPut

(* Descriptors that name an entry are counted.                              *)
LEMMA CountNamed ==
  ASSUME FilesSane, Facts, NEW of \in [Fds -> 0..NFILE], NEW f
  PROVE  /\ Count(of, f) \in Nat
         /\ \A d \in Fds : of[d] = f => Count(of, f) >= 1
         /\ \A d, e \in Fds : d # e /\ of[d] = f /\ of[e] = f => Count(of, f) >= 2
         /\ (\A d \in Fds : of[d] # f) => Count(of, f) = 0
<1> DEFINE A == {i \in DOMAIN of : of[i] = f}
<1>1. A \subseteq Fds /\ Count(of, f) = Cardinality(A)
  BY Zenon DEF Count
<1>2. IsFiniteSet(A) /\ Cardinality(A) \in Nat
  <2> HIDE DEF A
  <2>1. QED
    BY Zenon, <1>1, Finite DEF Facts, Parts, Sized
<1>3. \A d \in Fds : of[d] = f <=> d \in A
  BY Zenon
<1> HIDE DEF A
<1>4. ASSUME NEW d \in A
      PROVE  /\ Cardinality(A) >= 1
             /\ \A e \in A : d # e => Cardinality(A) >= 2
  <2>1. Cardinality(A \ {d}) = Cardinality(A) - 1
    BY Zenon, <1>2 DEF Facts, OneLess
  <2>2. IsFiniteSet(A \ {d}) /\ Cardinality(A \ {d}) \in Nat
    BY Zenon, <1>2 DEF Facts, OneLess, Sized
  <2>3. ASSUME NEW e \in A, d # e PROVE Cardinality(A) >= 2
    <3>1. A \ {d} # {}
      BY Zenon, <2>3
    <3>2. Cardinality(A \ {d}) # 0
      BY Zenon, <2>2, <3>1 DEF Facts, Small, Sized
    <3>3. QED
      BY <1>2, <2>1, <2>2, <3>2
  <2>4. QED
    BY <1>2, <2>1, <2>2, <2>3
<1>5. A = {} => Cardinality(A) = 0
  BY Zenon DEF Facts, Small, Sized
<1>6. QED
  BY Zenon, <1>1, <1>2, <1>3, <1>4, <1>5

-----------------------------------------------------------------------------
(* The references of each process, one turn of the fold that adds them up,  *)
(* and the sum it computes.                                                 *)
Terms(OF, OP, f) == [p \in FProcs |-> Uses(OF[p], OP[p], f)]
Adding(OF, OP, f, g) ==
  [T \in SUBSET FProcs |->
     IF T = {} THEN 0 ELSE Uses(OF[First(T)], OP[First(T)], f) + g[T \ {First(T)}]]

(* The sum that RefsCounted computes is the sum of Terms.                   *)
LEMMA TermSum ==
  ASSUME NEW OF, NEW OP, NEW f
  PROVE  (CHOOSE g : g = Adding(OF, OP, f, g))[FProcs] = Sum(Terms(OF, OP, f), FProcs)
<1> DEFINE F(g) == [T \in SUBSET FProcs |->
             IF T = {} THEN 0 ELSE Terms(OF, OP, f)[First(T)] + g[T \ {First(T)}]]
<1>1. ASSUME NEW g PROVE Adding(OF, OP, f, g) = F(g)
  <2>1. ASSUME NEW T \in SUBSET FProcs, T # {}
        PROVE  Terms(OF, OP, f)[First(T)] = Uses(OF[First(T)], OP[First(T)], f)
    <3>1. First(T) \in FProcs
      BY Zenon, <2>1 DEF First
    <3>2. QED
      BY Zenon, <3>1 DEF Terms
  <2>2. QED
    BY Zenon, <2>1 DEF Adding
<1>2. Sum(Terms(OF, OP, f), FProcs) = (CHOOSE g : g = F(g))[FProcs]
  BY Zenon DEF Sum, MapThenSumSet, MapThenFoldSet, First
<1> HIDE DEF F
<1>3. (CHOOSE g : g = Adding(OF, OP, f, g)) = (CHOOSE g : g = F(g))
  BY <1>1, Zenon
<1>4. QED
  BY Zenon, <1>2, <1>3

(* RefsCounted in terms of that sum, now and after a step.                  *)
LEMMA Counted ==
  /\ RefsCounted <=>
       \A f \in Entries : ftable[f].ref = Sum(Terms(ofile, fop, f), FProcs)
  /\ RefsCounted' <=>
       \A f \in Entries : ftable'[f].ref = Sum(Terms(ofile', fop', f), FProcs)
<1>1. RefsCounted <=>
        \A f \in Entries :
          ftable[f].ref = (CHOOSE g : g = Adding(ofile, fop, f, g))[FProcs]
  BY Zenon DEF RefsCounted, MapThenSumSet, MapThenFoldSet, Adding, First
<1>2. RefsCounted' <=>
        \A f \in Entries :
          ftable'[f].ref = (CHOOSE g : g = Adding(ofile', fop', f, g))[FProcs]
  BY Zenon DEF RefsCounted, MapThenSumSet, MapThenFoldSet, Adding, First, Uses, Count
<1>3. \A f : (CHOOSE g : g = Adding(ofile, fop, f, g))[FProcs]
              = Sum(Terms(ofile, fop, f), FProcs)
  BY TermSum, Zenon
<1>4. \A f : (CHOOSE g : g = Adding(ofile', fop', f, g))[FProcs]
              = Sum(Terms(ofile', fop', f), FProcs)
  BY TermSum, Zenon
<1>5. QED
  BY <1>1, <1>2, <1>3, <1>4, Zenon

(* The references of a process: a number, positive when it names the entry. *)
Names(of, r, f) ==
  (\E d \in Fds : of[d] = f) \/ InSeq(r.held, f) \/ InSeq(r.close, f)
OwedOK(of, r) ==
  r.owed # 0 => \E a, b \in Fds : a # b /\ of[a] = r.owed /\ of[b] = r.owed

(* A short sequence counts an entry if, and only if, it has it.             *)
LEMMA SeqCount ==
  ASSUME Facts, NEW s \in Few, NEW f
  PROVE  /\ Count(s, f) \in Nat /\ (InSeq(s, f) => Count(s, f) >= 1)
         /\ (~InSeq(s, f) => Count(s, f) = 0)
<1>1. CASE s = <<>>
  BY <1>1, CountFew DEF InSeq
<1>2. CASE s \in Singles
  <2>1. PICK a \in Entries : s = <<a>>
    BY Zenon, <1>2 DEF Singles
  <2>2. InSeq(s, f) <=> a = f
    BY <2>1 DEF InSeq
  <2>3. QED
    BY SMTT(60), <2>1, <2>2, CountFew DEF Is
<1>3. CASE s \in Pairs
  <2>1. PICK a \in Entries, b \in Entries : s = <<a, b>>
    BY <1>3 DEF Pairs
  <2>2. InSeq(s, f) <=> a = f \/ b = f
    BY <2>1 DEF InSeq
  <2>3. Count(s, f) = Is(a, f) + Is(b, f)
    BY Zenon, <2>1, CountFew
  <2>4. QED
    BY <2>2, <2>3 DEF Is
<1>4. QED
  BY Zenon, <1>1, <1>2, <1>3 DEF Few

(* An integer in any case.                                                  *)
LEMMA UsesInt ==
  ASSUME FilesSane, Facts, NEW of \in [Fds -> 0..NFILE], NEW r \in FileOps, NEW f
  PROVE  Uses(of, r, f) \in Int
<1>1. r.held \in Few /\ r.close \in Few
  BY Zenon DEF FileOps
<1>2. Count(of, f) \in Nat /\ Count(r.held, f) \in Nat /\ Count(r.close, f) \in Nat
  BY Zenon, <1>1, SeqCount, CountNamed
<1>3. QED
  BY <1>2 DEF Uses

(* An entry that a process names, itself or in its call, has a reference.   *)
LEMMA UsesNamed ==
  ASSUME FilesSane, Facts, NEW of \in [Fds -> 0..NFILE], NEW r \in FileOps, NEW f \in Entries,
         OwedOK(of, r)
  PROVE  Uses(of, r, f) \in Nat /\ (Names(of, r, f) => Uses(of, r, f) >= 1)
<1>1. r.held \in Few /\ r.close \in Few /\ f # 0
  BY DEF FileOps, Entries, FilesSane
<1>2. /\ Count(r.held, f) \in Nat /\ Count(r.close, f) \in Nat
      /\ InSeq(r.held, f) => Count(r.held, f) >= 1
      /\ InSeq(r.close, f) => Count(r.close, f) >= 1
  BY Zenon, <1>1, SeqCount
<1>3. /\ Count(of, f) \in Nat
      /\ (\E d \in Fds : of[d] = f) => Count(of, f) >= 1
      /\ r.owed = f => Count(of, f) >= 2
  <2>1. r.owed = f => \E a, b \in Fds : a # b /\ of[a] = f /\ of[b] = f
    BY Zenon, <1>1 DEF OwedOK
  <2>2. QED
    BY Zenon, <2>1, CountNamed
<1>4. QED
  BY <1>2, <1>3 DEF Uses, Names

(* An entry is referred to by as many as it counts: an entry that some      *)
(* process names has a reference, one that two processes name has two.      *)
LEMMA RefFacts ==
  ASSUME FilesSane, Facts, FilesInv, NEW f \in Entries
  PROVE  /\ ftable[f].ref \in Nat
         /\ \A p \in FProcs :
              /\ Uses(ofile[p], fop[p], f) \in Nat
              /\ ftable[f].ref >= Uses(ofile[p], fop[p], f)
              /\ Names(ofile[p], fop[p], f) => Uses(ofile[p], fop[p], f) >= 1
         /\ \A p, q \in FProcs : p # q =>
              ftable[f].ref >= Uses(ofile[p], fop[p], f) + Uses(ofile[q], fop[q], f)
<1> DEFINE t == Terms(ofile, fop, f)
<1>1. \A p \in FProcs : t[p] = Uses(ofile[p], fop[p], f)
  BY Zenon DEF Terms
<1>2. ASSUME NEW p \in FProcs
      PROVE  /\ Uses(ofile[p], fop[p], f) \in Nat
             /\ Names(ofile[p], fop[p], f) => Uses(ofile[p], fop[p], f) >= 1
  <2>1. ofile[p] \in [Fds -> 0..NFILE] /\ fop[p] \in FileOps
    BY Zenon DEF FilesInv, FilesTypeOK
  <2>2. OwedOK(ofile[p], fop[p])
    BY Zenon DEF FilesInv, HeldInv, OwedOK
  <2>3. QED
    BY Zenon, <2>1, <2>2, UsesNamed
<1>3. t \in [FProcs -> Int]
  BY <1>2 DEF Terms
<1>4. \A p \in FProcs : t[p] >= 0
  BY <1>1, <1>2
<1>5. ftable[f].ref = Sum(t, FProcs) /\ IsFiniteSet(FProcs) /\ FProcs # {}
  BY Zenon, Counted DEF FilesInv, FilesSane
<1> HIDE DEF t
<1>6. \A p \in FProcs :
        /\ Sum(t, FProcs) \in Nat /\ Sum(t, FProcs) >= t[p]
        /\ \A q \in FProcs \ {p} : Sum(t, FProcs) >= t[p] + t[q]
  BY Zenon, <1>3, <1>4, <1>5 DEF Facts, SumsAre
<1>7. QED
  BY Zenon, <1>1, <1>2, <1>5, <1>6

(* The count is right after a step that changes the references of one       *)
(* process if the entries change as these do.                               *)
LEMMA CountKept ==
  ASSUME FilesSane, Facts, FilesInv, FilesTypeOK', NEW q \in FProcs,
         \A p \in FProcs \ {q} : \A f \in Entries :
           Uses(ofile'[p], fop'[p], f) = Uses(ofile[p], fop[p], f),
         \A f \in Entries :
           ftable'[f].ref = ftable[f].ref + Uses(ofile'[q], fop'[q], f)
                                          - Uses(ofile[q], fop[q], f)
  PROVE  RefsCounted'
<1>1. ASSUME NEW f \in Entries
      PROVE  ftable'[f].ref = Sum(Terms(ofile', fop', f), FProcs)
  <2>1. PICK t : t = Terms(ofile, fop, f)
    BY Zenon
  <2>2. PICK u : u = Terms(ofile', fop', f)
    BY Zenon
  <2>3. /\ t \in [FProcs -> Int] /\ u \in [FProcs -> Int]
        /\ t[q] = Uses(ofile[q], fop[q], f) /\ u[q] = Uses(ofile'[q], fop'[q], f)
    <3>1. \A p \in FProcs : /\ ofile[p] \in [Fds -> 0..NFILE] /\ fop[p] \in FileOps
                            /\ ofile'[p] \in [Fds -> 0..NFILE] /\ fop'[p] \in FileOps
      BY Zenon DEF FilesInv, FilesTypeOK
    <3>2. \A p \in FProcs : /\ Uses(ofile[p], fop[p], f) \in Int
                            /\ Uses(ofile'[p], fop'[p], f) \in Int
      BY Zenon, <3>1, UsesInt
    <3>3. QED
      BY Zenon, <2>1, <2>2, <3>2 DEF Terms
  <2>4. \A p \in FProcs \ {q} : u[p] = t[p]
    BY Zenon, <2>1, <2>2 DEF Terms
  <2>5. Sum(u, FProcs) = Sum(t, FProcs) + u[q] - t[q]
    <3>1. IsFiniteSet(FProcs)
      BY Zenon DEF FilesSane
    <3>2. QED
      BY <2>3, <2>4, <3>1 DEF Facts, SumsMove
  <2>6. ftable[f].ref = Sum(t, FProcs)
    BY Zenon, <2>1, Counted DEF FilesInv
  <2>7. QED
    BY Zenon, <2>2, <2>3, <2>5, <2>6
<1>2. QED
  BY Zenon, <1>1, Counted

-----------------------------------------------------------------------------
(* The least of some numbers is one of them.                                *)
LEMMA MinIn ==
  ASSUME Facts, NEW S \in SUBSET Nat, S # {}
  PROVE  Min(S) \in S
<1>1. \E x \in S : \A y \in S : x <= y
  <2>1. PICK n \in S : \A m \in S : m >= n
    BY Zenon DEF Facts, WellOrdered
  <2>2. QED
    BY Zenon, <2>1
<1>2. QED
  BY Zenon, <1>1 DEF Min

(* filealloc() finds an entry without references, fdalloc() a free          *)
(* descriptor.                                                              *)
LEMMA FileallocFacts ==
  ASSUME FilesSane, Facts
  PROVE  filealloc # 0 => filealloc \in Entries /\ ftable[filealloc].ref = 0
<1> DEFINE S == {f \in Entries : ftable[f].ref = 0}
<1>1. S \in SUBSET Nat
  BY DEF Entries, FilesSane
<1>2. CASE S = {}
  BY Zenon, <1>2 DEF filealloc
<1>3. CASE S # {}
  <2>1. Min(S) \in S
    <3> HIDE DEF S
    <3>1. QED
      BY Zenon, <1>1, <1>3, MinIn
  <2>2. filealloc = Min(S)
    BY Zenon, <1>3 DEF filealloc
  <2>3. filealloc \in S
    <3> HIDE DEF S
    <3>1. QED
      BY Zenon, <2>1, <2>2
  <2>4. QED
    BY Zenon, <2>3
<1>4. QED
  BY Zenon, <1>2, <1>3

(* fdalloc() gives a descriptor that is not in use, or none.                *)
LEMMA FdallocFacts ==
  ASSUME FilesSane, Facts, NEW of
  PROVE  fdalloc(of) < NOFILE => fdalloc(of) \in Fds /\ of[fdalloc(of)] = 0
<1> DEFINE S == {d \in Fds : of[d] = 0} \cup {NOFILE}
<1>1. S \in SUBSET Nat /\ S # {}
  BY DEF Fds, FilesSane
<1>2. fdalloc(of) = Min(S)
  BY Zenon DEF fdalloc
<1>3. fdalloc(of) \in S
  <2> HIDE DEF S
  <2>1. QED
    BY Zenon, <1>1, <1>2, MinIn
<1>4. QED
  BY <1>3 DEF FilesSane

(* Where a call goes on that has some entries to close.                     *)
LEMMA CloseFacts ==
  ASSUME FilesSane, Facts, NEW p, NEW s \in Few
  PROVE  /\ Close(p, s) \in FileOps /\ CallOK(Close(p, s))
         /\ Close(p, s).held = <<>> /\ Close(p, s).close = s /\ Close(p, s).owed = 0
         /\ Close(p, s).obj = FreeFile /\ Close(p, s).child = 0
         /\ Close(p, s).pc \in {"user", "exit", "close"}
         /\ Close(p, s).pc = "user" => p \in alive
<1>1. FreeFile \in FileRecs /\ <<>> \in Few /\ 0 \in 0..NFILE /\ 0 \in 0..NOFILE
  BY DEF FreeFile, FileRecs, Few, FilesSane
<1>2. CASE s = <<>>
  BY Zenon, <1>1, <1>2 DEF Close, Closed, Rest, FileOps, FilePCs, CallOK
<1>3. CASE s # <<>>
  <2>1. s \in Singles \cup Pairs
    BY Zenon, <1>3 DEF Few
  <2>2. QED
    BY Zenon, <1>1, <1>3, <2>1 DEF Close, Rest, FileOps, FilePCs, CallOK
<1>4. QED
  BY Zenon, <1>2, <1>3

(* What a call is doing when it has just begun.                             *)
LEMMA RestFacts ==
  ASSUME FilesSane, Facts
  PROVE  /\ Rest \in FileOps /\ CallOK(Rest) /\ FreeFile \in FileRecs
         /\ \A f \in Entries : <<f>> \in Few /\ <<f>> \in Singles
         /\ \A f, g \in Entries : <<f, g>> \in Few /\ <<f, g>> \in Pairs
<1>1. FreeFile \in FileRecs /\ <<>> \in Few /\ 0 \in 0..NFILE /\ 0 \in 0..NOFILE
  BY DEF FreeFile, FileRecs, Few, FilesSane
<1>2. Rest \in FileOps /\ CallOK(Rest)
  BY Zenon, <1>1 DEF Rest, FileOps, FilePCs, CallOK
<1>3. \A f \in Entries : <<f>> \in Singles /\ <<f>> \in Few
  BY Zenon DEF Singles, Few
<1>4. \A f, g \in Entries : <<f, g>> \in Pairs /\ <<f, g>> \in Few
  BY DEF Pairs, Few
<1>5. QED
  BY Zenon, <1>1, <1>2, <1>3, <1>4

(* The types of one process's state.                                        *)
LEMMA At ==
  ASSUME FilesSane, Facts, FilesInv, NEW p \in FProcs
  PROVE  /\ fop[p] \in FileOps /\ CallOK(fop[p]) /\ ofile[p] \in [Fds -> 0..NFILE]
         /\ \A d \in Fds : ofile[p][d] \in 0..NFILE /\ (ofile[p][d] # 0 => ofile[p][d] \in Entries)
<1>1. fop[p] \in FileOps /\ CallOK(fop[p]) /\ ofile[p] \in [Fds -> 0..NFILE]
  BY Zenon DEF FilesInv, FilesTypeOK
<1>2. ASSUME NEW d \in Fds
      PROVE  ofile[p][d] \in 0..NFILE /\ (ofile[p][d] # 0 => ofile[p][d] \in Entries)
  BY <1>1 DEF Entries, FilesSane
<1>3. QED
  BY Zenon, <1>1, <1>2

-----------------------------------------------------------------------------
(* p is in a call, or makes one; if it has called exit() it stays in it     *)
(* until it has no descriptors.                                             *)
GoesOn(p, r, of) ==
  /\ p \in alive \/ fop[p].pc # "user"
  /\ p \notin alive => /\ r.pc \in {"user", "exit", "close", "object"}
                       /\ r.pc = "user" => \A d \in Fds : of[d] = 0

(* ForkInv after a step of p, outside fork() and exit(), that changes only  *)
(* its own descriptors.                                                     *)
LEMMA ForkKept ==
  ASSUME FilesSane, Facts, FilesInv, NEW p \in FProcs, NEW r, NEW of,
         fop' = [fop EXCEPT ![p] = r], ofile' = [ofile EXCEPT ![p] = of],
         alive' = alive, r.child = 0, fop[p].child = 0,
         GoesOn(p, r, of)
  PROVE  ForkInv'
<1>1. /\ \A o \in FProcs \ {p} : fop'[o] = fop[o] /\ ofile'[o] = ofile[o]
      /\ fop'[p] = r /\ ofile'[p] = of
  BY Zenon DEF FilesInv, FilesTypeOK
<1>a. p \in alive \/ fop[p].pc # "user"
  BY Zenon DEF GoesOn
<1>2. ASSUME NEW o \in FProcs, fop'[o].child # 0
      PROVE  /\ fop'[o].child \notin alive' /\ fop'[fop'[o].child].pc = "user"
             /\ \A d \in Fds : d >= fop'[o].fd => ofile'[fop'[o].child][d] = 0
             /\ \A x \in FProcs : fop'[x].child = fop'[o].child => x = o
  <2>1. o # p /\ fop'[o] = fop[o]
    BY Zenon, <1>1, <1>2
  <2>2. /\ fop[o].child \notin alive /\ fop[fop[o].child].pc = "user"
        /\ \A d \in Fds : d >= fop[o].fd => ofile[fop[o].child][d] = 0
        /\ \A x \in FProcs : fop[x].child = fop[o].child => x = o
    BY <1>2, <2>1 DEF FilesInv, ForkInv
  <2>3. fop[o].child \in FProcs \ {p}
    <3>1. fop[o] \in FileOps
      BY Zenon, At
    <3>2. fop[o].child \in FProcs \cup {0}
      BY Zenon, <3>1 DEF FileOps
    <3>3. QED
      BY Zenon, <1>a, <1>2, <2>1, <2>2, <3>2
  <2>4. QED
    BY <1>1, <1>2, <2>1, <2>2, <2>3
<1>3. ASSUME NEW o \in FProcs, o \notin alive'
      PROVE  /\ fop'[o].pc \in {"user", "exit", "close", "object"}
             /\ fop'[o].pc = "user" /\ (\A x \in FProcs : fop'[x].child # o) =>
                  \A d \in Fds : ofile'[o][d] = 0
  <2>1. CASE o = p
    BY ZenonT(60), <1>1, <1>3, <2>1 DEF GoesOn
  <2>2. CASE o # p
    <3>1. fop'[o] = fop[o] /\ ofile'[o] = ofile[o]
      BY Zenon, <1>1, <2>2
    <3>2. (\A x \in FProcs : fop'[x].child # o) => (\A x \in FProcs : fop[x].child # o)
      <4>1. o # 0
        BY Zenon DEF FilesSane
      <4>2. QED
        BY Zenon, <1>1, <4>1
    <3>3. QED
      BY <1>3, <3>1, <3>2 DEF FilesInv, ForkInv
  <2>3. QED
    BY Zenon, <2>1, <2>2
<1>4. QED
  BY Zenon, <1>2, <1>3 DEF ForkInv

(* An entry that a descriptor names is open.                                *)
LEMMA OpenTyped ==
  ASSUME FilesSane, Facts, FilesInv, NEW p \in FProcs, NEW d \in Fds, NEW f \in Entries,
         ofile[p][d] = f
  PROVE  ftable[f].type # "FD_NONE" /\ Names(ofile[p], fop[p], f)
<1>1. f \in Range(ofile[p])
  BY Zenon, At DEF Range
<1>2. QED
  BY Zenon, <1>1 DEF FilesInv, OpenIsTyped, Names

(* What is at hand of a process after a step.                               *)
OwnOK(tab, of, r) ==
  /\ \A f \in Entries : InSeq(r.held, f) => tab[f] = NewFile
  /\ OwedOK(of, r)
  /\ \A d \in Fds : of[d] # 0 => tab[of[d]].type # "FD_NONE"

(* An entry changes under the lock only if it was free, or the process has  *)
(* a reference; it is closed, not typed, only with the last reference.      *)
MayChange(of, r, f, old, new) ==
  \/ new = old
  \/ /\ old.ref = 0 \/ Names(of, r, f)
     /\ new.ref = 0 => new = FreeFile
     /\ new.type # "FD_NONE" \/ new.type = old.type \/ old.ref = 1

(* Then the other processes still find what they have.                      *)
LEMMA OwnKept ==
  ASSUME FilesSane, Facts, FilesInv, NEW p \in FProcs, NEW q \in FProcs,
         \A o \in FProcs \ {p, q} : fop'[o] = fop[o] /\ ofile'[o] = ofile[o],
         \A f \in Entries : MayChange(ofile[p], fop[p], f, ftable[f], ftable'[f]),
         \A o \in {p, q} : OwnOK(ftable', ofile'[o], fop'[o]),
         ofile' \in [FProcs -> [Fds -> 0..NFILE]]
  PROVE  HeldInv' /\ OpenIsTyped'
<1>1. ASSUME NEW o \in FProcs \ {p, q} PROVE OwnOK(ftable', ofile'[o], fop'[o])
  <2>1. fop'[o] = fop[o] /\ ofile'[o] = ofile[o] /\ o # p
    BY Zenon
  <2>2. ASSUME NEW f \in Entries, InSeq(fop[o].held, f) PROVE ftable'[f] = NewFile
    <3>1. ftable[f] = NewFile
      BY Zenon, <2>2 DEF FilesInv, HeldInv
    <3>2. ftable[f].ref = 1
      BY Zenon, <3>1 DEF NewFile, FreeFile
    <3>3. Uses(ofile[o], fop[o], f) \in Nat /\ Uses(ofile[o], fop[o], f) >= 1
      BY Zenon, <2>2, RefFacts DEF Names
    <3>4. ~Names(ofile[p], fop[p], f)
      <4>1. /\ Uses(ofile[p], fop[p], f) \in Nat
            /\ ftable[f].ref >= Uses(ofile[p], fop[p], f) + Uses(ofile[o], fop[o], f)
            /\ Names(ofile[p], fop[p], f) => Uses(ofile[p], fop[p], f) >= 1
        BY Zenon, <2>1, RefFacts
      <4>2. QED
        BY <3>2, <3>3, <4>1
    <3>5. QED
      BY <3>1, <3>2, <3>4 DEF MayChange
  <2>3. OwedOK(ofile[o], fop[o])
    BY Zenon DEF FilesInv, HeldInv, OwedOK
  <2>4. ASSUME NEW d \in Fds, ofile[o][d] # 0
        PROVE  ftable'[ofile[o][d]].type # "FD_NONE"
    <3>1. PICK f \in Entries : f = ofile[o][d]
      BY Zenon, <2>4, At
    <3>2. Names(ofile[o], fop[o], f)
      BY Zenon, <3>1 DEF Names
    <3>3. Uses(ofile[o], fop[o], f) \in Nat /\ Uses(ofile[o], fop[o], f) >= 1
      BY Zenon, <3>2, RefFacts
    <3>4. /\ Uses(ofile[p], fop[p], f) \in Nat
          /\ ftable[f].ref >= Uses(ofile[p], fop[p], f) + Uses(ofile[o], fop[o], f)
          /\ Names(ofile[p], fop[p], f) => Uses(ofile[p], fop[p], f) >= 1
      BY Zenon, <2>1, RefFacts
    <3>5. ftable[f].ref # 0
      BY <3>3, <3>4
    <3>6. ftable[f].ref = 1 => ~Names(ofile[p], fop[p], f)
      BY <3>3, <3>4
    <3>7. ftable[f].type # "FD_NONE"
      <4>1. f \in Range(ofile[o])
        BY Zenon, <3>1, At DEF Range
      <4>2. QED
        BY Zenon, <4>1 DEF FilesInv, OpenIsTyped
    <3>8. QED
      BY Zenon, <3>1, <3>5, <3>6, <3>7 DEF MayChange
  <2>5. QED
    BY Zenon, <2>1, <2>2, <2>3, <2>4 DEF OwnOK
<1>2. \A o \in FProcs : OwnOK(ftable', ofile'[o], fop'[o])
  BY Zenon, <1>1
<1>3. HeldInv'
  BY Zenon, <1>2 DEF HeldInv, OwnOK, OwedOK
<1>4. ASSUME NEW f \in Entries PROVE ftable'[f].ref = 0 => ftable'[f] = FreeFile
  <2>1. ftable[f].ref = 0 => ftable[f] = FreeFile
    BY Zenon DEF FilesInv, OpenIsTyped
  <2>2. QED
    BY Zenon, <2>1 DEF MayChange
<1>5. ASSUME NEW f \in Entries, NEW o \in FProcs, f \in Range(ofile'[o])
      PROVE  ftable'[f].type # "FD_NONE"
  <2>1. PICK d \in Fds : ofile'[o][d] = f
    BY Zenon, <1>5 DEF Range
  <2>2. f # 0
    BY DEF Entries, FilesSane
  <2>3. QED
    BY ZenonT(60), <1>2, <2>1, <2>2 DEF OwnOK
<1>6. QED
  BY Zenon, <1>3, <1>4, <1>5 DEF OpenIsTyped

-----------------------------------------------------------------------------
(* ObjectsHeld as a relation of the variables: what is behind entries t and *)
(* calls O, pipes P and the number of references to inodes.                 *)
EntryEnds(t, k, w) == Cardinality({f \in Entries : Holds(t[f], k, w)})
CallEnds(O, k, w) == Cardinality({p \in FProcs : Holds(O[p].obj, k, w)})
EntryInodes(t) == Cardinality({f \in Entries : t[f].type = "FD_INODE"})
CallInodes(O) == Cardinality({p \in FProcs : O[p].obj.type = "FD_INODE"})
Opening(O) == Cardinality({p \in FProcs : O[p].pc = "open"})
EndsOK(t, O, P, k) ==
  /\ EntryEnds(t, k, FALSE) + CallEnds(O, k, FALSE) = One(P[k].readopen)
  /\ EntryEnds(t, k, TRUE) + CallEnds(O, k, TRUE) = One(P[k].writeopen)
InodesOK(t, O, i) == i = EntryInodes(t) + CallInodes(O) + Opening(O)

(* ObjectsHeld in terms of the table, the calls and the pipes.              *)
LEMMA Objects ==
  /\ ObjectsHeld <=> /\ \A k \in DOMAIN pipe : EndsOK(ftable, fop, pipe, k)
                     /\ InodesOK(ftable, fop, iref)
  /\ ObjectsHeld' <=> /\ \A k \in DOMAIN pipe' : EndsOK(ftable', fop', pipe', k)
                      /\ InodesOK(ftable', fop', iref')
<1>1. ObjectsHeld <=> /\ \A k \in DOMAIN pipe : EndsOK(ftable, fop, pipe, k)
                      /\ InodesOK(ftable, fop, iref)
  BY Zenon DEF ObjectsHeld, Ends, EndsOK, InodesOK, EntryEnds, CallEnds, EntryInodes,
         CallInodes, Opening
<1>2. ObjectsHeld' <=> /\ \A k \in DOMAIN pipe' : EndsOK(ftable', fop', pipe', k)
                       /\ InodesOK(ftable', fop', iref')
  BY Zenon DEF ObjectsHeld, Ends, EndsOK, InodesOK, EntryEnds, CallEnds, EntryInodes,
         CallInodes, Opening, One, Holds
<1>3. QED
  BY Zenon, <1>1, <1>2

(* What is behind an entry.                                                 *)
SameKind(a, b) == a.type = b.type /\ a.pipe = b.pipe /\ a.writable = b.writable

(* How the numbers change when only one entry, or call, does.               *)
EntryDelta(t, u, x) ==
  /\ EntryInodes(t) \in Nat /\ EntryInodes(u) \in Nat
  /\ EntryInodes(u) = EntryInodes(t) - One(t[x].type = "FD_INODE")
                                     + One(u[x].type = "FD_INODE")
  /\ \A k, w : /\ EntryEnds(t, k, w) \in Nat /\ EntryEnds(u, k, w) \in Nat
               /\ EntryEnds(u, k, w) = EntryEnds(t, k, w) - One(Holds(t[x], k, w))
                                                          + One(Holds(u[x], k, w))
CallDelta(O, N, x) ==
  /\ CallInodes(O) \in Nat /\ CallInodes(N) \in Nat
  /\ CallInodes(N) = CallInodes(O) - One(O[x].obj.type = "FD_INODE")
                                   + One(N[x].obj.type = "FD_INODE")
  /\ Opening(O) \in Nat /\ Opening(N) \in Nat
  /\ Opening(N) = Opening(O) - One(O[x].pc = "open") + One(N[x].pc = "open")
  /\ \A k, w : /\ CallEnds(O, k, w) \in Nat /\ CallEnds(N, k, w) \in Nat
               /\ CallEnds(N, k, w) = CallEnds(O, k, w) - One(Holds(O[x].obj, k, w))
                                                        + One(Holds(N[x].obj, k, w))

(* One entry changes what is behind it.                                     *)
LEMMA EntryChanges ==
  ASSUME FilesSane, Facts, NEW t, NEW u, NEW x \in Entries,
         \A f \in Entries \ {x} : SameKind(u[f], t[f])
  PROVE  EntryDelta(t, u, x)
<1>1. ASSUME NEW A, NEW B, A \in SUBSET Entries, B \in SUBSET Entries, A \ {x} = B \ {x}
      PROVE  /\ Cardinality(A) \in Nat /\ Cardinality(B) \in Nat
             /\ Cardinality(B) = Cardinality(A) - One(x \in A) + One(x \in B)
  <2>1. IsFiniteSet(A)
    BY Zenon, <1>1, Finite DEF Facts, Parts
  <2>2. QED
    BY Zenon, <1>1, <2>1, CardChange
<1>2. /\ EntryInodes(t) \in Nat /\ EntryInodes(u) \in Nat
      /\ EntryInodes(u) = EntryInodes(t) - One(t[x].type = "FD_INODE")
                                         + One(u[x].type = "FD_INODE")
  <2> DEFINE A == {f \in Entries : t[f].type = "FD_INODE"}
             B == {f \in Entries : u[f].type = "FD_INODE"}
  <2>1. /\ A \in SUBSET Entries /\ B \in SUBSET Entries /\ A \ {x} = B \ {x}
        /\ (x \in A <=> t[x].type = "FD_INODE") /\ (x \in B <=> u[x].type = "FD_INODE")
    BY Zenon DEF SameKind
  <2>2. EntryInodes(t) = Cardinality(A) /\ EntryInodes(u) = Cardinality(B)
    BY Zenon DEF EntryInodes
  <2> HIDE DEF A, B
  <2>3. /\ Cardinality(A) \in Nat /\ Cardinality(B) \in Nat
        /\ Cardinality(B) = Cardinality(A) - One(x \in A) + One(x \in B)
    BY Zenon, <1>1, <2>1
  <2>4. /\ One(x \in A) = One(t[x].type = "FD_INODE")
        /\ One(x \in B) = One(u[x].type = "FD_INODE")
    BY Zenon, <2>1 DEF One
  <2>5. QED
    BY Zenon, <2>2, <2>3, <2>4
<1>3. ASSUME NEW k, NEW w
      PROVE  /\ EntryEnds(t, k, w) \in Nat /\ EntryEnds(u, k, w) \in Nat
             /\ EntryEnds(u, k, w) = EntryEnds(t, k, w) - One(Holds(t[x], k, w))
                                                        + One(Holds(u[x], k, w))
  <2> DEFINE A == {f \in Entries : Holds(t[f], k, w)}
             B == {f \in Entries : Holds(u[f], k, w)}
  <2>1. /\ A \in SUBSET Entries /\ B \in SUBSET Entries /\ A \ {x} = B \ {x}
        /\ (x \in A <=> Holds(t[x], k, w)) /\ (x \in B <=> Holds(u[x], k, w))
    BY Zenon DEF SameKind, Holds
  <2>2. EntryEnds(t, k, w) = Cardinality(A) /\ EntryEnds(u, k, w) = Cardinality(B)
    BY Zenon DEF EntryEnds
  <2> HIDE DEF A, B
  <2>3. /\ Cardinality(A) \in Nat /\ Cardinality(B) \in Nat
        /\ Cardinality(B) = Cardinality(A) - One(x \in A) + One(x \in B)
    BY Zenon, <1>1, <2>1
  <2>4. One(x \in A) = One(Holds(t[x], k, w)) /\ One(x \in B) = One(Holds(u[x], k, w))
    BY Zenon, <2>1 DEF One
  <2>5. QED
    BY Zenon, <2>2, <2>3, <2>4
<1>4. QED
  BY <1>2, <1>3, Zenon DEF EntryDelta

(* No entry changes what is behind it.                                      *)
LEMMA EntriesKept ==
  ASSUME NEW t, NEW u, \A f \in Entries : SameKind(u[f], t[f])
  PROVE  /\ EntryInodes(u) = EntryInodes(t)
         /\ \A k, w : EntryEnds(u, k, w) = EntryEnds(t, k, w)
<1>1. {f \in Entries : u[f].type = "FD_INODE"} = {f \in Entries : t[f].type = "FD_INODE"}
  BY Zenon DEF SameKind
<1>2. \A k, w : {f \in Entries : Holds(u[f], k, w)} = {f \in Entries : Holds(t[f], k, w)}
  BY Zenon DEF SameKind, Holds
<1>3. QED
  BY <1>1, <1>2, ZenonT(60) DEF EntryInodes, EntryEnds

(* One call goes on.                                                        *)
LEMMA CallChanges ==
  ASSUME FilesSane, Facts, NEW O, NEW N, NEW x \in FProcs,
         \A p \in FProcs \ {x} : N[p] = O[p]
  PROVE  CallDelta(O, N, x)
<1>1. ASSUME NEW A, NEW B, A \in SUBSET FProcs, B \in SUBSET FProcs, A \ {x} = B \ {x}
      PROVE  /\ Cardinality(A) \in Nat /\ Cardinality(B) \in Nat
             /\ Cardinality(B) = Cardinality(A) - One(x \in A) + One(x \in B)
  <2>1. IsFiniteSet(A)
    BY Zenon, <1>1 DEF FilesSane, Facts, Parts
  <2>2. QED
    BY Zenon, <1>1, <2>1, CardChange
<1>2. /\ CallInodes(O) \in Nat /\ CallInodes(N) \in Nat
      /\ CallInodes(N) = CallInodes(O) - One(O[x].obj.type = "FD_INODE")
                                       + One(N[x].obj.type = "FD_INODE")
  <2> DEFINE A == {p \in FProcs : O[p].obj.type = "FD_INODE"}
             B == {p \in FProcs : N[p].obj.type = "FD_INODE"}
  <2>1. /\ A \in SUBSET FProcs /\ B \in SUBSET FProcs /\ A \ {x} = B \ {x}
        /\ (x \in A <=> O[x].obj.type = "FD_INODE")
        /\ (x \in B <=> N[x].obj.type = "FD_INODE")
    BY Zenon
  <2>2. CallInodes(O) = Cardinality(A) /\ CallInodes(N) = Cardinality(B)
    BY Zenon DEF CallInodes
  <2> HIDE DEF A, B
  <2>3. /\ Cardinality(A) \in Nat /\ Cardinality(B) \in Nat
        /\ Cardinality(B) = Cardinality(A) - One(x \in A) + One(x \in B)
    BY Zenon, <1>1, <2>1
  <2>4. /\ One(x \in A) = One(O[x].obj.type = "FD_INODE")
        /\ One(x \in B) = One(N[x].obj.type = "FD_INODE")
    BY Zenon, <2>1 DEF One
  <2>5. QED
    BY Zenon, <2>2, <2>3, <2>4
<1>3. /\ Opening(O) \in Nat /\ Opening(N) \in Nat
      /\ Opening(N) = Opening(O) - One(O[x].pc = "open") + One(N[x].pc = "open")
  <2> DEFINE A == {p \in FProcs : O[p].pc = "open"}
             B == {p \in FProcs : N[p].pc = "open"}
  <2>1. /\ A \in SUBSET FProcs /\ B \in SUBSET FProcs /\ A \ {x} = B \ {x}
        /\ (x \in A <=> O[x].pc = "open") /\ (x \in B <=> N[x].pc = "open")
    BY Zenon
  <2>2. Opening(O) = Cardinality(A) /\ Opening(N) = Cardinality(B)
    BY Zenon DEF Opening
  <2> HIDE DEF A, B
  <2>3. /\ Cardinality(A) \in Nat /\ Cardinality(B) \in Nat
        /\ Cardinality(B) = Cardinality(A) - One(x \in A) + One(x \in B)
    BY Zenon, <1>1, <2>1
  <2>4. One(x \in A) = One(O[x].pc = "open") /\ One(x \in B) = One(N[x].pc = "open")
    BY Zenon, <2>1 DEF One
  <2>5. QED
    BY Zenon, <2>2, <2>3, <2>4
<1>4. ASSUME NEW k, NEW w
      PROVE  /\ CallEnds(O, k, w) \in Nat /\ CallEnds(N, k, w) \in Nat
             /\ CallEnds(N, k, w) = CallEnds(O, k, w) - One(Holds(O[x].obj, k, w))
                                                      + One(Holds(N[x].obj, k, w))
  <2> DEFINE A == {p \in FProcs : Holds(O[p].obj, k, w)}
             B == {p \in FProcs : Holds(N[p].obj, k, w)}
  <2>1. /\ A \in SUBSET FProcs /\ B \in SUBSET FProcs /\ A \ {x} = B \ {x}
        /\ (x \in A <=> Holds(O[x].obj, k, w)) /\ (x \in B <=> Holds(N[x].obj, k, w))
    OBVIOUS
  <2>2. CallEnds(O, k, w) = Cardinality(A) /\ CallEnds(N, k, w) = Cardinality(B)
    BY Zenon DEF CallEnds
  <2> HIDE DEF A, B
  <2>3. /\ Cardinality(A) \in Nat /\ Cardinality(B) \in Nat
        /\ Cardinality(B) = Cardinality(A) - One(x \in A) + One(x \in B)
    BY Zenon, <1>1, <2>1
  <2>4. /\ One(x \in A) = One(Holds(O[x].obj, k, w))
        /\ One(x \in B) = One(Holds(N[x].obj, k, w))
    BY Zenon, <2>1 DEF One
  <2>5. QED
    BY ZenonT(60), <2>2, <2>3, <2>4
<1>5. QED
  BY <1>2, <1>3, <1>4, Zenon DEF CallDelta

(* A step that changes nothing behind entries and calls, nor opens a file.  *)
LEMMA ObjectsKept ==
  ASSUME FilesSane, Facts, FilesInv, NEW p \in FProcs,
         \A f \in Entries : SameKind(ftable'[f], ftable[f]),
         \A o \in FProcs \ {p} : fop'[o] = fop[o],
         fop'[p].obj = fop[p].obj, fop'[p].pc = "open" <=> fop[p].pc = "open",
         pipe' = pipe, iref' = iref
  PROVE  ObjectsHeld'
<1>1. /\ EntryInodes(ftable') = EntryInodes(ftable)
      /\ \A k, w : EntryEnds(ftable', k, w) = EntryEnds(ftable, k, w)
  BY ZenonT(60), EntriesKept
<1>2. /\ \A o \in FProcs : fop'[o].obj = fop[o].obj
      /\ \A o \in FProcs : fop'[o].pc = "open" <=> fop[o].pc = "open"
  BY Zenon
<1>3. /\ CallInodes(fop') = CallInodes(fop) /\ Opening(fop') = Opening(fop)
      /\ \A k, w : CallEnds(fop', k, w) = CallEnds(fop, k, w)
  <2>1. {o \in FProcs : fop'[o].obj.type = "FD_INODE"}
          = {o \in FProcs : fop[o].obj.type = "FD_INODE"}
    BY Zenon, <1>2
  <2>2. {o \in FProcs : fop'[o].pc = "open"} = {o \in FProcs : fop[o].pc = "open"}
    BY Zenon, <1>2
  <2>3. \A k, w : {o \in FProcs : Holds(fop'[o].obj, k, w)}
                    = {o \in FProcs : Holds(fop[o].obj, k, w)}
    BY <1>2, Zenon
  <2>4. QED
    BY <2>1, <2>2, <2>3, Zenon DEF CallInodes, Opening, CallEnds
<1>4. \A k : EndsOK(ftable, fop, pipe, k) => EndsOK(ftable', fop', pipe', k)
  BY Zenon, <1>1, <1>3 DEF EndsOK
<1>5. InodesOK(ftable, fop, iref) => InodesOK(ftable', fop', iref')
  BY Zenon, <1>1, <1>3 DEF InodesOK
<1>6. QED
  BY Zenon, <1>4, <1>5, Objects DEF FilesInv

-----------------------------------------------------------------------------
(* The types after a step of p.                                             *)
LEMMA TypeKept ==
  ASSUME FilesSane, Facts, FilesInv, NEW p \in FProcs, NEW r \in FileOps, CallOK(r),
         fop' = [fop EXCEPT ![p] = r],
         ofile' \in [FProcs -> [Fds -> 0..NFILE]], ftable' \in [Entries -> FileRecs],
         alive' \subseteq FProcs, iref' \in Int,
         pipe' \in [1..NPIPE -> [readopen : BOOLEAN, writeopen : BOOLEAN]]
  PROVE  /\ FilesTypeOK' /\ (\A o \in FProcs : CallOK(fop'[o]))
         /\ fop'[p] = r /\ \A o \in FProcs \ {p} : fop'[o] = fop[o]
<1>1. fop \in [FProcs -> FileOps] /\ \A o \in FProcs : CallOK(fop[o])
  BY Zenon DEF FilesInv, FilesTypeOK
<1>2. /\ fop' \in [FProcs -> FileOps] /\ fop'[p] = r
      /\ \A o \in FProcs \ {p} : fop'[o] = fop[o]
  BY Zenon, <1>1
<1>3. \A o \in FProcs : CallOK(fop'[o])
  BY <1>1, <1>2, Zenon
<1>4. QED
  BY Zenon, <1>2, <1>3 DEF FilesTypeOK

(* The conjuncts of the invariant.                                          *)
LEMMA Together ==
  ASSUME FilesTypeOK', \A o \in FProcs : CallOK(fop'[o]), ForkInv',
         HeldInv' /\ OpenIsTyped', RefsCounted', ObjectsHeld'
  PROVE  FilesInv'
<1>1. (\A o \in FProcs : CallOK(fop[o]))'
  BY DEF CallOK, FreeFile, Singles, Pairs, Entries
<1>2. QED
  BY Zenon, <1>1 DEF FilesInv

(* A process between two calls.                                             *)
LEMMA AtRest ==
  ASSUME FilesSane, Facts, FilesInv, NEW p \in FProcs, fop[p].pc = "user"
  PROVE  /\ fop[p].held = <<>> /\ fop[p].close = <<>> /\ fop[p].owed = 0
         /\ fop[p].child = 0 /\ fop[p].obj = FreeFile
BY Zenon, At DEF CallOK

(* The table after a change of one entry.                                   *)
LEMMA EntrySet ==
  ASSUME FilesInv, NEW f \in Entries, NEW e \in FileRecs, ftable' = [ftable EXCEPT ![f] = e]
  PROVE  /\ ftable' \in [Entries -> FileRecs] /\ ftable'[f] = e
         /\ \A g \in Entries \ {f} : ftable'[g] = ftable[g]
BY Zenon DEF FilesInv, FilesTypeOK

(* The fields of an entry.                                                  *)
LEMMA EntryFields ==
  ASSUME FilesInv, NEW f \in Entries
  PROVE  /\ ftable[f] \in FileRecs /\ ftable[f].ref \in Int
         /\ \A n \in Int : /\ [ftable[f] EXCEPT !.ref = n] \in FileRecs
                           /\ [ftable[f] EXCEPT !.ref = n].ref = n
                           /\ SameKind([ftable[f] EXCEPT !.ref = n], ftable[f])
                           /\ [ftable EXCEPT ![f].ref = n]
                                = [ftable EXCEPT ![f] = [ftable[f] EXCEPT !.ref = n]]
<1>1. ftable[f] \in FileRecs /\ ftable \in [Entries -> FileRecs]
  BY Zenon DEF FilesInv, FilesTypeOK
<1>2. ASSUME NEW n \in Int
      PROVE  /\ [ftable[f] EXCEPT !.ref = n] \in FileRecs
             /\ [ftable[f] EXCEPT !.ref = n].ref = n
  BY Zenon, <1>1 DEF FileRecs
<1>3. ASSUME NEW n \in Int PROVE SameKind([ftable[f] EXCEPT !.ref = n], ftable[f])
  BY Zenon, <1>1 DEF FileRecs, SameKind
<1>4. ASSUME NEW n \in Int
      PROVE  [ftable EXCEPT ![f].ref = n]
               = [ftable EXCEPT ![f] = [ftable[f] EXCEPT !.ref = n]]
  BY Zenon, <1>1
<1>5. ftable[f].ref \in Int
  BY Zenon, <1>1 DEF FileRecs
<1>6. QED
  BY ZenonT(60), <1>1, <1>2, <1>3, <1>4, <1>5

(* The references of a process that owes none.                              *)
LEMMA UsesIs ==
  ASSUME FilesSane, Facts, NEW of \in [Fds -> 0..NFILE], NEW r \in FileOps, r.owed = 0,
         NEW f \in Entries
  PROVE  /\ Uses(of, r, f) = Count(of, f) + Count(r.held, f) + Count(r.close, f)
         /\ Count(of, f) \in Nat /\ Count(r.held, f) \in Nat /\ Count(r.close, f) \in Nat
<1>1. f # 0 /\ r.held \in Few /\ r.close \in Few
  BY DEF Entries, FilesSane, FileOps
<1>2. Count(of, f) \in Nat /\ Count(r.held, f) \in Nat /\ Count(r.close, f) \in Nat
  BY Zenon, <1>1, CountNamed, SeqCount
<1>3. QED
  BY <1>1, <1>2 DEF Uses

(* Descriptors name open entries after a step that closes none.             *)
LEMMA StillTyped ==
  ASSUME FilesSane, Facts, FilesInv, NEW p \in FProcs,
         \A g \in Entries : ftable'[g].type \in {ftable[g].type, "FD_PIPE", "FD_INODE"}
  PROVE  \A d \in Fds : ofile[p][d] # 0 => ftable'[ofile[p][d]].type # "FD_NONE"
<1> SUFFICES ASSUME NEW d \in Fds, ofile[p][d] # 0
             PROVE  ftable'[ofile[p][d]].type # "FD_NONE"
  BY Zenon
<1>1. PICK g \in Entries : g = ofile[p][d]
  BY Zenon, At
<1>2. ftable[g].type # "FD_NONE"
  BY Zenon, <1>1, OpenTyped
<1>3. QED
  BY Zenon, <1>1, <1>2

(* The pipes after a step that does not concern them.                       *)
LEMMA EndsKept ==
  ASSUME FilesInv, pipe' = pipe,
         \A k, w : EntryEnds(ftable', k, w) = EntryEnds(ftable, k, w),
         \A k, w : CallEnds(fop', k, w) = CallEnds(fop, k, w)
  PROVE  \A k \in DOMAIN pipe' : EndsOK(ftable', fop', pipe', k)
<1>1. \A k \in DOMAIN pipe : EndsOK(ftable, fop, pipe, k)
  BY Zenon, Objects DEF FilesInv
<1>2. QED
  BY <1>1, Zenon DEF EndsOK

(* The numbers that ObjectsHeld relates.                                    *)
LEMMA Numbers ==
  ASSUME FilesSane, Facts, FilesInv
  PROVE  /\ EntryInodes(ftable) \in Nat /\ CallInodes(fop) \in Nat /\ Opening(fop) \in Nat
         /\ iref = EntryInodes(ftable) + CallInodes(fop) + Opening(fop)
<1>1. EntryInodes(ftable) \in Nat
  <2>1. {f \in Entries : ftable[f].type = "FD_INODE"} \subseteq Entries
    BY Zenon
  <2>2. QED
    BY Zenon, <2>1, Finite DEF EntryInodes, Facts, Parts, Sized
<1>2. CallInodes(fop) \in Nat /\ Opening(fop) \in Nat
  <2>1. IsFiniteSet(FProcs)
    BY Zenon DEF FilesSane
  <2>2. {p \in FProcs : fop[p].obj.type = "FD_INODE"} \subseteq FProcs
    BY Zenon
  <2>3. {p \in FProcs : fop[p].pc = "open"} \subseteq FProcs
    BY Zenon
  <2>4. QED
    BY ZenonT(60), <2>1, <2>2, <2>3 DEF CallInodes, Opening, Facts, Parts, Sized
<1>3. QED
  BY Zenon, <1>1, <1>2, Objects DEF FilesInv, InodesOK

(* The calls after a step that leaves the object of p alone.                *)
LEMMA CallsKept ==
  ASSUME FilesSane, Facts, FilesInv, NEW p \in FProcs, \A o \in FProcs \ {p} : fop'[o] = fop[o],
         fop'[p].obj = fop[p].obj
  PROVE  /\ CallInodes(fop') = CallInodes(fop)
         /\ \A k, w : CallEnds(fop', k, w) = CallEnds(fop, k, w)
         /\ Opening(fop') = Opening(fop) - One(fop[p].pc = "open") + One(fop'[p].pc = "open")
<1>1. \A o \in FProcs : fop'[o].obj = fop[o].obj
  BY Zenon
<1>2. {o \in FProcs : fop'[o].obj.type = "FD_INODE"}
        = {o \in FProcs : fop[o].obj.type = "FD_INODE"}
  BY Zenon, <1>1
<1>3. \A k, w : {o \in FProcs : Holds(fop'[o].obj, k, w)}
                  = {o \in FProcs : Holds(fop[o].obj, k, w)}
  BY <1>1, Zenon
<1>4. PICK O : O = fop
  BY Zenon
<1>5. PICK N : N = fop'
  BY Zenon
<1>6. \A o \in FProcs \ {p} : N[o] = O[o]
  BY Zenon, <1>4, <1>5
<1>7. Opening(N) = Opening(O) - One(O[p].pc = "open") + One(N[p].pc = "open")
  BY Zenon, <1>6, CallChanges DEF CallDelta
<1>8. QED
  BY <1>2, <1>3, <1>4, <1>5, <1>7, Zenon DEF CallInodes, CallEnds

(* sys_open() takes an entry.                                               *)
LEMMA OpenAllocKeeps ==
  ASSUME FilesSane, Facts, FilesInv, NEW p \in FProcs, OpenAlloc(p)
  PROVE  FilesInv'
<1>1. PICK f \in Entries : f = filealloc /\ ftable[f].ref = 0
  BY Zenon, FileallocFacts DEF OpenAlloc
<1>2. PICK r : r = [Rest EXCEPT !.pc = "open", !.held = <<f>>]
  BY Zenon
<1>3. /\ p \in alive /\ fop[p].pc = "user"
      /\ ftable' = [ftable EXCEPT ![f].ref = 1] /\ iref' = iref + 1
      /\ fop' = [fop EXCEPT ![p] = r] /\ ofile' = ofile /\ alive' = alive /\ pipe' = pipe
  BY Zenon, <1>1, <1>2 DEF OpenAlloc, Called, Take, FGo
<1>4. /\ r \in FileOps /\ CallOK(r) /\ r.held = <<f>> /\ r.close = <<>> /\ r.owed = 0
      /\ r.obj = FreeFile /\ r.child = 0 /\ r.pc = "open"
  BY Zenon, <1>2, RestFacts DEF Rest, FileOps, FilePCs, CallOK
<1>5. ftable[f] = FreeFile /\ [ftable[f] EXCEPT !.ref = 1] = NewFile
  <2>1. ftable[f] = FreeFile
    BY Zenon, <1>1 DEF FilesInv, OpenIsTyped
  <2>2. QED
    BY Zenon, <2>1 DEF NewFile
<1>6. /\ ftable' \in [Entries -> FileRecs] /\ ftable'[f] = NewFile
      /\ \A g \in Entries \ {f} : ftable'[g] = ftable[g]
  <2>1. /\ [ftable[f] EXCEPT !.ref = 1] \in FileRecs
        /\ [ftable EXCEPT ![f].ref = 1]
             = [ftable EXCEPT ![f] = [ftable[f] EXCEPT !.ref = 1]]
    BY EntryFields
  <2>2. NewFile \in FileRecs /\ ftable' = [ftable EXCEPT ![f] = NewFile]
    BY <1>3, <1>5, <2>1, Zenon
  <2>3. QED
    BY Zenon, <2>2, EntrySet
<1>7. /\ FilesTypeOK' /\ (\A o \in FProcs : CallOK(fop'[o]))
      /\ fop'[p] = r /\ \A o \in FProcs \ {p} : fop'[o] = fop[o]
  <2>1. /\ ofile' \in [FProcs -> [Fds -> 0..NFILE]]
        /\ alive' \subseteq FProcs /\ iref' \in Int
        /\ pipe' \in [1..NPIPE -> [readopen : BOOLEAN, writeopen : BOOLEAN]]
    BY <1>3 DEF FilesInv, FilesTypeOK
  <2>2. QED
    BY Zenon, <1>3, <1>4, <1>6, <2>1, TypeKept
<1>8. /\ fop[p].held = <<>> /\ fop[p].close = <<>> /\ fop[p].owed = 0
      /\ fop[p].child = 0 /\ fop[p].obj = FreeFile
  BY Zenon, <1>3, AtRest
<1>9. ForkInv'
  <2>1. PICK of : of = ofile[p]
    BY Zenon
  <2>2. ofile' = [ofile EXCEPT ![p] = of]
    BY Zenon, <1>3, <2>1 DEF FilesInv, FilesTypeOK
  <2>3. GoesOn(p, r, of)
    BY Zenon, <1>3 DEF GoesOn
  <2>4. QED
    BY Zenon, <1>3, <1>4, <1>8, <2>2, <2>3, ForkKept
<1>10. HeldInv' /\ OpenIsTyped'
  <2>1. \A g \in Entries : MayChange(ofile[p], fop[p], g, ftable[g], ftable'[g])
    <3>1. MayChange(ofile[p], fop[p], f, ftable[f], ftable'[f])
      BY ZenonT(60), <1>1, <1>5, <1>6 DEF MayChange, NewFile, FreeFile
    <3>2. \A g \in Entries \ {f} : MayChange(ofile[p], fop[p], g, ftable[g], ftable'[g])
      BY Zenon, <1>6 DEF MayChange
    <3>3. QED
      BY Zenon, <3>1, <3>2
  <2>2. OwnOK(ftable', ofile'[p], fop'[p])
    <3>1. ASSUME NEW g \in Entries, InSeq(r.held, g) PROVE ftable'[g] = NewFile
      BY <1>4, <1>6, <3>1 DEF InSeq
    <3>2. OwedOK(ofile[p], r)
      BY Zenon, <1>4 DEF OwedOK
    <3>3. \A g \in Entries : ftable'[g].type \in {ftable[g].type, "FD_PIPE", "FD_INODE"}
      BY ZenonT(60), <1>5, <1>6 DEF NewFile, FreeFile
    <3>4. \A d \in Fds : ofile[p][d] # 0 => ftable'[ofile[p][d]].type # "FD_NONE"
      BY Zenon, <3>3, StillTyped
    <3>5. QED
      BY ZenonT(60), <1>3, <1>7, <3>1, <3>2, <3>4 DEF OwnOK
  <2>3. QED
    BY ZenonT(60), <1>3, <1>7, <2>1, <2>2, OwnKept DEF FilesTypeOK
<1>11. RefsCounted'
  <2>1. ASSUME NEW g \in Entries
        PROVE  ftable'[g].ref = ftable[g].ref + Uses(ofile'[p], fop'[p], g)
                                              - Uses(ofile[p], fop[p], g)
    <3>1. /\ Uses(ofile[p], fop[p], g) = Count(ofile[p], g) + 0 + 0
          /\ Uses(ofile[p], r, g) = Count(ofile[p], g) + One(f = g) + 0
          /\ Count(ofile[p], g) \in Nat
      <4>1. Count(fop[p].held, g) = 0 /\ Count(fop[p].close, g) = 0
        BY Zenon, <1>8, CountFew
      <4>2. Count(r.held, g) = One(f = g) /\ Count(r.close, g) = 0
        BY ZenonT(60), <1>4, CountFew DEF One, Is
      <4>3. ofile[p] \in [Fds -> 0..NFILE] /\ fop[p] \in FileOps
        BY Zenon, At
      <4>4. /\ Uses(ofile[p], fop[p], g)
                 = Count(ofile[p], g) + Count(fop[p].held, g) + Count(fop[p].close, g)
            /\ Count(ofile[p], g) \in Nat
        BY ZenonT(60), <1>8, <4>3, UsesIs
      <4>5. Uses(ofile[p], r, g)
              = Count(ofile[p], g) + Count(r.held, g) + Count(r.close, g)
        BY Zenon, <1>4, <4>3, UsesIs
      <4>6. QED
        BY Zenon, <4>1, <4>2, <4>4, <4>5
    <3>2. ftable[g].ref \in Nat /\ ftable'[g].ref = ftable[g].ref + One(f = g)
      BY <1>1, <1>6, RefFacts DEF One, NewFile, FreeFile
    <3>3. QED
      BY <1>3, <1>7, <3>1, <3>2 DEF One
  <2>2. QED
    BY ZenonT(60), <1>3, <1>7, <2>1, CountKept
<1>12. ObjectsHeld'
  <2>1. \A g \in Entries : SameKind(ftable'[g], ftable[g])
    BY <1>5, <1>6 DEF SameKind, NewFile, FreeFile
  <2>2. /\ EntryInodes(ftable') = EntryInodes(ftable)
        /\ \A k, w : EntryEnds(ftable', k, w) = EntryEnds(ftable, k, w)
    BY ZenonT(60), <2>1, EntriesKept
  <2>3. /\ CallInodes(fop') = CallInodes(fop)
        /\ \A k, w : CallEnds(fop', k, w) = CallEnds(fop, k, w)
        /\ Opening(fop') = Opening(fop) - One(fop[p].pc = "open") + One(r.pc = "open")
    BY ZenonT(60), <1>4, <1>7, <1>8, CallsKept
  <2>4. InodesOK(ftable', fop', iref')
    <3>1. Opening(fop') = Opening(fop) - 0 + 1
      BY Zenon, <1>3, <1>4, <2>3 DEF One
    <3>2. QED
      BY <1>3, <2>2, <2>3, <3>1, Numbers DEF InodesOK
  <2>5. \A k \in DOMAIN pipe' : EndsOK(ftable', fop', pipe', k)
    BY ZenonT(60), <1>3, <2>2, <2>3, EndsKept
  <2>6. QED
    BY Zenon, <2>4, <2>5, Objects
<1>13. QED
  BY ZenonT(60), <1>7, <1>9, <1>10, <1>11, <1>12, Together

(* One descriptor changes.                                                  *)
FdPut(of, p, d, v) ==
  /\ ofile' = [ofile EXCEPT ![p] = of]
  /\ ofile' \in [FProcs -> [Fds -> 0..NFILE]] /\ ofile'[p] = of
  /\ \A o \in FProcs \ {p} : ofile'[o] = ofile[o]
  /\ of[d] = v /\ \A e \in Fds \ {d} : of[e] = ofile[p][e]
  /\ \A g : /\ Count(of, g) \in Nat /\ Count(ofile[p], g) \in Nat
            /\ Count(of, g) = Count(ofile[p], g) - Is(ofile[p][d], g) + Is(v, g)

(* Setting one descriptor of a process is FdPut.                            *)
LEMMA FdSet ==
  ASSUME FilesSane, Facts, FilesInv, NEW p \in FProcs, NEW d \in Fds, NEW v \in 0..NFILE,
         ofile' = [ofile EXCEPT ![p][d] = v]
  PROVE  \E of \in [Fds -> 0..NFILE] : FdPut(of, p, d, v)
<1>1. ofile \in [FProcs -> [Fds -> 0..NFILE]] /\ ofile[p] \in [Fds -> 0..NFILE]
  BY Zenon DEF FilesInv, FilesTypeOK
<1>2. PICK of : of = [ofile[p] EXCEPT ![d] = v]
  BY Zenon
<1>3. /\ of \in [Fds -> 0..NFILE] /\ of[d] = v
      /\ \A e \in Fds \ {d} : of[e] = ofile[p][e]
  BY Zenon, <1>1, <1>2
<1>4. ofile' = [ofile EXCEPT ![p] = of]
  BY Zenon, <1>1, <1>2
<1>5. /\ ofile' \in [FProcs -> [Fds -> 0..NFILE]] /\ ofile'[p] = of
      /\ \A o \in FProcs \ {p} : ofile'[o] = ofile[o]
  BY Zenon, <1>1, <1>3, <1>4
<1>6. ASSUME NEW g
      PROVE  /\ Count(of, g) \in Nat /\ Count(ofile[p], g) \in Nat
             /\ Count(of, g) = Count(ofile[p], g) - Is(ofile[p][d], g) + Is(v, g)
  <2>1. PICK old : old = ofile[p]
    BY Zenon
  <2>2. old \in [Fds -> 0..NFILE] /\ of = [old EXCEPT ![d] = v]
    BY ZenonT(60), <1>1, <1>2, <2>1
  <2>3. /\ Count(old, g) \in Nat /\ Count(of, g) \in Nat
        /\ Count(of, g) = Count(old, g) - Is(old[d], g) + Is(v, g)
    BY ZenonT(60), <2>2, CountPut
  <2>4. QED
    BY Zenon, <2>1, <2>3
<1>7. QED
  BY ZenonT(60), <1>3, <1>4, <1>5, <1>6 DEF FdPut

(* The count after a step of p that owes nothing before or after.           *)
LEMMA OwnRefs ==
  ASSUME FilesSane, Facts, FilesInv, FilesTypeOK', NEW p \in FProcs,
         \A o \in FProcs \ {p} : fop'[o] = fop[o] /\ ofile'[o] = ofile[o],
         fop[p].owed = 0, fop'[p].owed = 0,
         \A g \in Entries :
           ftable'[g].ref = ftable[g].ref
             + (Count(ofile'[p], g) + Count(fop'[p].held, g) + Count(fop'[p].close, g))
             - (Count(ofile[p], g) + Count(fop[p].held, g) + Count(fop[p].close, g))
  PROVE  RefsCounted'
<1>1. ASSUME NEW g \in Entries
      PROVE  ftable'[g].ref = ftable[g].ref + Uses(ofile'[p], fop'[p], g)
                                            - Uses(ofile[p], fop[p], g)
  <2>1. /\ ofile[p] \in [Fds -> 0..NFILE] /\ fop[p] \in FileOps
        /\ ofile'[p] \in [Fds -> 0..NFILE] /\ fop'[p] \in FileOps
    BY Zenon DEF FilesInv, FilesTypeOK
  <2>2. Uses(ofile[p], fop[p], g)
          = Count(ofile[p], g) + Count(fop[p].held, g) + Count(fop[p].close, g)
    BY Zenon, <2>1, UsesIs
  <2>3. Uses(ofile'[p], fop'[p], g)
          = Count(ofile'[p], g) + Count(fop'[p].held, g) + Count(fop'[p].close, g)
    BY Zenon, <2>1, UsesIs
  <2>4. QED
    BY Zenon, <2>2, <2>3
<1>2. QED
  BY Zenon, <1>1, CountKept

(* A process that runs closes a descriptor, or exit() does.                 *)
LEMMA CloseOneKeeps ==
  ASSUME FilesSane, Facts, FilesInv, NEW p \in FProcs, NEW d \in Fds, ofile[p][d] # 0,
         fop[p].pc = "exit" \/ (fop[p].pc = "user" /\ p \in alive),
         ofile' = [ofile EXCEPT ![p][d] = 0],
         fop' = [fop EXCEPT ![p] = Close(p, <<ofile[p][d]>>)],
         ftable' = ftable, alive' = alive, pipe' = pipe, iref' = iref
  PROVE  FilesInv'
<1>1. PICK f \in Entries : f = ofile[p][d]
  BY Zenon, At
<1>2. PICK r : r = Close(p, <<f>>)
  BY Zenon
<1>3. /\ r \in FileOps /\ CallOK(r) /\ r.held = <<>> /\ r.close = <<f>> /\ r.owed = 0
      /\ r.obj = FreeFile /\ r.child = 0 /\ r.pc = "close"
  <2>1. PICK s \in Few : s = <<f>>
    BY Zenon, RestFacts
  <2>2. r = Close(p, s) /\ s # <<>>
    BY Zenon, <1>2, <2>1
  <2>3. r.pc = "close"
    BY Zenon, <2>2 DEF Close, Rest
  <2>4. QED
    BY ZenonT(60), <2>1, <2>2, <2>3, CloseFacts
<1>4. fop' = [fop EXCEPT ![p] = r]
  BY Zenon, <1>1, <1>2
<1>5. /\ fop[p].held = <<>> /\ fop[p].close = <<>> /\ fop[p].owed = 0
      /\ fop[p].child = 0 /\ fop[p].obj = FreeFile /\ fop[p].pc # "open"
  BY Zenon, At DEF CallOK
<1>6. 0 \in 0..NFILE
  BY DEF FilesSane
<1>7. PICK of \in [Fds -> 0..NFILE] : FdPut(of, p, d, 0)
  BY Zenon, <1>6, FdSet
<1>a. /\ ofile' = [ofile EXCEPT ![p] = of]
      /\ ofile' \in [FProcs -> [Fds -> 0..NFILE]] /\ ofile'[p] = of
      /\ \A o \in FProcs \ {p} : ofile'[o] = ofile[o]
      /\ of[d] = 0 /\ \A e \in Fds \ {d} : of[e] = ofile[p][e]
  BY Zenon, <1>7 DEF FdPut
<1>8. /\ FilesTypeOK' /\ (\A o \in FProcs : CallOK(fop'[o]))
      /\ fop'[p] = r /\ \A o \in FProcs \ {p} : fop'[o] = fop[o]
  <2>1. /\ ftable' \in [Entries -> FileRecs] /\ alive' \subseteq FProcs /\ iref' \in Int
        /\ pipe' \in [1..NPIPE -> [readopen : BOOLEAN, writeopen : BOOLEAN]]
    BY Zenon DEF FilesInv, FilesTypeOK
  <2>2. QED
    BY ZenonT(60), <1>3, <1>4, <1>a, <2>1, TypeKept
<1>9. ForkInv'
  <2>1. GoesOn(p, r, of)
    BY Zenon, <1>3 DEF GoesOn
  <2>2. QED
    BY ZenonT(60), <1>3, <1>4, <1>5, <1>a, <2>1, ForkKept
<1>10. HeldInv' /\ OpenIsTyped'
  <2>1. \A g \in Entries : MayChange(ofile[p], fop[p], g, ftable[g], ftable'[g])
    BY Zenon DEF MayChange
  <2>2. OwnOK(ftable', ofile'[p], fop'[p])
    <3>1. \A g \in Entries : ~InSeq(r.held, g)
      BY <1>3 DEF InSeq
    <3>2. OwedOK(of, r)
      BY Zenon, <1>3 DEF OwedOK
    <3>3. \A e \in Fds : ofile[p][e] # 0 => ftable'[ofile[p][e]].type # "FD_NONE"
      BY Zenon, StillTyped
    <3>4. \A e \in Fds : of[e] # 0 => ftable'[of[e]].type # "FD_NONE"
      BY ZenonT(60), <1>a, <3>3
    <3>5. QED
      BY Zenon, <1>a, <1>8, <3>1, <3>2, <3>4 DEF OwnOK
  <2>3. QED
    BY ZenonT(60), <1>a, <1>8, <2>1, <2>2, OwnKept
<1>11. RefsCounted'
  <2>1. ASSUME NEW g \in Entries
        PROVE  ftable'[g].ref = ftable[g].ref
                 + (Count(ofile'[p], g) + Count(fop'[p].held, g) + Count(fop'[p].close, g))
                 - (Count(ofile[p], g) + Count(fop[p].held, g) + Count(fop[p].close, g))
    <3>1. Count(fop[p].held, g) = 0 /\ Count(fop[p].close, g) = 0
      BY ZenonT(60), <1>5, CountFew
    <3>2. Count(fop'[p].held, g) = 0 /\ Count(fop'[p].close, g) = Is(f, g)
      <4>1. fop'[p].held = <<>> /\ fop'[p].close = <<f>>
        BY Zenon, <1>3, <1>8
      <4>2. QED
        BY Zenon, <4>1, CountFew
    <3>3. g # 0 /\ ftable[g].ref \in Nat
      BY RefFacts DEF Entries, FilesSane
    <3>4. /\ Count(of, g) \in Nat /\ Count(ofile[p], g) \in Nat /\ ofile'[p] = of
          /\ Count(of, g) = Count(ofile[p], g) - Is(f, g)
      BY <1>1, <1>7, <1>a, <3>3 DEF FdPut, Is
    <3>5. QED
      BY <3>1, <3>2, <3>3, <3>4 DEF Is
  <2>2. QED
    BY ZenonT(60), <1>3, <1>5, <1>a, <1>8, <2>1, OwnRefs
<1>12. ObjectsHeld'
  <2>1. \A g \in Entries : SameKind(ftable'[g], ftable[g])
    BY Zenon DEF SameKind
  <2>2. QED
    BY ZenonT(60), <1>3, <1>5, <1>8, <2>1, ObjectsKept
<1>13. QED
  BY ZenonT(60), <1>8, <1>9, <1>10, <1>11, <1>12, Together

(* close(), and a turn of the loop of exit().                               *)
LEMMA CloseFdKeeps ==
  ASSUME FilesSane, Facts, FilesInv, NEW p \in FProcs, NEW d \in Fds, CloseFd(p, d)
  PROVE  FilesInv'
BY Zenon, CloseOneKeeps DEF CloseFd, Called, FGo

(* A step that only moves p on in a call, holding nothing.                  *)
LEMMA MoveKeeps ==
  ASSUME FilesSane, Facts, FilesInv, NEW p \in FProcs, NEW r \in FileOps, CallOK(r), ForkInv',
         r.pc # "open", r.held = <<>>, r.owed = 0, r.obj = FreeFile,
         fop[p].pc # "open", fop[p].held = <<>>, fop[p].owed = 0, fop[p].obj = FreeFile,
         r.close = fop[p].close,
         fop' = [fop EXCEPT ![p] = r], alive' \subseteq FProcs,
         ofile' = ofile, ftable' = ftable, pipe' = pipe, iref' = iref
  PROVE  FilesInv'
<1>1. /\ FilesTypeOK' /\ (\A o \in FProcs : CallOK(fop'[o]))
      /\ fop'[p] = r /\ \A o \in FProcs \ {p} : fop'[o] = fop[o]
  <2>1. /\ ofile' \in [FProcs -> [Fds -> 0..NFILE]]
        /\ ftable' \in [Entries -> FileRecs] /\ iref' \in Int
        /\ pipe' \in [1..NPIPE -> [readopen : BOOLEAN, writeopen : BOOLEAN]]
    BY Zenon DEF FilesInv, FilesTypeOK
  <2>2. QED
    BY ZenonT(60), <2>1, TypeKept
<1>2. HeldInv' /\ OpenIsTyped'
  <2>1. \A g \in Entries : MayChange(ofile[p], fop[p], g, ftable[g], ftable'[g])
    BY Zenon DEF MayChange
  <2>2. OwnOK(ftable', ofile'[p], fop'[p])
    <3>1. \A g \in Entries : ~InSeq(r.held, g)
      BY DEF InSeq
    <3>2. OwedOK(ofile[p], r)
      BY Zenon DEF OwedOK
    <3>3. \A e \in Fds : ofile[p][e] # 0 => ftable'[ofile[p][e]].type # "FD_NONE"
      BY Zenon, StillTyped
    <3>4. QED
      BY ZenonT(60), <1>1, <3>1, <3>2, <3>3 DEF OwnOK
  <2>3. QED
    BY ZenonT(60), <1>1, <2>1, <2>2, OwnKept DEF FilesTypeOK
<1>3. RefsCounted'
  <2>1. ASSUME NEW g \in Entries
        PROVE  ftable'[g].ref = ftable[g].ref
                 + (Count(ofile'[p], g) + Count(fop'[p].held, g) + Count(fop'[p].close, g))
                 - (Count(ofile[p], g) + Count(fop[p].held, g) + Count(fop[p].close, g))
    <3>1. ofile[p] \in [Fds -> 0..NFILE] /\ fop[p] \in FileOps /\ ftable[g].ref \in Nat
      BY ZenonT(60), At, RefFacts
    <3>2. /\ Count(ofile[p], g) \in Nat /\ Count(fop[p].held, g) \in Nat
          /\ Count(fop[p].close, g) \in Nat
      BY ZenonT(60), <3>1, UsesIs
    <3>3. fop'[p].held = fop[p].held /\ fop'[p].close = fop[p].close
      BY Zenon, <1>1
    <3>4. QED
      BY <3>1, <3>2, <3>3
  <2>2. QED
    BY ZenonT(60), <1>1, <2>1, OwnRefs
<1>4. ObjectsHeld'
  <2>1. \A g \in Entries : SameKind(ftable'[g], ftable[g])
    BY Zenon DEF SameKind
  <2>2. QED
    BY Zenon, <1>1, <2>1, ObjectsKept
<1>5. QED
  BY ZenonT(60), <1>1, <1>2, <1>3, <1>4, Together

(* exit() closes its descriptors one by one.                                *)
LEMMA ExitFdKeeps ==
  ASSUME FilesSane, Facts, FilesInv, NEW p \in FProcs, ExitFd(p)
  PROVE  FilesInv'
<1> DEFINE S == {d \in Fds : ofile[p][d] # 0}
<1>1. CASE S # {}
  <2>1. S \in SUBSET Nat
    BY DEF Fds, FilesSane
  <2>2. Min(S) \in S
    <3> HIDE DEF S
    <3>1. QED
      BY Zenon, <1>1, <2>1, MinIn
  <2>3. PICK d \in Fds : d = Min(S) /\ ofile[p][d] # 0
    BY Zenon, <2>2
  <2>4. /\ ofile' = [ofile EXCEPT ![p][d] = 0]
        /\ fop' = [fop EXCEPT ![p] = Close(p, <<ofile[p][d]>>)]
        /\ fop[p].pc = "exit"
        /\ ftable' = ftable /\ alive' = alive /\ pipe' = pipe /\ iref' = iref
    BY Zenon, <1>1, <2>3 DEF ExitFd, FGo
  <2>5. QED
    BY ZenonT(60), <2>3, <2>4, CloseOneKeeps
<1>2. CASE S = {}
  <2>1. \A d \in Fds : ofile[p][d] = 0
    BY Zenon, <1>2
  <2>2. /\ fop' = [fop EXCEPT ![p] = Rest] /\ ofile' = ofile /\ fop[p].pc = "exit"
        /\ ftable' = ftable /\ alive' = alive /\ pipe' = pipe /\ iref' = iref
    BY Zenon, <1>2 DEF ExitFd, FGo
  <2>3. /\ fop[p].held = <<>> /\ fop[p].close = <<>> /\ fop[p].owed = 0
        /\ fop[p].child = 0 /\ fop[p].obj = FreeFile
    BY ZenonT(60), <2>2, At DEF CallOK
  <2>4. PICK r \in FileOps : r = Rest /\ CallOK(r)
    BY Zenon, RestFacts
  <2>5. /\ r.held = <<>> /\ r.close = <<>> /\ r.owed = 0 /\ r.obj = FreeFile
        /\ r.child = 0 /\ r.pc = "user"
    BY ZenonT(60), <2>4 DEF Rest
  <2>6. ForkInv'
    <3>1. PICK of : of = ofile[p]
      BY Zenon
    <3>2. ofile' = [ofile EXCEPT ![p] = of] /\ \A d \in Fds : of[d] = 0
      BY Zenon, <2>1, <2>2, <3>1 DEF FilesInv, FilesTypeOK
    <3>3. GoesOn(p, r, of)
      BY ZenonT(60), <2>2, <2>5, <3>2 DEF GoesOn
    <3>4. QED
      BY ZenonT(60), <2>2, <2>3, <2>4, <2>5, <3>2, <3>3, ForkKept
  <2>7. alive' \subseteq FProcs
    BY Zenon, <2>2 DEF FilesInv, FilesTypeOK
  <2>8. QED
    BY Zenon, <2>2, <2>3, <2>4, <2>5, <2>6, <2>7, MoveKeeps
<1>3. QED
  BY Zenon, <1>1, <1>2

(* exit() begins.                                                           *)
LEMMA ExitStartKeeps ==
  ASSUME FilesSane, Facts, FilesInv, NEW p \in FProcs, ExitStart(p)
  PROVE  FilesInv'
<1>1. PICK r : r = [Rest EXCEPT !.pc = "exit"]
  BY Zenon
<1>2. /\ p \in alive /\ fop[p].pc = "user" /\ alive' = alive \ {p}
      /\ fop' = [fop EXCEPT ![p] = r]
      /\ ofile' = ofile /\ ftable' = ftable /\ pipe' = pipe /\ iref' = iref
  BY Zenon, <1>1 DEF ExitStart, Called, FGo
<1>3. /\ fop[p].held = <<>> /\ fop[p].close = <<>> /\ fop[p].owed = 0
      /\ fop[p].child = 0 /\ fop[p].obj = FreeFile
  BY Zenon, <1>2, AtRest
<1>4. /\ r \in FileOps /\ CallOK(r) /\ r.held = <<>> /\ r.close = <<>> /\ r.owed = 0
      /\ r.obj = FreeFile /\ r.child = 0 /\ r.pc = "exit"
  BY ZenonT(60), <1>1, RestFacts DEF Rest, FileOps, FilePCs, CallOK
<1>5. /\ \A o \in FProcs \ {p} : fop'[o] = fop[o]
      /\ fop'[p] = r /\ alive' \subseteq FProcs
  BY Zenon, <1>2 DEF FilesInv, FilesTypeOK
<1>6. ForkInv'
  <2>1. ASSUME NEW o \in FProcs, fop'[o].child # 0
        PROVE  /\ fop'[o].child \notin alive' /\ fop'[fop'[o].child].pc = "user"
               /\ \A d \in Fds : d >= fop'[o].fd => ofile'[fop'[o].child][d] = 0
               /\ \A x \in FProcs : fop'[x].child = fop'[o].child => x = o
    <3>1. o # p /\ fop'[o] = fop[o]
      BY Zenon, <1>4, <1>5, <2>1
    <3>2. /\ fop[o].child \notin alive /\ fop[fop[o].child].pc = "user"
          /\ \A d \in Fds : d >= fop[o].fd => ofile[fop[o].child][d] = 0
          /\ \A x \in FProcs : fop[x].child = fop[o].child => x = o
      BY Zenon, <2>1, <3>1 DEF FilesInv, ForkInv
    <3>3. fop[o].child \in FProcs \cup {0}
      BY Zenon, At DEF FileOps
    <3>4. fop[o].child \in FProcs \ {p}
      BY ZenonT(60), <1>2, <2>1, <3>1, <3>2, <3>3
    <3>5. QED
      BY SMTT(60), <1>2, <1>4, <1>5, <2>1, <3>1, <3>2, <3>4
  <2>2. ASSUME NEW o \in FProcs, o \notin alive'
        PROVE  /\ fop'[o].pc \in {"user", "exit", "close", "object"}
               /\ fop'[o].pc = "user" /\ (\A x \in FProcs : fop'[x].child # o) =>
                    \A d \in Fds : ofile'[o][d] = 0
    <3>1. CASE o = p
      BY ZenonT(60), <1>4, <1>5, <3>1
    <3>2. CASE o # p
      <4>1. o \notin alive /\ fop'[o] = fop[o] /\ o # 0
        BY ZenonT(60), <1>2, <1>5, <2>2, <3>2 DEF FilesSane
      <4>2. (\A x \in FProcs : fop'[x].child # o) => (\A x \in FProcs : fop[x].child # o)
        BY ZenonT(60), <1>3, <1>5, <4>1
      <4>3. QED
        BY ZenonT(60), <1>2, <4>1, <4>2 DEF FilesInv, ForkInv
    <3>3. QED
      BY ZenonT(60), <3>1, <3>2
  <2>3. QED
    BY Zenon, <2>1, <2>2 DEF ForkInv
<1>7. QED
  BY ZenonT(60), <1>2, <1>3, <1>4, <1>5, <1>6, MoveKeeps

(* A call that holds entries runs, so it is not exit() that goes on.        *)
LEMMA HoldsFacts ==
  ASSUME FilesSane, Facts, FilesInv, NEW p \in FProcs, fop[p].pc \in {"open", "pipe", "dup", "fork"}
  PROVE  /\ p \in alive /\ fop[p].held \in Few /\ fop[p].close = <<>>
         /\ fop[p].obj = FreeFile
         /\ fop[p].pc # "dup" => fop[p].owed = 0
         /\ fop[p].pc # "fork" => fop[p].child = 0
<1>1. p \in alive
  BY Zenon DEF FilesInv, ForkInv
<1>2. fop[p].held \in Few
  BY Zenon, At DEF FileOps
<1>3. QED
  BY ZenonT(60), <1>1, <1>2, At DEF CallOK

(* open() or pipe() fails and closes the entries that it has.               *)
LEMMA GiveUpKeeps ==
  ASSUME FilesSane, Facts, FilesInv, NEW p \in FProcs, fop[p].pc \in {"open", "pipe"},
         fop' = [fop EXCEPT ![p] = Close(p, fop[p].held)],
         ofile' = ofile, ftable' = ftable, alive' = alive, pipe' = pipe,
         iref' = iref - Is(fop[p].pc, "open")
  PROVE  FilesInv'
<1>1. /\ p \in alive /\ fop[p].held \in Few /\ fop[p].close = <<>> /\ fop[p].owed = 0
      /\ fop[p].obj = FreeFile /\ fop[p].child = 0
  BY Zenon, HoldsFacts
<1>2. PICK r : r = Close(p, fop[p].held)
  BY Zenon
<1>3. /\ r \in FileOps /\ CallOK(r) /\ r.held = <<>> /\ r.close = fop[p].held
      /\ r.owed = 0 /\ r.obj = FreeFile /\ r.child = 0
      /\ r.pc \in {"user", "exit", "close"}
  BY ZenonT(60), <1>1, <1>2, CloseFacts
<1>4. fop' = [fop EXCEPT ![p] = r]
  BY Zenon, <1>2
<1>5. /\ FilesTypeOK' /\ (\A o \in FProcs : CallOK(fop'[o]))
      /\ fop'[p] = r /\ \A o \in FProcs \ {p} : fop'[o] = fop[o]
  <2>1. /\ ofile' \in [FProcs -> [Fds -> 0..NFILE]] /\ ftable' \in [Entries -> FileRecs]
        /\ alive' \subseteq FProcs
        /\ pipe' \in [1..NPIPE -> [readopen : BOOLEAN, writeopen : BOOLEAN]]
    BY Zenon DEF FilesInv, FilesTypeOK
  <2>2. iref' \in Int
    BY DEF FilesInv, FilesTypeOK, Is
  <2>3. QED
    BY ZenonT(60), <1>3, <1>4, <2>1, <2>2, TypeKept
<1>6. ForkInv'
  <2>1. PICK of : of = ofile[p]
    BY Zenon
  <2>2. ofile' = [ofile EXCEPT ![p] = of]
    BY Zenon, <2>1 DEF FilesInv, FilesTypeOK
  <2>3. GoesOn(p, r, of)
    BY Zenon, <1>1 DEF GoesOn
  <2>4. QED
    BY Zenon, <1>1, <1>3, <1>4, <2>2, <2>3, ForkKept
<1>7. HeldInv' /\ OpenIsTyped'
  <2>1. \A g \in Entries : MayChange(ofile[p], fop[p], g, ftable[g], ftable'[g])
    BY Zenon DEF MayChange
  <2>2. OwnOK(ftable', ofile'[p], fop'[p])
    <3>1. \A g \in Entries : ~InSeq(r.held, g)
      BY <1>3 DEF InSeq
    <3>2. OwedOK(ofile[p], r)
      BY Zenon, <1>3 DEF OwedOK
    <3>3. \A e \in Fds : ofile[p][e] # 0 => ftable'[ofile[p][e]].type # "FD_NONE"
      BY Zenon, StillTyped
    <3>4. QED
      BY ZenonT(60), <1>5, <3>1, <3>2, <3>3 DEF OwnOK
  <2>3. QED
    BY ZenonT(60), <1>5, <2>1, <2>2, OwnKept DEF FilesTypeOK
<1>8. RefsCounted'
  <2>1. ASSUME NEW g \in Entries
        PROVE  ftable'[g].ref = ftable[g].ref
                 + (Count(ofile'[p], g) + Count(fop'[p].held, g) + Count(fop'[p].close, g))
                 - (Count(ofile[p], g) + Count(fop[p].held, g) + Count(fop[p].close, g))
    <3>1. Count(fop[p].close, g) = 0
      BY Zenon, <1>1, CountFew
    <3>2. Count(fop'[p].held, g) = 0 /\ Count(fop'[p].close, g) = Count(fop[p].held, g)
      <4>1. fop'[p].held = <<>> /\ fop'[p].close = fop[p].held
        BY Zenon, <1>3, <1>5
      <4>2. QED
        BY Zenon, <4>1, CountFew
    <3>3. Count(ofile[p], g) \in Nat /\ Count(fop[p].held, g) \in Nat
      BY ZenonT(60), <1>1, At, CountNamed, SeqCount
    <3>4. ftable[g].ref \in Nat
      BY Zenon, RefFacts
    <3>5. QED
      BY <3>1, <3>2, <3>3, <3>4
  <2>2. QED
    BY ZenonT(60), <1>1, <1>3, <1>5, <2>1, OwnRefs
<1>9. ObjectsHeld'
  <2>1. \A g \in Entries : SameKind(ftable'[g], ftable[g])
    BY Zenon DEF SameKind
  <2>2. /\ EntryInodes(ftable') = EntryInodes(ftable)
        /\ \A k, w : EntryEnds(ftable', k, w) = EntryEnds(ftable, k, w)
    BY Zenon, <2>1, EntriesKept
  <2>3. /\ CallInodes(fop') = CallInodes(fop)
        /\ \A k, w : CallEnds(fop', k, w) = CallEnds(fop, k, w)
        /\ Opening(fop') = Opening(fop) - One(fop[p].pc = "open") + One(r.pc = "open")
    BY ZenonT(60), <1>1, <1>3, <1>5, CallsKept
  <2>4. InodesOK(ftable', fop', iref')
    <3>1. Opening(fop') = Opening(fop) - Is(fop[p].pc, "open") + 0
      BY ZenonT(60), <1>3, <2>3 DEF One, Is
    <3>2. Is(fop[p].pc, "open") \in Nat
      BY Zenon DEF Is
    <3>3. QED
      BY SMTT(60), <2>2, <2>3, <3>1, <3>2, Numbers DEF InodesOK
  <2>5. \A k \in DOMAIN pipe' : EndsOK(ftable', fop', pipe', k)
    BY Zenon, <2>2, <2>3, EndsKept
  <2>6. QED
    BY ZenonT(60), <2>4, <2>5, Objects
<1>10. QED
  BY ZenonT(60), <1>5, <1>6, <1>7, <1>8, <1>9, Together

(* sys_open() has a descriptor for its entry, or gives up.                  *)
LEMMA OpenFdKeeps ==
  ASSUME FilesSane, Facts, FilesInv, NEW p \in FProcs, OpenFd(p)
  PROVE  FilesInv'
<1>1. fop[p].pc = "open" /\ alive' = alive /\ pipe' = pipe
  BY Zenon DEF OpenFd
<1>2. /\ p \in alive /\ fop[p].close = <<>> /\ fop[p].owed = 0
      /\ fop[p].obj = FreeFile /\ fop[p].child = 0
  BY Zenon, <1>1, HoldsFacts
<1>3. PICK f \in Entries : fop[p].held = <<f>>
  BY Zenon, <1>1, At DEF CallOK, Singles
<1>4. fop[p].held[1] = f
  BY <1>3
<1>5. CASE ~(fdalloc(ofile[p]) < NOFILE)
  <2>1. /\ fop' = [fop EXCEPT ![p] = Close(p, fop[p].held)] /\ iref' = iref - 1
        /\ ofile' = ofile /\ ftable' = ftable
    BY Zenon, <1>3, <1>4, <1>5 DEF OpenFd, FGo
  <2>2. iref' = iref - Is(fop[p].pc, "open")
    BY Zenon, <1>1, <2>1 DEF Is
  <2>3. QED
    BY Zenon, <1>1, <2>1, <2>2, GiveUpKeeps
<1>6. CASE fdalloc(ofile[p]) < NOFILE
  <2>1. PICK d \in Fds : d = fdalloc(ofile[p]) /\ ofile[p][d] = 0
    BY Zenon, <1>6, FdallocFacts
  <2>2. /\ ofile' = [ofile EXCEPT ![p][d] = f]
        /\ ftable' = [ftable EXCEPT ![f].type = "FD_INODE"]
        /\ fop' = [fop EXCEPT ![p] = Rest] /\ iref' = iref
    BY ZenonT(60), <1>4, <1>6, <2>1 DEF OpenFd, FGo
  <2>3. f \in 0..NFILE
    BY DEF Entries, FilesSane
  <2>4. PICK of \in [Fds -> 0..NFILE] : FdPut(of, p, d, f)
    BY ZenonT(60), <2>2, <2>3, FdSet
  <2>5. /\ ofile' = [ofile EXCEPT ![p] = of]
        /\ ofile' \in [FProcs -> [Fds -> 0..NFILE]] /\ ofile'[p] = of
        /\ \A o \in FProcs \ {p} : ofile'[o] = ofile[o]
        /\ of[d] = f /\ \A e \in Fds \ {d} : of[e] = ofile[p][e]
    BY Zenon, <2>4 DEF FdPut
  <2>6. ftable[f] = NewFile
    <3>1. InSeq(fop[p].held, f)
      BY <1>3 DEF InSeq
    <3>2. QED
      BY Zenon, <3>1 DEF FilesInv, HeldInv
  <2>7. PICK e : e = [ftable[f] EXCEPT !.type = "FD_INODE"]
    BY Zenon
  <2>8. e \in FileRecs /\ e.ref = 1 /\ e.type = "FD_INODE"
    <3>1. ftable[f] \in FileRecs /\ ftable[f].ref = 1
      BY Zenon, <2>6, EntryFields DEF NewFile, FreeFile
    <3>2. QED
      BY ZenonT(60), <2>7, <3>1 DEF FileRecs
  <2>9. /\ ftable' \in [Entries -> FileRecs] /\ ftable'[f] = e
        /\ \A g \in Entries \ {f} : ftable'[g] = ftable[g]
    <3>1. ftable' = [ftable EXCEPT ![f] = e]
      BY ZenonT(60), <2>2, <2>7 DEF FilesInv, FilesTypeOK, FileRecs
    <3>2. QED
      BY ZenonT(60), <2>8, <3>1, EntrySet
  <2>10. PICK r \in FileOps : r = Rest /\ CallOK(r)
    BY ZenonT(60), RestFacts
  <2>11. /\ r.held = <<>> /\ r.close = <<>> /\ r.owed = 0 /\ r.obj = FreeFile
         /\ r.child = 0 /\ r.pc = "user" /\ fop' = [fop EXCEPT ![p] = r]
    BY ZenonT(60), <2>2, <2>10 DEF Rest
  <2>12. /\ FilesTypeOK' /\ (\A o \in FProcs : CallOK(fop'[o]))
         /\ fop'[p] = r /\ \A o \in FProcs \ {p} : fop'[o] = fop[o]
    <3>1. /\ alive' \subseteq FProcs /\ iref' \in Int
          /\ pipe' \in [1..NPIPE -> [readopen : BOOLEAN, writeopen : BOOLEAN]]
      BY ZenonT(60), <1>1, <2>2 DEF FilesInv, FilesTypeOK
    <3>2. QED
      BY ZenonT(60), <2>5, <2>9, <2>10, <2>11, <3>1, TypeKept
  <2>13. ForkInv'
    <3>1. GoesOn(p, r, of)
      BY Zenon, <1>2 DEF GoesOn
    <3>2. QED
      BY ZenonT(60), <1>1, <1>2, <2>5, <2>11, <3>1, ForkKept
  <2>14. HeldInv' /\ OpenIsTyped'
    <3>1. \A g \in Entries : MayChange(ofile[p], fop[p], g, ftable[g], ftable'[g])
      <4>1. Names(ofile[p], fop[p], f)
        BY <1>3 DEF Names, InSeq
      <4>2. MayChange(ofile[p], fop[p], f, ftable[f], ftable'[f])
        BY <2>8, <2>9, <4>1 DEF MayChange
      <4>3. \A g \in Entries \ {f} : MayChange(ofile[p], fop[p], g, ftable[g], ftable'[g])
        BY Zenon, <2>9 DEF MayChange
      <4>4. QED
        BY ZenonT(60), <4>2, <4>3
    <3>2. OwnOK(ftable', ofile'[p], fop'[p])
      <4>1. \A g \in Entries : ~InSeq(r.held, g)
        BY <2>11 DEF InSeq
      <4>2. OwedOK(of, r)
        BY Zenon, <2>11 DEF OwedOK
      <4>3. \A g \in Entries : ftable'[g].type \in {ftable[g].type, "FD_PIPE", "FD_INODE"}
        BY ZenonT(60), <2>8, <2>9
      <4>4. \A x \in Fds : ofile[p][x] # 0 => ftable'[ofile[p][x]].type # "FD_NONE"
        BY ZenonT(60), <4>3, StillTyped
      <4>5. \A x \in Fds : of[x] # 0 => ftable'[of[x]].type # "FD_NONE"
        BY ZenonT(60), <2>5, <2>8, <2>9, <4>4
      <4>6. QED
        BY Zenon, <2>5, <2>12, <4>1, <4>2, <4>5 DEF OwnOK
    <3>3. QED
      BY ZenonT(60), <2>5, <2>12, <3>1, <3>2, OwnKept
  <2>15. RefsCounted'
    <3>1. ASSUME NEW g \in Entries
          PROVE  ftable'[g].ref = ftable[g].ref
                   + (Count(ofile'[p], g) + Count(fop'[p].held, g) + Count(fop'[p].close, g))
                   - (Count(ofile[p], g) + Count(fop[p].held, g) + Count(fop[p].close, g))
      <4>1. Count(fop[p].held, g) = Is(f, g) /\ Count(fop[p].close, g) = 0
        BY ZenonT(60), <1>2, <1>3, CountFew
      <4>2. Count(fop'[p].held, g) = 0 /\ Count(fop'[p].close, g) = 0
        <5>1. fop'[p].held = <<>> /\ fop'[p].close = <<>>
          BY ZenonT(60), <2>11, <2>12
        <5>2. QED
          BY ZenonT(60), <5>1, CountFew
      <4>3. g # 0 /\ ftable[g].ref \in Nat
        BY RefFacts DEF Entries, FilesSane
      <4>4. /\ Count(of, g) \in Nat /\ Count(ofile[p], g) \in Nat /\ ofile'[p] = of
            /\ Count(of, g) = Count(ofile[p], g) + Is(f, g)
        BY <2>1, <2>4, <2>5, <4>3 DEF FdPut, Is
      <4>5. ftable'[g].ref = ftable[g].ref
        BY ZenonT(60), <2>6, <2>8, <2>9 DEF NewFile, FreeFile
      <4>6. QED
        BY <4>1, <4>2, <4>3, <4>4, <4>5 DEF Is
    <3>2. QED
      BY ZenonT(60), <1>2, <2>5, <2>11, <2>12, <3>1, OwnRefs
  <2>16. ObjectsHeld'
    <3>1. \A g \in Entries \ {f} : SameKind(ftable'[g], ftable[g])
      BY Zenon, <2>9 DEF SameKind
    <3>2. PICK t : t = ftable
      BY Zenon
    <3>3. PICK u : u = ftable'
      BY Zenon
    <3>4. \A g \in Entries \ {f} : SameKind(u[g], t[g])
      BY ZenonT(60), <3>1, <3>2, <3>3
    <3>5. /\ EntryInodes(t) \in Nat /\ EntryInodes(u) \in Nat
          /\ EntryInodes(u) = EntryInodes(t) - One(t[f].type = "FD_INODE")
                                             + One(u[f].type = "FD_INODE")
          /\ \A k, w : /\ EntryEnds(t, k, w) \in Nat /\ EntryEnds(u, k, w) \in Nat
                       /\ EntryEnds(u, k, w) = EntryEnds(t, k, w) - One(Holds(t[f], k, w))
                                                                  + One(Holds(u[f], k, w))
      <4>1. EntryDelta(t, u, f)
        BY Zenon, <3>4, EntryChanges
      <4>2. QED
        BY <4>1, Zenon DEF EntryDelta
    <3>6. t[f].type = "FD_NONE" /\ u[f].type = "FD_INODE"
      BY ZenonT(60), <2>6, <2>8, <2>9, <3>2, <3>3 DEF NewFile, FreeFile
    <3>7. EntryInodes(u) = EntryInodes(t) + 1
      BY SMTT(60), <3>5, <3>6 DEF One
    <3>8. \A k, w : EntryEnds(u, k, w) = EntryEnds(t, k, w)
      BY <3>5, <3>6 DEF One, Holds
    <3>9. /\ CallInodes(fop') = CallInodes(fop)
          /\ \A k, w : CallEnds(fop', k, w) = CallEnds(fop, k, w)
          /\ Opening(fop') = Opening(fop) - One(fop[p].pc = "open") + One(r.pc = "open")
      BY ZenonT(60), <1>2, <2>11, <2>12, CallsKept
    <3>10. InodesOK(ftable', fop', iref')
      <4>1. Opening(fop') = Opening(fop) - 1 + 0
        BY Zenon, <1>1, <2>11, <3>9 DEF One
      <4>2. EntryInodes(ftable') = EntryInodes(ftable) + 1
        BY Zenon, <3>2, <3>3, <3>7
      <4>3. QED
        BY <2>2, <3>9, <4>1, <4>2, Numbers DEF InodesOK
    <3>11. \A k, w : EntryEnds(ftable', k, w) = EntryEnds(ftable, k, w)
      BY <3>2, <3>3, <3>8, Zenon
    <3>12. \A k \in DOMAIN pipe' : EndsOK(ftable', fop', pipe', k)
      BY ZenonT(60), <1>1, <3>9, <3>11, EndsKept
    <3>13. QED
      BY ZenonT(60), <3>10, <3>12, Objects
  <2>17. QED
    BY ZenonT(60), <2>12, <2>13, <2>14, <2>15, <2>16, Together
<1>7. QED
  BY Zenon, <1>5, <1>6

(* One call changes.                                                        *)
LEMMA CallSet ==
  ASSUME FilesInv, NEW p \in FProcs, NEW r, fop' = [fop EXCEPT ![p] = r]
  PROVE  fop'[p] = r /\ \A o \in FProcs \ {p} : fop'[o] = fop[o]
BY Zenon DEF FilesInv, FilesTypeOK

(* Uses() in numbers.                                                       *)
LEMMA UsesSum ==
  ASSUME NEW of, NEW r, NEW f
  PROVE  Uses(of, r, f) = Count(of, f) + Count(r.held, f) + Count(r.close, f)
                            - Is(r.owed, f)
BY Zenon DEF Uses, Is

(* The number of references that p's step leaves.                           *)
Moves(p, of, r) ==
  \A g \in Entries : ftable'[g].ref = ftable[g].ref + Uses(of, r, g)
                                                    - Uses(ofile[p], fop[p], g)
MayAll(p) == \A g \in Entries : MayChange(ofile[p], fop[p], g, ftable[g], ftable'[g])

(* A step of p that is not of fork() keeps the invariant if p's references  *)
(* and the entries change alike.                                            *)
LEMMA OwnCall ==
  ASSUME FilesSane, Facts, FilesInv, NEW p \in FProcs, NEW r \in FileOps, CallOK(r),
         NEW of \in [Fds -> 0..NFILE],
         fop' = [fop EXCEPT ![p] = r], ofile' = [ofile EXCEPT ![p] = of],
         alive' = alive, ftable' \in [Entries -> FileRecs], iref' \in Int,
         pipe' \in [1..NPIPE -> [readopen : BOOLEAN, writeopen : BOOLEAN]],
         r.child = 0, fop[p].child = 0, GoesOn(p, r, of), MayAll(p),
         OwnOK(ftable', of, r), Moves(p, of, r), ObjectsHeld'
  PROVE  FilesInv'
<1>1. /\ ofile' \in [FProcs -> [Fds -> 0..NFILE]] /\ ofile'[p] = of
      /\ \A o \in FProcs \ {p} : ofile'[o] = ofile[o]
  BY Zenon DEF FilesInv, FilesTypeOK
<1>2. alive' \subseteq FProcs
  BY Zenon DEF FilesInv, FilesTypeOK
<1>3. /\ FilesTypeOK' /\ (\A o \in FProcs : CallOK(fop'[o]))
      /\ fop'[p] = r /\ \A o \in FProcs \ {p} : fop'[o] = fop[o]
  BY Zenon, <1>1, <1>2, TypeKept
<1>4. ForkInv'
  BY Zenon, ForkKept
<1>5. HeldInv' /\ OpenIsTyped'
  BY <1>1, <1>3, OwnKept DEF MayAll
<1>6. RefsCounted'
  BY ZenonT(60), <1>1, <1>3, CountKept DEF Moves
<1>7. QED
  BY ZenonT(60), <1>3, <1>4, <1>5, <1>6, Together

(* sys_dup() takes a second descriptor and owes the reference for it.       *)
LEMMA DupFdKeeps ==
  ASSUME FilesSane, Facts, FilesInv, NEW p \in FProcs, NEW d \in Fds, DupFd(p, d)
  PROVE  FilesInv'
<1>1. PICK f \in Entries : f = ofile[p][d]
  BY Zenon, At DEF DupFd
<1>2. PICK n \in Fds : n = fdalloc(ofile[p]) /\ ofile[p][n] = 0
  BY Zenon, FdallocFacts DEF DupFd
<1>3. PICK r : r = [Rest EXCEPT !.pc = "dup", !.owed = f]
  BY Zenon
<1>4. /\ p \in alive /\ fop[p].pc = "user" /\ ofile' = [ofile EXCEPT ![p][n] = f]
      /\ fop' = [fop EXCEPT ![p] = r]
      /\ ftable' = ftable /\ alive' = alive /\ pipe' = pipe /\ iref' = iref
  BY ZenonT(60), <1>1, <1>2, <1>3 DEF DupFd, Called, FGo
<1>5. f \in 0..NFILE /\ f # 0
  BY DEF Entries, FilesSane
<1>6. /\ r \in FileOps /\ CallOK(r) /\ r.held = <<>> /\ r.close = <<>> /\ r.owed = f
      /\ r.obj = FreeFile /\ r.child = 0 /\ r.pc = "dup"
  BY Zenon, <1>3, <1>5, RestFacts DEF Rest, FileOps, FilePCs, CallOK
<1>7. PICK of \in [Fds -> 0..NFILE] : FdPut(of, p, n, f)
  BY Zenon, <1>4, <1>5, FdSet
<1>8. /\ fop[p].held = <<>> /\ fop[p].close = <<>> /\ fop[p].owed = 0
      /\ fop[p].child = 0 /\ fop[p].obj = FreeFile
  BY ZenonT(60), <1>4, AtRest
<1>9. /\ ofile' = [ofile EXCEPT ![p] = of] /\ of[n] = f
      /\ \A e \in Fds \ {n} : of[e] = ofile[p][e]
  BY Zenon, <1>7 DEF FdPut
<1>10. GoesOn(p, r, of) /\ MayAll(p)
  BY Zenon, <1>4 DEF GoesOn, MayAll, MayChange
<1>11. OwnOK(ftable', of, r)
  <2>1. \A g \in Entries : ~InSeq(r.held, g)
    BY <1>6 DEF InSeq
  <2>2. OwedOK(of, r)
    <3>1. d # n /\ of[d] = f /\ of[n] = f
      BY ZenonT(60), <1>1, <1>2, <1>5, <1>9
    <3>2. QED
      BY Zenon, <1>6, <3>1 DEF OwedOK
  <2>3. \A e \in Fds : ofile[p][e] # 0 => ftable'[ofile[p][e]].type # "FD_NONE"
    BY Zenon, <1>4, StillTyped
  <2>4. \A e \in Fds : of[e] # 0 => ftable'[of[e]].type # "FD_NONE"
    BY ZenonT(60), <1>1, <1>5, <1>9, <2>3
  <2>5. QED
    BY ZenonT(60), <2>1, <2>2, <2>4 DEF OwnOK
<1>12. Moves(p, of, r)
  <2>1. SUFFICES ASSUME NEW g \in Entries
                 PROVE  ftable'[g].ref = ftable[g].ref + Uses(of, r, g)
                                                       - Uses(ofile[p], fop[p], g)
    BY Zenon DEF Moves
  <2>2. /\ Count(fop[p].held, g) = 0 /\ Count(fop[p].close, g) = 0
        /\ Count(r.held, g) = 0 /\ Count(r.close, g) = 0
    BY ZenonT(60), <1>6, <1>8, CountFew
  <2>3. g # 0 /\ ftable[g].ref \in Nat
    BY RefFacts DEF Entries, FilesSane
  <2>4. /\ Count(of, g) \in Nat /\ Count(ofile[p], g) \in Nat
        /\ Count(of, g) = Count(ofile[p], g) + Is(f, g)
    BY <1>2, <1>7, <2>3 DEF FdPut, Is
  <2>5. Uses(of, r, g) = Count(of, g) + 0 + 0 - Is(f, g)
    BY ZenonT(60), <1>6, <2>2, UsesSum
  <2>6. Uses(ofile[p], fop[p], g) = Count(ofile[p], g) + 0 + 0 - 0
    BY ZenonT(60), <1>8, <2>2, <2>3, UsesSum DEF Is
  <2>7. Is(f, g) \in Nat
    BY Zenon DEF Is
  <2>8. QED
    BY SMTT(60), <1>4, <2>3, <2>4, <2>5, <2>6, <2>7
<1>13. ObjectsHeld'
  <2>1. \A g \in Entries : SameKind(ftable'[g], ftable[g])
    BY Zenon, <1>4 DEF SameKind
  <2>2. fop'[p] = r /\ \A o \in FProcs \ {p} : fop'[o] = fop[o]
    BY ZenonT(60), <1>4, CallSet
  <2>3. fop'[p].obj = fop[p].obj /\ (fop'[p].pc = "open" <=> fop[p].pc = "open")
    BY ZenonT(60), <1>4, <1>6, <1>8, <2>2
  <2>4. QED
    BY ZenonT(60), <1>4, <2>1, <2>2, <2>3, ObjectsKept
<1>14. /\ ftable' \in [Entries -> FileRecs] /\ iref' \in Int
       /\ pipe' \in [1..NPIPE -> [readopen : BOOLEAN, writeopen : BOOLEAN]]
  BY Zenon, <1>4 DEF FilesInv, FilesTypeOK
<1>15. QED
  BY Zenon, <1>4, <1>6, <1>8, <1>9, <1>10, <1>11, <1>12, <1>13, <1>14, OwnCall

(* filedup() adds one to the references.                                    *)
LEMMA FiledupFacts ==
  ASSUME FilesInv, FilesSane, Facts, NEW f \in Entries, ftable' = filedup(f)
  PROVE  /\ ftable' \in [Entries -> FileRecs]
         /\ \A g \in Entries : /\ ftable'[g].ref = ftable[g].ref + Is(f, g)
                               /\ SameKind(ftable'[g], ftable[g])
                               /\ g # f => ftable'[g] = ftable[g]
<1>1. PICK n \in Int : n = ftable[f].ref + 1
  BY EntryFields
<1>2. PICK e \in FileRecs : e = [ftable[f] EXCEPT !.ref = n]
  BY Zenon, EntryFields
<1>3. e.ref = n /\ SameKind(e, ftable[f])
  BY Zenon, <1>2, EntryFields
<1>4. ftable' = [ftable EXCEPT ![f] = e]
  <2>1. filedup(f) = [ftable EXCEPT ![f].ref = n]
    BY Zenon, <1>1 DEF filedup, FilesInv, FilesTypeOK, FileRecs
  <2>2. QED
    BY <1>2, <2>1, EntryFields, Zenon
<1>5. /\ ftable' \in [Entries -> FileRecs] /\ ftable'[f] = e
      /\ \A g \in Entries \ {f} : ftable'[g] = ftable[g]
  BY Zenon, <1>4, EntrySet
<1>6. ASSUME NEW g \in Entries
      PROVE  ftable'[g].ref = ftable[g].ref + Is(f, g) /\ SameKind(ftable'[g], ftable[g])
  <2>1. CASE g = f
    BY ZenonT(60), <1>1, <1>3, <1>5, <2>1 DEF Is
  <2>2. CASE g # f
    <3>1. ftable'[g] = ftable[g] /\ ftable[g].ref \in Int /\ Is(f, g) = 0
      BY ZenonT(60), <1>5, <2>2, EntryFields DEF Is
    <3>2. QED
      BY <3>1 DEF SameKind
  <2>3. QED
    BY Zenon, <2>1, <2>2
<1>7. QED
  BY Zenon, <1>5, <1>6

(* sys_dup() gives the reference.                                           *)
LEMMA DupRefKeeps ==
  ASSUME FilesSane, Facts, FilesInv, NEW p \in FProcs, DupRef(p)
  PROVE  FilesInv'
<1>1. /\ p \in alive /\ fop[p].close = <<>> /\ fop[p].obj = FreeFile
      /\ fop[p].child = 0 /\ fop[p].pc = "dup"
  BY Zenon, HoldsFacts DEF DupRef
<1>2. PICK f \in Entries : f = fop[p].owed
  BY <1>1, At DEF CallOK, FileOps, Entries, FilesSane
<1>3. fop[p].held = <<>>
  BY Zenon, <1>1, At DEF CallOK
<1>4. PICK r \in FileOps : r = Rest /\ CallOK(r)
  BY Zenon, RestFacts
<1>5. /\ r.held = <<>> /\ r.close = <<>> /\ r.owed = 0 /\ r.obj = FreeFile
      /\ r.child = 0 /\ r.pc = "user"
  BY Zenon, <1>4 DEF Rest
<1>6. /\ ftable' = filedup(f) /\ fop' = [fop EXCEPT ![p] = r]
      /\ ofile' = ofile /\ alive' = alive /\ pipe' = pipe /\ iref' = iref
  BY Zenon, <1>2, <1>4 DEF DupRef, FGo
<1>7. /\ ftable' \in [Entries -> FileRecs]
      /\ \A g \in Entries : /\ ftable'[g].ref = ftable[g].ref + Is(f, g)
                            /\ SameKind(ftable'[g], ftable[g])
                            /\ g # f => ftable'[g] = ftable[g]
  BY ZenonT(60), <1>6, FiledupFacts
<1>8. PICK of \in [Fds -> 0..NFILE] : of = ofile[p]
  BY Zenon, At
<1>9. ofile' = [ofile EXCEPT ![p] = of]
  BY ZenonT(60), <1>6, <1>8 DEF FilesInv, FilesTypeOK
<1>10. f # 0
  BY DEF Entries, FilesSane
<1>11. GoesOn(p, r, of)
  BY Zenon, <1>1 DEF GoesOn
<1>12. MayAll(p)
  <2>1. Names(ofile[p], fop[p], f)
    BY Zenon, <1>2, <1>10 DEF FilesInv, HeldInv, Names
  <2>2. ftable'[f].ref # 0
    BY <1>7, RefFacts DEF Is
  <2>3. MayChange(ofile[p], fop[p], f, ftable[f], ftable'[f])
    BY ZenonT(60), <1>7, <2>1, <2>2 DEF MayChange, SameKind
  <2>4. \A g \in Entries \ {f} : MayChange(ofile[p], fop[p], g, ftable[g], ftable'[g])
    BY Zenon, <1>7 DEF MayChange
  <2>5. QED
    BY Zenon, <2>3, <2>4 DEF MayAll
<1>13. OwnOK(ftable', of, r)
  <2>1. \A g \in Entries : ~InSeq(r.held, g)
    BY <1>5 DEF InSeq
  <2>2. OwedOK(of, r)
    BY Zenon, <1>5 DEF OwedOK
  <2>3. \A g \in Entries : ftable'[g].type \in {ftable[g].type, "FD_PIPE", "FD_INODE"}
    BY Zenon, <1>7 DEF SameKind
  <2>4. \A e \in Fds : of[e] # 0 => ftable'[of[e]].type # "FD_NONE"
    BY ZenonT(60), <1>8, <2>3, StillTyped
  <2>5. QED
    BY ZenonT(60), <2>1, <2>2, <2>4 DEF OwnOK
<1>14. Moves(p, of, r)
  <2>1. SUFFICES ASSUME NEW g \in Entries
                 PROVE  ftable'[g].ref = ftable[g].ref + Uses(of, r, g)
                                                       - Uses(ofile[p], fop[p], g)
    BY Zenon DEF Moves
  <2>2. /\ Count(fop[p].held, g) = 0 /\ Count(fop[p].close, g) = 0
        /\ Count(r.held, g) = 0 /\ Count(r.close, g) = 0
    BY ZenonT(60), <1>1, <1>3, <1>5, CountFew
  <2>3. g # 0 /\ ftable[g].ref \in Nat
    BY RefFacts DEF Entries, FilesSane
  <2>4. Count(of, g) \in Nat /\ Is(f, g) \in Nat
    BY Zenon, CountNamed DEF Is
  <2>5. Uses(of, r, g) = Count(of, g) + 0 + 0 - 0
    BY Zenon, <1>5, <2>2, <2>3, UsesSum DEF Is
  <2>6. Uses(ofile[p], fop[p], g) = Count(of, g) + 0 + 0 - Is(f, g)
    BY Zenon, <1>2, <1>8, <2>2, UsesSum
  <2>7. ftable'[g].ref = ftable[g].ref + Is(f, g)
    BY Zenon, <1>7
  <2>8. QED
    BY SMTT(60), <2>3, <2>4, <2>5, <2>6, <2>7
<1>15. ObjectsHeld'
  <2>1. fop'[p] = r /\ \A o \in FProcs \ {p} : fop'[o] = fop[o]
    BY Zenon, <1>6, CallSet
  <2>2. fop'[p].obj = fop[p].obj /\ (fop'[p].pc = "open" <=> fop[p].pc = "open")
    BY ZenonT(60), <1>1, <1>5, <2>1
  <2>3. QED
    BY ZenonT(60), <1>6, <1>7, <2>1, <2>2, ObjectsKept
<1>16. /\ iref' \in Int
       /\ pipe' \in [1..NPIPE -> [readopen : BOOLEAN, writeopen : BOOLEAN]]
  BY Zenon, <1>6 DEF FilesInv, FilesTypeOK
<1>17. QED
  BY ZenonT(60), <1>1, <1>4, <1>5, <1>6, <1>7, <1>9, <1>11, <1>12, <1>13, <1>14, <1>15, <1>16,
     OwnCall

(* The entries that a call has to close, one by one.                        *)
LEMMA CloseSeq ==
  ASSUME Facts, NEW s \in Singles \cup Pairs
  PROVE  /\ s \in Few /\ Head(s) \in Entries /\ InSeq(s, Head(s))
         /\ Tail(s) \in {<<>>} \cup Singles /\ Tail(s) \in Few
         /\ \A g : Count(s, g) = Is(Head(s), g) + Count(Tail(s), g)
<1>1. s \in Few
  BY Zenon DEF Few
<1>2. CASE s \in Singles
  <2>1. PICK a \in Entries : s = <<a>>
    BY Zenon, <1>2 DEF Singles
  <2>2. Head(s) = a /\ Tail(s) = <<>> /\ InSeq(s, a)
    BY <2>1 DEF InSeq
  <2>3. \A g : Count(s, g) = Is(a, g) + 0 /\ Count(Tail(s), g) = 0
    <3>1. ASSUME NEW g PROVE Count(s, g) = Is(a, g) + 0 /\ Count(Tail(s), g) = 0
      <4>1. Count(<<a>>, g) = Is(a, g) /\ Count(<<>>, g) = 0 /\ Is(a, g) \in Nat
        BY Zenon, CountFew DEF Is
      <4>2. QED
        BY <2>1, <2>2, <4>1
    <3>2. QED
      BY Zenon, <3>1
  <2>4. QED
    BY Zenon, <1>1, <2>2, <2>3 DEF Few
<1>3. CASE s \in Pairs
  <2>1. PICK a \in Entries, b \in Entries : s = <<a, b>>
    BY <1>3 DEF Pairs
  <2>2. Head(s) = a /\ Tail(s) = <<b>> /\ InSeq(s, a)
    BY <2>1 DEF InSeq
  <2>3. \A g : Count(s, g) = Is(a, g) + Is(b, g) /\ Count(Tail(s), g) = Is(b, g)
    BY ZenonT(60), <2>1, <2>2, CountFew
  <2>4. Tail(s) \in Singles
    BY Zenon, <2>2 DEF Singles
  <2>5. QED
    BY ZenonT(60), <1>1, <2>2, <2>3, <2>4 DEF Few
<1>4. QED
  BY Zenon, <1>2, <1>3

(* A call in fileclose().                                                   *)
LEMMA ClosingFacts ==
  ASSUME FilesSane, Facts, FilesInv, NEW p \in FProcs, fop[p].pc \in {"close", "object"}
  PROVE  /\ fop[p].held = <<>> /\ fop[p].owed = 0 /\ fop[p].child = 0
         /\ fop[p].close \in Few /\ fop[p].obj \in FileRecs
         /\ fop[p].pc = "close" =>
              fop[p].close \in Singles \cup Pairs /\ fop[p].obj = FreeFile
         /\ fop[p].pc = "object" => fop[p].close \in {<<>>} \cup Singles
BY Zenon, At DEF CallOK, FileOps

(* fileclose() drops a reference that is not the last.                      *)
LEMMA DropKeeps ==
  ASSUME FilesSane, Facts, FilesInv, NEW p \in FProcs, FileClose(p),
         ftable[Head(fop[p].close)].ref # 1
  PROVE  FilesInv'
<1>1. /\ fop[p].pc = "close" /\ fop[p].held = <<>> /\ fop[p].owed = 0
      /\ fop[p].child = 0 /\ fop[p].obj = FreeFile
  BY Zenon, ClosingFacts DEF FileClose
<1>2. PICK s \in Singles \cup Pairs : s = fop[p].close
  BY Zenon, <1>1, ClosingFacts
<1>3. PICK f \in Entries : f = Head(s)
  BY Zenon, CloseSeq
<1>4. PICK t \in Few : t = Tail(s)
  BY Zenon, CloseSeq
<1>5. InSeq(s, f) /\ \A g : Count(s, g) = Is(f, g) + Count(t, g)
  BY Zenon, <1>3, <1>4, CloseSeq
<1>6. PICK r \in FileOps : r = Close(p, t) /\ CallOK(r)
  BY Zenon, CloseFacts
<1>7. /\ r.held = <<>> /\ r.close = t /\ r.owed = 0 /\ r.obj = FreeFile /\ r.child = 0
      /\ r.pc \in {"user", "exit", "close"} /\ (r.pc = "user" => p \in alive)
  BY ZenonT(60), <1>6, CloseFacts
<1>8. PICK n \in Int : n = ftable[f].ref - 1
  BY EntryFields
<1>9. PICK e \in FileRecs : e = [ftable[f] EXCEPT !.ref = n]
  BY Zenon, EntryFields
<1>10. e.ref = n /\ SameKind(e, ftable[f])
  BY Zenon, <1>9, EntryFields
<1>11. ftable[f].ref # 1
  BY Zenon, <1>2, <1>3
<1>12. /\ ftable' = [ftable EXCEPT ![f] = e] /\ fop' = [fop EXCEPT ![p] = r]
       /\ ofile' = ofile /\ alive' = alive /\ pipe' = pipe /\ iref' = iref
  <2>1. Drop(ftable[f]) = e
    BY ZenonT(60), <1>8, <1>9, <1>11 DEF Drop
  <2>2. ftable' = [ftable EXCEPT ![f] = Drop(ftable[f])]
    BY ZenonT(60), <1>2, <1>3 DEF FileClose
  <2>3. fop' = [fop EXCEPT ![p] = Close(p, t)]
    BY ZenonT(60), <1>2, <1>3, <1>4, <1>11 DEF FileClose, FGo
  <2>4. QED
    BY ZenonT(60), <1>6, <2>1, <2>2, <2>3 DEF FileClose
<1>13. /\ ftable' \in [Entries -> FileRecs] /\ ftable'[f] = e
       /\ \A g \in Entries \ {f} : ftable'[g] = ftable[g]
  BY Zenon, <1>12, EntrySet
<1>14. PICK of \in [Fds -> 0..NFILE] : of = ofile[p]
  BY Zenon, At
<1>15. ofile' = [ofile EXCEPT ![p] = of]
  BY ZenonT(60), <1>12, <1>14 DEF FilesInv, FilesTypeOK
<1>16. GoesOn(p, r, of)
  BY Zenon, <1>1, <1>7 DEF GoesOn
<1>17. MayAll(p)
  <2>1. Names(ofile[p], fop[p], f)
    BY ZenonT(60), <1>2, <1>5 DEF Names
  <2>2. ftable[f].ref \in Nat /\ ftable[f].ref >= 1
    BY SMTT(60), <2>1, RefFacts
  <2>3. e.ref # 0
    BY <1>8, <1>10, <1>11, <2>2
  <2>4. MayChange(ofile[p], fop[p], f, ftable[f], ftable'[f])
    BY ZenonT(60), <1>10, <1>13, <2>1, <2>3 DEF MayChange, SameKind
  <2>5. \A g \in Entries \ {f} : MayChange(ofile[p], fop[p], g, ftable[g], ftable'[g])
    BY Zenon, <1>13 DEF MayChange
  <2>6. QED
    BY Zenon, <2>4, <2>5 DEF MayAll
<1>18. \A g \in Entries : SameKind(ftable'[g], ftable[g])
  BY Zenon, <1>10, <1>13 DEF SameKind
<1>19. OwnOK(ftable', of, r)
  <2>1. \A g \in Entries : ~InSeq(r.held, g)
    BY <1>7 DEF InSeq
  <2>2. OwedOK(of, r)
    BY Zenon, <1>7 DEF OwedOK
  <2>3. \A g \in Entries : ftable'[g].type \in {ftable[g].type, "FD_PIPE", "FD_INODE"}
    BY Zenon, <1>18 DEF SameKind
  <2>4. \A d \in Fds : of[d] # 0 => ftable'[of[d]].type # "FD_NONE"
    BY ZenonT(60), <1>14, <2>3, StillTyped
  <2>5. QED
    BY ZenonT(60), <2>1, <2>2, <2>4 DEF OwnOK
<1>20. Moves(p, of, r)
  <2>1. SUFFICES ASSUME NEW g \in Entries
                 PROVE  ftable'[g].ref = ftable[g].ref + Uses(of, r, g)
                                                       - Uses(ofile[p], fop[p], g)
    BY Zenon DEF Moves
  <2>2. Count(fop[p].held, g) = 0 /\ Count(r.held, g) = 0
    BY ZenonT(60), <1>1, <1>7, CountFew
  <2>3. g # 0 /\ ftable[g].ref \in Nat
    BY RefFacts DEF Entries, FilesSane
  <2>4. Count(of, g) \in Nat /\ Count(t, g) \in Nat /\ Is(f, g) \in Nat
    BY Zenon, CountNamed, SeqCount DEF Is
  <2>5. Uses(of, r, g) = Count(of, g) + 0 + Count(t, g) - 0
    BY Zenon, <1>7, <2>2, <2>3, UsesSum DEF Is
  <2>6. Uses(ofile[p], fop[p], g) = Count(of, g) + 0 + (Is(f, g) + Count(t, g)) - 0
    <3>1. Uses(ofile[p], fop[p], g) = Count(of, g) + 0 + Count(s, g) - 0
      BY ZenonT(60), <1>1, <1>2, <1>14, <2>2, <2>3, UsesSum DEF Is
    <3>2. Count(s, g) = Is(f, g) + Count(t, g)
      BY Zenon, <1>5
    <3>3. QED
      BY Zenon, <3>1, <3>2
  <2>7. ftable'[g].ref = ftable[g].ref - Is(f, g)
    <3>1. CASE g = f
      BY ZenonT(60), <1>8, <1>10, <1>13, <3>1 DEF Is
    <3>2. CASE g # f
      BY <1>13, <2>3, <3>2 DEF Is
    <3>3. QED
      BY Zenon, <3>1, <3>2
  <2>8. QED
    BY <2>3, <2>4, <2>5, <2>6, <2>7
<1>21. ObjectsHeld'
  <2>1. fop'[p] = r /\ \A o \in FProcs \ {p} : fop'[o] = fop[o]
    BY Zenon, <1>12, CallSet
  <2>2. fop'[p].obj = fop[p].obj /\ (fop'[p].pc = "open" <=> fop[p].pc = "open")
    BY ZenonT(60), <1>1, <1>7, <2>1
  <2>3. QED
    BY ZenonT(60), <1>12, <1>18, <2>1, <2>2, ObjectsKept
<1>22. /\ iref' \in Int
       /\ pipe' \in [1..NPIPE -> [readopen : BOOLEAN, writeopen : BOOLEAN]]
  BY Zenon, <1>12 DEF FilesInv, FilesTypeOK
<1>23. QED
  BY ZenonT(60), <1>1, <1>6, <1>7, <1>12, <1>13, <1>15, <1>16, <1>17, <1>19, <1>20, <1>21, <1>22,
     OwnCall

(* fileclose() drops the last reference and takes what the entry names.     *)
LEMMA LastKeeps ==
  ASSUME FilesSane, Facts, FilesInv, NEW p \in FProcs, FileClose(p),
         ftable[Head(fop[p].close)].ref = 1
  PROVE  FilesInv'
<1>1. /\ fop[p].pc = "close" /\ fop[p].held = <<>> /\ fop[p].owed = 0
      /\ fop[p].child = 0 /\ fop[p].obj = FreeFile
  BY Zenon, ClosingFacts DEF FileClose
<1>2. PICK s \in Singles \cup Pairs : s = fop[p].close
  BY Zenon, <1>1, ClosingFacts
<1>3. PICK f \in Entries : f = Head(s)
  BY Zenon, CloseSeq
<1>4. PICK t \in Few : t = Tail(s) /\ t \in {<<>>} \cup Singles
  BY Zenon, CloseSeq
<1>5. InSeq(s, f) /\ \A g : Count(s, g) = Is(f, g) + Count(t, g)
  BY ZenonT(60), <1>3, <1>4, CloseSeq
<1>6. ftable[f].ref = 1 /\ ftable[f] \in FileRecs
  BY ZenonT(60), <1>2, <1>3, EntryFields
<1>7. PICK r : r = [fop[p] EXCEPT !.pc = "object", !.obj = ftable[f], !.close = t]
  BY Zenon
<1>8. /\ r \in FileOps /\ r.held = <<>> /\ r.close = t /\ r.owed = 0
      /\ r.obj = ftable[f] /\ r.child = 0 /\ r.pc = "object"
  BY ZenonT(60), <1>1, <1>6, <1>7, At DEF FileOps, FilePCs
<1>9. CallOK(r)
  BY ZenonT(60), <1>4, <1>8 DEF CallOK
<1>10. /\ ftable' = [ftable EXCEPT ![f] = FreeFile] /\ fop' = [fop EXCEPT ![p] = r]
       /\ ofile' = ofile /\ alive' = alive /\ pipe' = pipe /\ iref' = iref
  <2>1. Drop(ftable[f]) = FreeFile
    BY ZenonT(60), <1>6 DEF Drop
  <2>2. ftable' = [ftable EXCEPT ![f] = Drop(ftable[f])]
    BY ZenonT(60), <1>2, <1>3 DEF FileClose
  <2>3. fop' = [fop EXCEPT ![p] = r]
    BY ZenonT(60), <1>2, <1>3, <1>4, <1>6, <1>7 DEF FileClose, FGo
  <2>4. QED
    BY ZenonT(60), <2>1, <2>2, <2>3 DEF FileClose
<1>11. /\ ftable' \in [Entries -> FileRecs] /\ ftable'[f] = FreeFile
       /\ \A g \in Entries \ {f} : ftable'[g] = ftable[g]
  BY ZenonT(60), <1>10, RestFacts, EntrySet
<1>12. PICK of \in [Fds -> 0..NFILE] : of = ofile[p]
  BY ZenonT(60), At
<1>13. ofile' = [ofile EXCEPT ![p] = of]
  BY ZenonT(60), <1>10, <1>12 DEF FilesInv, FilesTypeOK
<1>14. GoesOn(p, r, of)
  BY ZenonT(60), <1>1, <1>8 DEF GoesOn
<1>15. MayAll(p)
  <2>1. Names(ofile[p], fop[p], f)
    BY ZenonT(60), <1>2, <1>5 DEF Names
  <2>2. MayChange(ofile[p], fop[p], f, ftable[f], ftable'[f])
    BY ZenonT(60), <1>6, <1>11, <2>1 DEF MayChange
  <2>3. \A g \in Entries \ {f} : MayChange(ofile[p], fop[p], g, ftable[g], ftable'[g])
    BY ZenonT(60), <1>11 DEF MayChange
  <2>4. QED
    BY ZenonT(60), <2>2, <2>3 DEF MayAll
<1>16. ASSUME NEW g \in Entries
       PROVE  /\ Uses(of, r, g) = Count(of, g) + Count(t, g)
              /\ Uses(ofile[p], fop[p], g) = Count(of, g) + Is(f, g) + Count(t, g)
              /\ Count(of, g) \in Nat /\ Count(t, g) \in Nat /\ Is(f, g) \in Nat
  <2>1. Count(fop[p].held, g) = 0 /\ Count(r.held, g) = 0
    BY ZenonT(60), <1>1, <1>8, CountFew
  <2>2. g # 0
    BY DEF Entries, FilesSane
  <2>3. Count(of, g) \in Nat /\ Count(t, g) \in Nat /\ Is(f, g) \in Nat
    BY Zenon, CountNamed, SeqCount DEF Is
  <2>4. Uses(of, r, g) = Count(of, g) + 0 + Count(t, g) - 0
    BY Zenon, <1>8, <2>1, <2>2, UsesSum DEF Is
  <2>5. Uses(ofile[p], fop[p], g) = Count(of, g) + 0 + Count(s, g) - 0
    BY Zenon, <1>1, <1>2, <1>12, <2>1, <2>2, UsesSum DEF Is
  <2>6. Count(s, g) = Is(f, g) + Count(t, g)
    BY Zenon, <1>5
  <2>7. QED
    BY <2>3, <2>4, <2>5, <2>6
<1>17. OwnOK(ftable', of, r)
  <2>1. \A g \in Entries : ~InSeq(r.held, g)
    BY <1>8 DEF InSeq
  <2>2. OwedOK(of, r)
    BY ZenonT(60), <1>8 DEF OwedOK
  <2>3. ASSUME NEW d \in Fds PROVE of[d] # f
    <3>1. ftable[f].ref >= Uses(ofile[p], fop[p], f) /\ Is(f, f) = 1
      BY Zenon, RefFacts DEF Is
    <3>2. Count(of, f) = 0
      BY <1>6, <1>16, <3>1
    <3>3. of[d] = f => Count(of, f) >= 1
      BY ZenonT(60), CountNamed
    <3>4. QED
      BY <3>2, <3>3
  <2>4. ASSUME NEW d \in Fds, of[d] # 0 PROVE ftable'[of[d]].type # "FD_NONE"
    <3>1. PICK g \in Entries : ofile[p][d] = g
      BY ZenonT(60), <1>12, <2>4, At
    <3>2. ftable[g].type # "FD_NONE"
      BY Zenon, <3>1, OpenTyped
    <3>3. of[d] = g /\ g # f
      BY ZenonT(60), <1>12, <2>3, <3>1
    <3>4. QED
      BY ZenonT(60), <1>11, <3>2, <3>3
  <2>5. QED
    BY ZenonT(60), <2>1, <2>2, <2>4 DEF OwnOK
<1>18. Moves(p, of, r)
  <2>1. SUFFICES ASSUME NEW g \in Entries
                 PROVE  ftable'[g].ref = ftable[g].ref + Uses(of, r, g)
                                                       - Uses(ofile[p], fop[p], g)
    BY ZenonT(60) DEF Moves
  <2>2. ftable[g].ref \in Nat
    BY ZenonT(60), RefFacts
  <2>3. ftable'[g].ref = ftable[g].ref - Is(f, g)
    <3>1. CASE g = f
      BY SMTT(60), <1>6, <1>11, <3>1 DEF Is, FreeFile
    <3>2. CASE g # f
      BY <1>11, <2>2, <3>2 DEF Is
    <3>3. QED
      BY ZenonT(60), <3>1, <3>2
  <2>4. QED
    BY <1>16, <2>2, <2>3
<1>19. ObjectsHeld'
  <2>1. fop'[p] = r /\ \A o \in FProcs \ {p} : fop'[o] = fop[o]
    BY ZenonT(60), <1>10, CallSet
  <2>2. PICK T : T = ftable
    BY Zenon
  <2>3. PICK U : U = ftable'
    BY Zenon
  <2>4. PICK O : O = fop
    BY Zenon
  <2>5. PICK N : N = fop'
    BY Zenon
  <2>6. \A g \in Entries \ {f} : SameKind(U[g], T[g])
    BY ZenonT(60), <1>11, <2>2, <2>3 DEF SameKind
  <2>7. \A o \in FProcs \ {p} : N[o] = O[o]
    BY ZenonT(60), <2>1, <2>4, <2>5
  <2>8. U[f] = O[p].obj /\ N[p].obj = T[f] /\ O[p].pc # "open" /\ N[p].pc # "open"
    BY ZenonT(60), <1>1, <1>8, <1>11, <2>1, <2>2, <2>3, <2>4, <2>5
  <2>9. /\ EntryInodes(T) \in Nat /\ EntryInodes(U) \in Nat
        /\ EntryInodes(U) = EntryInodes(T) - One(T[f].type = "FD_INODE")
                                           + One(U[f].type = "FD_INODE")
        /\ \A k, w : /\ EntryEnds(T, k, w) \in Nat /\ EntryEnds(U, k, w) \in Nat
                     /\ EntryEnds(U, k, w) = EntryEnds(T, k, w) - One(Holds(T[f], k, w))
                                                                + One(Holds(U[f], k, w))
    <3>1. EntryDelta(T, U, f)
      BY ZenonT(60), <2>6, EntryChanges
    <3>2. QED
      BY <3>1, Zenon DEF EntryDelta
  <2>10. /\ CallInodes(O) \in Nat /\ CallInodes(N) \in Nat
         /\ CallInodes(N) = CallInodes(O) - One(O[p].obj.type = "FD_INODE")
                                          + One(N[p].obj.type = "FD_INODE")
         /\ Opening(O) \in Nat /\ Opening(N) \in Nat
         /\ Opening(N) = Opening(O) - One(O[p].pc = "open") + One(N[p].pc = "open")
         /\ \A k, w : /\ CallEnds(O, k, w) \in Nat /\ CallEnds(N, k, w) \in Nat
                      /\ CallEnds(N, k, w) = CallEnds(O, k, w) - One(Holds(O[p].obj, k, w))
                                                               + One(Holds(N[p].obj, k, w))
    <3>1. CallDelta(O, N, p)
      BY ZenonT(60), <2>7, CallChanges
    <3>2. QED
      BY <3>1, Zenon DEF CallDelta
  <2>11. \A b : One(b) \in Nat
    BY ZenonT(60) DEF One
  <2>12. ASSUME NEW k, NEW w
         PROVE  EntryEnds(U, k, w) + CallEnds(N, k, w) = EntryEnds(T, k, w) + CallEnds(O, k, w)
    <3>1. /\ EntryEnds(T, k, w) \in Nat /\ CallEnds(O, k, w) \in Nat
          /\ EntryEnds(U, k, w) = EntryEnds(T, k, w) - One(Holds(T[f], k, w))
                                                     + One(Holds(O[p].obj, k, w))
          /\ CallEnds(N, k, w) = CallEnds(O, k, w) - One(Holds(O[p].obj, k, w))
                                                   + One(Holds(T[f], k, w))
      BY ZenonT(60), <2>8, <2>9, <2>10
    <3>2. One(Holds(T[f], k, w)) \in Nat /\ One(Holds(O[p].obj, k, w)) \in Nat
      BY Zenon, <2>11
    <3>3. QED
      BY SMTT(60), <3>1, <3>2
  <2>13. InodesOK(ftable', fop', iref')
    <3>1. /\ EntryInodes(U) = EntryInodes(T) - One(T[f].type = "FD_INODE")
                                             + One(O[p].obj.type = "FD_INODE")
          /\ CallInodes(N) = CallInodes(O) - One(O[p].obj.type = "FD_INODE")
                                           + One(T[f].type = "FD_INODE")
      BY ZenonT(60), <2>8, <2>9, <2>10
    <3>2. One(T[f].type = "FD_INODE") \in Nat /\ One(O[p].obj.type = "FD_INODE") \in Nat
      BY ZenonT(60), <2>11
    <3>3. Opening(N) = Opening(O)
      BY SMTT(60), <2>8, <2>10 DEF One
    <3>4. EntryInodes(U) + CallInodes(N) + Opening(N)
            = EntryInodes(T) + CallInodes(O) + Opening(O)
      BY SMTT(60), <2>9, <2>10, <3>1, <3>2, <3>3
    <3>5. iref = EntryInodes(T) + CallInodes(O) + Opening(O)
      BY ZenonT(60), <2>2, <2>4, Numbers
    <3>6. QED
      BY ZenonT(60), <1>10, <2>3, <2>5, <3>4, <3>5 DEF InodesOK
  <2>14. \A k \in DOMAIN pipe' : EndsOK(ftable', fop', pipe', k)
    <3>1. SUFFICES ASSUME NEW k \in DOMAIN pipe' PROVE EndsOK(U, N, pipe', k)
      BY ZenonT(60), <2>3, <2>5
    <3>2. EndsOK(T, O, pipe', k)
      BY ZenonT(60), <1>10, <2>2, <2>4, Objects DEF FilesInv
    <3>3. QED
      BY ZenonT(60), <2>12, <3>2 DEF EndsOK
  <2>15. QED
    BY ZenonT(60), <2>13, <2>14, Objects
<1>20. /\ iref' \in Int
       /\ pipe' \in [1..NPIPE -> [readopen : BOOLEAN, writeopen : BOOLEAN]]
  BY Zenon, <1>10 DEF FilesInv, FilesTypeOK
<1>21. QED
  BY ZenonT(60), <1>1, <1>8, <1>9, <1>10, <1>11, <1>13, <1>14, <1>15, <1>17, <1>18, <1>19, <1>20,
     OwnCall

(* fileclose(), with the last reference or an earlier one.                  *)
LEMMA FileCloseKeeps ==
  ASSUME FilesSane, Facts, FilesInv, NEW p \in FProcs, FileClose(p)
  PROVE  FilesInv'
BY ZenonT(60), DropKeeps, LastKeeps

(* Whether an end of a pipe is open.                                        *)
Open(P, k, w) == IF w THEN P[k].writeopen ELSE P[k].readopen

(* ObjectsHeld, end by end.                                                 *)
LEMMA EndsAre ==
  ASSUME NEW t, NEW O, NEW P, NEW k
  PROVE  EndsOK(t, O, P, k) <=>
           \A w \in BOOLEAN : EntryEnds(t, k, w) + CallEnds(O, k, w) = One(Open(P, k, w))
<1>1. Open(P, k, TRUE) = P[k].writeopen /\ Open(P, k, FALSE) = P[k].readopen
  BY Zenon DEF Open
<1>2. BOOLEAN = {TRUE, FALSE}
  BY Zenon
<1>3. QED
  BY ZenonT(60), <1>1, <1>2 DEF EndsOK

(* fileclose() gives back the end or the inode.                             *)
LEMMA CloseObjectKeeps ==
  ASSUME FilesSane, Facts, FilesInv, NEW p \in FProcs, CloseObject(p)
  PROVE  FilesInv'
<1>1. /\ fop[p].pc = "object" /\ fop[p].held = <<>> /\ fop[p].owed = 0
      /\ fop[p].child = 0
  BY Zenon, ClosingFacts DEF CloseObject
<1>2. PICK t \in Few : t = fop[p].close
  BY ZenonT(60), <1>1, ClosingFacts
<1>3. PICK o \in FileRecs : o = fop[p].obj
  BY ZenonT(60), <1>1, ClosingFacts
<1>4. PICK r \in FileOps : r = Close(p, t) /\ CallOK(r)
  BY Zenon, CloseFacts
<1>5. /\ r.held = <<>> /\ r.close = t /\ r.owed = 0 /\ r.obj = FreeFile /\ r.child = 0
      /\ r.pc \in {"user", "exit", "close"} /\ (r.pc = "user" => p \in alive)
  BY Zenon, <1>4, CloseFacts
<1>6. /\ fop' = [fop EXCEPT ![p] = r]
      /\ ftable' = ftable /\ ofile' = ofile /\ alive' = alive
      /\ o.type = "FD_PIPE" =>
           pipe' = [pipe EXCEPT ![o.pipe] = pipeclose(o.writable, pipe[o.pipe])]
      /\ o.type # "FD_PIPE" => pipe' = pipe
      /\ o.type = "FD_INODE" => iref' = iref - 1
      /\ o.type # "FD_INODE" => iref' = iref
  BY ZenonT(60), <1>2, <1>3, <1>4 DEF CloseObject, FGo
<1>7. PICK of \in [Fds -> 0..NFILE] : of = ofile[p]
  BY Zenon, At
<1>8. ofile' = [ofile EXCEPT ![p] = of]
  BY ZenonT(60), <1>6, <1>7 DEF FilesInv, FilesTypeOK
<1>9. GoesOn(p, r, of) /\ MayAll(p)
  BY ZenonT(60), <1>1, <1>5, <1>6 DEF GoesOn, MayAll, MayChange
<1>10. OwnOK(ftable', of, r)
  <2>1. \A g \in Entries : ~InSeq(r.held, g)
    BY <1>5 DEF InSeq
  <2>2. OwedOK(of, r)
    BY Zenon, <1>5 DEF OwedOK
  <2>3. \A d \in Fds : of[d] # 0 => ftable'[of[d]].type # "FD_NONE"
    BY ZenonT(60), <1>6, <1>7, StillTyped
  <2>4. QED
    BY ZenonT(60), <2>1, <2>2, <2>3 DEF OwnOK
<1>11. Moves(p, of, r)
  <2>1. SUFFICES ASSUME NEW g \in Entries
                 PROVE  ftable'[g].ref = ftable[g].ref + Uses(of, r, g)
                                                       - Uses(ofile[p], fop[p], g)
    BY Zenon DEF Moves
  <2>2. Uses(of, r, g) = Count(of, g) + Count(<<>>, g) + Count(t, g) - Is(0, g)
    BY Zenon, <1>5, UsesSum
  <2>3. Uses(ofile[p], fop[p], g)
          = Count(of, g) + Count(<<>>, g) + Count(t, g) - Is(0, g)
    BY Zenon, <1>1, <1>2, <1>7, UsesSum
  <2>4. Uses(of, r, g) = Uses(ofile[p], fop[p], g)
    BY ZenonT(60), <2>2, <2>3
  <2>5. Uses(of, r, g) \in Int /\ ftable[g].ref \in Nat
    BY ZenonT(60), UsesInt, RefFacts
  <2>6. QED
    BY SMTT(60), <1>6, <2>4, <2>5
<1>12. /\ fop'[p] = r /\ \A x \in FProcs \ {p} : fop'[x] = fop[x]
  BY ZenonT(60), <1>6, CallSet
<1>13. PICK O : O = fop
  BY Zenon
<1>14. PICK N : N = fop'
  BY Zenon
<1>15. /\ CallInodes(O) \in Nat /\ CallInodes(N) \in Nat
       /\ CallInodes(N) = CallInodes(O) - One(O[p].obj.type = "FD_INODE")
                                        + One(N[p].obj.type = "FD_INODE")
       /\ Opening(O) \in Nat /\ Opening(N) \in Nat
       /\ Opening(N) = Opening(O) - One(O[p].pc = "open") + One(N[p].pc = "open")
       /\ \A k, w : /\ CallEnds(O, k, w) \in Nat /\ CallEnds(N, k, w) \in Nat
                    /\ CallEnds(N, k, w) = CallEnds(O, k, w) - One(Holds(O[p].obj, k, w))
                                                             + One(Holds(N[p].obj, k, w))
  <2>1. \A x \in FProcs \ {p} : N[x] = O[x]
    BY ZenonT(60), <1>12, <1>13, <1>14
  <2>2. CallDelta(O, N, p)
    BY Zenon, <2>1, CallChanges
  <2>3. QED
    BY <2>2, Zenon DEF CallDelta
<1>16. /\ O[p].obj = o /\ N[p].obj = FreeFile /\ O[p].pc # "open" /\ N[p].pc # "open"
  BY ZenonT(60), <1>1, <1>3, <1>5, <1>12, <1>13, <1>14
<1>17. InodesOK(ftable', fop', iref')
  <2>1. Opening(N) = Opening(O)
    BY SMTT(60), <1>15, <1>16 DEF One
  <2>2. CallInodes(N) = CallInodes(O) - One(o.type = "FD_INODE")
    BY <1>15, <1>16 DEF One, FreeFile
  <2>3. iref = EntryInodes(ftable) + CallInodes(O) + Opening(O)
        /\ EntryInodes(ftable) \in Nat
    BY ZenonT(60), <1>13, Numbers
  <2>4. iref' = EntryInodes(ftable) + CallInodes(N) + Opening(N)
    <3>1. CASE o.type = "FD_INODE"
      BY SMTT(60), <1>6, <1>15, <2>1, <2>2, <2>3, <3>1 DEF One
    <3>2. CASE o.type # "FD_INODE"
      BY SMTT(60), <1>6, <1>15, <2>1, <2>2, <2>3, <3>2 DEF One
    <3>3. QED
      BY ZenonT(60), <3>1, <3>2
  <2>5. QED
    BY ZenonT(60), <1>6, <1>14, <2>4 DEF InodesOK
<1>18. /\ iref' \in Int
       /\ pipe' \in [1..NPIPE -> [readopen : BOOLEAN, writeopen : BOOLEAN]]
  <2>1. iref' \in Int
    BY <1>6 DEF FilesInv, FilesTypeOK
  <2>2. pipe' \in [1..NPIPE -> [readopen : BOOLEAN, writeopen : BOOLEAN]]
    <3> DEFINE E == [readopen : BOOLEAN, writeopen : BOOLEAN]
    <3>1. pipe \in [1..NPIPE -> E]
      BY Zenon DEF FilesInv, FilesTypeOK
    <3>2. \A q \in E : \A w : pipeclose(w, q) \in E
      BY Zenon DEF pipeclose
    <3> HIDE DEF E
    <3>3. CASE o.type = "FD_PIPE"
      <4>1. PICK x : x = pipeclose(o.writable, pipe[o.pipe])
        BY Zenon
      <4>2. o.pipe \in 1..NPIPE => x \in E
        BY ZenonT(60), <3>1, <3>2, <4>1
      <4>3. pipe' = [pipe EXCEPT ![o.pipe] = x]
        BY ZenonT(60), <1>6, <3>3, <4>1
      <4>4. QED
        BY Zenon, <3>1, <4>2, <4>3 DEF E
    <3>4. CASE o.type # "FD_PIPE"
      BY ZenonT(60), <1>6, <3>1, <3>4 DEF E
    <3>5. QED
      BY Zenon, <3>3, <3>4
  <2>3. QED
    BY ZenonT(60), <2>1, <2>2
<1>19. ASSUME NEW k \in 1..NPIPE, NEW w \in BOOLEAN
       PROVE  EntryEnds(ftable, k, w) + CallEnds(N, k, w) = One(Open(pipe', k, w))
  <2>1. EntryEnds(ftable, k, w) + CallEnds(O, k, w) = One(Open(pipe, k, w))
    <3>1. k \in DOMAIN pipe
      BY Zenon DEF FilesInv, FilesTypeOK
    <3>2. EndsOK(ftable, fop, pipe, k)
      BY ZenonT(60), <3>1, Objects DEF FilesInv
    <3>3. QED
      BY ZenonT(60), <1>13, <3>2, EndsAre
  <2>2. /\ CallEnds(O, k, w) \in Nat /\ CallEnds(N, k, w) \in Nat
        /\ CallEnds(N, k, w) = CallEnds(O, k, w) - One(Holds(o, k, w))
    BY <1>15, <1>16 DEF One, Holds, FreeFile
  <2>3. EntryEnds(ftable, k, w) \in Nat
    <3>1. Cardinality({f \in Entries : Holds(ftable[f], k, w)}) \in Nat
      BY ZenonT(60), Finite DEF Facts, Parts, Sized
    <3>2. QED
      BY Zenon, <3>1 DEF EntryEnds
  <2>4. CASE Holds(o, k, w)
    <3>1. o.type = "FD_PIPE" /\ o.pipe = k /\ o.writable = w
      BY ZenonT(60), <2>4 DEF Holds
    <3>2. pipe' = [pipe EXCEPT ![k] = pipeclose(w, pipe[k])]
      BY ZenonT(60), <1>6, <3>1
    <3>3. pipe'[k] = pipeclose(w, pipe[k])
      BY ZenonT(60), <3>2 DEF FilesInv, FilesTypeOK
    <3>4. pipe[k] \in [readopen : BOOLEAN, writeopen : BOOLEAN]
      BY Zenon DEF FilesInv, FilesTypeOK
    <3>5. ~Open(pipe', k, w)
      BY ZenonT(60), <3>3, <3>4 DEF pipeclose, Open
    <3>6. EntryEnds(ftable, k, w) + CallEnds(N, k, w) = One(Open(pipe, k, w)) - 1
      BY SMTT(60), <2>1, <2>2, <2>3, <2>4 DEF One
    <3>7. QED
      BY SMTT(60), <2>2, <2>3, <3>5, <3>6 DEF One
  <2>5. CASE ~Holds(o, k, w)
    <3>1. Open(pipe', k, w) = Open(pipe, k, w)
      <4>1. pipe[k] \in [readopen : BOOLEAN, writeopen : BOOLEAN]
        BY Zenon DEF FilesInv, FilesTypeOK
      <4>2. CASE o.type # "FD_PIPE"
        BY ZenonT(60), <1>6, <4>2
      <4>3. CASE o.type = "FD_PIPE" /\ o.pipe # k
        <5>1. pipe'[k] = pipe[k]
          BY ZenonT(60), <1>6, <4>3 DEF FilesInv, FilesTypeOK
        <5>2. QED
          BY Zenon, <5>1 DEF Open
      <4>4. CASE o.type = "FD_PIPE" /\ o.pipe = k /\ o.writable # w
        <5>1. pipe'[k] = pipeclose(o.writable, pipe[k])
          BY Zenon, <1>6, <4>4 DEF FilesInv, FilesTypeOK
        <5>2. o.writable \in BOOLEAN
          BY Zenon DEF FileRecs
        <5>3. CASE w = TRUE
          BY ZenonT(60), <4>1, <4>4, <5>1, <5>2, <5>3 DEF pipeclose, Open
        <5>4. CASE w = FALSE
          BY ZenonT(60), <4>1, <4>4, <5>1, <5>2, <5>4 DEF pipeclose, Open
        <5>5. QED
          BY ZenonT(60), <5>3, <5>4
      <4>5. QED
        BY ZenonT(60), <2>5, <4>2, <4>3, <4>4 DEF Holds
    <3>2. One(Holds(o, k, w)) = 0
      BY ZenonT(60), <2>5 DEF One
    <3>3. QED
      BY <2>1, <2>2, <3>1, <3>2
  <2>6. QED
    BY ZenonT(60), <2>4, <2>5
<1>20. ObjectsHeld'
  <2>1. ASSUME NEW k \in DOMAIN pipe' PROVE EndsOK(ftable', fop', pipe', k)
    <3>1. k \in 1..NPIPE
      BY Zenon, <1>18
    <3>2. PICK P : P = pipe'
      BY Zenon
    <3>3. \A w \in BOOLEAN :
            EntryEnds(ftable, k, w) + CallEnds(N, k, w) = One(Open(P, k, w))
      BY ZenonT(60), <1>19, <3>1, <3>2
    <3>4. EndsOK(ftable, N, P, k)
      BY Zenon, <3>3, EndsAre
    <3>5. QED
      BY ZenonT(60), <1>6, <1>14, <3>2, <3>4
  <2>2. QED
    BY ZenonT(60), <1>17, <2>1, Objects
<1>21. ftable' \in [Entries -> FileRecs]
  BY Zenon, <1>6 DEF FilesInv, FilesTypeOK
<1>22. QED
  BY ZenonT(60), <1>1, <1>4, <1>5, <1>6, <1>8, <1>9, <1>10, <1>11, <1>18, <1>20, <1>21, OwnCall

(* The second entry that pipealloc() takes comes after the first.           *)
LEMMA AppendPair ==
  ASSUME Facts, NEW a \in Nat, NEW f \in Nat
  PROVE  Append(<<a>>, f) = <<a, f>>
BY Zenon DEF Facts, Appended

(* One more entry for pipe().                                               *)
LEMMA HeldMore ==
  ASSUME Facts, NEW s \in {<<>>} \cup Singles, NEW f \in Entries
  PROVE  /\ Append(s, f) \in Singles \cup Pairs /\ Append(s, f) \in Few
         /\ \A g : Count(Append(s, f), g) = Count(s, g) + Is(f, g)
         /\ \A g : InSeq(Append(s, f), g) => g = f \/ InSeq(s, g)
<1>1. CASE s = <<>>
  <2>1. Append(s, f) = <<f>>
    BY <1>1
  <2>2. <<f>> \in Singles
    BY Zenon DEF Singles
  <2>3. \A g : InSeq(<<f>>, g) => g = f
    BY DEF InSeq
  <2>4. ASSUME NEW g PROVE Count(Append(s, f), g) = Count(s, g) + Is(f, g)
    <3>1. Count(<<f>>, g) = Is(f, g) /\ Count(<<>>, g) = 0 /\ Is(f, g) \in Nat
      BY Zenon, CountFew DEF Is
    <3>2. QED
      BY <1>1, <2>1, <3>1
  <2>5. QED
    BY Zenon, <2>1, <2>2, <2>3, <2>4 DEF Few
<1>2. CASE s \in Singles
  <2>1. PICK a \in Entries : s = <<a>>
    BY Zenon, <1>2 DEF Singles
  <2>2. Append(s, f) = <<a, f>>
    <3>1. a \in Nat /\ f \in Nat
      BY DEF Entries
    <3>2. QED
      BY ZenonT(60), <2>1, <3>1, AppendPair
  <2>3. <<a, f>> \in Pairs
    BY DEF Pairs
  <2>4. \A g : InSeq(<<a, f>>, g) => g = f \/ InSeq(<<a>>, g)
    BY DEF InSeq
  <2>5. ASSUME NEW g PROVE Count(Append(s, f), g) = Count(s, g) + Is(f, g)
    BY ZenonT(60), <2>1, <2>2, CountFew
  <2>6. QED
    BY ZenonT(60), <2>1, <2>2, <2>3, <2>4, <2>5 DEF Few
<1>3. QED
  BY Zenon, <1>1, <1>2

(* pipealloc() takes an entry.                                              *)
LEMMA PipeTakeKeeps ==
  ASSUME FilesSane, Facts, FilesInv, NEW p \in FProcs, PipeAlloc(p), filealloc # 0
  PROVE  FilesInv'
<1>1. PICK f \in Entries : f = filealloc /\ ftable[f].ref = 0
  BY Zenon, FileallocFacts
<1>2. /\ p \in alive /\ fop[p].pc \in {"user", "pipe"} /\ fop[p].close = <<>>
      /\ fop[p].owed = 0 /\ fop[p].child = 0 /\ fop[p].obj = FreeFile
  <2>1. CASE Called(p)
    BY Zenon, <2>1, AtRest DEF Called
  <2>2. CASE fop[p].pc = "pipe"
    BY Zenon, <2>2, HoldsFacts
  <2>3. QED
    BY Zenon, <2>1, <2>2 DEF PipeAlloc
<1>3. PICK s \in {<<>>} \cup Singles : s = fop[p].held
  <2>1. CASE fop[p].pc = "user"
    BY ZenonT(60), <2>1, AtRest
  <2>2. CASE fop[p].pc = "pipe"
    <3>1. fop[p].held \in Singles \cup Pairs
      BY Zenon, <2>2, At DEF CallOK
    <3>2. \A a, b : Len(<<a, b>>) = 2
      BY Zenon
    <3>3. fop[p].held \notin Pairs
      <4>1. SUFFICES ASSUME fop[p].held \in Pairs PROVE FALSE
        BY Zenon
      <4>2. PICK a \in Entries, b \in Entries : fop[p].held = <<a, b>>
        BY <4>1 DEF Pairs
      <4>3. Len(fop[p].held) < 2
        BY Zenon DEF PipeAlloc
      <4>4. QED
        BY SMTT(60), <3>2, <4>2, <4>3
    <3>4. QED
      BY ZenonT(60), <3>1, <3>3
  <2>3. QED
    BY ZenonT(60), <1>2, <2>1, <2>2
<1>4. PICK h \in Few : h = Append(s, f) /\ h \in Singles \cup Pairs
  BY Zenon, HeldMore
<1>5. /\ \A g : Count(h, g) = Count(s, g) + Is(f, g)
      /\ \A g : InSeq(h, g) => g = f \/ InSeq(s, g)
  BY Zenon, <1>4, HeldMore
<1>6. PICK r : r = [fop[p] EXCEPT !.pc = "pipe", !.held = h]
  BY Zenon
<1>7. /\ r \in FileOps /\ r.held = h /\ r.close = <<>> /\ r.owed = 0
      /\ r.obj = FreeFile /\ r.child = 0 /\ r.pc = "pipe"
  BY ZenonT(60), <1>2, <1>6, At DEF FileOps, FilePCs
<1>8. CallOK(r)
  BY Zenon, <1>4, <1>7 DEF CallOK
<1>9. /\ ftable' = [ftable EXCEPT ![f].ref = 1] /\ fop' = [fop EXCEPT ![p] = r]
      /\ ofile' = ofile /\ alive' = alive /\ pipe' = pipe /\ iref' = iref
  <2>1. fop' = [fop EXCEPT ![p] = [fop[p] EXCEPT !.pc = "pipe",
                                                 !.held = Append(fop[p].held, f)]]
    BY Zenon, <1>1 DEF PipeAlloc, FGo
  <2>2. QED
    BY ZenonT(60), <1>1, <1>3, <1>4, <1>6, <2>1 DEF PipeAlloc, Take
<1>10. ftable[f] = FreeFile /\ [ftable[f] EXCEPT !.ref = 1] = NewFile
  <2>1. ftable[f] = FreeFile
    BY Zenon, <1>1 DEF FilesInv, OpenIsTyped
  <2>2. QED
    BY Zenon, <2>1 DEF NewFile
<1>11. /\ ftable' \in [Entries -> FileRecs] /\ ftable'[f] = NewFile
       /\ \A g \in Entries \ {f} : ftable'[g] = ftable[g]
  <2>1. /\ [ftable[f] EXCEPT !.ref = 1] \in FileRecs
        /\ [ftable EXCEPT ![f].ref = 1]
             = [ftable EXCEPT ![f] = [ftable[f] EXCEPT !.ref = 1]]
    BY EntryFields
  <2>2. NewFile \in FileRecs /\ ftable' = [ftable EXCEPT ![f] = NewFile]
    BY <1>9, <1>10, <2>1, Zenon
  <2>3. QED
    BY Zenon, <2>2, EntrySet
<1>12. PICK of \in [Fds -> 0..NFILE] : of = ofile[p]
  BY Zenon, At
<1>13. ofile' = [ofile EXCEPT ![p] = of]
  BY Zenon, <1>9, <1>12 DEF FilesInv, FilesTypeOK
<1>14. GoesOn(p, r, of)
  BY Zenon, <1>2 DEF GoesOn
<1>15. MayAll(p)
  <2>1. MayChange(ofile[p], fop[p], f, ftable[f], ftable'[f])
    BY ZenonT(60), <1>1, <1>10, <1>11 DEF MayChange, NewFile, FreeFile
  <2>2. \A g \in Entries \ {f} : MayChange(ofile[p], fop[p], g, ftable[g], ftable'[g])
    BY Zenon, <1>11 DEF MayChange
  <2>3. QED
    BY ZenonT(60), <2>1, <2>2 DEF MayAll
<1>16. OwnOK(ftable', of, r)
  <2>1. ASSUME NEW g \in Entries, InSeq(r.held, g) PROVE ftable'[g] = NewFile
    <3>1. CASE g = f
      BY ZenonT(60), <1>11, <3>1
    <3>2. CASE g # f
      <4>1. InSeq(fop[p].held, g)
        BY ZenonT(60), <1>3, <1>5, <1>7, <2>1, <3>2
      <4>2. ftable[g] = NewFile
        BY Zenon, <4>1 DEF FilesInv, HeldInv
      <4>3. QED
        BY ZenonT(60), <1>11, <3>2, <4>2
    <3>3. QED
      BY ZenonT(60), <3>1, <3>2
  <2>2. OwedOK(of, r)
    BY Zenon, <1>7 DEF OwedOK
  <2>3. \A g \in Entries : ftable'[g].type \in {ftable[g].type, "FD_PIPE", "FD_INODE"}
    BY <1>10, <1>11 DEF NewFile, FreeFile
  <2>4. \A d \in Fds : of[d] # 0 => ftable'[of[d]].type # "FD_NONE"
    BY ZenonT(60), <1>12, <2>3, StillTyped
  <2>5. QED
    BY ZenonT(60), <2>1, <2>2, <2>4 DEF OwnOK
<1>17. Moves(p, of, r)
  <2>1. SUFFICES ASSUME NEW g \in Entries
                 PROVE  ftable'[g].ref = ftable[g].ref + Uses(of, r, g)
                                                       - Uses(ofile[p], fop[p], g)
    BY Zenon DEF Moves
  <2>2. s \in Few
    BY Zenon DEF Few
  <2>3. Count(of, g) \in Nat /\ Count(s, g) \in Nat /\ Is(f, g) \in Nat
    BY ZenonT(60), <2>2, CountNamed, SeqCount DEF Is
  <2>4. g # 0 /\ ftable[g].ref \in Nat /\ Count(<<>>, g) = 0
    BY RefFacts, CountFew DEF Entries, FilesSane
  <2>5. Uses(of, r, g) = Count(of, g) + Count(h, g) + 0 - 0
    BY Zenon, <1>7, <2>4, UsesSum DEF Is
  <2>6. Uses(ofile[p], fop[p], g) = Count(of, g) + Count(s, g) + 0 - 0
    BY ZenonT(60), <1>2, <1>3, <1>12, <2>4, UsesSum DEF Is
  <2>7. Count(h, g) = Count(s, g) + Is(f, g)
    BY Zenon, <1>5
  <2>8. ftable'[g].ref = ftable[g].ref + Is(f, g)
    BY SMTT(60), <1>1, <1>11, <2>4 DEF Is, NewFile, FreeFile
  <2>9. QED
    BY SMTT(60), <2>3, <2>4, <2>5, <2>6, <2>7, <2>8
<1>18. ObjectsHeld'
  <2>1. fop'[p] = r /\ \A o \in FProcs \ {p} : fop'[o] = fop[o]
    BY Zenon, <1>9, CallSet
  <2>2. fop'[p].obj = fop[p].obj /\ (fop'[p].pc = "open" <=> fop[p].pc = "open")
    BY Zenon, <1>2, <1>7, <2>1
  <2>3. \A g \in Entries : SameKind(ftable'[g], ftable[g])
    BY SMTT(60), <1>10, <1>11 DEF SameKind, NewFile, FreeFile
  <2>4. QED
    BY ZenonT(60), <1>9, <2>1, <2>2, <2>3, ObjectsKept
<1>19. /\ iref' \in Int
       /\ pipe' \in [1..NPIPE -> [readopen : BOOLEAN, writeopen : BOOLEAN]]
  BY Zenon, <1>9 DEF FilesInv, FilesTypeOK
<1>20. QED
  BY ZenonT(60), <1>2, <1>7, <1>8, <1>9, <1>11, <1>13, <1>14, <1>15, <1>16, <1>17, <1>18, <1>19,
     OwnCall

(* pipealloc() takes an entry, or gives back the one it has.                *)
LEMMA PipeAllocKeeps ==
  ASSUME FilesSane, Facts, FilesInv, NEW p \in FProcs, PipeAlloc(p)
  PROVE  FilesInv'
<1>1. CASE filealloc # 0
  BY Zenon, <1>1, PipeTakeKeeps
<1>2. CASE filealloc = 0
  <2>1. fop[p].pc = "pipe"
    BY Zenon, <1>2 DEF PipeAlloc, Called
  <2>2. /\ fop' = [fop EXCEPT ![p] = Close(p, fop[p].held)] /\ ftable' = ftable
        /\ ofile' = ofile /\ alive' = alive /\ pipe' = pipe /\ iref' = iref
    BY Zenon, <1>2 DEF PipeAlloc, FGo
  <2>3. iref' = iref - Is(fop[p].pc, "open")
    BY <2>1, <2>2 DEF Is, FilesInv, FilesTypeOK
  <2>4. QED
    BY Zenon, <2>1, <2>2, <2>3, GiveUpKeeps
<1>3. QED
  BY Zenon, <1>1, <1>2

(* The entries a, b of pipe() become the ends of the pipe k, and p goes on  *)
(* with descriptors of and in r.                                            *)
PipeMade(p, a, b, k, of, r) ==
  /\ fop[p].pc = "pipe" /\ fop[p].held = <<a, b>> /\ pipe[k] = NoPipe
  /\ pipe' = [pipe EXCEPT ![k] = [readopen |-> TRUE, writeopen |-> TRUE]]
  /\ ftable' = [ftable EXCEPT ![a].type = "FD_PIPE", ![a].pipe = k,
                  ![b].type = "FD_PIPE", ![b].pipe = k, ![b].writable = TRUE]
  /\ ofile' = [ofile EXCEPT ![p] = of] /\ fop' = [fop EXCEPT ![p] = r]
  /\ alive' = alive /\ iref' = iref
  /\ CallOK(r) /\ r.held = <<>> /\ r.owed = 0 /\ r.obj = FreeFile /\ r.child = 0
  /\ r.pc \in {"user", "exit", "close"}
  /\ \A d \in Fds : of[d] \in {ofile[p][d], a, b}
  /\ \A g \in Entries : Count(of, g) + Count(r.close, g)
                          = Count(ofile[p], g) + Is(a, g) + Is(b, g)

IsEnd(e, k, w) ==
  e \in FileRecs /\ e.ref = 1 /\ e.type = "FD_PIPE" /\ e.pipe = k /\ e.writable = w

(* The two entries afterwards.                                              *)
LEMMA PipeEntries ==
  ASSUME FilesSane, Facts, FilesInv, NEW p \in FProcs, NEW a \in Entries, NEW b \in Entries,
         NEW k \in 1..NPIPE, NEW of, NEW r, PipeMade(p, a, b, k, of, r)
  PROVE  /\ a # b /\ ftable[a] = NewFile /\ ftable[b] = NewFile
         /\ ftable' \in [Entries -> FileRecs]
         /\ IsEnd(ftable'[a], k, FALSE) /\ IsEnd(ftable'[b], k, TRUE)
         /\ \A g \in Entries \ {a, b} : ftable'[g] = ftable[g]
<1>1. InSeq(fop[p].held, a) /\ InSeq(fop[p].held, b)
  BY SMTT(60) DEF PipeMade, InSeq
<1>2. ftable[a] = NewFile /\ ftable[b] = NewFile
  BY Zenon, <1>1 DEF FilesInv, HeldInv
<1>3. a # b
  <2>1. SUFFICES ASSUME a = b PROVE FALSE
    BY Zenon
  <2>2. ftable[a].ref = 1
    BY Zenon, <1>2 DEF NewFile, FreeFile
  <2>3. Count(fop[p].held, a) = Is(a, a) + Is(b, a)
    <3>1. fop[p].held = <<a, b>>
      BY Zenon DEF PipeMade
    <3>2. QED
      BY Zenon, <3>1, CountFew
  <2>4. Is(a, a) + Is(b, a) = 2
    BY <2>1 DEF Is
  <2>5. fop[p].owed = 0 /\ fop[p].close = <<>>
    BY Zenon, HoldsFacts DEF PipeMade
  <2>6. a # 0 /\ Count(<<>>, a) = 0 /\ Count(ofile[p], a) \in Nat
    BY SMTT(60), At, CountFew, CountNamed DEF Entries, FilesSane
  <2>7. Uses(ofile[p], fop[p], a) = Count(ofile[p], a) + 2 + 0 - 0
    BY SMTT(60), <2>3, <2>4, <2>5, <2>6, UsesSum DEF Is
  <2>8. ftable[a].ref >= Uses(ofile[p], fop[p], a)
    BY Zenon, RefFacts
  <2>9. QED
    BY SMTT(60), <2>2, <2>6, <2>7, <2>8
<1>4. PICK T \in [Entries -> FileRecs] : T = ftable
  BY Zenon DEF FilesInv, FilesTypeOK
<1>5. k \in Nat
  OBVIOUS
<1>6. PICK x : x = [T[a] EXCEPT !.type = "FD_PIPE", !.pipe = k]
  BY Zenon
<1>7. IsEnd(x, k, FALSE)
  <2>1. T[a] \in FileRecs /\ T[a].ref = 1
    BY Zenon, <1>2, <1>4 DEF NewFile, FreeFile
  <2>2. T[a].writable = FALSE
    BY Zenon, <1>2, <1>4 DEF NewFile, FreeFile
  <2>3. k \in 0..NPIPE
    BY DEF FilesSane
  <2>4. QED
    BY ZenonT(60), <1>6, <2>1, <2>2, <2>3 DEF IsEnd, FileRecs
<1>8. PICK y : y = [T[b] EXCEPT !.type = "FD_PIPE", !.pipe = k, !.writable = TRUE]
  BY Zenon
<1>9. IsEnd(y, k, TRUE)
  <2>1. T[b] \in FileRecs /\ T[b].ref = 1
    BY Zenon, <1>2, <1>4 DEF NewFile, FreeFile
  <2>2. k \in 0..NPIPE
    BY DEF FilesSane
  <2>3. QED
    BY Zenon, <1>8, <2>1, <2>2 DEF IsEnd, FileRecs
<1>10. ftable' = [[T EXCEPT ![a] = x] EXCEPT ![b] = y]
  <2>1. [T EXCEPT ![a].type = "FD_PIPE", ![a].pipe = k,
           ![b].type = "FD_PIPE", ![b].pipe = k, ![b].writable = TRUE]
          = [[T EXCEPT ![a] = [T[a] EXCEPT !.type = "FD_PIPE", !.pipe = k]]
               EXCEPT ![b] = [T[b] EXCEPT !.type = "FD_PIPE", !.pipe = k, !.writable = TRUE]]
    BY Zenon, <1>3
  <2>2. QED
    BY ZenonT(60), <1>4, <1>6, <1>8, <2>1 DEF PipeMade
<1>11. x \in FileRecs /\ y \in FileRecs
  BY ZenonT(60), <1>7, <1>9 DEF IsEnd
<1>12. /\ ftable' \in [Entries -> FileRecs] /\ ftable'[a] = x /\ ftable'[b] = y
       /\ \A g \in Entries \ {a, b} : ftable'[g] = ftable[g]
  BY ZenonT(60), <1>3, <1>4, <1>10, <1>11
<1>13. QED
  BY ZenonT(60), <1>2, <1>3, <1>7, <1>9, <1>12

(* No call holds fewer than none of the ends.                               *)
LEMMA CallEndsNat ==
  ASSUME FilesSane, Facts, NEW k, NEW w
  PROVE  CallEnds(fop, k, w) \in Nat
<1>1. Cardinality({x \in FProcs : Holds(fop[x].obj, k, w)}) \in Nat
  BY ZenonT(60) DEF FilesSane, Facts, Parts, Sized
<1>2. QED
  BY Zenon, <1>1 DEF CallEnds

(* ... and their objects: the pipe k had no ends.                           *)
LEMMA PipeObjects ==
  ASSUME FilesSane, Facts, FilesInv, NEW p \in FProcs, NEW a \in Entries, NEW b \in Entries,
         NEW k \in 1..NPIPE, NEW of, NEW r, PipeMade(p, a, b, k, of, r)
  PROVE  ObjectsHeld'
<1>1. /\ a # b /\ ftable[a] = NewFile /\ ftable[b] = NewFile
      /\ IsEnd(ftable'[a], k, FALSE) /\ IsEnd(ftable'[b], k, TRUE)
      /\ \A g \in Entries \ {a, b} : ftable'[g] = ftable[g]
  BY Zenon, PipeEntries
<1>2. /\ fop' = [fop EXCEPT ![p] = r] /\ r.obj = FreeFile /\ r.pc # "open"
      /\ fop[p].pc # "open" /\ iref' = iref
      /\ pipe' = [pipe EXCEPT ![k] = [readopen |-> TRUE, writeopen |-> TRUE]]
      /\ pipe[k] = NoPipe
  BY Zenon DEF PipeMade
<1>3. fop[p].obj = FreeFile
  BY Zenon, HoldsFacts DEF PipeMade
<1>4. fop'[p] = r /\ \A x \in FProcs \ {p} : fop'[x] = fop[x]
  BY ZenonT(60), <1>2, CallSet
<1>5. /\ CallInodes(fop') = CallInodes(fop)
      /\ \A j, w : CallEnds(fop', j, w) = CallEnds(fop, j, w)
      /\ Opening(fop') = Opening(fop) - One(fop[p].pc = "open") + One(fop'[p].pc = "open")
  BY ZenonT(60), <1>2, <1>3, <1>4, CallsKept
<1>6. PICK T : T = ftable
  BY Zenon
<1>7. PICK V : V = ftable'
  BY Zenon
<1>8. PICK U : U = [g \in Entries |-> IF g = a THEN V[a] ELSE T[g]]
  BY Zenon
<1>9. EntryDelta(T, U, a)
  <2>1. \A g \in Entries \ {a} : SameKind(U[g], T[g])
    BY Zenon, <1>8 DEF SameKind
  <2>2. QED
    BY ZenonT(60), <2>1, EntryChanges
<1>10. EntryDelta(U, V, b)
  <2>1. \A g \in Entries \ {b} : SameKind(V[g], U[g])
    BY ZenonT(60), <1>1, <1>6, <1>7, <1>8 DEF SameKind
  <2>2. QED
    BY Zenon, <2>1, EntryChanges
<1>11. /\ T[a].type = "FD_NONE" /\ U[b].type = "FD_NONE"
       /\ U[a].type = "FD_PIPE" /\ V[b].type = "FD_PIPE" /\ U[a].pipe = k /\ V[b].pipe = k
       /\ U[a] = V[a] /\ IsEnd(U[a], k, FALSE) /\ IsEnd(V[b], k, TRUE)
  <2>1. T[a].type = "FD_NONE" /\ T[b].type = "FD_NONE"
    BY ZenonT(60), <1>1, <1>6 DEF NewFile, FreeFile
  <2>2. U[a] = V[a] /\ U[b] = T[b]
    BY ZenonT(60), <1>1, <1>8
  <2>3. IsEnd(U[a], k, FALSE) /\ IsEnd(V[b], k, TRUE)
    BY ZenonT(60), <1>1, <1>7, <2>2
  <2>4. QED
    BY ZenonT(60), <2>1, <2>2, <2>3 DEF IsEnd
<1>12. InodesOK(ftable', fop', iref')
  <2>1. EntryInodes(U) = EntryInodes(T) /\ EntryInodes(T) \in Nat
    BY SMTT(60), <1>9, <1>11 DEF EntryDelta, One
  <2>2. EntryInodes(V) = EntryInodes(U)
    BY SMTT(60), <1>10, <1>11, <2>1 DEF EntryDelta, One
  <2>3. Opening(fop') = Opening(fop) - 0 + 0
    BY ZenonT(60), <1>2, <1>4, <1>5 DEF One
  <2>4. EntryInodes(ftable') = EntryInodes(ftable)
    BY ZenonT(60), <1>6, <1>7, <2>1, <2>2
  <2>5. QED
    BY SMTT(60), <1>2, <1>5, <2>3, <2>4, Numbers DEF InodesOK
<1>13. ASSUME NEW j, NEW w
       PROVE  /\ EntryEnds(T, j, w) \in Nat
              /\ EntryEnds(V, j, w) = EntryEnds(T, j, w) + One(Holds(U[a], j, w))
                                                         + One(Holds(V[b], j, w))
  <2>1. ~Holds(T[a], j, w) /\ ~Holds(U[b], j, w)
    BY Zenon, <1>11 DEF Holds
  <2>2. One(Holds(T[a], j, w)) = 0 /\ One(Holds(U[b], j, w)) = 0
    BY Zenon, <2>1 DEF One
  <2>3. One(Holds(U[a], j, w)) \in Nat /\ One(Holds(V[b], j, w)) \in Nat
    BY Zenon DEF One
  <2>4. /\ EntryEnds(T, j, w) \in Nat /\ EntryEnds(U, j, w) \in Nat
        /\ EntryEnds(U, j, w) = EntryEnds(T, j, w) - One(Holds(T[a], j, w))
                                                   + One(Holds(U[a], j, w))
    BY <1>9, Zenon DEF EntryDelta
  <2>5. EntryEnds(V, j, w) = EntryEnds(U, j, w) - One(Holds(U[b], j, w))
                                                + One(Holds(V[b], j, w))
    BY <1>10, Zenon DEF EntryDelta
  <2>6. QED
    BY SMTT(60), <2>2, <2>3, <2>4, <2>5
<1>14. ASSUME NEW j \in DOMAIN pipe', NEW w \in BOOLEAN
       PROVE  EntryEnds(V, j, w) + CallEnds(fop, j, w) = One(Open(pipe', j, w))
  <2>1. j \in DOMAIN pipe
    BY Zenon, <1>2
  <2>2. EndsOK(ftable, fop, pipe, j)
    BY Zenon, <2>1, Objects DEF FilesInv
  <2>3. EntryEnds(T, j, w) + CallEnds(fop, j, w) = One(Open(pipe, j, w))
    BY ZenonT(60), <1>6, <2>2, EndsAre
  <2>4. CASE j # k
    <3>1. ~Holds(U[a], j, w) /\ ~Holds(V[b], j, w)
      BY Zenon, <1>11, <2>4 DEF Holds
    <3>2. One(Holds(U[a], j, w)) = 0 /\ One(Holds(V[b], j, w)) = 0
      BY ZenonT(60), <3>1 DEF One
    <3>3. EntryEnds(V, j, w) = EntryEnds(T, j, w)
      BY <1>13, <3>2
    <3>4. pipe'[j] = pipe[j]
      BY ZenonT(60), <1>2, <2>1, <2>4 DEF FilesInv, FilesTypeOK
    <3>5. Open(pipe', j, w) = Open(pipe, j, w)
      BY Zenon, <3>4 DEF Open
    <3>6. QED
      BY ZenonT(60), <2>3, <3>3, <3>5
  <2>5. CASE j = k
    <3>1. pipe'[k] = [readopen |-> TRUE, writeopen |-> TRUE]
      BY Zenon, <1>2 DEF FilesInv, FilesTypeOK
    <3>2. ~Open(pipe, k, w) /\ Open(pipe', k, w)
      <4>1. ~Open(pipe, k, w)
        BY SMTT(60), <1>2 DEF Open, NoPipe
      <4>2. Open(pipe', k, w)
        BY <3>1 DEF Open
      <4>3. QED
        BY ZenonT(60), <4>1, <4>2
    <3>3. One(Open(pipe, k, w)) = 0 /\ One(Open(pipe', k, w)) = 1
      BY Zenon, <3>2 DEF One
    <3>4. CASE w = TRUE
      <4>1. Holds(V[b], k, w) /\ ~Holds(U[a], k, w)
        BY ZenonT(60), <1>11, <3>4 DEF Holds, IsEnd
      <4>2. One(Holds(V[b], k, w)) = 1 /\ One(Holds(U[a], k, w)) = 0
        BY ZenonT(60), <4>1 DEF One
      <4>3. EntryEnds(V, k, w) = EntryEnds(T, k, w) + 1 /\ EntryEnds(T, k, w) \in Nat
        BY SMTT(60), <1>13, <4>2
      <4>4. CallEnds(fop, k, w) \in Nat
        BY ZenonT(60), CallEndsNat
      <4>5. QED
        BY SMTT(60), <2>3, <2>5, <3>3, <4>3, <4>4
    <3>5. CASE w = FALSE
      <4>1. ~Holds(V[b], k, w) /\ Holds(U[a], k, w)
        BY Zenon, <1>11, <3>5 DEF Holds, IsEnd
      <4>2. One(Holds(V[b], k, w)) = 0 /\ One(Holds(U[a], k, w)) = 1
        BY ZenonT(60), <4>1 DEF One
      <4>3. EntryEnds(V, k, w) = EntryEnds(T, k, w) + 1 /\ EntryEnds(T, k, w) \in Nat
        BY SMTT(60), <1>13, <4>2
      <4>4. CallEnds(fop, k, w) \in Nat
        BY Zenon, CallEndsNat
      <4>5. QED
        BY <2>3, <2>5, <3>3, <4>3, <4>4
    <3>6. QED
      BY Zenon, <3>4, <3>5
  <2>6. QED
    BY ZenonT(60), <2>4, <2>5
<1>15. ASSUME NEW j \in DOMAIN pipe' PROVE EndsOK(ftable', fop', pipe', j)
  <2>1. PICK P : P = pipe'
    BY Zenon
  <2>2. PICK N : N = fop'
    BY Zenon
  <2>3. \A w \in BOOLEAN : EntryEnds(V, j, w) + CallEnds(N, j, w) = One(Open(P, j, w))
    BY ZenonT(60), <1>5, <1>14, <2>1, <2>2
  <2>4. EndsOK(V, N, P, j)
    BY Zenon, <2>3, EndsAre
  <2>5. QED
    BY ZenonT(60), <1>7, <2>1, <2>2, <2>4
<1>16. QED
  BY ZenonT(60), <1>12, <1>15, Objects

(* pipe() has its pipe, whether it then has descriptors or not.             *)
LEMMA PipeMadeKeeps ==
  ASSUME FilesSane, Facts, FilesInv, NEW p \in FProcs, NEW a \in Entries, NEW b \in Entries,
         NEW k \in 1..NPIPE, NEW of \in [Fds -> 0..NFILE], NEW r \in FileOps,
         PipeMade(p, a, b, k, of, r)
  PROVE  FilesInv'
<1>1. /\ a # b /\ ftable[a] = NewFile /\ ftable[b] = NewFile
      /\ ftable' \in [Entries -> FileRecs]
      /\ IsEnd(ftable'[a], k, FALSE) /\ IsEnd(ftable'[b], k, TRUE)
      /\ \A g \in Entries \ {a, b} : ftable'[g] = ftable[g]
  BY Zenon, PipeEntries
<1>2. /\ p \in alive /\ fop[p].close = <<>> /\ fop[p].owed = 0 /\ fop[p].child = 0
      /\ fop[p].held = <<a, b>>
  BY Zenon, HoldsFacts DEF PipeMade
<1>3. /\ ftable[a].ref = 1 /\ ftable[b].ref = 1
      /\ ftable'[a].ref = 1 /\ ftable'[b].ref = 1
      /\ ftable'[a].type = "FD_PIPE" /\ ftable'[b].type = "FD_PIPE"
  <2>1. ftable[a].ref = 1 /\ ftable[b].ref = 1
    BY Zenon, <1>1 DEF NewFile, FreeFile
  <2>2. QED
    BY ZenonT(60), <1>1, <2>1 DEF IsEnd
<1>4. GoesOn(p, r, of)
  BY Zenon, <1>2 DEF GoesOn
<1>5. MayAll(p)
  <2>1. Names(ofile[p], fop[p], a) /\ Names(ofile[p], fop[p], b)
    <3>1. InSeq(<<a, b>>, a) /\ InSeq(<<a, b>>, b)
      BY SMTT(60) DEF InSeq
    <3>2. QED
      BY ZenonT(60), <1>2, <3>1 DEF Names
  <2>2. /\ MayChange(ofile[p], fop[p], a, ftable[a], ftable'[a])
        /\ MayChange(ofile[p], fop[p], b, ftable[b], ftable'[b])
    BY <1>3, <2>1 DEF MayChange
  <2>3. \A g \in Entries \ {a, b} : MayChange(ofile[p], fop[p], g, ftable[g], ftable'[g])
    BY ZenonT(60), <1>1 DEF MayChange
  <2>4. QED
    BY ZenonT(60), <2>2, <2>3 DEF MayAll
<1>6. OwnOK(ftable', of, r)
  <2>1. \A g \in Entries : ~InSeq(r.held, g)
    BY DEF InSeq, PipeMade
  <2>2. OwedOK(of, r)
    BY Zenon DEF OwedOK, PipeMade
  <2>3. \A g \in Entries : ftable'[g].type \in {ftable[g].type, "FD_PIPE", "FD_INODE"}
    BY ZenonT(60), <1>1, <1>3
  <2>4. \A d \in Fds : ofile[p][d] # 0 => ftable'[ofile[p][d]].type # "FD_NONE"
    BY ZenonT(60), <2>3, StillTyped
  <2>5. \A d \in Fds : of[d] \in {ofile[p][d], a, b}
    BY Zenon DEF PipeMade
  <2>6. \A d \in Fds : of[d] # 0 => ftable'[of[d]].type # "FD_NONE"
    BY ZenonT(60), <1>3, <2>4, <2>5
  <2>7. QED
    BY ZenonT(60), <2>1, <2>2, <2>6 DEF OwnOK
<1>7. Moves(p, of, r)
  <2>1. SUFFICES ASSUME NEW g \in Entries
                 PROVE  ftable'[g].ref = ftable[g].ref + Uses(of, r, g)
                                                       - Uses(ofile[p], fop[p], g)
    BY ZenonT(60) DEF Moves
  <2>2. g # 0 /\ ftable[g].ref \in Nat
    BY RefFacts DEF Entries, FilesSane
  <2>3. ftable'[g].ref = ftable[g].ref
    BY Zenon, <1>1, <1>3
  <2>4. Uses(of, r, g) = Count(of, g) + Count(<<>>, g) + Count(r.close, g) - Is(0, g)
    BY Zenon, UsesSum DEF PipeMade
  <2>5. Uses(ofile[p], fop[p], g)
          = Count(ofile[p], g) + Count(<<a, b>>, g) + Count(<<>>, g) - Is(0, g)
    BY Zenon, <1>2, UsesSum
  <2>6. Count(<<>>, g) = 0 /\ Is(0, g) = 0 /\ Count(<<a, b>>, g) = Is(a, g) + Is(b, g)
    BY ZenonT(60), <2>2, CountFew DEF Is
  <2>7. Count(of, g) + Count(r.close, g) = Count(ofile[p], g) + Is(a, g) + Is(b, g)
    BY Zenon DEF PipeMade
  <2>8. /\ Count(of, g) \in Nat /\ Count(ofile[p], g) \in Nat /\ Count(r.close, g) \in Nat
        /\ Is(a, g) \in Nat /\ Is(b, g) \in Nat
    <3>1. r.close \in Few
      BY ZenonT(60) DEF FileOps
    <3>2. QED
      BY ZenonT(60), <3>1, At, CountNamed, SeqCount DEF Is
  <2>9. Uses(of, r, g) = Count(ofile[p], g) + Is(a, g) + Is(b, g)
    BY SMTT(60), <2>4, <2>6, <2>7, <2>8
  <2>10. Uses(ofile[p], fop[p], g) = Count(ofile[p], g) + Is(a, g) + Is(b, g)
    BY SMTT(60), <2>5, <2>6, <2>8
  <2>11. QED
    BY SMTT(60), <2>2, <2>3, <2>8, <2>9, <2>10
<1>8. ObjectsHeld'
  BY ZenonT(60), PipeObjects
<1>9. /\ iref' \in Int
      /\ pipe' \in [1..NPIPE -> [readopen : BOOLEAN, writeopen : BOOLEAN]]
  <2>1. pipe' = [pipe EXCEPT ![k] = [readopen |-> TRUE, writeopen |-> TRUE]] /\ iref' = iref
    BY Zenon DEF PipeMade
  <2>2. QED
    BY ZenonT(60), <2>1 DEF FilesInv, FilesTypeOK
<1>10. /\ fop' = [fop EXCEPT ![p] = r] /\ ofile' = [ofile EXCEPT ![p] = of]
       /\ alive' = alive /\ CallOK(r) /\ r.child = 0
  BY Zenon DEF PipeMade
<1>11. QED
  BY ZenonT(60), <1>1, <1>2, <1>4, <1>5, <1>6, <1>7, <1>8, <1>9, <1>10, OwnCall

(* sys_pipe() gives both entries descriptors, or gives all of it back.      *)
LEMMA PipeFdsKeeps ==
  ASSUME FilesSane, Facts, FilesInv, NEW p \in FProcs, PipeFds(p)
  PROVE  FilesInv'
<1> DEFINE free == {j \in DOMAIN pipe : pipe[j] = NoPipe}
<1>1. fop[p].pc = "pipe" /\ Len(fop[p].held) = 2 /\ alive' = alive /\ iref' = iref
  BY Zenon DEF PipeFds
<1>2. PICK a \in Entries, b \in Entries : fop[p].held = <<a, b>>
  <2>1. fop[p].held \in Singles \cup Pairs
    BY ZenonT(60), <1>1, At DEF CallOK
  <2>2. fop[p].held \notin Singles
    <3>1. \A x : Len(<<x>>) = 1
      BY Zenon
    <3>2. SUFFICES ASSUME fop[p].held \in Singles PROVE FALSE
      BY Zenon
    <3>3. PICK x \in Entries : fop[p].held = <<x>>
      BY Zenon, <3>2 DEF Singles
    <3>4. QED
      BY <1>1, <3>1, <3>3
  <2>3. QED
    BY <2>1, <2>2 DEF Pairs
<1>3. fop[p].held[1] = a /\ fop[p].held[2] = b
  BY <1>2
<1>4. CASE free = {}
  <2>1. /\ fop' = [fop EXCEPT ![p] = Close(p, fop[p].held)]
        /\ ftable' = ftable /\ ofile' = ofile /\ pipe' = pipe
    BY Zenon, <1>4 DEF PipeFds, FGo
  <2>2. iref' = iref - Is(fop[p].pc, "open")
    BY <1>1 DEF Is, FilesInv, FilesTypeOK
  <2>3. QED
    BY ZenonT(60), <1>1, <2>1, <2>2, GiveUpKeeps
<1>5. CASE free # {}
  <2>1. DOMAIN pipe = 1..NPIPE
    BY Zenon DEF FilesInv, FilesTypeOK
  <2>2. free \in SUBSET Nat
    BY <2>1 DEF FilesSane
  <2>3. Min(free) \in free
    <3> HIDE DEF free
    <3>1. QED
      BY Zenon, <1>5, <2>2, MinIn
  <2>4. PICK k \in 1..NPIPE : k = Min(free) /\ pipe[k] = NoPipe
    BY Zenon, <2>1, <2>3
  <2>5. PICK d : d = fdalloc(ofile[p])
    BY Zenon
  <2>6. PICK m : m = IF d < NOFILE THEN [ofile[p] EXCEPT ![d] = a] ELSE ofile[p]
    BY Zenon
  <2>7. PICK e : e = fdalloc(m)
    BY Zenon
  <2>8. /\ pipe' = [pipe EXCEPT ![k] = [readopen |-> TRUE, writeopen |-> TRUE]]
        /\ ftable' = [ftable EXCEPT ![a].type = "FD_PIPE", ![a].pipe = k,
                        ![b].type = "FD_PIPE", ![b].pipe = k, ![b].writable = TRUE]
    BY ZenonT(60), <1>3, <1>5, <2>4 DEF PipeFds
  <2>9. /\ e < NOFILE => /\ ofile' = [ofile EXCEPT ![p] = [m EXCEPT ![e] = b]]
                         /\ fop' = [fop EXCEPT ![p] = Rest]
        /\ ~(e < NOFILE) => /\ ofile' = ofile
                            /\ fop' = [fop EXCEPT ![p] = Close(p, fop[p].held)]
    BY ZenonT(60), <1>3, <1>5, <2>5, <2>6, <2>7 DEF PipeFds, FGo
  <2>10. a \in 0..NFILE /\ b \in 0..NFILE /\ a # 0 /\ b # 0
    BY DEF Entries, FilesSane
  <2>11. CASE e < NOFILE
    <3>1. e \in Fds /\ m[e] = 0
      BY ZenonT(60), <2>7, <2>11, FdallocFacts
    <3>2. d < NOFILE
      BY ZenonT(60), <2>5, <2>6, <2>7, <2>11
    <3>3. d \in Fds /\ ofile[p][d] = 0
      BY ZenonT(60), <2>5, <3>2, FdallocFacts
    <3>4. ofile[p] \in [Fds -> 0..NFILE]
      BY ZenonT(60), At
    <3>5. m = [ofile[p] EXCEPT ![d] = a] /\ m \in [Fds -> 0..NFILE]
      BY ZenonT(60), <2>6, <2>10, <3>2, <3>3, <3>4
    <3>6. PICK of \in [Fds -> 0..NFILE] : of = [m EXCEPT ![e] = b]
      BY ZenonT(60), <2>10, <3>1, <3>5
    <3>7. PICK r \in FileOps : r = Rest /\ CallOK(r)
      BY ZenonT(60), RestFacts
    <3>8. /\ r.held = <<>> /\ r.close = <<>> /\ r.owed = 0 /\ r.obj = FreeFile
          /\ r.child = 0 /\ r.pc = "user"
      BY ZenonT(60), <3>7 DEF Rest
    <3>9. \A x \in Fds : of[x] \in {ofile[p][x], a, b}
      BY ZenonT(60), <3>3, <3>4, <3>5, <3>6
    <3>10. ASSUME NEW g \in Entries
           PROVE  Count(of, g) + Count(r.close, g) = Count(ofile[p], g) + Is(a, g) + Is(b, g)
      <4>1. /\ Count(ofile[p], g) \in Nat /\ Count(m, g) \in Nat
            /\ Count(m, g) = Count(ofile[p], g) - Is(ofile[p][d], g) + Is(a, g)
        <5>1. PICK o \in [Fds -> 0..NFILE] : o = ofile[p]
          BY ZenonT(60), <3>4
        <5>2. Put(o, m, d, a)
          BY ZenonT(60), <3>5, <5>1 DEF Put
        <5>3. d \in Fds /\ o \in [Fds -> 0..NFILE]
          BY Zenon, <3>3, <5>1
        <5>4. /\ Count(o, g) \in Nat /\ Count(m, g) \in Nat
              /\ Count(m, g) = Count(o, g) - Is(o[d], g) + Is(a, g)
          BY Zenon, <5>2, <5>3, CountAfter
        <5>5. QED
          BY ZenonT(60), <5>1, <5>4
      <4>2. /\ Count(of, g) \in Nat
            /\ Count(of, g) = Count(m, g) - Is(m[e], g) + Is(b, g)
        <5>1. PICK o \in [Fds -> 0..NFILE] : o = m
          BY Zenon, <3>5
        <5>2. Put(o, of, e, b)
          BY Zenon, <3>6, <5>1 DEF Put
        <5>3. e \in Fds /\ o \in [Fds -> 0..NFILE]
          BY Zenon, <3>1, <5>1
        <5>4. /\ Count(of, g) \in Nat
              /\ Count(of, g) = Count(o, g) - Is(o[e], g) + Is(b, g)
          BY Zenon, <5>2, <5>3, CountAfter
        <5>5. QED
          BY Zenon, <5>1, <5>4
      <4>3. Is(ofile[p][d], g) = 0 /\ Is(m[e], g) = 0
        BY <3>1, <3>3 DEF Is, Entries, FilesSane
      <4>4. Count(r.close, g) = 0
        BY Zenon, <3>8, CountFew
      <4>5. Is(a, g) \in Nat /\ Is(b, g) \in Nat
        BY Zenon DEF Is
      <4>6. QED
        BY SMTT(60), <4>1, <4>2, <4>3, <4>4, <4>5
    <3>11. ofile' = [ofile EXCEPT ![p] = of] /\ fop' = [fop EXCEPT ![p] = r]
      BY ZenonT(60), <2>9, <2>11, <3>6, <3>7
    <3>12. PipeMade(p, a, b, k, of, r)
      BY ZenonT(60), <1>1, <1>2, <2>4, <2>8, <3>7, <3>8, <3>9, <3>10, <3>11 DEF PipeMade
    <3>13. QED
      BY ZenonT(60), <3>12, PipeMadeKeeps
  <2>12. CASE ~(e < NOFILE)
    <3>1. PICK of \in [Fds -> 0..NFILE] : of = ofile[p]
      BY Zenon, At
    <3>2. PICK s \in Few : s = <<a, b>>
      BY Zenon, RestFacts
    <3>3. PICK r \in FileOps : r = Close(p, s) /\ CallOK(r)
      BY Zenon, CloseFacts
    <3>4. /\ r.held = <<>> /\ r.close = s /\ r.owed = 0 /\ r.obj = FreeFile /\ r.child = 0
          /\ r.pc \in {"user", "exit", "close"}
      BY ZenonT(60), <3>3, CloseFacts
    <3>5. ofile' = [ofile EXCEPT ![p] = of]
      BY ZenonT(60), <2>9, <2>12, <3>1 DEF FilesInv, FilesTypeOK
    <3>6. fop' = [fop EXCEPT ![p] = r]
      BY ZenonT(60), <1>2, <2>9, <2>12, <3>2, <3>3
    <3>7. ASSUME NEW g \in Entries
          PROVE  Count(of, g) + Count(r.close, g) = Count(ofile[p], g) + Is(a, g) + Is(b, g)
      <4>1. Count(r.close, g) = Is(a, g) + Is(b, g)
        BY ZenonT(60), <3>2, <3>4, CountFew
      <4>2. Count(of, g) \in Nat /\ Is(a, g) \in Nat /\ Is(b, g) \in Nat
        BY ZenonT(60), CountNamed DEF Is
      <4>3. QED
        BY SMTT(60), <3>1, <4>1, <4>2
    <3>8. PipeMade(p, a, b, k, of, r)
      BY ZenonT(60), <1>1, <1>2, <2>4, <2>8, <3>1, <3>3, <3>4, <3>5, <3>6, <3>7 DEF PipeMade
    <3>9. QED
      BY ZenonT(60), <3>8, PipeMadeKeeps
  <2>13. QED
    BY Zenon, <2>11, <2>12
<1>6. QED
  BY ZenonT(60), <1>4, <1>5

(* fork() has found its child: one that has no files.                       *)
LEMMA ForkStartKeeps ==
  ASSUME FilesSane, Facts, FilesInv, NEW p \in FProcs, NEW q \in FProcs, ForkStart(p, q)
  PROVE  FilesInv'
<1>1. PICK r : r = [Rest EXCEPT !.pc = "fork", !.child = q]
  BY Zenon
<1>2. /\ p \in alive /\ fop[p].pc = "user" /\ q \notin alive
      /\ fop' = [fop EXCEPT ![p] = r] /\ alive' = alive
      /\ ofile' = ofile /\ ftable' = ftable /\ pipe' = pipe /\ iref' = iref
  BY Zenon, <1>1 DEF ForkStart, Called, FGo
<1>3. fop[q].pc = "user" /\ \A o \in FProcs : fop[o].child # q
  BY Zenon DEF ForkStart
<1>4. /\ fop[p].held = <<>> /\ fop[p].close = <<>> /\ fop[p].owed = 0
      /\ fop[p].child = 0 /\ fop[p].obj = FreeFile
  BY ZenonT(60), <1>2, AtRest
<1>5. p # q /\ p # 0 /\ q # 0
  BY Zenon, <1>2 DEF FilesSane
<1>6. /\ r \in FileOps /\ r.held = <<>> /\ r.close = <<>> /\ r.owed = 0
      /\ r.obj = FreeFile /\ r.child = q /\ r.pc = "fork" /\ r.fd = 0
  BY ZenonT(60), <1>1, RestFacts DEF Rest, FileOps, FilePCs
<1>7. CallOK(r)
  BY ZenonT(60), <1>5, <1>6 DEF CallOK
<1>8. /\ \A o \in FProcs \ {p} : fop'[o] = fop[o]
      /\ fop'[p] = r /\ alive' \subseteq FProcs
  BY ZenonT(60), <1>2 DEF FilesInv, FilesTypeOK
<1>9. \A d \in Fds : ofile[q][d] = 0
  BY ZenonT(60), <1>2, <1>3 DEF FilesInv, ForkInv
<1>10. ForkInv'
  <2>1. ASSUME NEW o \in FProcs, fop'[o].child # 0
        PROVE  /\ fop'[o].child \notin alive' /\ fop'[fop'[o].child].pc = "user"
               /\ \A d \in Fds : d >= fop'[o].fd => ofile'[fop'[o].child][d] = 0
               /\ \A x \in FProcs : fop'[x].child = fop'[o].child => x = o
    <3>1. CASE o = p
      <4>1. fop'[o].child = q
        BY ZenonT(60), <1>6, <1>8, <3>1
      <4>2. q \notin alive' /\ fop'[q].pc = "user" /\ \A d \in Fds : ofile'[q][d] = 0
        BY ZenonT(60), <1>2, <1>3, <1>5, <1>8, <1>9
      <4>3. \A x \in FProcs : fop'[x].child = q => x = p
        BY ZenonT(60), <1>3, <1>8
      <4>4. QED
        BY ZenonT(60), <3>1, <4>1, <4>2, <4>3
    <3>2. CASE o # p
      <4>1. fop'[o] = fop[o]
        BY Zenon, <1>8, <3>2
      <4>2. /\ fop[o].child \notin alive /\ fop[fop[o].child].pc = "user"
            /\ \A d \in Fds : d >= fop[o].fd => ofile[fop[o].child][d] = 0
            /\ \A x \in FProcs : fop[x].child = fop[o].child => x = o
        BY ZenonT(60), <2>1, <4>1 DEF FilesInv, ForkInv
      <4>3. fop[o].child \in FProcs \cup {0} /\ fop[o].child # q
        BY ZenonT(60), <1>3, At DEF FileOps
      <4>4. fop[o].child \in FProcs \ {p}
        BY ZenonT(60), <1>2, <2>1, <4>1, <4>2, <4>3
      <4>5. \A x \in FProcs : fop'[x].child = fop[o].child => x = o
        BY ZenonT(60), <1>6, <1>8, <4>2, <4>3
      <4>6. QED
        BY SMTT(60), <1>2, <1>8, <4>1, <4>2, <4>4, <4>5
    <3>3. QED
      BY ZenonT(60), <3>1, <3>2
  <2>2. ASSUME NEW o \in FProcs, o \notin alive'
        PROVE  /\ fop'[o].pc \in {"user", "exit", "close", "object"}
               /\ fop'[o].pc = "user" /\ (\A x \in FProcs : fop'[x].child # o) =>
                    \A d \in Fds : ofile'[o][d] = 0
    <3>1. o \notin alive /\ fop'[o] = fop[o] /\ o # 0
      BY ZenonT(60), <1>2, <1>8, <2>2 DEF FilesSane
    <3>2. (\A x \in FProcs : fop'[x].child # o) => (\A x \in FProcs : fop[x].child # o)
      BY ZenonT(60), <1>4, <1>8, <3>1
    <3>3. QED
      BY ZenonT(60), <1>2, <3>1, <3>2 DEF FilesInv, ForkInv
  <2>3. QED
    BY ZenonT(60), <2>1, <2>2 DEF ForkInv
<1>11. QED
  BY ZenonT(60), <1>2, <1>4, <1>6, <1>7, <1>8, <1>10, MoveKeeps

(* What fork() knows of its child.                                          *)
LEMMA ChildFacts ==
  ASSUME FilesSane, Facts, FilesInv, NEW p \in FProcs, fop[p].pc = "fork", NEW c, c = fop[p].child
  PROVE  /\ c \in FProcs /\ c # p /\ c # 0 /\ c \notin alive /\ fop[c].pc = "user"
         /\ \A d \in Fds : d >= fop[p].fd => ofile[c][d] = 0
         /\ \A o \in FProcs : fop[o].child = c => o = p
         /\ p \in alive /\ fop[p].held = <<>> /\ fop[p].close = <<>> /\ fop[p].owed = 0
         /\ fop[p].obj = FreeFile /\ fop[p].fd \in 0..NOFILE
<1>1. p \in alive /\ fop[p].close = <<>> /\ fop[p].owed = 0 /\ fop[p].obj = FreeFile
  BY ZenonT(60), HoldsFacts
<1>2. fop[p] \in FileOps /\ fop[p].held = <<>> /\ c # 0
  BY ZenonT(60), At DEF CallOK
<1>3. c \in FProcs /\ fop[p].fd \in 0..NOFILE
  BY ZenonT(60), <1>2 DEF FileOps
<1>4. /\ c \notin alive /\ fop[c].pc = "user"
      /\ \A d \in Fds : d >= fop[p].fd => ofile[c][d] = 0
      /\ \A o \in FProcs : fop[o].child = c => o = p
  BY ZenonT(60), <1>2 DEF FilesInv, ForkInv
<1>5. QED
  BY ZenonT(60), <1>1, <1>2, <1>3, <1>4

(* fork() has copied every descriptor, and the child runs.                  *)
LEMMA ForkDoneKeeps ==
  ASSUME FilesSane, Facts, FilesInv, NEW p \in FProcs, ForkDup(p), fop[p].fd = NOFILE
  PROVE  FilesInv'
<1>1. PICK c : c = fop[p].child
  BY Zenon
<1>2. /\ fop[p].pc = "fork" /\ alive' = alive \cup {c} /\ fop' = [fop EXCEPT ![p] = Rest]
      /\ ofile' = ofile /\ ftable' = ftable /\ pipe' = pipe /\ iref' = iref
  BY Zenon, <1>1 DEF ForkDup, FGo
<1>3. /\ c \in FProcs /\ c # p /\ c # 0 /\ c \notin alive
      /\ \A o \in FProcs : fop[o].child = c => o = p
      /\ p \in alive /\ fop[p].held = <<>> /\ fop[p].close = <<>> /\ fop[p].owed = 0
      /\ fop[p].obj = FreeFile
  BY ZenonT(60), <1>1, <1>2, ChildFacts
<1>4. PICK r \in FileOps : r = Rest /\ CallOK(r)
  BY Zenon, RestFacts
<1>5. /\ r.held = <<>> /\ r.close = <<>> /\ r.owed = 0 /\ r.obj = FreeFile
      /\ r.child = 0 /\ r.pc = "user"
  BY Zenon, <1>4 DEF Rest
<1>6. /\ \A o \in FProcs \ {p} : fop'[o] = fop[o]
      /\ fop'[p] = r /\ alive' \subseteq FProcs
  BY ZenonT(60), <1>2, <1>3, <1>4 DEF FilesInv, FilesTypeOK
<1>7. ForkInv'
  <2>1. ASSUME NEW o \in FProcs, fop'[o].child # 0
        PROVE  /\ fop'[o].child \notin alive' /\ fop'[fop'[o].child].pc = "user"
               /\ \A d \in Fds : d >= fop'[o].fd => ofile'[fop'[o].child][d] = 0
               /\ \A x \in FProcs : fop'[x].child = fop'[o].child => x = o
    <3>1. o # p /\ fop'[o] = fop[o]
      BY Zenon, <1>5, <1>6, <2>1
    <3>2. /\ fop[o].child \notin alive /\ fop[fop[o].child].pc = "user"
          /\ \A d \in Fds : d >= fop[o].fd => ofile[fop[o].child][d] = 0
          /\ \A x \in FProcs : fop[x].child = fop[o].child => x = o
      BY ZenonT(60), <2>1, <3>1 DEF FilesInv, ForkInv
    <3>3. fop[o].child \in FProcs \cup {0} /\ fop[o].child # c
      BY ZenonT(60), <1>3, <3>1, At DEF FileOps
    <3>4. fop[o].child \in FProcs \ {p}
      BY ZenonT(60), <1>3, <2>1, <3>1, <3>2, <3>3
    <3>5. \A x \in FProcs : fop'[x].child = fop[o].child => x = o
      BY ZenonT(60), <1>5, <1>6, <2>1, <3>1, <3>2
    <3>6. QED
      BY SMTT(60), <1>2, <1>6, <3>1, <3>2, <3>3, <3>4, <3>5
  <2>2. ASSUME NEW o \in FProcs, o \notin alive'
        PROVE  /\ fop'[o].pc \in {"user", "exit", "close", "object"}
               /\ fop'[o].pc = "user" /\ (\A x \in FProcs : fop'[x].child # o) =>
                    \A d \in Fds : ofile'[o][d] = 0
    <3>1. o \notin alive /\ o # p /\ o # c /\ fop'[o] = fop[o]
      BY ZenonT(60), <1>2, <1>3, <1>6, <2>2
    <3>2. (\A x \in FProcs : fop'[x].child # o) => (\A x \in FProcs : fop[x].child # o)
      BY ZenonT(60), <1>1, <1>6, <3>1
    <3>3. QED
      BY ZenonT(60), <1>2, <3>1, <3>2 DEF FilesInv, ForkInv
  <2>3. QED
    BY ZenonT(60), <2>1, <2>2 DEF ForkInv
<1>8. fop' = [fop EXCEPT ![p] = r] /\ r.pc # "open" /\ fop[p].pc # "open"
      /\ r.close = fop[p].close
  BY ZenonT(60), <1>2, <1>3, <1>4, <1>5
<1>9. QED
  BY ZenonT(60), <1>2, <1>3, <1>4, <1>5, <1>6, <1>7, <1>8, MoveKeeps

(* fork() copies a descriptor, whose file counts the child too.             *)
LEMMA ForkCopyKeeps ==
  ASSUME FilesSane, Facts, FilesInv, NEW p \in FProcs, ForkDup(p), fop[p].fd # NOFILE
  PROVE  FilesInv'
<1>1. PICK c : c = fop[p].child
  BY Zenon
<1>2. PICK d : d = fop[p].fd
  BY Zenon
<1>3. fop[p].pc = "fork"
  BY ZenonT(60) DEF ForkDup
<1>4. /\ c \in FProcs /\ c # p /\ c # 0 /\ c \notin alive /\ fop[c].pc = "user"
      /\ \A e \in Fds : e >= d => ofile[c][e] = 0
      /\ \A o \in FProcs : fop[o].child = c => o = p
      /\ p \in alive /\ fop[p].held = <<>> /\ fop[p].close = <<>> /\ fop[p].owed = 0
      /\ fop[p].obj = FreeFile /\ d \in 0..NOFILE
  BY SMTT(60), <1>1, <1>2, <1>3, ChildFacts
<1>5. d \in Fds /\ d < NOFILE /\ d \in Nat
  BY <1>2, <1>4 DEF Fds, FilesSane
<1>6. PICK f \in 0..NFILE : f = ofile[p][d] /\ (f # 0 => f \in Entries)
  BY Zenon, <1>5, At
<1>7. PICK r : r = [fop[p] EXCEPT !.fd = d + 1]
  BY Zenon
<1>8. /\ fop' = [fop EXCEPT ![p] = r] /\ alive' = alive /\ pipe' = pipe /\ iref' = iref
      /\ ofile' = [ofile EXCEPT ![c][d] = f]
      /\ ftable' = IF f # 0 THEN filedup(f) ELSE ftable
  BY ZenonT(60), <1>1, <1>2, <1>5, <1>6, <1>7 DEF ForkDup, FGo
<1>9. /\ r \in FileOps /\ r.pc = "fork" /\ r.held = <<>> /\ r.close = <<>> /\ r.owed = 0
      /\ r.obj = FreeFile /\ r.child = c /\ r.fd = d + 1
  <2>1. fop[p] \in FileOps /\ d + 1 \in 0..NOFILE
    BY SMTT(60), <1>4, <1>5, At DEF FilesSane
  <2>2. QED
    BY ZenonT(60), <1>1, <1>3, <1>4, <1>7, <2>1 DEF FileOps
<1>10. CallOK(r)
  BY Zenon, <1>4, <1>9 DEF CallOK
<1>11. PICK of \in [Fds -> 0..NFILE] : FdPut(of, c, d, f)
  BY ZenonT(60), <1>4, <1>5, <1>8, FdSet
<1>12. /\ ofile' \in [FProcs -> [Fds -> 0..NFILE]] /\ ofile'[c] = of
       /\ \A o \in FProcs \ {c} : ofile'[o] = ofile[o]
       /\ of[d] = f /\ \A e \in Fds \ {d} : of[e] = ofile[c][e]
  BY Zenon, <1>11 DEF FdPut
<1>13. /\ ftable' \in [Entries -> FileRecs]
       /\ \A g \in Entries : /\ ftable'[g].ref = ftable[g].ref + Is(f, g)
                             /\ SameKind(ftable'[g], ftable[g])
                             /\ g # f => ftable'[g] = ftable[g]
  <2>1. CASE f # 0
    <3>1. ftable' = filedup(f) /\ f \in Entries
      BY ZenonT(60), <1>6, <1>8, <2>1
    <3>2. QED
      BY Zenon, <3>1, FiledupFacts
  <2>2. CASE f = 0
    <3>1. ftable' = ftable
      BY Zenon, <1>8, <2>2
    <3>2. ftable' \in [Entries -> FileRecs]
      BY ZenonT(60), <3>1 DEF FilesInv, FilesTypeOK
    <3>3. ASSUME NEW g \in Entries
          PROVE  /\ ftable'[g].ref = ftable[g].ref + Is(f, g)
                 /\ SameKind(ftable'[g], ftable[g]) /\ ftable'[g] = ftable[g]
      <4>1. Is(f, g) = 0 /\ ftable[g].ref \in Nat
        BY SMTT(60), <2>2, RefFacts DEF Is, Entries, FilesSane
      <4>2. QED
        BY SMTT(60), <3>1, <4>1 DEF SameKind
    <3>4. QED
      BY ZenonT(60), <3>2, <3>3
  <2>3. QED
    BY ZenonT(60), <2>1, <2>2
<1>14. /\ FilesTypeOK' /\ (\A o \in FProcs : CallOK(fop'[o]))
       /\ fop'[p] = r /\ \A o \in FProcs \ {p} : fop'[o] = fop[o]
  <2>1. /\ alive' \subseteq FProcs /\ iref' \in Int
        /\ pipe' \in [1..NPIPE -> [readopen : BOOLEAN, writeopen : BOOLEAN]]
    BY Zenon, <1>8 DEF FilesInv, FilesTypeOK
  <2>2. QED
    BY ZenonT(60), <1>8, <1>9, <1>10, <1>12, <1>13, <2>1, TypeKept
<1>15. ForkInv'
  <2>1. ASSUME NEW o \in FProcs, fop'[o].child # 0
        PROVE  /\ fop'[o].child \notin alive' /\ fop'[fop'[o].child].pc = "user"
               /\ \A e \in Fds : e >= fop'[o].fd => ofile'[fop'[o].child][e] = 0
               /\ \A x \in FProcs : fop'[x].child = fop'[o].child => x = o
    <3>1. \A x \in FProcs : fop'[x].child = fop[x].child
      BY ZenonT(60), <1>1, <1>9, <1>14
    <3>2. /\ fop[o].child \notin alive /\ fop[fop[o].child].pc = "user"
          /\ \A e \in Fds : e >= fop[o].fd => ofile[fop[o].child][e] = 0
          /\ \A x \in FProcs : fop[x].child = fop[o].child => x = o
      BY ZenonT(60), <2>1, <3>1 DEF FilesInv, ForkInv
    <3>3. fop[o].child \in FProcs \cup {0}
      BY Zenon, At DEF FileOps
    <3>4. fop[o].child \in FProcs \ {p}
      BY ZenonT(60), <1>4, <2>1, <3>1, <3>2, <3>3
    <3>5. \A e \in Fds : e >= fop'[o].fd => ofile'[fop[o].child][e] = 0
      <4>1. CASE o = p
        <5>1. fop'[o].fd = d + 1 /\ fop[o].child = c
          BY ZenonT(60), <1>1, <1>9, <1>14, <4>1
        <5>2. \A e \in Fds : e >= d + 1 => e # d /\ e >= d
          BY <1>5 DEF Fds, FilesSane
        <5>3. QED
          BY ZenonT(60), <1>4, <1>12, <5>1, <5>2
      <4>2. CASE o # p
        <5>1. fop'[o] = fop[o] /\ fop[o].child # c
          BY ZenonT(60), <1>4, <1>14, <4>2
        <5>2. ofile'[fop[o].child] = ofile[fop[o].child]
          BY ZenonT(60), <1>12, <3>4, <5>1
        <5>3. QED
          BY Zenon, <3>2, <5>1, <5>2
      <4>3. QED
        BY ZenonT(60), <4>1, <4>2
    <3>6. QED
      BY SMTT(60), <1>8, <1>14, <3>1, <3>2, <3>4, <3>5
  <2>2. ASSUME NEW o \in FProcs, o \notin alive'
        PROVE  /\ fop'[o].pc \in {"user", "exit", "close", "object"}
               /\ fop'[o].pc = "user" /\ (\A x \in FProcs : fop'[x].child # o) =>
                    \A e \in Fds : ofile'[o][e] = 0
    <3>1. o \notin alive /\ o # p /\ fop'[o] = fop[o]
      BY ZenonT(60), <1>4, <1>8, <1>14, <2>2
    <3>2. fop'[o].pc \in {"user", "exit", "close", "object"}
      BY ZenonT(60), <3>1 DEF FilesInv, ForkInv
    <3>3. ASSUME fop'[o].pc = "user", \A x \in FProcs : fop'[x].child # o
          PROVE  \A e \in Fds : ofile'[o][e] = 0
      <4>1. o # c
        BY ZenonT(60), <1>9, <1>14, <3>3
      <4>2. \A x \in FProcs : fop[x].child # o
        BY ZenonT(60), <1>1, <1>14, <3>3, <4>1
      <4>3. ofile'[o] = ofile[o]
        BY ZenonT(60), <1>12, <4>1
      <4>4. QED
        BY SMTT(60), <3>1, <3>3, <4>2, <4>3 DEF FilesInv, ForkInv
    <3>4. QED
      BY ZenonT(60), <3>2, <3>3
  <2>3. QED
    BY ZenonT(60), <2>1, <2>2 DEF ForkInv
<1>16. HeldInv' /\ OpenIsTyped'
  <2>1. ASSUME NEW g \in Entries
        PROVE  MayChange(ofile[p], fop[p], g, ftable[g], ftable'[g])
    <3>1. CASE g # f
      BY Zenon, <1>13, <3>1 DEF MayChange
    <3>2. CASE g = f
      <4>1. Names(ofile[p], fop[p], g)
        BY ZenonT(60), <1>5, <1>6, <3>2 DEF Names
      <4>2. ftable'[g].ref = ftable[g].ref + 1 /\ ftable[g].ref \in Nat
        BY ZenonT(60), <1>13, <3>2, RefFacts DEF Is
      <4>3. ftable'[g].ref # 0 /\ ftable'[g].type = ftable[g].type
        BY SMTT(60), <1>13, <4>2 DEF SameKind
      <4>4. QED
        BY ZenonT(60), <4>1, <4>3 DEF MayChange
    <3>3. QED
      BY Zenon, <3>1, <3>2
  <2>2. \A g \in Entries : ftable'[g].type \in {ftable[g].type, "FD_PIPE", "FD_INODE"}
    BY Zenon, <1>13 DEF SameKind
  <2>3. /\ \A e \in Fds : ofile[p][e] # 0 => ftable'[ofile[p][e]].type # "FD_NONE"
        /\ \A e \in Fds : ofile[c][e] # 0 => ftable'[ofile[c][e]].type # "FD_NONE"
    BY ZenonT(60), <1>4, <2>2, StillTyped
  <2>4. OwnOK(ftable', ofile'[p], fop'[p])
    <3>1. fop'[p] = r /\ ofile'[p] = ofile[p]
      BY ZenonT(60), <1>4, <1>12, <1>14
    <3>2. \A g \in Entries : ~InSeq(r.held, g)
      BY <1>9 DEF InSeq
    <3>3. OwedOK(ofile[p], r)
      BY Zenon, <1>9 DEF OwedOK
    <3>4. QED
      BY ZenonT(60), <2>3, <3>1, <3>2, <3>3 DEF OwnOK
  <2>5. OwnOK(ftable', ofile'[c], fop'[c])
    <3>1. /\ fop'[c] = fop[c] /\ ofile'[c] = of /\ fop[c].held = <<>> /\ fop[c].owed = 0
      BY ZenonT(60), <1>4, <1>12, <1>14, AtRest
    <3>2. \A g \in Entries : ~InSeq(fop[c].held, g)
      BY <3>1 DEF InSeq
    <3>3. OwedOK(of, fop[c])
      BY ZenonT(60), <3>1 DEF OwedOK
    <3>4. \A e \in Fds : of[e] # 0 => ftable'[of[e]].type # "FD_NONE"
      BY SMTT(60), <1>5, <1>6, <1>12, <2>3
    <3>5. QED
      BY ZenonT(60), <3>1, <3>2, <3>3, <3>4 DEF OwnOK
  <2>6. QED
    BY SMTT(60), <1>4, <1>12, <1>14, <2>1, <2>4, <2>5, OwnKept
<1>17. RefsCounted'
  <2>1. ASSUME NEW o \in FProcs \ {c}, NEW g \in Entries
        PROVE  Uses(ofile'[o], fop'[o], g) = Uses(ofile[o], fop[o], g)
    <3>1. ofile'[o] = ofile[o]
      BY Zenon, <1>12
    <3>2. /\ fop'[o].held = fop[o].held /\ fop'[o].close = fop[o].close
          /\ fop'[o].owed = fop[o].owed
      BY ZenonT(60), <1>4, <1>9, <1>14
    <3>3. QED
      BY ZenonT(60), <3>1, <3>2 DEF Uses
  <2>2. ASSUME NEW g \in Entries
        PROVE  ftable'[g].ref = ftable[g].ref + Uses(ofile'[c], fop'[c], g)
                                              - Uses(ofile[c], fop[c], g)
    <3>1. ofile'[c] = of /\ fop'[c] = fop[c] /\ fop[c].owed = 0 /\ fop[c] \in FileOps
      BY ZenonT(60), <1>4, <1>12, <1>14, AtRest, At
    <3>2. PICK n : n = Count(fop[c].held, g) + Count(fop[c].close, g)
      BY Zenon
    <3>3. /\ Uses(of, fop[c], g) = Count(of, g) + Count(fop[c].held, g) + Count(fop[c].close, g)
          /\ Count(of, g) \in Nat /\ Count(fop[c].held, g) \in Nat
          /\ Count(fop[c].close, g) \in Nat
      BY ZenonT(60), <3>1, UsesIs
    <3>4. /\ Uses(ofile[c], fop[c], g)
               = Count(ofile[c], g) + Count(fop[c].held, g) + Count(fop[c].close, g)
          /\ Count(ofile[c], g) \in Nat
      BY ZenonT(60), <1>4, <3>1, At, UsesIs
    <3>5. ofile[c][d] = 0 /\ g # 0
      BY SMTT(60), <1>4, <1>5 DEF Entries, FilesSane
    <3>6. Count(of, g) = Count(ofile[c], g) - Is(ofile[c][d], g) + Is(f, g)
      BY <1>11, Zenon DEF FdPut
    <3>7. Is(ofile[c][d], g) = 0 /\ Is(f, g) \in Nat
      BY Zenon, <3>5 DEF Is
    <3>8. ftable'[g].ref = ftable[g].ref + Is(f, g) /\ ftable[g].ref \in Nat
      BY ZenonT(60), <1>13, RefFacts
    <3>9. QED
      BY SMTT(60), <3>1, <3>3, <3>4, <3>6, <3>7, <3>8
  <2>3. QED
    BY ZenonT(60), <1>4, <1>14, <2>1, <2>2, CountKept
<1>18. ObjectsHeld'
  BY ZenonT(60), <1>3, <1>4, <1>8, <1>9, <1>13, <1>14, ObjectsKept
<1>19. QED
  BY ZenonT(60), <1>14, <1>15, <1>16, <1>17, <1>18, Together

(* fork() gives the child one more descriptor, or is done.                  *)
LEMMA ForkDupKeeps ==
  ASSUME FilesSane, Facts, FilesInv, NEW p \in FProcs, ForkDup(p)
  PROVE  FilesInv'
BY Zenon, ForkDoneKeeps, ForkCopyKeeps

(* The system starts with no file open.                                     *)
LEMMA FilesInitHolds ==
  ASSUME FilesSane, Facts, FilesInit
  PROVE  FilesInv
<1>1. /\ ftable = [f \in Entries |-> FreeFile] /\ ofile = [p \in FProcs |-> [fd \in Fds |-> 0]]
      /\ alive = {Min(FProcs)} /\ pipe = [k \in 1..NPIPE |-> NoPipe] /\ iref = 0
      /\ fop = [p \in FProcs |-> Rest]
  BY Zenon DEF FilesInit
<1>2. Rest \in FileOps /\ CallOK(Rest) /\ FreeFile \in FileRecs
  BY Zenon, RestFacts
<1>3. Min(FProcs) \in FProcs
  <2>1. FProcs \in SUBSET Nat /\ FProcs # {}
    BY Zenon DEF FilesSane
  <2>2. QED
    BY ZenonT(60), <2>1, MinIn
<1>4. FilesTypeOK
  <2>1. [fd \in Fds |-> 0] \in [Fds -> 0..NFILE]
    BY DEF FilesSane
  <2>2. NoPipe \in [readopen : BOOLEAN, writeopen : BOOLEAN]
    BY Zenon DEF NoPipe
  <2>3. QED
    BY SMTT(60), <1>1, <1>2, <1>3, <2>1, <2>2 DEF FilesTypeOK
<1>5. \A p \in FProcs : /\ fop[p] = Rest /\ CallOK(fop[p]) /\ fop[p].child = 0
                        /\ fop[p].pc = "user" /\ fop[p].held = <<>> /\ fop[p].close = <<>>
                        /\ fop[p].owed = 0 /\ fop[p].obj = FreeFile
  BY Zenon, <1>1, <1>2 DEF Rest
<1>6. \A p \in FProcs : \A d \in Fds : ofile[p][d] = 0
  BY Zenon, <1>1
<1>7. ForkInv
  BY ZenonT(60), <1>5, <1>6 DEF ForkInv
<1>8. HeldInv
  <2>1. \A p \in FProcs, f \in Entries : ~InSeq(fop[p].held, f)
    BY SMTT(60), <1>5 DEF InSeq
  <2>2. QED
    BY ZenonT(60), <1>5, <2>1 DEF HeldInv
<1>9. \A f \in Entries : /\ ftable[f] = FreeFile /\ ftable[f].ref = 0 /\ f # 0
                         /\ ftable[f].type = "FD_NONE"
  BY <1>1 DEF FreeFile, Entries, FilesSane
<1>10. RefsCounted
  <2>1. ASSUME NEW f \in Entries PROVE ftable[f].ref = Sum(Terms(ofile, fop, f), FProcs)
    <3>1. ASSUME NEW p \in FProcs PROVE Uses(ofile[p], fop[p], f) = 0
      <4>1. ofile[p] \in [Fds -> 0..NFILE] /\ \A d \in Fds : ofile[p][d] # f
        BY ZenonT(60), <1>4, <1>6, <1>9 DEF FilesTypeOK
      <4>2. Count(ofile[p], f) = 0
        BY ZenonT(60), <4>1, CountNamed
      <4>3. Count(<<>>, f) = 0 /\ fop[p].owed # f
        BY ZenonT(60), <1>5, <1>9, CountFew
      <4>4. QED
        BY SMTT(60), <1>5, <4>2, <4>3 DEF Uses
    <3>2. PICK t : t = Terms(ofile, fop, f)
      BY ZenonT(60)
    <3>3. t \in [FProcs -> Int] /\ \A p \in FProcs : t[p] = 0
      BY SMTT(60), <3>1, <3>2 DEF Terms
    <3>4. Sum(t, FProcs) = 0
      BY ZenonT(60), <3>3 DEF FilesSane, Facts, SumsAre
    <3>5. QED
      BY ZenonT(60), <1>9, <3>2, <3>4
  <2>2. QED
    BY ZenonT(60), <2>1, Counted
<1>11. OpenIsTyped
  <2>1. \A p \in FProcs, f \in Entries : f \notin Range(ofile[p])
    <3>1. SUFFICES ASSUME NEW p \in FProcs, NEW f \in Entries, f \in Range(ofile[p])
                   PROVE  FALSE
      BY Zenon
    <3>2. DOMAIN ofile[p] = Fds
      BY Zenon, <1>1
    <3>3. PICK d \in Fds : ofile[p][d] = f
      BY Zenon, <3>1, <3>2 DEF Range
    <3>4. QED
      BY Zenon, <1>6, <1>9, <3>3
  <2>2. QED
    BY Zenon, <1>9, <2>1 DEF OpenIsTyped
<1>12. ObjectsHeld
  <2>1. \A k, w : EntryEnds(ftable, k, w) = 0 /\ CallEnds(fop, k, w) = 0
    <3>1. SUFFICES ASSUME NEW k, NEW w
                   PROVE  EntryEnds(ftable, k, w) = 0 /\ CallEnds(fop, k, w) = 0
      BY Zenon
    <3>2. {f \in Entries : Holds(ftable[f], k, w)} = {}
      BY ZenonT(60), <1>9 DEF Holds
    <3>3. {p \in FProcs : Holds(fop[p].obj, k, w)} = {}
      BY SMTT(60), <1>5 DEF Holds, FreeFile
    <3>4. QED
      BY ZenonT(60), <3>2, <3>3 DEF EntryEnds, CallEnds, Facts, Small, Sized
  <2>2. EntryInodes(ftable) = 0
    <3>1. {f \in Entries : ftable[f].type = "FD_INODE"} = {}
      BY Zenon, <1>9
    <3>2. QED
      BY ZenonT(60), <3>1 DEF EntryInodes, Facts, Small, Sized
  <2>3. CallInodes(fop) = 0
    <3>1. {p \in FProcs : fop[p].obj.type = "FD_INODE"} = {}
      BY SMTT(60), <1>5 DEF FreeFile
    <3>2. QED
      BY ZenonT(60), <3>1 DEF CallInodes, Facts, Small, Sized
  <2>4. Opening(fop) = 0
    <3>1. {p \in FProcs : fop[p].pc = "open"} = {}
      BY Zenon, <1>5
    <3>2. QED
      BY ZenonT(60), <3>1 DEF Opening, Facts, Small, Sized
  <2>5. ASSUME NEW k \in DOMAIN pipe PROVE EndsOK(ftable, fop, pipe, k)
    <3>1. pipe[k] = NoPipe
      BY Zenon, <1>1
    <3>2. One(pipe[k].readopen) = 0 /\ One(pipe[k].writeopen) = 0
      BY <3>1 DEF One, NoPipe
    <3>3. /\ EntryEnds(ftable, k, FALSE) = 0 /\ CallEnds(fop, k, FALSE) = 0
          /\ EntryEnds(ftable, k, TRUE) = 0 /\ CallEnds(fop, k, TRUE) = 0
      BY <2>1, Zenon
    <3>4. 0 + 0 = 0
      OBVIOUS
    <3>5. QED
      BY <3>2, <3>3, <3>4, ZenonT(60) DEF EndsOK
  <2>6. InodesOK(ftable, fop, iref)
    BY SMTT(60), <1>1, <2>2, <2>3, <2>4 DEF InodesOK
  <2>7. QED
    BY ZenonT(60), <2>5, <2>6, Objects
<1>13. QED
  BY ZenonT(60), <1>4, <1>5, <1>7, <1>8, <1>10, <1>11, <1>12 DEF FilesInv

(* A step that changes nothing.                                             *)
LEMMA FilesStutterKeeps ==
  ASSUME FilesInv, UNCHANGED filesVars
  PROVE  FilesInv'
<1>1. /\ ftable' = ftable /\ ofile' = ofile /\ alive' = alive /\ pipe' = pipe
      /\ iref' = iref /\ fop' = fop
  BY Zenon DEF filesVars
<1>2. FilesTypeOK' /\ (\A p \in FProcs : CallOK(fop'[p]))
  BY ZenonT(60), <1>1 DEF FilesInv, FilesTypeOK
<1>3. ForkInv' /\ HeldInv'
  BY <1>1 DEF FilesInv, ForkInv, HeldInv
<1>4. RefsCounted'
  BY Zenon, <1>1, Counted DEF FilesInv
<1>5. OpenIsTyped'
  BY Zenon, <1>1 DEF FilesInv, OpenIsTyped
<1>6. ObjectsHeld'
  BY Zenon, <1>1, Objects DEF FilesInv
<1>7. QED
  BY ZenonT(60), <1>2, <1>3, <1>4, <1>5, <1>6, Together

(* Every step of every process keeps the invariant.                         *)
LEMMA FilesStepKeeps ==
  ASSUME FilesSane, Facts, FilesInv, [FilesNext]_filesVars
  PROVE  FilesInv'
<1>1. CASE UNCHANGED filesVars
  BY Zenon, <1>1, FilesStutterKeeps
<1>2. CASE FilesNext
  <2>1. PICK p \in FProcs :
          \/ OpenAlloc(p) \/ OpenFd(p) \/ DupRef(p) \/ FileClose(p) \/ CloseObject(p)
          \/ \E d \in Fds : DupFd(p, d) \/ CloseFd(p, d)
          \/ PipeAlloc(p) \/ PipeFds(p) \/ (\E q \in FProcs : ForkStart(p, q))
          \/ ForkDup(p) \/ ExitStart(p) \/ ExitFd(p)
    BY <1>2, Zenon DEF FilesNext
  <2>2. CASE OpenAlloc(p)
    BY Zenon, <2>2, OpenAllocKeeps
  <2>3. CASE OpenFd(p)
    BY ZenonT(60), <2>3, OpenFdKeeps
  <2>4. CASE DupRef(p)
    BY Zenon, <2>4, DupRefKeeps
  <2>5. CASE FileClose(p)
    BY Zenon, <2>5, FileCloseKeeps
  <2>6. CASE CloseObject(p)
    BY Zenon, <2>6, CloseObjectKeeps
  <2>7. CASE \E d \in Fds : DupFd(p, d) \/ CloseFd(p, d)
    BY ZenonT(60), <2>7, DupFdKeeps, CloseFdKeeps
  <2>8. CASE PipeAlloc(p)
    BY Zenon, <2>8, PipeAllocKeeps
  <2>9. CASE PipeFds(p)
    BY Zenon, <2>9, PipeFdsKeeps
  <2>10. CASE \E q \in FProcs : ForkStart(p, q)
    BY ZenonT(60), <2>10, ForkStartKeeps
  <2>11. CASE ForkDup(p)
    BY Zenon, <2>11, ForkDupKeeps
  <2>12. CASE ExitStart(p)
    BY Zenon, <2>12, ExitStartKeeps
  <2>13. CASE ExitFd(p)
    BY Zenon, <2>13, ExitFdKeeps
  <2>14. QED
    BY ZenonT(60), <2>1, <2>2, <2>3, <2>4, <2>5, <2>6, <2>7, <2>8, <2>9, <2>10, <2>11, <2>12, <2>13
<1>3. QED
  BY Zenon, <1>1, <1>2

(* So it always holds.                                                      *)
LEMMA FilesInvariant ==
  ASSUME FilesSane, Facts
  PROVE  FilesSpec => []FilesInv
<1>1. FilesInit => FilesInv
  BY Zenon, FilesInitHolds
<1>2. FilesInv /\ [FilesNext]_filesVars => FilesInv'
  BY Zenon, FilesStepKeeps
<1>3. QED
  BY <1>1, <1>2, PTL DEF FilesSpec
=============================================================================
