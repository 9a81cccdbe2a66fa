---------------------------- MODULE KernelProofs ----------------------------
(***************************************************************************)
(* The theorems about Memory and Files.  MemoryProofs and FilesProofs      *)
(* show their invariants from Facts, which is proved here: a sum of        *)
(* FiniteSetsExt changes as its summands do, by induction on the size of   *)
(* the set, and the rest follows from the library.                         *)
(***************************************************************************)
EXTENDS MemoryProofs, FilesProofs, FiniteSetTheorems, SequenceTheorems, WellFoundedInduction

(* One turn of the fold that adds up.                                       *)
Turn(f, S, g) ==
  [T \in SUBSET S |-> IF T = {} THEN 0 ELSE f[First(T)] + g[T \ {First(T)}]]

(* g adds up f over the parts of S, taking First away each turn.            *)
Solves(g, f, S) == g = Turn(f, S, g)
Fold(g, f, S) == /\ IsFiniteSet(S) /\ f \in [S -> Int]
                 /\ g \in [SUBSET S -> Int] /\ Solves(g, f, S)

(* The sum over S is d's summand and the sum over the others.               *)
Takes(g, f, S, d) == g[S] = f[d] + g[S \ {d}]

(* f and h have the same summands over the part T of S.                     *)
Agree(f, h, T, S) == T \subseteq S /\ \A s \in T : f[s] = h[s]

(* A nonempty set of numbers has a least one.                               *)
LEMMA Least ==
  ASSUME NEW N \in SUBSET Nat, N # {}
  PROVE  \E n \in N : \A m \in N : m >= n
<1> DEFINE Lt == {ss \in Nat \X Nat : ss[1] < ss[2]}
<1>1. IsWellFoundedOn(Lt, Nat)
  BY NatLessThanWellFounded, Zenon DEF OpToRel
<1>2. PICK n \in N : \A m \in N : <<m, n>> \notin Lt
  <2> HIDE DEF Lt
  <2>1. QED
    BY Zenon, <1>1, WFMin
<1>3. ASSUME NEW m \in N PROVE m >= n
  <2>1. m \in Nat /\ n \in Nat /\ <<m, n>> \in Nat \X Nat
    OBVIOUS
  <2>2. ~(m < n)
    BY <1>2, <2>1
  <2>3. QED
    BY <2>1, <2>2
<1>4. QED
  BY <1>3

(* What is left of a nonempty part of S is smaller.                         *)
LEMMA Smaller ==
  ASSUME NEW S, IsFiniteSet(S), NEW T \in SUBSET S, NEW p \in T
  PROVE  /\ IsFiniteSet(T) /\ Cardinality(T) \in Nat \ {0}
         /\ Cardinality(T \ {p}) = Cardinality(T) - 1
         /\ Cardinality(T \ {p}) \in Nat
         /\ T \ {p} \in SUBSET S
<1>1. IsFiniteSet(T)
  BY FS_Subset
<1>2. QED
  BY <1>1, FS_RemoveElement, FS_CardinalityType, FS_EmptySet

(* The element taken first is one of the set.                               *)
LEMMA FirstIn == ASSUME NEW T, T # {} PROVE First(T) \in T
BY DEF First

(* The recursion of the fold has a solution.                                *)
LEMMA TurnSolved ==
  ASSUME NEW S, IsFiniteSet(S), NEW f \in [S -> Int]
  PROVE  \E g \in [SUBSET S -> Int] : Solves(g, f, S)
<1> DEFINE Below(n) == {T \in SUBSET S : Cardinality(T) <= n}
           Upto(n) == \E g \in [SUBSET S -> Int] : \A T \in Below(n) :
             g[T] = IF T = {} THEN 0 ELSE f[First(T)] + g[T \ {First(T)}]
<1>1. \A T \in SUBSET S : IsFiniteSet(T) /\ Cardinality(T) \in Nat
  BY FS_Subset, FS_CardinalityType
<1>2. Upto(0)
  <2>1. \A T \in Below(0) : T = {}
    BY <1>1, FS_EmptySet
  <2>2. [T \in SUBSET S |-> 0] \in [SUBSET S -> Int]
    OBVIOUS
  <2>3. QED
    BY Zenon, <2>1, <2>2
<1>3. ASSUME NEW n \in Nat, Upto(n) PROVE Upto(n+1)
  <2>1. PICK g \in [SUBSET S -> Int] : \A T \in Below(n) :
          g[T] = IF T = {} THEN 0 ELSE f[First(T)] + g[T \ {First(T)}]
    BY SMTT(60), <1>3
  <2> DEFINE h == [T \in SUBSET S |-> IF T = {} THEN 0 ELSE f[First(T)] + g[T \ {First(T)}]]
  <2>2. h \in [SUBSET S -> Int]
    <3>1. ASSUME NEW T \in SUBSET S, T # {} PROVE f[First(T)] \in Int /\ T \ {First(T)} \in SUBSET S
      BY <3>1, FirstIn
    <3>2. QED
      BY <3>1
  <2>3. \A T \in Below(n) : h[T] = g[T]
    BY <2>1
  <2>4. ASSUME NEW T \in Below(n+1), T # {} PROVE T \ {First(T)} \in Below(n)
    <3>1. First(T) \in T
      BY <2>4, FirstIn
    <3>2. QED
      BY <3>1, <1>1, Smaller
  <2>5. ASSUME NEW T \in Below(n+1)
        PROVE  h[T] = IF T = {} THEN 0 ELSE f[First(T)] + h[T \ {First(T)}]
    <3>1. CASE T = {}
      BY <3>1
    <3>2. CASE T # {}
      <4>1. h[T \ {First(T)}] = g[T \ {First(T)}]
        BY Zenon, <2>3, <2>4, <3>2
      <4>2. QED
        BY <3>2, <4>1
    <3>3. QED
      BY <3>1, <3>2
  <2> HIDE DEF h
  <2>6. QED
    BY SMTT(60), <2>2, <2>5
<1> HIDE DEF Upto
<1>4. \A n \in Nat : Upto(n)
  <2> SUFFICES ASSUME {n \in Nat : ~Upto(n)} # {} PROVE FALSE
    OBVIOUS
  <2>1. PICK n \in {n \in Nat : ~Upto(n)} : \A m \in {m \in Nat : ~Upto(m)} : m >= n
    BY Zenon, Least
  <2>2. n # 0
    BY <1>2
  <2>3. n - 1 \in Nat /\ (n - 1) + 1 = n
    BY <2>2
  <2>4. Upto(n - 1)
    BY <2>1, <2>3
  <2>5. QED
    BY <1>3, <2>3, <2>4
<1>5. Upto(Cardinality(S))
  BY <1>1, <1>4
<1>6. Below(Cardinality(S)) = SUBSET S
  BY FS_Subset
<1>7. QED
  BY Zenon, <1>5, <1>6 DEF Turn, Upto, Solves

(* A nonempty collection of parts of S has a smallest one.                  *)
LEMMA SmallestPart ==
  ASSUME NEW S, IsFiniteSet(S), NEW B \in SUBSET (SUBSET S), B # {}
  PROVE  \E T \in B : \A U \in B : Cardinality(U) >= Cardinality(T)
<1>1. \A T \in B : Cardinality(T) \in Nat
  BY FS_Subset, FS_CardinalityType
<1> DEFINE N == {Cardinality(T) : T \in B}
<1>2. N \in SUBSET Nat /\ N # {}
  BY <1>1
<1>3. PICK n \in N : \A m \in N : m >= n
  <2> HIDE DEF N
  <2>1. QED
    BY <1>2, Least
<1>4. QED
  BY <1>3

(* Solutions for functions that agree on a part of S agree there.           *)
LEMMA TurnsAgree ==
  ASSUME NEW S, IsFiniteSet(S), NEW f, NEW h, NEW g, NEW k, NEW U,
         Agree(f, h, U, S), Solves(g, f, S), Solves(k, h, S)
  PROVE  g[U] = k[U]
<1>a. U \in SUBSET S /\ \A s \in U : f[s] = h[s]
  BY DEF Agree
<1> DEFINE B == {T \in SUBSET U : g[T] # k[T]}
<1> SUFFICES ASSUME B # {} PROVE FALSE
  OBVIOUS
<1>1. PICK T \in B : \A V \in B : Cardinality(V) >= Cardinality(T)
  <2>1. B \in SUBSET (SUBSET S)
    BY <1>a
  <2>2. QED
    BY Zenon, <2>1, SmallestPart
<1>2. T \in SUBSET S /\ T \in SUBSET U
  BY <1>a
<1>3. /\ g[T] = IF T = {} THEN 0 ELSE f[First(T)] + g[T \ {First(T)}]
      /\ k[T] = IF T = {} THEN 0 ELSE h[First(T)] + k[T \ {First(T)}]
  BY Zenon, <1>2 DEF Turn, Solves
<1>4. T # {}
  BY <1>3
<1>5. First(T) \in T
  BY <1>4, FirstIn
<1>6. f[First(T)] = h[First(T)]
  BY <1>a, <1>2, <1>5
<1>7. Cardinality(T \ {First(T)}) < Cardinality(T) /\ Cardinality(T) \in Nat
  <2>1. /\ Cardinality(T) \in Nat \ {0}
        /\ Cardinality(T \ {First(T)}) = Cardinality(T) - 1
    BY <1>2, <1>5, Smaller
  <2>2. QED
    BY <2>1
<1>8. T \ {First(T)} \notin B
  <2>1. Cardinality(T \ {First(T)}) \in Nat
    BY Zenon, <1>2, <1>5, Smaller
  <2> HIDE DEF B
  <2>2. QED
    BY <1>1, <1>7, <2>1
<1>9. QED
  BY <1>2, <1>3, <1>4, <1>6, <1>8

(* The sum is the value of such a solution.                                 *)
LEMMA SumIs ==
  ASSUME NEW S, IsFiniteSet(S), NEW f \in [S -> Int]
  PROVE  \E g \in [SUBSET S -> Int] : Solves(g, f, S) /\ Sum(f, S) = g[S]
<1> DEFINE g == CHOOSE g : g = Turn(f, S, g)
<1>1. Sum(f, S) = g[S]
  BY DEF Sum, MapThenSumSet, MapThenFoldSet, Turn, First
<1>2. PICK h \in [SUBSET S -> Int] : Solves(h, f, S)
  BY Zenon, TurnSolved
<1>3. Solves(g, f, S)
  BY <1>2 DEF Solves
<1> HIDE DEF g
<1>4. g[S] = h[S]
  <2>1. Agree(f, f, S, S)
    BY DEF Agree
  <2>2. QED
    BY <1>2, <1>3, <2>1, TurnsAgree
<1>5. Sum(f, S) = h[S]
  BY <1>1, <1>4
<1>6. QED
  BY <1>2, <1>5

(* Any element of a set can be taken first.                                 *)
LEMMA TakeAny ==
  ASSUME NEW S, NEW f, NEW g, NEW d \in S, Fold(g, f, S)
  PROVE  Takes(g, f, S, d)
<1>a. /\ IsFiniteSet(S) /\ f \in [S -> Int]
      /\ g \in [SUBSET S -> Int] /\ Solves(g, f, S)
  BY DEF Fold
<1> DEFINE B == {T \in SUBSET S : \E p \in T : g[T] # f[p] + g[T \ {p}]}
<1> SUFFICES ASSUME B # {} PROVE FALSE
  BY Zenon DEF Takes
<1>1. PICK T \in B : \A V \in B : Cardinality(V) >= Cardinality(T)
  <2>1. B \in SUBSET (SUBSET S)
    OBVIOUS
  <2> HIDE DEF B
  <2>2. QED
    BY <1>a, <2>1, SmallestPart
<1>2. T \in SUBSET S
  OBVIOUS
<1>3. PICK p \in T : g[T] # f[p] + g[T \ {p}]
  OBVIOUS
<1> DEFINE e == First(T)
<1>4. e \in T
  BY <1>3, FirstIn
<1> HIDE DEF e
<1>5. g[T] = f[e] + g[T \ {e}]
  BY Zenon, <1>a, <1>2, <1>3 DEF Turn, Solves, e
<1>6. e # p
  BY <1>3, <1>5
<1>7. \A q \in T : T \ {q} \notin B
  <2>1. ASSUME NEW q \in T PROVE Cardinality(T \ {q}) < Cardinality(T)
    BY <1>a, <1>2, Smaller
  <2>2. ASSUME NEW q \in T PROVE Cardinality(T) \in Nat /\ Cardinality(T \ {q}) \in Nat
    BY Zenon, <1>a, <1>2, Smaller
  <2> HIDE DEF B
  <2>3. QED
    BY <1>1, <2>1, <2>2
<1>8. g[T \ {e}] = f[p] + g[(T \ {e}) \ {p}]
  BY Zenon, <1>2, <1>4, <1>6, <1>7
<1>9. g[T \ {p}] = f[e] + g[(T \ {p}) \ {e}]
  BY Zenon, <1>2, <1>4, <1>6, <1>7
<1>10. (T \ {e}) \ {p} = (T \ {p}) \ {e}
  OBVIOUS
<1>11. f[e] \in Int /\ f[p] \in Int /\ g[(T \ {p}) \ {e}] \in Int
  BY <1>a, <1>2, <1>4
<1>12. f[e] + (f[p] + g[(T \ {p}) \ {e}]) = f[p] + (f[e] + g[(T \ {p}) \ {e}])
  BY <1>11
<1>13. QED
  BY <1>3, <1>5, <1>8, <1>9, <1>10, <1>12, Zenon

(* A sum is an integer.                                                     *)
LEMMA SumType ==
  ASSUME NEW S, IsFiniteSet(S), NEW f \in [S -> Int]
  PROVE  Sum(f, S) \in Int
<1>1. PICK g \in [SUBSET S -> Int] : Sum(f, S) = g[S]
  BY SumIs, Zenon
<1>2. QED
  BY <1>1

(* When one summand changes, the sum changes by as much.                    *)
LEMMA SumChange ==
  ASSUME NEW S, IsFiniteSet(S), NEW f \in [S -> Int], NEW h \in [S -> Int],
         NEW p \in S, \A s \in S \ {p} : h[s] = f[s]
  PROVE  Sum(h, S) = Sum(f, S) + h[p] - f[p]
<1>1. PICK g \in [SUBSET S -> Int] : Solves(g, f, S) /\ Sum(f, S) = g[S]
  BY Zenon, SumIs
<1>2. PICK k \in [SUBSET S -> Int] : Solves(k, h, S) /\ Sum(h, S) = k[S]
  BY SumIs
<1>3. g[S] = f[p] + g[S \ {p}] /\ k[S] = h[p] + k[S \ {p}]
  <2>1. Fold(g, f, S) /\ Fold(k, h, S)
    BY <1>1, <1>2 DEF Fold
  <2>2. Takes(g, f, S, p) /\ Takes(k, h, S, p)
    BY <2>1, TakeAny
  <2>3. QED
    BY <2>2 DEF Takes
<1>4. g[S \ {p}] = k[S \ {p}]
  <2>1. Agree(f, h, S \ {p}, S)
    BY DEF Agree
  <2>2. QED
    BY <1>1, <1>2, <2>1, TurnsAgree
<1>5. QED
  BY <1>1, <1>2, <1>3, <1>4

(* When two summands change, the sum changes by as much.                    *)
LEMMA SumChangeTwo ==
  ASSUME NEW S, IsFiniteSet(S), NEW f \in [S -> Int], NEW h \in [S -> Int],
         NEW p \in S, NEW q \in S, p # q, \A s \in S \ {p, q} : h[s] = f[s]
  PROVE  Sum(h, S) = Sum(f, S) + (h[p] - f[p]) + (h[q] - f[q])
<1> DEFINE m == [f EXCEPT ![p] = h[p]]
<1>1. m \in [S -> Int] /\ m[p] = h[p] /\ m[q] = f[q]
  OBVIOUS
<1>2. (\A s \in S \ {p} : m[s] = f[s]) /\ (\A s \in S \ {q} : h[s] = m[s])
  OBVIOUS
<1> HIDE DEF m
<1>3. Sum(m, S) = Sum(f, S) + m[p] - f[p]
  BY <1>1, <1>2, SumChange
<1>4. Sum(h, S) = Sum(m, S) + h[q] - m[q]
  BY <1>1, <1>2, SumChange
<1>5. QED
  BY <1>1, <1>3, <1>4, SumType

(* A sum of zeros is zero.                                                  *)
LEMMA SumZero ==
  ASSUME NEW S, IsFiniteSet(S), NEW f \in [S -> Int], \A s \in S : f[s] = 0
  PROVE  Sum(f, S) = 0
<1>1. PICK g \in [SUBSET S -> Int] : Solves(g, f, S) /\ Sum(f, S) = g[S]
  BY Zenon, SumIs
<1> DEFINE k == [T \in SUBSET S |-> 0]
<1>2. Solves(k, f, S)
  <2>1. ASSUME NEW T \in SUBSET S, T # {}
        PROVE  f[First(T)] + k[T \ {First(T)}] = 0
    BY <2>1, FirstIn
  <2>2. QED
    BY Zenon, <2>1 DEF Turn, Solves
<1>3. g[S] = k[S]
  <2>1. Agree(f, f, S, S)
    BY DEF Agree
  <2> HIDE DEF k
  <2>2. QED
    BY <1>1, <1>2, <2>1, TurnsAgree
<1>4. QED
  BY <1>1, <1>3

(* The sums of equal summands are equal.                                    *)
LEMMA SumSame ==
  ASSUME NEW S, NEW f, NEW h, f = h
  PROVE  Sum(f, S) = Sum(h, S)
OBVIOUS

(* A sum of natural numbers is one.                                         *)
LEMMA SumNat ==
  ASSUME NEW S, IsFiniteSet(S), NEW f \in [S -> Int], \A s \in S : f[s] >= 0
  PROVE  Sum(f, S) \in Nat
<1>1. PICK g \in [SUBSET S -> Int] : Solves(g, f, S) /\ Sum(f, S) = g[S]
  BY Zenon, SumIs
<1> DEFINE B == {T \in SUBSET S : g[T] < 0}
<1>2. ASSUME B # {} PROVE FALSE
  <2>1. PICK T \in B : \A V \in B : Cardinality(V) >= Cardinality(T)
    <3>1. B \in SUBSET (SUBSET S)
      OBVIOUS
    <3> HIDE DEF B
    <3>2. QED
      BY <1>2, <3>1, SmallestPart
  <2>2. g[T] = IF T = {} THEN 0 ELSE f[First(T)] + g[T \ {First(T)}]
    BY Zenon, <1>1 DEF Turn, Solves
  <2>3. T # {} /\ g[T] < 0
    BY <2>2
  <2>4. First(T) \in T /\ First(T) \in S
    BY <2>3, FirstIn
  <2>5. /\ Cardinality(T) \in Nat \ {0}
        /\ Cardinality(T \ {First(T)}) = Cardinality(T) - 1
    <3>1. T \in SUBSET S
      OBVIOUS
    <3> HIDE DEF B
    <3>2. QED
      BY Zenon, <2>4, <3>1, Smaller
  <2>6. T \ {First(T)} \notin B
    <3> HIDE DEF B
    <3>1. QED
      BY <2>1, <2>5
  <2>7. g[T \ {First(T)}] \in Int /\ ~(g[T \ {First(T)}] < 0)
    BY <2>6
  <2>8. f[First(T)] \in Int /\ f[First(T)] >= 0
    BY <2>4
  <2>9. QED
    BY <2>2, <2>3, <2>7, <2>8
<1>3. g[S] \in Int /\ ~(g[S] < 0)
  BY <1>2
<1>4. QED
  BY <1>1, <1>3

(* A sum of natural numbers is at least any of them, and any two.           *)
LEMMA SumAtLeast ==
  ASSUME NEW S, IsFiniteSet(S), NEW f \in [S -> Int], \A s \in S : f[s] >= 0,
         NEW p \in S
  PROVE  /\ Sum(f, S) \in Nat /\ Sum(f, S) >= f[p]
         /\ \A q \in S \ {p} : Sum(f, S) >= f[p] + f[q]
<1> DEFINE h == [f EXCEPT ![p] = 0]
<1>1. h \in [S -> Int] /\ h[p] = 0 /\ (\A s \in S \ {p} : h[s] = f[s])
  OBVIOUS
<1>2. \A s \in S : h[s] >= 0
  OBVIOUS
<1> HIDE DEF h
<1>3. Sum(h, S) = Sum(f, S) + h[p] - f[p]
  BY <1>1, SumChange
<1>4. Sum(h, S) \in Nat /\ Sum(f, S) \in Nat /\ f[p] \in Int
  BY <1>1, <1>2, SumNat
<1>5. ASSUME NEW q \in S \ {p} PROVE Sum(f, S) >= f[p] + f[q]
  <2> DEFINE k == [h EXCEPT ![q] = 0]
  <2>1. k \in [S -> Int] /\ k[q] = 0 /\ (\A s \in S \ {q} : k[s] = h[s])
    BY <1>1
  <2>2. \A s \in S : k[s] >= 0
    BY <1>1, <1>2
  <2> HIDE DEF k
  <2>3. Sum(k, S) = Sum(h, S) + k[q] - h[q]
    BY <1>1, <2>1, SumChange
  <2>4. Sum(k, S) \in Nat /\ h[q] = f[q] /\ f[q] \in Int
    BY <1>1, <2>1, <2>2, SumNat
  <2>5. QED
    BY <1>1, <1>3, <1>4, <2>1, <2>3, <2>4
<1>6. QED
  BY <1>1, <1>3, <1>4, <1>5

-----------------------------------------------------------------------------
(* The facts about finite sets.                                             *)
LEMMA SetsAre == Sized /\ Parts /\ Small /\ OneMore /\ OneLess /\ Apart
<1>1. Sized
  BY FS_CardinalityType, FS_EmptySet DEF Sized
<1>2. Parts
  BY FS_Subset DEF Parts
<1>3. Small
  <2>1. IsFiniteSet({}) /\ Cardinality({}) = 0
    BY FS_EmptySet
  <2>2. \A x : IsFiniteSet({x}) /\ Cardinality({x}) = 1
    BY FS_Singleton
  <2>3. \A a, b \in Int : IsFiniteSet(a..b)
    BY FS_Interval
  <2>4. ASSUME NEW n \in Nat PROVE Cardinality(1..n) = n
    <3>1. Cardinality(1..n) = IF 1 > n THEN 0 ELSE n - 1 + 1
      BY FS_Interval
    <3>2. QED
      BY <3>1
  <2>5. QED
    BY <2>1, <2>2, <2>3, <2>4, Zenon DEF Small
<1>4. OneMore
  BY FS_AddElement, Zenon DEF OneMore
<1>5. OneLess
  BY FS_RemoveElement, Zenon DEF OneLess
<1>6. Apart
  <2>1. SUFFICES ASSUME NEW S, NEW T, IsFiniteSet(S), IsFiniteSet(T), S \cap T = {}
                 PROVE  Cardinality(S \cup T) = Cardinality(S) + Cardinality(T)
    BY Zenon DEF Apart
  <2>2. Cardinality(S \cup T) = Cardinality(S) + Cardinality(T) - Cardinality(S \cap T)
    BY <2>1, FS_Union, Zenon
  <2>3. Cardinality(S \cap T) = 0
    BY <2>1, FS_EmptySet, Zenon
  <2>4. Cardinality(S) \in Nat /\ Cardinality(T) \in Nat
    BY <2>1, FS_CardinalityType, Zenon
  <2>5. QED
    BY <2>2, <2>3, <2>4
<1>7. QED
  BY <1>1, <1>2, <1>3, <1>4, <1>5, <1>6

(* The facts about sums.                                                    *)
LEMMA SumFacts == SumsAre /\ SumsMove
<1>1. SumsAre
  <2>1. SUFFICES ASSUME NEW S, IsFiniteSet(S), NEW f \in [S -> Int]
        PROVE  /\ Sum(f, S) \in Int
               /\ (\A s \in S : f[s] = 0) => Sum(f, S) = 0
               /\ (\A s \in S : f[s] >= 0) => \A p \in S :
                    /\ Sum(f, S) \in Nat /\ Sum(f, S) >= f[p]
                    /\ \A q \in S \ {p} : Sum(f, S) >= f[p] + f[q]
    BY Zenon DEF SumsAre
  <2>2. QED
    BY <2>1, SumType, SumZero, SumAtLeast, Zenon
<1>2. SumsMove
  <2>1. SUFFICES ASSUME NEW S, IsFiniteSet(S), NEW f \in [S -> Int], NEW h \in [S -> Int],
                        NEW p \in S
        PROVE  /\ (\A s \in S \ {p} : h[s] = f[s]) => Sum(h, S) = Sum(f, S) + h[p] - f[p]
               /\ \A q \in S \ {p} : (\A s \in S \ {p, q} : h[s] = f[s]) =>
                    Sum(h, S) = Sum(f, S) + (h[p] - f[p]) + (h[q] - f[q])
    BY Zenon DEF SumsMove
  <2>2. (\A s \in S \ {p} : h[s] = f[s]) => Sum(h, S) = Sum(f, S) + h[p] - f[p]
    BY <2>1, SumChange, Zenon
  <2>3. ASSUME NEW q \in S \ {p}, \A s \in S \ {p, q} : h[s] = f[s]
        PROVE  Sum(h, S) = Sum(f, S) + (h[p] - f[p]) + (h[q] - f[q])
    <3>1. q \in S /\ p # q
      BY Zenon
    <3>2. QED
      BY <2>1, <2>3, <3>1, SumChangeTwo
  <2>4. QED
    BY <2>2, <2>3, Zenon
<1>3. QED
  BY <1>1, <1>2

(* The fact about sequences.                                                *)
LEMMA AppendFact == Appended
<1> SUFFICES ASSUME NEW a \in Nat, NEW b \in Nat PROVE Append(<<a>>, b) = <<a, b>>
  BY Zenon DEF Appended
<1>1. PICK s : s = <<a>>
  BY Zenon
<1>2. s \in Seq(Nat) /\ Len(s) = 1 /\ s[1] = a
  BY <1>1
<1>3. PICK t : t = Append(s, b)
  BY Zenon
<1>4. t \in Seq(Nat)
  BY <1>2, <1>3
<1>5. Len(t) = Len(s) + 1
  BY <1>2, <1>3, AppendProperties
<1>6. \A i \in 1..Len(s) : t[i] = s[i]
  BY <1>2, <1>3, AppendProperties
<1>7. t[Len(s) + 1] = b
  BY <1>2, <1>3, AppendProperties
<1>8. Len(t) = 2 /\ t[1] = a /\ t[2] = b
  BY <1>2, <1>5, <1>6, <1>7
<1>9. PICK u : u = <<a, b>>
  BY Zenon
<1>10. u \in Seq(Nat) /\ Len(u) = 2 /\ u[1] = a /\ u[2] = b
  BY <1>9
<1>11. DOMAIN t = 1..2 /\ DOMAIN u = 1..2 /\ \A i \in 1..2 : i = 1 \/ i = 2
  BY <1>4, <1>8, <1>10
<1>12. t = [i \in DOMAIN t |-> t[i]] /\ u = [i \in DOMAIN u |-> u[i]]
  BY <1>4, <1>10
<1>13. t = u
  BY <1>8, <1>10, <1>11, <1>12
<1>14. QED
  BY <1>1, <1>3, <1>9, <1>13, Zenon

(* What MemoryProofs and FilesProofs rest on holds.                         *)
LEMMA FactsHold == Facts
<1>1. WellOrdered
  BY Least, Zenon DEF WellOrdered
<1>2. QED
  BY <1>1, SetsAre, SumFacts, AppendFact, Zenon DEF Facts

-----------------------------------------------------------------------------
(* Every page is free or has one owner, whatever kalloc() fails: no path    *)
(* out of fork(), exec(), sbrk(), exit() and wait() loses or doubles one.   *)
THEOREM MemoryPagesAccounted ==
  ASSUME Sane
  PROVE  MemorySpec => []PagesAccounted
<1>1. IInv => PagesAccounted
  BY SMTT(60) DEF IInv
<1>2. MemorySpec => []IInv
  BY FactsHold, MemoryInvariant, Zenon
<1>3. QED
  BY <1>1, <1>2, PTL

(* A process that does not just grow has exactly the pages below its size,  *)
(* with their tables, and no call panics over one mapped twice or missing.  *)
THEOREM MemorySzMapped ==
  ASSUME Sane
  PROVE  MemorySpec => []SzMapped
<1>1. IInv => SzMapped
  BY SMTT(60) DEF IInv, MapInv, SzMapped, NoPanic, Covered, Growing
<1>2. MemorySpec => []IInv
  BY FactsHold, MemoryInvariant, Zenon
<1>3. QED
  BY <1>1, <1>2, PTL

(* mappages() never panics with "remap", copyuvm() never with "pte should   *)
(* exist".                                                                  *)
THEOREM MemoryNoPanic ==
  ASSUME Sane
  PROVE  MemorySpec => []NoPanic
<1>1. IInv => NoPanic
  BY DEF IInv, NoPanic
<1>2. MemorySpec => []IInv
  BY FactsHold, MemoryInvariant, Zenon
<1>3. QED
  BY <1>1, <1>2, PTL

-----------------------------------------------------------------------------
(* Whatever calls of whatever processes interleave, the count that          *)
(* fileclose() decrements is the number of descriptors and of calls that    *)
(* name the entry: it is 0 only when nobody does, so filealloc() never      *)
(* hands out an entry in use, and "fileclose" and "filedup" never panic.    *)
THEOREM FileRefsCounted ==
  ASSUME FilesSane
  PROVE  FilesSpec => []RefsCounted
<1>1. FilesInv => RefsCounted
  BY Zenon DEF FilesInv
<1>2. FilesSpec => []FilesInv
  BY FactsHold, FilesInvariant, Zenon
<1>3. QED
  BY <1>1, <1>2, PTL

(* pipeclose() and iput() are called by fileclose() exactly once for each   *)
(* end of a pipe and each inode that pipealloc() and open() put behind an   *)
(* entry, however soon the entry is used again; a descriptor names an entry *)
(* whose type is set, also while pipe(), open() and fork() of other         *)
(* processes are under way; and the count is right.                         *)
THEOREM FilesStaySound ==
  ASSUME FilesSane
  PROVE  FilesSpec => []FilesSound
<1>1. FilesInv => FilesSound
  BY Zenon DEF FilesInv, FilesSound
<1>2. FilesSpec => []FilesInv
  BY FactsHold, FilesInvariant, Zenon
<1>3. QED
  BY <1>1, <1>2, PTL
=============================================================================
