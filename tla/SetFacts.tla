------------------------------ MODULE SetFacts ------------------------------
(***************************************************************************)
(* Facts about finite sets, sums and sequences on which the proofs about   *)
(* Memory and Files rest.  Those proofs take them as a hypothesis, Facts,  *)
(* which KernelProofs proves.                                              *)
(***************************************************************************)
EXTENDS Integers, Sequences, FiniteSetsExt

(* The sum of f[s] for s in S.                                              *)
Sum(f, S) == MapThenSumSet(LAMBDA s : f[s], S)
(* The element that MapThenSumSet takes from T.                             *)
First(T) == CHOOSE e \in T : TRUE

(* The size of a finite set, and its parts.                                 *)
Sized == \A S : IsFiniteSet(S) => /\ Cardinality(S) \in Nat
                                  /\ Cardinality(S) = 0 <=> S = {}
Parts == \A S : IsFiniteSet(S) => \A T \in SUBSET S : IsFiniteSet(T)

(* Small sets.                                                              *)
Small == /\ IsFiniteSet({}) /\ Cardinality({}) = 0
         /\ \A x : IsFiniteSet({x}) /\ Cardinality({x}) = 1
         /\ \A a, b \in Int : IsFiniteSet(a..b)
         /\ \A n \in Nat : Cardinality(1..n) = n

(* One element more or less.                                                *)
OneMore == \A S, x : IsFiniteSet(S) /\ x \notin S =>
           IsFiniteSet(S \cup {x}) /\ Cardinality(S \cup {x}) = Cardinality(S) + 1
OneLess == \A S, x : IsFiniteSet(S) =>
            /\ IsFiniteSet(S \ {x})
            /\ x \in S => Cardinality(S \ {x}) = Cardinality(S) - 1

(* Two sets that have nothing in common.                                    *)
Apart == \A S, T : IsFiniteSet(S) /\ IsFiniteSet(T) /\ S \cap T = {} =>
            Cardinality(S \cup T) = Cardinality(S) + Cardinality(T)

(* Some numbers have a least one.                                           *)
WellOrdered == \A S \in SUBSET Nat : S # {} => \E m \in S : \A k \in S : k >= m

(* Sums.                                                                    *)
SumsAre ==
  \A S : IsFiniteSet(S) => \A f \in [S -> Int] :
    /\ Sum(f, S) \in Int
    /\ (\A s \in S : f[s] = 0) => Sum(f, S) = 0
    /\ (\A s \in S : f[s] >= 0) => \A p \in S :
         /\ Sum(f, S) \in Nat /\ Sum(f, S) >= f[p]
         /\ \A q \in S \ {p} : Sum(f, S) >= f[p] + f[q]
SumsMove ==
  \A S : IsFiniteSet(S) => \A f, h \in [S -> Int], p \in S :
    /\ (\A s \in S \ {p} : h[s] = f[s]) => Sum(h, S) = Sum(f, S) + h[p] - f[p]
    /\ \A q \in S \ {p} : (\A s \in S \ {p, q} : h[s] = f[s]) =>
         Sum(h, S) = Sum(f, S) + (h[p] - f[p]) + (h[q] - f[q])

(* A sequence of two.                                                       *)
Appended == \A a, b \in Nat : Append(<<a>>, b) = <<a, b>>

Facts == /\ Sized /\ Parts /\ Small /\ OneMore /\ OneLess /\ Apart /\ WellOrdered
         /\ SumsAre /\ SumsMove /\ Appended
=============================================================================
