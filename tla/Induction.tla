------------------------------ MODULE Induction ------------------------------
(***************************************************************************)
(* Facts about data that the proofs about the tables, the names and the    *)
(* browsers share: induction over the natural numbers, and finite sums.    *)
(*                                                                         *)
(* The induction theorems of the library take the formula to be proved as  *)
(* an operator.  Here it is given as the set of the numbers that satisfy   *)
(* it, and induction is the fact that a set of numbers has a least one.    *)
(***************************************************************************)
EXTENDS Integers, Functions, FiniteSets, FiniteSetTheorems, WellFoundedInduction, TLAPS

Below == OpToRel(<, Nat)

LEMMA BelowIsLess ==
    \A x, y : <<x, y>> \in Below <=> x \in Nat /\ y \in Nat /\ x < y
BY DEF Below, OpToRel

(* A set of natural numbers that is not empty has a least element. *)
LEMMA LeastNumber ==
    ASSUME NEW T, T \subseteq Nat, T # {}
    PROVE  \E n \in T : \A m \in T : n <= m
<1>1. IsWellFoundedOn(Below, Nat)
  BY NatLessThanWellFounded DEF Below
<1>2. PICK n \in T : \A m \in T : <<m, n>> \notin Below
  BY <1>1, WFMin
<1>3. \A m \in T : ~(m < n)
  BY <1>2, BelowIsLess
<1> QED
  BY <1>3

(* A set that holds zero, and the next of each number it holds, holds all. *)
LEMMA NumberInduction ==
    ASSUME NEW T, 0 \in T, \A n \in Nat : n \in T => n + 1 \in T
    PROVE  Nat \subseteq T
<1> SUFFICES ASSUME Nat \ T # {} PROVE FALSE
  OBVIOUS
<1>1. PICK n \in Nat \ T : \A m \in Nat \ T : n <= m
  BY LeastNumber
<1>2. n - 1 \in Nat /\ n - 1 \notin Nat \ T
  BY <1>1
<1> QED
  BY <1>1, <1>2

-----------------------------------------------------------------------------
(* The sum of a function over a finite set, as the community modules define*)
(* it: element by element, the next one chosen by CHOOSE.                  *)

NextOf(X) == CHOOSE x \in X : TRUE

(* g is the sum of f over each subset of S. *)
SumsOver(f, S, g) ==
    g = [X \in SUBSET S |->
            IF X = {} THEN 0 ELSE f[NextOf(X)] + g[X \ {NextOf(X)}]]

LEMMA SumIsSums ==
    ASSUME NEW f, NEW S
    PROVE  SumFunctionOnSet(f, S) = (CHOOSE g : SumsOver(f, S, g))[S]
BY DEF SumFunctionOnSet, FoldFunctionOnSet, MapThenFoldSet, SumsOver, NextOf

LEMMA NextIsElement ==
    ASSUME NEW X, X # {}
    PROVE  NextOf(X) \in X
BY DEF NextOf

(* There is such a function, for sets of up to n elements, for each n.     *)
LEMMA SumsExist ==
    ASSUME NEW f, NEW S, IsFiniteSet(S)
    PROVE  \E g : SumsOver(f, S, g)
<1> DEFINE Small(n) == {X \in SUBSET S : Cardinality(X) <= n}
           Rest(X) == X \ {NextOf(X)}
           SumsTo(n, g) == g = [X \in Small(n) |->
                                  IF X = {} THEN 0 ELSE f[NextOf(X)] + g[Rest(X)]]
           T == {n \in Nat : \E g : SumsTo(n, g)}
<1>1. \A X \in SUBSET S : /\ IsFiniteSet(X) /\ Cardinality(X) \in Nat
                          /\ Cardinality(X) <= Cardinality(S)
  BY FS_Subset, FS_CardinalityType
<1>2. ASSUME NEW X \in SUBSET S, X # {}
      PROVE  /\ Rest(X) \in SUBSET S
             /\ Cardinality(Rest(X)) = Cardinality(X) - 1
  BY <1>1, <1>2, NextIsElement, FS_RemoveElement
<1> HIDE DEF Rest
<1>3. 0 \in T
  <2> DEFINE g == [X \in Small(0) |-> 0]
  <2>1. \A X \in Small(0) : X = {}
    BY <1>1, FS_EmptySet
  <2>2. SumsTo(0, g)
    BY <2>1
  <2> QED
    BY <2>2
<1>4. ASSUME NEW n \in Nat, n \in T
      PROVE  n + 1 \in T
  <2>1. PICK g : SumsTo(n, g)
    BY <1>4
  <2> DEFINE h == [X \in Small(n + 1) |->
                     IF X = {} THEN 0 ELSE f[NextOf(X)] + g[Rest(X)]]
  <2>2. ASSUME NEW X \in Small(n + 1), X # {}
        PROVE  Rest(X) \in Small(n) /\ Rest(X) \in Small(n + 1)
    BY <1>1, <1>2, <2>2
  <2>3. \A X \in Small(n) : X \in Small(n + 1) /\ h[X] = g[X]
    BY <1>1, <2>1
  <2>4. SumsTo(n + 1, h)
    BY <2>2, <2>3
  <2> HIDE DEF h, SumsTo
  <2> QED
    BY <2>4
<1>5. Cardinality(S) \in T
  <2> HIDE DEF T
  <2> QED BY <1>1, <1>3, <1>4, NumberInduction
<1>6. Small(Cardinality(S)) = SUBSET S
  BY <1>1
<1> QED
  BY <1>5, <1>6 DEF SumsOver, Rest

(* Two such functions agree on a set, if the functions summed do.          *)
LEMMA SumsUnique ==
    ASSUME NEW f, NEW S, NEW g, SumsOver(f, S, g),
           NEW e, NEW R, NEW h, SumsOver(e, R, h),
           NEW X, X \subseteq S, X \subseteq R, IsFiniteSet(X),
           \A x \in X : f[x] = e[x]
    PROVE  g[X] = h[X]
<1> DEFINE Rest(Y) == Y \ {NextOf(Y)}
           T == {n \in Nat : \A Y \in SUBSET X : Cardinality(Y) = n => g[Y] = h[Y]}
<1>1. \A Y \in SUBSET X : IsFiniteSet(Y) /\ Cardinality(Y) \in Nat
  BY FS_Subset, FS_CardinalityType
<1>2. ASSUME NEW Y \in SUBSET X, Y # {}
      PROVE  /\ Rest(Y) \in SUBSET X
             /\ Cardinality(Rest(Y)) = Cardinality(Y) - 1
             /\ g[Y] = f[NextOf(Y)] + g[Rest(Y)]
             /\ h[Y] = e[NextOf(Y)] + h[Rest(Y)]
             /\ f[NextOf(Y)] = e[NextOf(Y)]
  <2>1. NextOf(Y) \in Y
    BY <1>2, NextIsElement
  <2>2. Cardinality(Rest(Y)) = Cardinality(Y) - 1
    BY <1>1, <2>1, FS_RemoveElement
  <2>3. Y \in SUBSET S /\ Y \in SUBSET R
    OBVIOUS
  <2> QED BY <1>2, <2>1, <2>2, <2>3 DEF SumsOver
<1>3. g[{}] = 0 /\ h[{}] = 0
  BY DEF SumsOver
<1> HIDE DEF Rest
<1>4. 0 \in T
  BY <1>1, <1>3, FS_EmptySet
<1>5. ASSUME NEW n \in Nat, n \in T
      PROVE  n + 1 \in T
  <2>1. ASSUME NEW Y \in SUBSET X, Cardinality(Y) = n + 1
        PROVE  g[Y] = h[Y]
    <3>1. Y # {}
      BY <2>1, FS_EmptySet
    <3>2. g[Rest(Y)] = h[Rest(Y)]
      BY <1>2, <1>5, <2>1, <3>1
    <3> QED BY <1>2, <3>1, <3>2
  <2> QED BY <2>1
<1>6. Cardinality(X) \in T
  <2> HIDE DEF T
  <2> QED BY <1>1, <1>4, <1>5, NumberInduction
<1> QED
  BY <1>6

(* The sum of a function is one of those. *)
LEMMA SumGiven ==
    ASSUME NEW f, NEW S, NEW g, SumsOver(f, S, g), IsFiniteSet(S),
           NEW X, X \subseteq S
    PROVE  SumFunctionOnSet(f, X) = g[X]
<1> DEFINE h == CHOOSE q : SumsOver(f, X, q)
<1>1. IsFiniteSet(X)
  BY FS_Subset
<1>2. SumsOver(f, X, h)
  BY <1>1, SumsExist
<1>3. SumFunctionOnSet(f, X) = h[X]
  BY SumIsSums
<1> HIDE DEF h
<1>4. g[X] = h[X]
  BY <1>1, <1>2, SumsUnique
<1> QED
  BY <1>3, <1>4

(* The sum over no element is zero, and depends on the elements only.      *)
LEMMA SumOfNone ==
    ASSUME NEW f
    PROVE  SumFunctionOnSet(f, {}) = 0
<1>1. PICK g : SumsOver(f, {}, g)
  BY FS_EmptySet, SumsExist
<1>2. SumFunctionOnSet(f, {}) = g[{}]
  BY <1>1, FS_EmptySet, SumGiven
<1> QED
  BY <1>1, <1>2 DEF SumsOver

LEMMA SumOfSame ==
    ASSUME NEW S, IsFiniteSet(S), NEW f, NEW e, \A x \in S : f[x] = e[x]
    PROVE  SumFunctionOnSet(f, S) = SumFunctionOnSet(e, S)
<1>1. PICK g : SumsOver(f, S, g)
  BY SumsExist
<1>2. PICK h : SumsOver(e, S, h)
  BY SumsExist
<1>3. g[S] = h[S]
  BY <1>1, <1>2, SumsUnique
<1> QED
  BY <1>1, <1>2, <1>3, SumGiven

LEMMA SumOfNext ==
    ASSUME NEW S, IsFiniteSet(S), S # {}, NEW f
    PROVE  SumFunctionOnSet(f, S)
             = f[NextOf(S)] + SumFunctionOnSet(f, S \ {NextOf(S)})
<1>1. PICK g : SumsOver(f, S, g)
  BY SumsExist
<1>2. g[S] = f[NextOf(S)] + g[S \ {NextOf(S)}]
  BY <1>1 DEF SumsOver
<1> QED
  BY <1>1, <1>2, SumGiven

(* Any element may be taken first. *)
LEMMA SumOfAny ==
    ASSUME NEW S, IsFiniteSet(S), NEW f, \A x \in S : f[x] \in Int
    PROVE  /\ SumFunctionOnSet(f, S) \in Int
           /\ \A x \in S : SumFunctionOnSet(f, S) = f[x] + SumFunctionOnSet(f, S \ {x})
<1> DEFINE Sum(X) == SumFunctionOnSet(f, X)
           Good(X) == /\ Sum(X) \in Int
                      /\ \A x \in X : Sum(X) = f[x] + Sum(X \ {x})
           T == {n \in Nat : \A X \in SUBSET S : Cardinality(X) <= n => Good(X)}
<1>1. \A X \in SUBSET S : IsFiniteSet(X) /\ Cardinality(X) \in Nat
  BY FS_Subset, FS_CardinalityType
<1>2. \A X \in SUBSET S : \A x \in X : Cardinality(X \ {x}) = Cardinality(X) - 1
  BY <1>1, FS_RemoveElement
<1>3. 0 \in T
  BY <1>1, FS_EmptySet, SumOfNone
<1>4. ASSUME NEW n \in Nat, n \in T
      PROVE  n + 1 \in T
  <2>1. ASSUME NEW X \in SUBSET S, Cardinality(X) = n + 1
        PROVE  Good(X)
    <3> DEFINE y == NextOf(X)
    <3>1. X # {}
      BY <2>1, FS_EmptySet
    <3>2. y \in X /\ Sum(X) = f[y] + Sum(X \ {y})
      BY <1>1, <3>1, NextIsElement, SumOfNext
    <3> HIDE DEF y
    <3>3. ASSUME NEW x \in X
          PROVE  Good(X \ {x})
      <4>1. Cardinality(X \ {x}) = n /\ X \ {x} \in SUBSET S
        BY <1>2, <2>1
      <4> HIDE DEF Good
      <4> QED BY <1>4, <4>1
    <3>4. ASSUME NEW x \in X
          PROVE  Sum(X) = f[x] + Sum(X \ {x})
      <4> SUFFICES ASSUME x # y PROVE Sum(X) = f[x] + Sum(X \ {x})
        BY <3>2
      <4>1. (X \ {x}) \ {y} = (X \ {y}) \ {x}
        OBVIOUS
      <4>2. Sum(X \ {y}) = f[x] + Sum((X \ {y}) \ {x})
        BY <3>2, <3>3
      <4>3. Sum(X \ {x}) = f[y] + Sum((X \ {x}) \ {y})
        BY <3>2, <3>3
      <4>4. /\ f[x] \in Int /\ f[y] \in Int
            /\ Sum(X \ {x}) \in Int /\ Sum(X \ {y}) \in Int
        BY <3>2, <3>3
      <4>5. Sum((X \ {x}) \ {y}) \in Int
        <5>1. /\ (X \ {x}) \ {y} \in SUBSET S
              /\ Cardinality((X \ {x}) \ {y}) <= n
          BY <1>1, <1>2, <2>1, <3>2
        <5> QED
          BY <1>4, <5>1
      <4> DEFINE rest == Sum((X \ {x}) \ {y})
      <4>6. Sum(X) = f[y] + (f[x] + rest)
        BY ONLY <3>2, <4>1, <4>2, Zenon
      <4>7. Sum(X \ {x}) = f[y] + rest
        BY ONLY <4>3, Zenon
      <4> HIDE DEF Sum, rest
      <4>8. f[y] + (f[x] + rest) = f[x] + (f[y] + rest)
        BY ONLY <4>4, <4>5, SMT DEF rest
      <4> QED
        BY ONLY <4>6, <4>7, <4>8, Zenon
    <3>5. Sum(X) \in Int
      <4>1. f[y] \in Int /\ Sum(X \ {y}) \in Int
        BY <3>2, <3>3
      <4> HIDE DEF Sum
      <4> QED BY <3>2, <4>1
    <3> QED BY <3>4, <3>5
  <2>2. \A X \in SUBSET S :
           Cardinality(X) <= n + 1 => Cardinality(X) <= n \/ Cardinality(X) = n + 1
    BY <1>1
  <2> HIDE DEF Good
  <2> QED BY <1>4, <2>1, <2>2
<1>5. Cardinality(S) \in T
  <2> HIDE DEF T
  <2> QED BY <1>1, <1>3, <1>4, NumberInduction
<1> QED
  BY <1>5

(* A sum of natural numbers is one, and counting more of them never makes  *)
(* it smaller.                                                             *)
LEMMA SumOfPart ==
    ASSUME NEW S, IsFiniteSet(S), NEW f, \A x \in S : f[x] \in Nat,
           NEW R, R \subseteq S
    PROVE  /\ SumFunctionOnSet(f, R) \in Nat
           /\ SumFunctionOnSet(f, R) <= SumFunctionOnSet(f, S)
<1> DEFINE Sum(X) == SumFunctionOnSet(f, X)
           Good(X) == Sum(X) \in Nat /\ \A Y \in SUBSET X : Sum(Y) \in Nat /\ Sum(Y) <= Sum(X)
           T == {n \in Nat : \A X \in SUBSET S : Cardinality(X) = n => Good(X)}
<1>1. \A X \in SUBSET S : IsFiniteSet(X) /\ Cardinality(X) \in Nat
  BY FS_Subset, FS_CardinalityType
<1>2. 0 \in T
  BY <1>1, FS_EmptySet, SumOfNone
<1>3. ASSUME NEW n \in Nat, n \in T
      PROVE  n + 1 \in T
  <2> SUFFICES ASSUME NEW X \in SUBSET S, Cardinality(X) = n + 1
               PROVE  Good(X)
    OBVIOUS
  <2>1. ASSUME NEW x \in X
        PROVE  Good(X \ {x}) /\ f[x] \in Nat /\ Sum(X) = f[x] + Sum(X \ {x})
    <3>1. IsFiniteSet(X) /\ X \ {x} \in SUBSET S
      BY <1>1
    <3>2. Cardinality(X \ {x}) = n
      <4>1. Cardinality(X \ {x}) = Cardinality(X) - 1
        BY ONLY <3>1, x \in X, FS_RemoveElement
      <4> QED BY <4>1
    <3>3. Sum(X) = f[x] + Sum(X \ {x})
      BY <1>1, SumOfAny
    <3> HIDE DEF Good, Sum
    <3> QED BY <1>3, <3>1, <3>2, <3>3
  <2>2. X # {}
    BY FS_EmptySet
  <2> HIDE DEF Sum
  <2>3. Sum(X) \in Nat
    <3>1. PICK x \in X : Sum(X \ {x}) \in Nat /\ f[x] \in Nat /\ Sum(X) = f[x] + Sum(X \ {x})
      BY <2>1, <2>2
    <3> QED BY <3>1
  <2>4. ASSUME NEW Y \in SUBSET X
        PROVE  Sum(Y) \in Nat /\ Sum(Y) <= Sum(X)
    <3>1. CASE Y = X
      BY <2>3, <3>1
    <3>2. CASE Y # X
      <4>1. PICK x \in X : Y \in SUBSET (X \ {x})
        BY <3>2
      <4>2. /\ Sum(X \ {x}) \in Nat /\ f[x] \in Nat
            /\ Sum(Y) \in Nat /\ Sum(Y) <= Sum(X \ {x})
            /\ Sum(X) = f[x] + Sum(X \ {x})
        BY <2>1, <4>1
      <4> QED BY <4>2
    <3> QED BY <3>1, <3>2
  <2> QED BY <2>3, <2>4
<1>4. Cardinality(S) \in T
  <2> HIDE DEF T
  <2> QED BY <1>1, <1>2, <1>3, NumberInduction
<1> QED
  BY <1>4

(* A sum changes by what an element changes, and is left alone by elements *)
(* that count for nothing.                                                 *)
LEMMA SumOfChange ==
    ASSUME NEW S, IsFiniteSet(S), NEW x, NEW f, NEW e,
           \A y \in S : f[y] \in Nat,
           \A y \in S : y # x => e[y] = f[y],
           e[x] \in Nat
    PROVE  SumFunctionOnSet(e, S \cup {x})
             = SumFunctionOnSet(f, S) + e[x] - (IF x \in S THEN f[x] ELSE 0)
<1> DEFINE R == S \ {x}
<1>1. /\ IsFiniteSet(R) /\ IsFiniteSet(S \cup {x}) /\ R \subseteq S
      /\ (S \cup {x}) \ {x} = R
  BY FS_AddElement, FS_RemoveElement
<1>2. SumFunctionOnSet(e, S \cup {x}) = e[x] + SumFunctionOnSet(e, R)
  <2>1. \A y \in S \cup {x} : e[y] \in Int
    OBVIOUS
  <2> QED BY <1>1, <2>1, SumOfAny
<1>3. SumFunctionOnSet(e, R) = SumFunctionOnSet(f, R)
  BY <1>1, SumOfSame
<1>4. SumFunctionOnSet(f, R) \in Nat
  BY <1>1, SumOfPart
<1>5. CASE x \in S
  <2>1. SumFunctionOnSet(f, S) = f[x] + SumFunctionOnSet(f, R) /\ f[x] \in Nat
    BY <1>5, SumOfAny
  <2> QED BY <1>2, <1>3, <1>4, <1>5, <2>1
<1>6. CASE x \notin S
  <2>1. R = S
    BY <1>6
  <2>2. /\ SumFunctionOnSet(e, S \cup {x}) = e[x] + SumFunctionOnSet(f, S)
        /\ SumFunctionOnSet(f, S) \in Nat
    BY <1>2, <1>3, <1>4, <2>1
  <2> HIDE DEF R
  <2> QED BY <1>6, <2>2
<1> QED
  BY <1>5, <1>6
=============================================================================
