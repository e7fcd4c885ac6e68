---------------------------- MODULE SumTheorems ----------------------------
(***************************************************************************)
(* Facts about SumFunctionOnSet(f, S), the sum of f over a finite set S,   *)
(* which the proofs about money need and no library states: it is any of   *)
(* its terms and the sum of the others, in whatever order the fold takes   *)
(* them.  Induction is by the least counterexample.                        *)
(***************************************************************************)
EXTENDS Functions, FiniteSets, WellFoundedInduction, FiniteSetTheorems, TLAPS

LessThan == {ss \in Nat \X Nat : ss[1] < ss[2]}

\* A set of natural numbers that is not empty has a least member.
LEMMA LeastNatural ==
    ASSUME NEW T, T \subseteq Nat, T # {}
    PROVE  \E n \in T : \A m \in T : n <= m
<1>1. IsWellFoundedOn(LessThan, Nat)
  BY NatLessThanWellFounded, Zenon DEF OpToRel, LessThan
<1>2. \E x \in T : \A y \in T : ~ (<<y, x>> \in LessThan)
  BY <1>1, WFMin
<1>3. \E n \in T : \A m \in T : ~(m < n)
  BY <1>2 DEF LessThan
<1> QED BY <1>3

\* The element the fold takes out of a set first.
Chosen(s) == CHOOSE x \in s : TRUE

\* One equation of the recursive function inside the fold.
Folds(g, f, D) ==
    \A s \in D : g[s] = IF s = {} THEN 0 ELSE f[Chosen(s)] + g[s \ {Chosen(s)}]

\* The recursive function exists on the sets in D.
Foldable(f, D) == \E g : g = [s \in D |-> IF s = {} THEN 0 ELSE f[Chosen(s)] + g[s \ {Chosen(s)}]]

\* The subsets of S with at most n elements.
Small(S, n) == {s \in SUBSET S : Cardinality(s) <= n}

\* What the induction on the size of a set needs of its subsets.
LEMMA SmallSets ==
    ASSUME NEW S, IsFiniteSet(S)
    PROVE  /\ \A s \in SUBSET S : IsFiniteSet(s) /\ Cardinality(s) \in Nat
           /\ \A s \in SUBSET S : s # {} =>
                 /\ Chosen(s) \in s /\ s \ {Chosen(s)} \in SUBSET S
                 /\ Cardinality(s \ {Chosen(s)}) = Cardinality(s) - 1
           /\ Small(S, Cardinality(S)) = SUBSET S
<1>1. \A s \in SUBSET S : IsFiniteSet(s) /\ Cardinality(s) \in Nat /\ Cardinality(s) <= Cardinality(S)
  BY FS_Subset, FS_CardinalityType
<1>2. \A s \in SUBSET S : s # {} =>
         /\ Chosen(s) \in s /\ s \ {Chosen(s)} \in SUBSET S
         /\ Cardinality(s \ {Chosen(s)}) = Cardinality(s) - 1
  <2> SUFFICES ASSUME NEW s \in SUBSET S, s # {}
               PROVE  /\ Chosen(s) \in s /\ s \ {Chosen(s)} \in SUBSET S
                      /\ Cardinality(s \ {Chosen(s)}) = Cardinality(s) - 1
    OBVIOUS
  <2>1. Chosen(s) \in s
    BY DEF Chosen
  <2> QED BY <1>1, <2>1, FS_RemoveElement
<1> QED BY <1>1, <1>2 DEF Small

\* A recursive function exists on the subsets with at most n elements.
LEMMA FoldExists ==
    ASSUME NEW S, IsFiniteSet(S), NEW f, NEW n \in Nat
    PROVE  Foldable(f, Small(S, n))
<1> DEFINE Has(k) == Foldable(f, Small(S, k))
           Without == {k \in Nat : ~Has(k)}
<1>1. Has(0)
  <2> DEFINE g == [s \in Small(S, 0) |-> 0]
  <2>1. \A s \in Small(S, 0) : s = {}
    BY SmallSets, FS_EmptySet DEF Small
  <2>2. g = [s \in Small(S, 0) |-> IF s = {} THEN 0 ELSE f[Chosen(s)] + g[s \ {Chosen(s)}]]
    BY <2>1
  <2> QED BY <2>2 DEF Foldable
<1>2. ASSUME NEW k \in Nat, Has(k) PROVE Has(k + 1)
  <2>1. PICK g : g = [s \in Small(S, k) |-> IF s = {} THEN 0 ELSE f[Chosen(s)] + g[s \ {Chosen(s)}]]
    BY <1>2 DEF Foldable
  <2> DEFINE h == [s \in Small(S, k + 1) |-> IF s = {} THEN 0 ELSE f[Chosen(s)] + g[s \ {Chosen(s)}]]
  <2>2. Small(S, k) \subseteq Small(S, k + 1)
    BY SmallSets DEF Small
  <2>3. \A s \in Small(S, k) : h[s] = g[s]
    BY <2>1, <2>2
  <2>4. \A s \in Small(S, k + 1) : s # {} => s \ {Chosen(s)} \in Small(S, k)
    BY SmallSets DEF Small
  <2>5. h = [s \in Small(S, k + 1) |-> IF s = {} THEN 0 ELSE f[Chosen(s)] + h[s \ {Chosen(s)}]]
    BY <2>3, <2>4
  <2> QED BY <2>5 DEF Foldable
<1> HIDE DEF Has
<1>3. Without = {}
  <2> SUFFICES ASSUME Without # {} PROVE FALSE
    OBVIOUS
  <2>1. PICK k \in Without : \A m \in Without : k <= m
    BY LeastNatural
  <2>2. CASE k = 0
    BY <1>1, <2>1, <2>2
  <2>3. CASE k # 0
    <3>1. k - 1 \in Nat /\ k - 1 \notin Without /\ (k - 1) + 1 = k
      BY <2>1, <2>3
    <3>2. Has(k - 1)
      BY <3>1
    <3>3. Has((k - 1) + 1)
      BY <1>2, <3>1, <3>2
    <3> QED BY <2>1, <3>1, <3>3
  <2> QED BY <2>2, <2>3
<1> QED BY <1>3 DEF Has

\* The fold is one of those functions.
LEMMA SumIsFold ==
    ASSUME NEW S, IsFiniteSet(S), NEW f
    PROVE  \E g : Folds(g, f, SUBSET S) /\ SumFunctionOnSet(f, S) = g[S]
<1> DEFINE iter == CHOOSE g : g = [s \in SUBSET S |-> IF s = {} THEN 0 ELSE f[Chosen(s)] + g[s \ {Chosen(s)}]]
<1>1. SumFunctionOnSet(f, S) = iter[S]
  BY DEF SumFunctionOnSet, FoldFunctionOnSet, MapThenFoldSet, Chosen
<1>2. \E g : g = [s \in SUBSET S |-> IF s = {} THEN 0 ELSE f[Chosen(s)] + g[s \ {Chosen(s)}]]
  <2>1. Foldable(f, Small(S, Cardinality(S)))
    BY FS_CardinalityType, FoldExists
  <2>2. Foldable(f, SUBSET S)
    BY <2>1, SmallSets
  <2> QED BY <2>2 DEF Foldable
<1>3. iter = [s \in SUBSET S |-> IF s = {} THEN 0 ELSE f[Chosen(s)] + iter[s \ {Chosen(s)}]]
  BY <1>2
<1> HIDE DEF iter
<1>4. Folds(iter, f, SUBSET S)
  BY <1>3 DEF Folds
<1> QED BY <1>1, <1>4

\* Two such functions agree wherever both are defined, for terms that agree.
LEMMA FoldUnique ==
    ASSUME NEW S, IsFiniteSet(S), NEW f, NEW e, \A x \in S : f[x] = e[x],
           NEW g, NEW h, NEW D, NEW E, SUBSET S \subseteq D, SUBSET S \subseteq E,
           Folds(g, f, D), Folds(h, e, E)
    PROVE  g[S] = h[S]
<1> DEFINE Differ == {k \in Nat : \E s \in SUBSET S : Cardinality(s) = k /\ g[s] # h[s]}
<1>1. Differ = {}
  <2> SUFFICES ASSUME Differ # {} PROVE FALSE
    OBVIOUS
  <2>1. PICK k \in Differ : \A m \in Differ : k <= m
    BY LeastNatural
  <2>2. PICK s \in SUBSET S : Cardinality(s) = k /\ g[s] # h[s]
    BY <2>1
  <2>3. CASE s = {}
    BY <2>2, <2>3 DEF Folds
  <2>4. CASE s # {}
    <3> DEFINE r == s \ {Chosen(s)}
    <3>1. Chosen(s) \in s /\ r \in SUBSET S /\ Cardinality(r) = k - 1 /\ k \in Nat /\ Cardinality(r) \in Nat
      BY <2>2, <2>4, SmallSets
    <3>2. g[r] = h[r]
      BY <2>1, <3>1
    <3>3. g[s] = f[Chosen(s)] + g[r] /\ h[s] = e[Chosen(s)] + h[r] /\ f[Chosen(s)] = e[Chosen(s)]
      BY <2>4, <3>1 DEF Folds
    <3> QED BY <2>2, <3>2, <3>3
  <2> QED BY <2>3, <2>4
<1>2. Cardinality(S) \in Nat
  BY FS_CardinalityType
<1> QED BY <1>1, <1>2

\* Terms that agree have one sum.
LEMMA SumSame ==
    ASSUME NEW S, IsFiniteSet(S), NEW f, NEW e, \A x \in S : f[x] = e[x]
    PROVE  SumFunctionOnSet(f, S) = SumFunctionOnSet(e, S)
<1>1. PICK g : Folds(g, f, SUBSET S) /\ SumFunctionOnSet(f, S) = g[S]
  BY SumIsFold
<1>2. PICK h : Folds(h, e, SUBSET S) /\ SumFunctionOnSet(e, S) = h[S]
  BY SumIsFold
<1> QED BY <1>1, <1>2, FoldUnique

\* The sum of nothing, and the sum as the fold takes it apart.
LEMMA SumUnfold ==
    ASSUME NEW S, IsFiniteSet(S), NEW f
    PROVE  SumFunctionOnSet(f, S) =
               IF S = {} THEN 0 ELSE f[Chosen(S)] + SumFunctionOnSet(f, S \ {Chosen(S)})
<1>1. PICK g : Folds(g, f, SUBSET S) /\ SumFunctionOnSet(f, S) = g[S]
  BY SumIsFold
<1>2. CASE S = {}
  BY <1>1, <1>2 DEF Folds
<1>3. CASE S # {}
  <2> DEFINE R == S \ {Chosen(S)}
  <2>1. IsFiniteSet(R) /\ R \in SUBSET S
    BY FS_Subset
  <2>2. PICK h : Folds(h, f, SUBSET R) /\ SumFunctionOnSet(f, R) = h[R]
    BY <2>1, SumIsFold
  <2>3. g[R] = h[R]
    BY <1>1, <2>1, <2>2, FoldUnique
  <2> QED BY <1>1, <1>3, <2>2, <2>3 DEF Folds
<1> QED BY <1>2, <1>3

\* A sum of integers is an integer, and a sum of naturals a natural.
LEMMA SumType ==
    ASSUME NEW S, IsFiniteSet(S), NEW f, \A x \in S : f[x] \in Int
    PROVE  /\ SumFunctionOnSet(f, S) \in Int
           /\ (\A x \in S : f[x] \in Nat) => SumFunctionOnSet(f, S) \in Nat
<1> DEFINE Sum(s) == SumFunctionOnSet(f, s)
           Good(s) == Sum(s) \in Int /\ ((\A x \in S : f[x] \in Nat) => Sum(s) \in Nat)
           Bad == {k \in Nat : \E s \in SUBSET S : Cardinality(s) = k /\ ~Good(s)}
<1>0. \A s \in SUBSET S : Sum(s) = IF s = {} THEN 0 ELSE f[Chosen(s)] + Sum(s \ {Chosen(s)})
  BY SumUnfold, SmallSets
<1> HIDE DEF Sum
<1>1. Bad = {}
  <2> SUFFICES ASSUME Bad # {} PROVE FALSE
    OBVIOUS
  <2>1. PICK k \in Bad : \A m \in Bad : k <= m
    BY LeastNatural
  <2>2. PICK s \in SUBSET S : Cardinality(s) = k /\ ~Good(s)
    BY <2>1
  <2>3. CASE s = {}
    <3>1. Sum(s) = 0
      BY <1>0, <2>3
    <3> QED BY <2>2, <3>1
  <2>4. CASE s # {}
    <3> DEFINE r == s \ {Chosen(s)}
    <3>1. Chosen(s) \in S /\ r \in SUBSET S /\ Cardinality(r) = k - 1 /\ k \in Nat /\ Cardinality(r) \in Nat
      BY <2>2, <2>4, SmallSets
    <3>2. Good(r)
      BY <2>1, <3>1
    <3>3. Sum(s) = f[Chosen(s)] + Sum(r)
      BY <1>0, <2>4
    <3> QED BY <2>2, <3>1, <3>2, <3>3
  <2> QED BY <2>3, <2>4
<1>2. Cardinality(S) \in Nat
  BY FS_CardinalityType
<1> QED BY <1>1, <1>2 DEF Sum

\* A sum is any of its terms and the sum of the others.
LEMMA SumSplit ==
    ASSUME NEW S, IsFiniteSet(S), NEW f, \A x \in S : f[x] \in Int, NEW a \in S
    PROVE  SumFunctionOnSet(f, S) = f[a] + SumFunctionOnSet(f, S \ {a})
<1> DEFINE Sum(s) == SumFunctionOnSet(f, s)
           Good(s) == \A x \in s : Sum(s) = f[x] + Sum(s \ {x})
           Bad == {k \in Nat : \E s \in SUBSET S : Cardinality(s) = k /\ ~Good(s)}
<1>0. \A s \in SUBSET S : /\ Sum(s) = IF s = {} THEN 0 ELSE f[Chosen(s)] + Sum(s \ {Chosen(s)})
                          /\ Sum(s) \in Int
  BY SumUnfold, SmallSets, SumType
<1> HIDE DEF Sum
<1>1. Bad = {}
  <2> SUFFICES ASSUME Bad # {} PROVE FALSE
    OBVIOUS
  <2>1. PICK k \in Bad : \A m \in Bad : k <= m
    BY LeastNatural
  <2>2. PICK s \in SUBSET S : Cardinality(s) = k /\ ~Good(s)
    BY <2>1
  <2>3. PICK x \in s : Sum(s) # f[x] + Sum(s \ {x})
    BY <2>2
  <2> DEFINE c == Chosen(s)
             r == s \ {c}
             u == s \ {x}
  <2>4. c \in s /\ r \in SUBSET S /\ Cardinality(r) = k - 1 /\ k \in Nat /\ Cardinality(r) \in Nat
    BY <2>2, <2>3, SmallSets
  <2>5. Sum(s) = f[c] + Sum(r) /\ x # c
    BY <1>0, <2>3
  <2>6. Good(r) /\ x \in r
    BY <2>1, <2>3, <2>4, <2>5
  <2>7. Sum(r) = f[x] + Sum(r \ {x})
    BY <2>6
  <2>8. u \in SUBSET S /\ Cardinality(u) = k - 1 /\ Cardinality(u) \in Nat /\ c \in u
    BY <2>2, <2>3, <2>4, <2>5, FS_RemoveElement, FS_Subset, FS_CardinalityType
  <2>9. Good(u)
    BY <2>1, <2>4, <2>8
  <2>10. Sum(u) = f[c] + Sum(u \ {c})
    BY <2>8, <2>9
  <2>11. u \ {c} = r \ {x}
    OBVIOUS
  <2>12. f[c] \in Int /\ f[x] \in Int /\ Sum(u \ {c}) \in Int
    BY <1>0, <2>3, <2>4
  <2>13. Sum(u \ {c}) = Sum(r \ {x}) /\ Sum(s) # f[x] + Sum(u)
    BY <2>3, <2>11
  <2> HIDE DEF c, r, u, Good, Bad
  <2> QED BY <2>5, <2>7, <2>10, <2>12, <2>13
<1>2. Cardinality(S) \in Nat
  BY FS_CardinalityType
<1>3. Good(S)
  BY <1>1, <1>2
<1> QED BY <1>3 DEF Sum

-----------------------------------------------------------------------------
(* The sum of all the values of a function with a finite domain. *)

\* It is an integer, natural when all the values are, and 0 when they all are.
LEMMA TotalType ==
    ASSUME NEW S, IsFiniteSet(S), NEW f \in [S -> Int]
    PROVE  /\ SumFunction(f) \in Int
           /\ (\A x \in S : f[x] \in Nat) => SumFunction(f) \in Nat
BY SumType DEF SumFunction

\* Zeros add up to zero.
LEMMA TotalZero ==
    ASSUME NEW S, IsFiniteSet(S), NEW f \in [S -> Int], \A x \in S : f[x] = 0
    PROVE  SumFunction(f) = 0
<1> DEFINE Sum(s) == SumFunctionOnSet(f, s)
           Bad == {k \in Nat : \E s \in SUBSET S : Cardinality(s) = k /\ Sum(s) # 0}
<1>0. \A s \in SUBSET S : Sum(s) = IF s = {} THEN 0 ELSE f[Chosen(s)] + Sum(s \ {Chosen(s)})
  BY SumUnfold, SmallSets
<1> HIDE DEF Sum
<1>1. Bad = {}
  <2> SUFFICES ASSUME Bad # {} PROVE FALSE
    OBVIOUS
  <2>1. PICK k \in Bad : \A m \in Bad : k <= m
    BY LeastNatural
  <2>2. PICK s \in SUBSET S : Cardinality(s) = k /\ Sum(s) # 0
    BY <2>1
  <2>3. s # {}
    BY <1>0, <2>2
  <2> DEFINE r == s \ {Chosen(s)}
  <2>4. Chosen(s) \in S /\ r \in SUBSET S /\ Cardinality(r) = k - 1 /\ k \in Nat /\ Cardinality(r) \in Nat
    BY <2>2, <2>3, SmallSets
  <2>5. Sum(r) = 0
    BY <2>1, <2>4
  <2>6. Sum(s) = f[Chosen(s)] + Sum(r) /\ f[Chosen(s)] = 0
    BY <1>0, <2>3, <2>4
  <2> QED BY <2>2, <2>5, <2>6
<1>2. Cardinality(S) \in Nat
  BY FS_CardinalityType
<1> QED BY <1>1, <1>2 DEF Sum, SumFunction

\* A change of one value changes it by as much.
LEMMA TotalChange ==
    ASSUME NEW S, IsFiniteSet(S), NEW f \in [S -> Int], NEW e \in [S -> Int],
           NEW a \in S, \A x \in S : x # a => e[x] = f[x]
    PROVE  SumFunction(e) = SumFunction(f) - f[a] + e[a]
<1> DEFINE R == S \ {a}
<1>1. IsFiniteSet(R)
  BY FS_Subset
<1>2. SumFunctionOnSet(f, S) = f[a] + SumFunctionOnSet(f, R)
  BY SumSplit
<1>3. SumFunctionOnSet(e, S) = e[a] + SumFunctionOnSet(e, R)
  BY SumSplit
<1>4. SumFunctionOnSet(f, R) = SumFunctionOnSet(e, R)
  BY <1>1, SumSame
<1>5. SumFunctionOnSet(f, R) \in Int
  BY <1>1, SumType
<1>6. SumFunction(f) = SumFunctionOnSet(f, S) /\ SumFunction(e) = SumFunctionOnSet(e, S)
  BY DEF SumFunction
<1>7. f[a] \in Int /\ e[a] \in Int
  OBVIOUS
<1> HIDE DEF R
<1> QED BY <1>2, <1>3, <1>4, <1>5, <1>6, <1>7

\* Functions with the same values have one sum.
LEMMA TotalSame ==
    ASSUME NEW S, NEW f, NEW e, DOMAIN f = S, DOMAIN e = S, IsFiniteSet(S),
           \A x \in S : e[x] = f[x]
    PROVE  SumFunction(e) = SumFunction(f)
BY SumSame DEF SumFunction

\* No natural value exceeds the sum.
LEMMA TotalBounds ==
    ASSUME NEW S, IsFiniteSet(S), NEW f \in [S -> Nat], NEW a \in S
    PROVE  f[a] <= SumFunction(f)
<1> DEFINE R == S \ {a}
<1>1. IsFiniteSet(R)
  BY FS_Subset
<1>2. SumFunctionOnSet(f, S) = f[a] + SumFunctionOnSet(f, R)
  BY SumSplit
<1>3. SumFunctionOnSet(f, R) \in Nat
  BY <1>1, SumType
<1>4. SumFunction(f) = SumFunctionOnSet(f, S) /\ f[a] \in Nat
  BY DEF SumFunction
<1> QED BY <1>2, <1>3, <1>4

\* The first n numbers are finitely many.
LEMMA IntervalFinite ==
    ASSUME NEW n \in Nat
    PROVE  IsFiniteSet(1..n)
BY FS_Interval
=============================================================================
