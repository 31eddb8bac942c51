--------------------------- MODULE Pricing_proofs ---------------------------
(***************************************************************************)
(* What Pricing guarantees for every cart, every coupon, every table of    *)
(* tax rates and every zone.                                               *)
(*                                                                         *)
(* The totals are sums and folds, so the proofs need induction over data.  *)
(* The induction theorems of the library take a predicate as a parameter,  *)
(* which the provers cannot instantiate.  Here the predicate is a set: a   *)
(* set of numbers that is not empty has a least element, so a set that     *)
(* holds 0 and with n also n + 1 holds every number (Numbers), and a set   *)
(* of sets that holds {} and grows by elements holds every finite set      *)
(* (Subsets).  From there: sums, folds in the order of the indices, and    *)
(* at last the coupons, the taxes and the totals.                          *)
(***************************************************************************)
EXTENDS Pricing, WellFoundedInduction, FiniteSetTheorems, TLAPS

----------------------------------------------------------------------------
(* Induction.                                                              *)

\* The order of the natural numbers, as a set of pairs.
Smaller == {ss \in Nat \X Nat : ss[1] < ss[2]}

\* No set of numbers goes down forever.
LEMMA SmallerWellFounded == IsWellFoundedOn(Smaller, Nat)
<1>1. Smaller = OpToRel(<, Nat)
  BY DEF OpToRel, Smaller
<1> QED
  BY <1>1, NatLessThanWellFounded

\* A set of numbers that is not empty has a least element.
LEMMA LeastNumber ==
    ASSUME NEW T \in SUBSET Nat, T # {}
    PROVE  \E n \in T : \A m \in T : n <= m
<1>1. PICK n \in T : \A m \in T : ~ (<<m, n>> \in Smaller)
  BY SmallerWellFounded, WFMin, Zenon
<1>2. \A m \in T : m < n => <<m, n>> \in Smaller
  BY DEF Smaller
<1>3. \A m \in T : ~ (m < n)
  BY <1>1, <1>2
<1> QED
  BY <1>3

\* A set of numbers with 0 and every successor holds every number.
LEMMA Numbers ==
    ASSUME NEW T, 0 \in T, \A n \in Nat : n \in T => n + 1 \in T
    PROVE  \A n \in Nat : n \in T
<1>1. SUFFICES ASSUME Nat \ T # {} PROVE FALSE
  OBVIOUS
<1>2. PICK n \in Nat \ T : \A m \in Nat \ T : n <= m
  BY <1>1, LeastNumber
<1>3. n - 1 \in Nat \ T
  BY <1>2
<1> QED
  BY <1>2, <1>3

\* A set of sets with {} and every set that is one element larger holds every subset
\* of a finite set.
LEMMA Subsets ==
    ASSUME NEW D, IsFiniteSet(D), NEW P, {} \in P,
           \A S \in SUBSET D, x \in D : S \in P /\ x \notin S => S \cup {x} \in P
    PROVE  \A S \in SUBSET D : S \in P
<1> DEFINE T == {n \in Nat : \A S \in SUBSET D : Cardinality(S) = n => S \in P}
<1>1. \A S \in SUBSET D : IsFiniteSet(S) /\ Cardinality(S) \in Nat
  BY FS_Subset, FS_CardinalityType
<1>2. 0 \in T
  BY <1>1, FS_EmptySet
<1>3. ASSUME NEW n \in Nat, n \in T PROVE n + 1 \in T
  <2>1. SUFFICES ASSUME NEW S \in SUBSET D, Cardinality(S) = n + 1 PROVE S \in P
    OBVIOUS
  <2>2. PICK x : x \in S
    BY <1>1, <2>1, FS_EmptySet
  <2>3. Cardinality(S \ {x}) = n
    <3>1. Cardinality(S \ {x}) = Cardinality(S) - 1
      BY <1>1, <2>2, FS_RemoveElement, Zenon
    <3> QED
      BY <2>1, <3>1
  <2>4. S \ {x} \in P
    BY <1>3, <2>3
  <2>5. S = (S \ {x}) \cup {x} /\ x \in D /\ x \notin S \ {x}
    BY <2>2
  <2> QED
    BY <2>4, <2>5
<1>4. \A n \in Nat : n \in T
  <2> HIDE DEF T
  <2> QED BY <1>2, <1>3, Numbers
<1> QED
  BY <1>1, <1>4

\* g folds the subsets of D, from base on; pick says which element is next.
FoldedBy(g, D, base, pick, step) ==
    \A S \in SUBSET D :
        g[S] = IF S = {} THEN base ELSE step[<<pick[S], g[S \ {pick[S]}]>>]

\* Every fold over the subsets of a finite set exists.
LEMMA FoldExists ==
    ASSUME NEW D, IsFiniteSet(D), NEW V, NEW base \in V, NEW pick,
           \A S \in SUBSET D : S # {} => pick[S] \in S,
           NEW step \in [D \X V -> V]
    PROVE  \E g \in [SUBSET D -> V] : FoldedBy(g, D, base, pick, step)
<1> DEFINE UpTo(n) == {S \in SUBSET D : Cardinality(S) <= n}
           FoldsUpTo(g, n) == \A S \in UpTo(n) :
               g[S] = IF S = {} THEN base ELSE step[<<pick[S], g[S \ {pick[S]}]>>]
           T == {n \in Nat : \E g \in [UpTo(n) -> V] : FoldsUpTo(g, n)}
<1>1. \A S \in SUBSET D : IsFiniteSet(S) /\ Cardinality(S) \in Nat
  BY FS_Subset, FS_CardinalityType
<1>2. 0 \in T
  <2>1. UpTo(0) = {{}}
    BY <1>1, FS_EmptySet
  <2>2. [S \in {{}} |-> base] \in [UpTo(0) -> V] /\ FoldsUpTo([S \in {{}} |-> base], 0)
    BY <2>1
  <2> QED
    BY <2>2
<1>3. ASSUME NEW n \in Nat, n \in T PROVE n + 1 \in T
  <2>1. PICK g \in [UpTo(n) -> V] : FoldsUpTo(g, n)
    BY <1>3
  <2> DEFINE h == [S \in UpTo(n + 1) |->
                     IF S = {} THEN base ELSE step[<<pick[S], g[S \ {pick[S]}]>>]]
  <2>2. \A S \in UpTo(n + 1) : S # {} =>
          pick[S] \in D /\ S \ {pick[S]} \in UpTo(n)
    BY <1>1, FS_RemoveElement
  <2>3. h \in [UpTo(n + 1) -> V]
    BY <2>2
  <2>4. \A S \in UpTo(n) : S \in UpTo(n + 1) /\ h[S] = g[S]
    <3>1. \A S \in UpTo(n) : S \in UpTo(n + 1)
      BY <1>1
    <3> QED BY <2>1, <3>1
  <2>5. FoldsUpTo(h, n + 1)
    BY <2>2, <2>4
  <2>6. \E f \in [UpTo(n + 1) -> V] : FoldsUpTo(f, n + 1)
    <3> HIDE DEF h, FoldsUpTo, UpTo
    <3> QED
      BY <2>3, <2>5
  <2> QED
    <3> HIDE DEF h, FoldsUpTo, UpTo
    <3> QED
      BY <2>6
<1>4. \A n \in Nat : n \in T
  <2> HIDE DEF T
  <2> QED BY <1>2, <1>3, Numbers
<1>5. Cardinality(D) \in T
  BY <1>1, <1>4
<1>6. UpTo(Cardinality(D)) = SUBSET D
  BY <1>1, FS_Subset
<1> QED
  BY <1>5, <1>6 DEF FoldedBy
----------------------------------------------------------------------------
(* Sums over the subsets of the domain of a function.                      *)

\* The element a sum takes next.
Member(S) == CHOOSE x \in S : TRUE

\* The function of all partial sums of f.
Partial(f, g) ==
    g = [S \in SUBSET DOMAIN f |-> IF S = {} THEN 0 ELSE f[Member(S)] + g[S \ {Member(S)}]]

\* The sum of f over a part S of its domain.
SumOver(f, S) == (CHOOSE g : Partial(f, g))[S]

\* The total of the model is the sum over the whole domain.
LEMMA SumIsSumOver ==
    ASSUME NEW f
    PROVE  Sum(f) = SumOver(f, DOMAIN f)
BY DEF Sum, FoldFunction, FoldFunctionOnSet, MapThenFoldSet, SumOver, Partial, Member

\* A sum over no element is 0; another one is a term and the sum of the rest.
LEMMA SumUnfolds ==
    ASSUME NEW D, IsFiniteSet(D), NEW f \in [D -> Int]
    PROVE  /\ SumOver(f, {}) = 0
           /\ \A S \in SUBSET D : S # {} =>
                 SumOver(f, S) = f[Member(S)] + SumOver(f, S \ {Member(S)})
<1> DEFINE pick == [S \in SUBSET D |-> Member(S)]
           step == [x \in D \X Int |-> f[x[1]] + x[2]]
<1>1. \A S \in SUBSET D : S # {} => pick[S] \in S /\ Member(S) = pick[S]
  BY DEF Member
<1>2. step \in [D \X Int -> Int]
  OBVIOUS
<1>3. PICK g \in [SUBSET D -> Int] : FoldedBy(g, D, 0, pick, step)
  <2>1. \A S \in SUBSET D : S # {} => pick[S] \in S
    BY <1>1
  <2>2. 0 \in Int
    OBVIOUS
  <2> HIDE DEF pick, step
  <2> QED
    BY <1>2, <2>1, <2>2, FoldExists, Zenon
<1>4. Partial(f, g)
  <2>1. ASSUME NEW S \in SUBSET D, S # {}
        PROVE  g[S] = f[Member(S)] + g[S \ {Member(S)}]
    <3>1. pick[S] \in D /\ S \ {pick[S]} \in SUBSET D
      BY <1>1, <2>1
    <3>2. step[<<pick[S], g[S \ {pick[S]}]>>] = f[pick[S]] + g[S \ {pick[S]}]
      BY <3>1
    <3> QED
      BY <1>1, <1>3, <2>1, <3>2 DEF FoldedBy
  <2>2. \A S \in SUBSET D : g[S] = IF S = {} THEN 0 ELSE f[Member(S)] + g[S \ {Member(S)}]
    BY <1>3, <2>1 DEF FoldedBy
  <2> QED
    BY <2>2 DEF Partial
<1>5. Partial(f, CHOOSE h : Partial(f, h))
  BY <1>4
<1> QED
  BY <1>5 DEF Partial, SumOver

\* A sum of integers is an integer.
LEMMA SumOverType ==
    ASSUME NEW D, IsFiniteSet(D), NEW f \in [D -> Int]
    PROVE  \A S \in SUBSET D : SumOver(f, S) \in Int
<1> DEFINE T == {n \in Nat : \A S \in SUBSET D : Cardinality(S) = n => SumOver(f, S) \in Int}
<1>1. \A S \in SUBSET D : IsFiniteSet(S) /\ Cardinality(S) \in Nat
  BY FS_Subset, FS_CardinalityType
<1>2. 0 \in T
  <2>1. \A S \in SUBSET D : Cardinality(S) = 0 => S = {}
    BY <1>1, FS_EmptySet
  <2>2. SumOver(f, {}) \in Int
    BY SumUnfolds
  <2> QED
    BY <2>1, <2>2
<1>3. ASSUME NEW n \in Nat, n \in T PROVE n + 1 \in T
  <2>1. SUFFICES ASSUME NEW S \in SUBSET D, Cardinality(S) = n + 1
                 PROVE  SumOver(f, S) \in Int
    OBVIOUS
  <2>2. S # {} /\ Member(S) \in S
    BY <1>1, <2>1, FS_EmptySet DEF Member
  <2>3. Cardinality(S \ {Member(S)}) = Cardinality(S) - 1
    BY <1>1, <2>2, FS_RemoveElement, Zenon
  <2>4. SumOver(f, S \ {Member(S)}) \in Int
    BY <1>3, <2>1, <2>3
  <2> QED
    BY <2>2, <2>4, SumUnfolds
<1>4. \A n \in Nat : n \in T
  <2> HIDE DEF T
  <2> QED BY <1>2, <1>3, Numbers
<1> QED
  BY <1>1, <1>4

\* The order in which the terms are added does not matter.
LEMMA SumOverRemove ==
    ASSUME NEW D, IsFiniteSet(D), NEW f \in [D -> Int]
    PROVE  \A S \in SUBSET D : \A x \in S : SumOver(f, S) = f[x] + SumOver(f, S \ {x})
<1> DEFINE T == {n \in Nat : \A S \in SUBSET D : Cardinality(S) = n =>
                    \A x \in S : SumOver(f, S) = f[x] + SumOver(f, S \ {x})}
<1>1. \A S \in SUBSET D : IsFiniteSet(S) /\ Cardinality(S) \in Nat
  BY FS_Subset, FS_CardinalityType
<1>2. 0 \in T
  BY <1>1, FS_EmptySet
<1>3. ASSUME NEW n \in Nat, n \in T PROVE n + 1 \in T
  <2>1. SUFFICES ASSUME NEW S \in SUBSET D, Cardinality(S) = n + 1, NEW x \in S
                 PROVE  SumOver(f, S) = f[x] + SumOver(f, S \ {x})
    OBVIOUS
  <2> DEFINE y == Member(S)
  <2>2. y \in S
    BY DEF Member
  <2>3. SumOver(f, S) = f[y] + SumOver(f, S \ {y})
    BY SumUnfolds
  <2> HIDE DEF y
  <2>4. CASE x = y
    BY <2>3, <2>4
  <2>5. CASE x # y
    <3>1. Cardinality(S \ {y}) = n /\ Cardinality(S \ {x}) = n
      <4>1. Cardinality(S \ {y}) = Cardinality(S) - 1
            /\ Cardinality(S \ {x}) = Cardinality(S) - 1
        BY <1>1, <2>2, FS_RemoveElement, Zenon
      <4> QED BY <2>1, <4>1
    <3>2. SumOver(f, S \ {y}) = f[x] + SumOver(f, (S \ {y}) \ {x})
      BY <1>3, <2>5, <3>1
    <3>3. SumOver(f, S \ {x}) = f[y] + SumOver(f, (S \ {x}) \ {y})
      BY <1>3, <2>2, <2>5, <3>1
    <3> DEFINE rest == SumOver(f, (S \ {x}) \ {y})
    <3>4. SumOver(f, S \ {y}) = f[x] + rest
      <4>1. (S \ {y}) \ {x} = (S \ {x}) \ {y}
        OBVIOUS
      <4> QED
        BY <3>2, <4>1
    <3>5. rest \in Int /\ f[x] \in Int /\ f[y] \in Int
      BY <2>2, SumOverType
    <3>6. SumOver(f, S \ {x}) = f[y] + rest
      BY <3>3
    <3> HIDE DEF rest
    <3> QED
      BY <2>3, <3>4, <3>5, <3>6
  <2> QED
    BY <2>4, <2>5
<1>4. \A n \in Nat : n \in T
  <2> HIDE DEF T
  <2> QED BY <1>2, <1>3, Numbers
<1> QED
  BY <1>1, <1>4

\* An element more adds its term.
LEMMA SumOverAdd ==
    ASSUME NEW D, IsFiniteSet(D), NEW f \in [D -> Int], NEW S \in SUBSET D,
           NEW x \in D, x \notin S
    PROVE  SumOver(f, S \cup {x}) = f[x] + SumOver(f, S)
<1>1. (S \cup {x}) \ {x} = S /\ S \cup {x} \in SUBSET D /\ x \in S \cup {x}
  OBVIOUS
<1>2. SumOver(f, S \cup {x}) = f[x] + SumOver(f, (S \cup {x}) \ {x})
  BY <1>1, SumOverRemove
<1> QED
  BY <1>1, <1>2

\* Functions that agree on a set have the same sum over it.
LEMMA SumOverAgrees ==
    ASSUME NEW D, IsFiniteSet(D), NEW f \in [D -> Int],
           NEW E, IsFiniteSet(E), NEW g \in [E -> Int],
           NEW R \in SUBSET D, R \in SUBSET E, \A x \in R : f[x] = g[x]
    PROVE  SumOver(f, R) = SumOver(g, R)
<1> DEFINE P == {S \in SUBSET R : SumOver(f, S) = SumOver(g, S)}
<1>1. {} \in P
  BY SumUnfolds
<1>2. ASSUME NEW S \in SUBSET R, NEW x \in R, S \in P, x \notin S
      PROVE  S \cup {x} \in P
  <2>1. SumOver(f, S \cup {x}) = f[x] + SumOver(f, S)
    BY <1>2, SumOverAdd
  <2>2. SumOver(g, S \cup {x}) = g[x] + SumOver(g, S)
    BY <1>2, SumOverAdd
  <2> QED
    BY <1>2, <2>1, <2>2
<1>3. IsFiniteSet(R)
  BY FS_Subset
<1> HIDE DEF P
<1>4. \A S \in SUBSET R : S \in P
  BY <1>1, <1>2, <1>3, Subsets
<1> QED
  BY <1>4 DEF P

\* The sum of termwise sums is the sum of the sums.
LEMMA SumOverPlus ==
    ASSUME NEW D, IsFiniteSet(D), NEW f \in [D -> Int], NEW g \in [D -> Int],
           NEW h \in [D -> Int], \A x \in D : h[x] = f[x] + g[x]
    PROVE  \A S \in SUBSET D : SumOver(h, S) = SumOver(f, S) + SumOver(g, S)
<1> DEFINE P == {S \in SUBSET D : SumOver(h, S) = SumOver(f, S) + SumOver(g, S)}
<1>1. {} \in P
  <2>1. SumOver(f, {}) = 0 /\ SumOver(g, {}) = 0 /\ SumOver(h, {}) = 0
    BY SumUnfolds
  <2> QED BY <2>1
<1>2. ASSUME NEW S \in SUBSET D, NEW x \in D, S \in P, x \notin S
      PROVE  S \cup {x} \in P
  <2>1. /\ SumOver(f, S \cup {x}) = f[x] + SumOver(f, S)
        /\ SumOver(g, S \cup {x}) = g[x] + SumOver(g, S)
        /\ SumOver(h, S \cup {x}) = h[x] + SumOver(h, S)
    BY <1>2, SumOverAdd
  <2>2. SumOver(f, S) \in Int /\ SumOver(g, S) \in Int /\ SumOver(h, S) \in Int
    BY SumOverType
  <2> QED
    BY <1>2, <2>1, <2>2
<1> HIDE DEF P
<1>3. \A S \in SUBSET D : S \in P
  BY <1>1, <1>2, Subsets
<1> QED
  BY <1>3 DEF P

\* Smaller terms, smaller sum.
LEMMA SumOverAtMost ==
    ASSUME NEW D, IsFiniteSet(D), NEW f \in [D -> Int], NEW g \in [D -> Int],
           \A x \in D : f[x] <= g[x]
    PROVE  \A S \in SUBSET D : SumOver(f, S) <= SumOver(g, S)
<1> DEFINE P == {S \in SUBSET D : SumOver(f, S) <= SumOver(g, S)}
<1>1. {} \in P
  <2>1. SumOver(f, {}) = 0 /\ SumOver(g, {}) = 0
    BY SumUnfolds
  <2> QED BY <2>1
<1>2. ASSUME NEW S \in SUBSET D, NEW x \in D, S \in P, x \notin S
      PROVE  S \cup {x} \in P
  <2>1. /\ SumOver(f, S \cup {x}) = f[x] + SumOver(f, S)
        /\ SumOver(g, S \cup {x}) = g[x] + SumOver(g, S)
    BY <1>2, SumOverAdd
  <2>2. SumOver(f, S) \in Int /\ SumOver(g, S) \in Int
    BY SumOverType
  <2> QED
    BY <1>2, <2>1, <2>2
<1> HIDE DEF P
<1>3. \A S \in SUBSET D : S \in P
  BY <1>1, <1>2, Subsets
<1> QED
  BY <1>3 DEF P

\* A factor of every term is a factor of the sum.
LEMMA SumOverTimes ==
    ASSUME NEW D, IsFiniteSet(D), NEW f \in [D -> Int], NEW c \in Int,
           NEW h \in [D -> Int], \A x \in D : h[x] = f[x] * c
    PROVE  \A S \in SUBSET D : SumOver(h, S) = SumOver(f, S) * c
<1> DEFINE P == {S \in SUBSET D : SumOver(h, S) = SumOver(f, S) * c}
<1>1. {} \in P
  <2>1. SumOver(f, {}) = 0 /\ SumOver(h, {}) = 0
    BY SumUnfolds
  <2> QED BY <2>1
<1>2. ASSUME NEW S \in SUBSET D, NEW x \in D, S \in P, x \notin S
      PROVE  S \cup {x} \in P
  <2>1. /\ SumOver(f, S \cup {x}) = f[x] + SumOver(f, S)
        /\ SumOver(h, S \cup {x}) = h[x] + SumOver(h, S)
    BY <1>2, SumOverAdd
  <2>2. SumOver(f, S) \in Int /\ SumOver(h, S) \in Int
    BY SumOverType
  <2>3. \A a, b \in Int : (a + b) * c = a * c + b * c
    OBVIOUS
  <2>4. (f[x] + SumOver(f, S)) * c = f[x] * c + SumOver(f, S) * c
    BY <2>2, <2>3
  <2> QED
    BY <1>2, <2>1, <2>2, <2>4
<1> HIDE DEF P
<1>3. \A S \in SUBSET D : S \in P
  BY <1>1, <1>2, Subsets
<1> QED
  BY <1>3 DEF P

\* Equal terms add up to the number of the terms times one of them.
LEMMA SumOverSame ==
    ASSUME NEW D, IsFiniteSet(D), NEW c \in Int, NEW f \in [D -> Int], \A x \in D : f[x] = c
    PROVE  \A S \in SUBSET D : SumOver(f, S) = Cardinality(S) * c
<1> DEFINE P == {S \in SUBSET D : SumOver(f, S) = Cardinality(S) * c}
<1>1. {} \in P
  <2>1. SumOver(f, {}) = 0 /\ Cardinality({}) = 0
    BY SumUnfolds, FS_EmptySet
  <2> QED BY <2>1
<1>2. ASSUME NEW S \in SUBSET D, NEW x \in D, S \in P, x \notin S
      PROVE  S \cup {x} \in P
  <2>1. SumOver(f, S \cup {x}) = c + SumOver(f, S)
    BY <1>2, SumOverAdd
  <2>2. IsFiniteSet(S) /\ Cardinality(S) \in Nat
    BY FS_Subset, FS_CardinalityType
  <2>3. Cardinality(S \cup {x}) = Cardinality(S) + 1
    BY <1>2, <2>2, FS_AddElement
  <2>4. \A n \in Nat : (n + 1) * c = c + n * c
    OBVIOUS
  <2> QED
    BY <1>2, <2>1, <2>2, <2>3, <2>4
<1> HIDE DEF P
<1>3. \A S \in SUBSET D : S \in P
  BY <1>1, <1>2, Subsets
<1> QED
  BY <1>3 DEF P
----------------------------------------------------------------------------
(* The same of the totals of the model.                                    *)

\* The total of integers is an integer.
LEMMA SumType ==
    ASSUME NEW D, IsFiniteSet(D), NEW f \in [D -> Int]
    PROVE  Sum(f) \in Int
BY SumIsSumOver, SumOverType

\* The total of termwise sums is the sum of the totals.
LEMMA SumPlus ==
    ASSUME NEW D, IsFiniteSet(D), NEW f \in [D -> Int], NEW g \in [D -> Int],
           NEW h \in [D -> Int], \A x \in D : h[x] = f[x] + g[x]
    PROVE  Sum(h) = Sum(f) + Sum(g)
<1>1. \A S \in SUBSET D : SumOver(h, S) = SumOver(f, S) + SumOver(g, S)
  BY SumOverPlus
<1> QED
  BY <1>1, SumIsSumOver

\* Smaller terms, smaller total.
LEMMA SumAtMost ==
    ASSUME NEW D, IsFiniteSet(D), NEW f \in [D -> Int], NEW g \in [D -> Int],
           \A x \in D : f[x] <= g[x]
    PROVE  Sum(f) <= Sum(g)
<1>1. \A S \in SUBSET D : SumOver(f, S) <= SumOver(g, S)
  BY SumOverAtMost
<1> QED
  BY <1>1, SumIsSumOver

\* A factor of every term is a factor of the total.
LEMMA SumTimes ==
    ASSUME NEW D, IsFiniteSet(D), NEW f \in [D -> Int], NEW c \in Int,
           NEW h \in [D -> Int], \A x \in D : h[x] = f[x] * c
    PROVE  Sum(h) = Sum(f) * c
<1>1. \A S \in SUBSET D : SumOver(h, S) = SumOver(f, S) * c
  BY SumOverTimes
<1> QED
  BY <1>1, SumIsSumOver

\* The total of equal terms.
LEMMA SumSame ==
    ASSUME NEW D, IsFiniteSet(D), NEW c \in Int, NEW f \in [D -> Int], \A x \in D : f[x] = c
    PROVE  Sum(f) = Cardinality(D) * c
<1>1. \A S \in SUBSET D : SumOver(f, S) = Cardinality(S) * c
  BY SumOverSame
<1> QED
  BY <1>1, SumIsSumOver

\* The total of natural numbers is one.
LEMMA SumNatural ==
    ASSUME NEW D, IsFiniteSet(D), NEW f \in [D -> Nat]
    PROVE  Sum(f) \in Nat
<1> DEFINE zero == [x \in D |-> 0]
<1>1. Sum(zero) = 0
  <2>1. zero \in [D -> Int] /\ \A x \in D : zero[x] = 0
    OBVIOUS
  <2>2. Cardinality(D) \in Nat
    BY FS_CardinalityType
  <2>3. Sum(zero) = Cardinality(D) * 0
    <3> HIDE DEF zero
    <3> QED BY <2>1, SumSame
  <2> QED
    BY <2>2, <2>3
<1>2. Sum(zero) <= Sum(f)
  BY SumAtMost
<1>3. Sum(f) \in Int
  BY SumType
<1> HIDE DEF zero
<1> QED
  BY <1>1, <1>2, <1>3

\* A total with one term changed moves by the change of that term.
LEMMA SumChange ==
    ASSUME NEW D, IsFiniteSet(D), NEW f \in [D -> Int], NEW g \in [D -> Int],
           NEW x \in D, \A y \in D \ {x} : g[y] = f[y]
    PROVE  Sum(g) = Sum(f) + (g[x] - f[x])
<1>1. SumOver(f, D) = f[x] + SumOver(f, D \ {x}) /\ SumOver(g, D) = g[x] + SumOver(g, D \ {x})
  BY SumOverRemove
<1>2. SumOver(f, D \ {x}) = SumOver(g, D \ {x})
  BY SumOverAgrees
<1>3. SumOver(f, D \ {x}) \in Int
  BY SumOverType
<1> QED
  BY <1>1, <1>2, <1>3, SumIsSumOver

\* Terms that are 0 may be left out of the total.
LEMMA SumPart ==
    ASSUME NEW D, IsFiniteSet(D), NEW f \in [D -> Int], NEW S \in SUBSET D,
           NEW g \in [S -> Int], \A x \in S : g[x] = f[x], \A x \in D \ S : f[x] = 0
    PROVE  Sum(g) = Sum(f)
<1> DEFINE P == {T \in SUBSET D : SumOver(f, T) = SumOver(f, T \cap S)}
<1>1. {} \in P
  <2>1. {} \cap S = {}
    OBVIOUS
  <2> QED BY <2>1
<1>2. ASSUME NEW T \in SUBSET D, NEW x \in D, T \in P, x \notin T
      PROVE  T \cup {x} \in P
  <2>1. SumOver(f, T \cup {x}) = f[x] + SumOver(f, T)
    BY <1>2, SumOverAdd
  <2>2. SumOver(f, T) \in Int /\ SumOver(f, T) = SumOver(f, T \cap S)
    BY <1>2, SumOverType
  <2>3. CASE x \in S
    <3>1. (T \cup {x}) \cap S = (T \cap S) \cup {x} /\ T \cap S \in SUBSET D
      BY <2>3
    <3>2. SumOver(f, (T \cap S) \cup {x}) = f[x] + SumOver(f, T \cap S)
      BY <1>2, <3>1, SumOverAdd
    <3> QED
      BY <2>1, <2>2, <3>1, <3>2
  <2>4. CASE x \notin S
    <3>1. (T \cup {x}) \cap S = T \cap S /\ f[x] = 0
      BY <2>4
    <3>2. SumOver(f, (T \cup {x}) \cap S) = SumOver(f, T \cap S)
      BY <3>1
    <3>3. SumOver(f, T \cup {x}) = SumOver(f, T)
      BY <2>1, <2>2, <3>1
    <3> QED
      BY <2>2, <3>2, <3>3
  <2> QED
    BY <2>3, <2>4
<1>3. \A T \in SUBSET D : T \in P
  <2> HIDE DEF P
  <2> QED BY <1>1, <1>2, Subsets
<1>4. D \cap S = S
  OBVIOUS
<1>5. SumOver(f, D) = SumOver(f, S)
  BY <1>3, <1>4
<1>6. SumOver(f, S) = SumOver(g, S)
  <2>1. IsFiniteSet(S) /\ S \in SUBSET S
    BY FS_Subset
  <2> QED BY <2>1, SumOverAgrees
<1> QED
  BY <1>5, <1>6, SumIsSumOver
----------------------------------------------------------------------------
(* Folds in the order of the indices.                                      *)

\* The greatest of numbers up to n is one of them.
LEMMA MaxBelongs ==
    ASSUME NEW n \in Nat, NEW S \in SUBSET (1..n), S # {}
    PROVE  Max(S) \in S /\ \A y \in S : Max(S) >= y
<1> DEFINE T == {n - x : x \in S}
<1>1. T \in SUBSET Nat /\ T # {}
  <2>1. \A x \in S : n - x \in Nat
    OBVIOUS
  <2> QED
    BY <2>1
<1>2. PICK t \in T : \A m \in T : t <= m
  <2> HIDE DEF T
  <2> QED BY <1>1, LeastNumber
<1>3. PICK x \in S : t = n - x
  BY <1>2
<1>4. \A y \in S : x >= y
  <2>1. ASSUME NEW y \in S PROVE x >= y
    <3>1. n - y \in T
      OBVIOUS
    <3>2. t <= n - y
      BY <1>2, <3>1
    <3> QED
      BY <1>3, <3>2
  <2> QED
    BY <2>1
<1> QED
  BY <1>3, <1>4 DEF Max

\* The greatest of the numbers up to i is i, and the others are those before it.
LEMMA MaxOfInterval ==
    ASSUME NEW i \in Nat \ {0}
    PROVE  Max(1..i) = i /\ (1..i) \ {Max(1..i)} = 1..(i - 1)
<1>1. Max(1..i) \in 1..i /\ \A y \in 1..i : Max(1..i) >= y
  <2>1. i \in Nat /\ 1..i \in SUBSET (1..i) /\ i \in 1..i
    OBVIOUS
  <2>2. 1..i # {}
    BY <2>1
  <2> QED
    BY <2>1, <2>2, MaxBelongs, Zenon
<1> QED
  BY <1>1

\* h runs through base and the results of the steps up to g of all indices.
Unrolls(h, g, n, base, step) ==
    /\ h[0] = base
    /\ \A i \in 1..n : h[i] = step[<<i, h[i - 1]>>]
    /\ h[n] = g[1..n]

\* A function of the sets of indices that goes on from 1..i - 1 to 1..i by a step is
\* a function of the indices.
LEMMA StepsInOrder ==
    ASSUME NEW n \in Nat, NEW V, NEW base \in V, NEW step \in [(1..n) \X V -> V],
           NEW g, g[{}] = base,
           \A i \in 1..n : g[1..(i - 1)] \in V => g[1..i] = step[<<i, g[1..(i - 1)]>>]
    PROVE  \E h \in [0..n -> V] : Unrolls(h, g, n, base, step)
<1> DEFINE T == {i \in Nat : i <= n => g[1..i] \in V}
<1>1. 0 \in T
  OBVIOUS
<1>2. ASSUME NEW i \in Nat, i \in T PROVE i + 1 \in T
  <2>1. SUFFICES ASSUME i + 1 <= n PROVE g[1..(i + 1)] \in V
    OBVIOUS
  <2>2. g[1..i] \in V /\ (i + 1) - 1 = i /\ i + 1 \in 1..n
    BY <1>2, <2>1
  <2>3. g[1..(i + 1)] = step[<<i + 1, g[1..i]>>]
    BY <2>2
  <2> QED
    BY <2>2, <2>3
<1>3. \A i \in Nat : i \in T
  <2> HIDE DEF T
  <2> QED BY <1>1, <1>2, Numbers
<1> DEFINE h == [i \in 0..n |-> g[1..i]]
<1>4. h \in [0..n -> V]
  BY <1>3
<1>5. h[0] = base
  OBVIOUS
<1>6. \A i \in 1..n : h[i] = step[<<i, h[i - 1]>>]
  <2>1. ASSUME NEW i \in 1..n PROVE h[i] = step[<<i, h[i - 1]>>]
    <3>1. i \in 0..n /\ i - 1 \in 0..n
      OBVIOUS
    <3>2. h[i] = g[1..i] /\ h[i - 1] = g[1..(i - 1)]
      BY <3>1
    <3>3. g[1..(i - 1)] \in V
      BY <1>4, <3>1, <3>2
    <3> HIDE DEF h
    <3> QED
      BY <3>2, <3>3
  <2> QED
    BY <2>1
<1>7. h[n] = g[1..n]
  OBVIOUS
<1>8. Unrolls(h, g, n, base, step)
  BY <1>5, <1>6, <1>7 DEF Unrolls
<1> HIDE DEF h
<1> QED
  BY <1>4, <1>8
----------------------------------------------------------------------------
(* Arithmetic.                                                             *)

\* A number is its quotient times the divisor and the rest.
LEMMA Division ==
    ASSUME NEW n \in Nat, NEW d \in Nat \ {0}
    PROVE  /\ n \div d \in Nat /\ n % d \in 0..(d - 1)
           /\ n = d * (n \div d) + (n % d)
<1>1. n % d \in 0..(d - 1)
  OBVIOUS
<1>2. n \div d \in Int
  OBVIOUS
<1>3. n = d * (n \div d) + (n % d)
  OBVIOUS
<1>4. n \div d \in Nat
  OBVIOUS
<1> QED
  BY <1>1, <1>3, <1>4

\* A product is not negative, and grows with a factor.
LEMMA Products ==
    /\ \A a, b \in Nat : a * b \in Nat
    /\ \A a, b \in Int : a * b \in Int /\ a * b = b * a
    /\ \A a, b, c \in Int : a <= b /\ c >= 0 => a * c <= b * c /\ c * a <= c * b
    /\ \A a, b, c \in Int : (a + b) * c = a * c + b * c /\ c * (a + b) = c * a + c * b
    /\ \A a, b, c \in Int : (a - b) * c = a * c - b * c /\ c * (a - b) = c * a - c * b
    /\ \A a, b, c \in Int : (a * b) * c = a * (b * c)
OBVIOUS

\* The quotient is the only number whose multiples enclose it.
LEMMA DivisionUnique ==
    ASSUME NEW n \in Nat, NEW d \in Nat \ {0}, NEW q \in Int,
           d * q <= n, n < d * (q + 1)
    PROVE  n \div d = q
<1> DEFINE p == n \div d
           r == n % d
<1>1. p \in Nat /\ r \in 0..(d - 1) /\ n = d * p + r
  BY Division
<1> HIDE DEF p, r
<1>2. CASE p < q
  <2>1. d * (p + 1) <= d * q
    BY <1>1, <1>2, Products
  <2>2. d * (p + 1) = d * p + d
    BY <1>1, Products
  <2>3. d * p \in Int /\ d * q \in Int
    BY <1>1
  <2> QED
    BY <1>1, <2>1, <2>2, <2>3
<1>3. CASE p > q
  <2>1. d * (q + 1) <= d * p
    BY <1>1, <1>3, Products
  <2>2. d * p \in Int /\ d * (q + 1) \in Int
    BY <1>1
  <2> QED
    BY <1>1, <2>1, <2>2
<1>4. p = q
  BY <1>1, <1>2, <1>3
<1> QED
  BY <1>4 DEF p

\* Quotients grow with the dividend.
LEMMA DivisionGrows ==
    ASSUME NEW m \in Nat, NEW n \in Nat, NEW d \in Nat \ {0}, m <= n
    PROVE  m \div d <= n \div d
<1> DEFINE p == m \div d
           q == n \div d
<1>1. p \in Nat /\ q \in Nat /\ d * p <= m /\ n < d * (q + 1)
  <2>1. m = d * p + (m % d) /\ n = d * q + (n % d) /\ m % d \in 0..(d - 1)
        /\ n % d \in 0..(d - 1)
        /\ p \in Nat /\ q \in Nat
    BY Division
  <2>2. d * (q + 1) = d * q + d /\ d * p \in Int /\ d * q \in Int
    BY <2>1, Products
  <2>3. n < d * (q + 1) /\ d * p <= m
    <3> DEFINE r == m % d
               s == n % d
    <3>1. m = d * p + r /\ n = d * q + s /\ r \in 0..(d - 1) /\ s \in 0..(d - 1)
      BY <2>1
    <3> HIDE DEF p, q, r, s
    <3> QED
      BY <2>2, <3>1
  <2> QED
    BY <2>1, <2>3
<1> HIDE DEF p, q
<1>2. CASE q < p
  <2>1. d * (q + 1) <= d * p
    BY <1>1, <1>2, Products
  <2>2. d * (q + 1) \in Int /\ d * p \in Int
    BY <1>1
  <2> QED
    BY <1>1, <2>1, <2>2
<1>3. p <= q
  BY <1>1, <1>2
<1> QED
  BY <1>3 DEF p, q

\* A whole is more than nothing.
LEMMA HundredType == Hundred \in Nat \ {0} /\ Hundred \in Int
BY PricingAssumption

\* The smaller of two numbers is one of them.
LEMMA LeastType ==
    ASSUME NEW x \in Nat, NEW y \in Nat
    PROVE  Least(x, y) \in Nat /\ Least(x, y) <= x /\ Least(x, y) <= y
BY DEF Least

\* Math.round is off by half a unit at most.
LEMMA RoundHalfUpNear ==
    ASSUME NEW n \in Nat, NEW d \in Nat \ {0}
    PROVE  RoundHalfUp(n, d) \in Nat /\ 2 * (d * RoundHalfUp(n, d)) <= 2 * n + d
<1> DEFINE m == 2 * n + d
           e == 2 * d
           q == m \div e
<1>1. m \in Nat /\ e \in Nat \ {0}
  OBVIOUS
<1>2. q \in Nat /\ m % e \in 0..(e - 1) /\ m = e * q + (m % e)
  <2> HIDE DEF m, e
  <2> QED
    BY <1>1, Division
<1>3. RoundHalfUp(n, d) = q
  BY DEF RoundHalfUp
<1> DEFINE x == m % e
<1> HIDE DEF q, x
<1>4. e * q = 2 * (d * q) /\ d * q \in Int
  BY <1>2, Products
<1> QED
  BY <1>1, <1>2, <1>3, <1>4 DEF x

\* The banker's rounding is the quotient or the next number.
LEMMA BankersRoundType ==
    ASSUME NEW n \in Nat, NEW d \in Nat \ {0}
    PROVE  BankersRound(n, d) \in Nat
<1> DEFINE q == n \div d
           r == n % d
<1>1. q \in Nat /\ r \in 0..(d - 1)
  BY Division
<1>2. BankersRound(n, d) \in {q, q + 1}
  BY <1>1 DEF BankersRound
<1> HIDE DEF q, r
<1> QED
  BY <1>1, <1>2

\* It is off by half a unit at most.
LEMMA BankersRoundNear ==
    ASSUME NEW n \in Nat, NEW d \in Nat \ {0}
    PROVE  /\ 2 * (d * BankersRound(n, d)) <= 2 * n + d
           /\ 2 * n <= 2 * (d * BankersRound(n, d)) + d
<1> DEFINE q == n \div d
           r == n % d
<1>1. q \in Nat /\ r \in 0..(d - 1) /\ n = d * q + r
  BY Division
<1>2. \/ BankersRound(n, d) = q /\ 2 * r <= d
      \/ BankersRound(n, d) = q + 1 /\ 2 * r >= d
  BY <1>1 DEF BankersRound
<1> HIDE DEF q, r
<1>3. d * (q + 1) = d * q + d /\ d * q \in Int
  BY <1>1, Products
<1> QED
  BY <1>1, <1>2, <1>3

\* It grows with what is rounded.
LEMMA BankersRoundGrows ==
    ASSUME NEW m \in Nat, NEW n \in Nat, NEW d \in Nat \ {0}, m <= n
    PROVE  BankersRound(m, d) <= BankersRound(n, d)
<1> DEFINE p == m \div d
           q == n \div d
           r == m % d
           s == n % d
<1>1. /\ p \in Nat /\ r \in 0..(d - 1) /\ m = d * p + r
      /\ q \in Nat /\ s \in 0..(d - 1) /\ n = d * q + s
  BY Division
<1>2. p <= q
  BY DivisionGrows
<1>3. /\ BankersRound(m, d) \in {p, p + 1}
      /\ BankersRound(n, d) \in {q, q + 1}
  BY <1>1 DEF BankersRound
<1>4. CASE p < q
  <2> HIDE DEF p, q
  <2> QED
    BY <1>1, <1>3, <1>4
<1>5. CASE p = q
  <2>1. r <= s
    <3> HIDE DEF p, q, r, s
    <3>1. d * p = d * q /\ d * p \in Int
      BY <1>1, <1>5
    <3> QED
      BY <1>1, <3>1
  <2>2. /\ BankersRound(m, d) = CASE 2 * r < d -> p [] 2 * r > d -> p + 1
                                  [] OTHER -> IF p % 2 = 0 THEN p ELSE p + 1
        /\ BankersRound(n, d) = CASE 2 * s < d -> q [] 2 * s > d -> q + 1
                                  [] OTHER -> IF q % 2 = 0 THEN q ELSE q + 1
    BY DEF BankersRound
  <2> HIDE DEF p, q, r, s
  <2> QED
    BY <1>1, <1>5, <2>1, <2>2
<1> QED
  BY <1>1, <1>2, <1>4, <1>5
----------------------------------------------------------------------------
(* Taxes.                                                                  *)

\* The table of rates is a sequence of rates.
LEMMA RatesType ==
    /\ Len(TaxRates) \in Nat /\ DOMAIN TaxRates = 1..Len(TaxRates)
    /\ \A i \in DOMAIN TaxRates : TaxRates[i] \in Rate /\ TaxRates[i].percent \in Nat
<1>1. TaxRates \in Seq(Rate)
  BY PricingAssumption
<1>2. Len(TaxRates) \in Nat /\ DOMAIN TaxRates = 1..Len(TaxRates)
      /\ \A i \in DOMAIN TaxRates : TaxRates[i] \in Rate
  BY <1>1
<1>3. \A r \in Rate : r.percent \in Nat
  BY DEF Rate
<1> QED
  BY <1>2, <1>3

\* g folds the sets of the first n indices, from base on, always the greatest last.
Steps(g, n, base, step) ==
    \A S \in SUBSET (1..n) :
        g[S] = IF S = {} THEN base ELSE step[<<Max(S), g[S \ {Max(S)}]>>]

\* Every fold in the order of the indices exists.
LEMMA FoldInOrder ==
    ASSUME NEW n \in Nat, NEW V, NEW base \in V, NEW step \in [(1..n) \X V -> V]
    PROVE  \E g \in [SUBSET (1..n) -> V] : Steps(g, n, base, step)
<1> DEFINE pick == [S \in SUBSET (1..n) |-> Max(S)]
<1>1. \A S \in SUBSET (1..n) : S # {} => pick[S] \in S
  BY MaxBelongs
<1>2. IsFiniteSet(1..n)
  BY FS_Interval
<1>3. PICK g \in [SUBSET (1..n) -> V] : FoldedBy(g, 1..n, base, pick, step)
  <2> HIDE DEF pick
  <2> QED
    BY <1>1, <1>2, FoldExists, Zenon
<1>4. Steps(g, n, base, step)
  BY <1>3 DEF FoldedBy, Steps
<1> QED
  BY <1>4

Indices == [i \in DOMAIN TaxRates |-> i]

\* The taxes after rate i is looked at.
AddTax(base, rates, tax, i) ==
    IF ~Fires(rates, i) THEN tax
    ELSE tax + BankersRound(
            (IF TaxRates[i].compound THEN base + tax ELSE base) * TaxRates[i].percent, Hundred)

TaxFold(g, base, rates) ==
    g = [S \in SUBSET DOMAIN Indices |->
           IF S = {} THEN 0 ELSE AddTax(base, rates, g[S \ {Max(S)}], Indices[Max(S)])]

\* The tax is a fold over the sets of indices.
LEMMA TaxOnFolds ==
    ASSUME NEW base, NEW rates
    PROVE  TaxOn(base, rates) = (CHOOSE g : TaxFold(g, base, rates))[DOMAIN Indices]
BY DEF TaxOn, FoldLeftDomain, FoldLeft, MapThenFoldSet, TaxFold, AddTax, Indices

\* A rate adds a natural number.
LEMMA AddTaxType ==
    ASSUME NEW base \in Nat, NEW rates, NEW tax \in Nat, NEW i \in DOMAIN TaxRates
    PROVE  AddTax(base, rates, tax, i) \in Nat
<1> DEFINE on == IF TaxRates[i].compound THEN base + tax ELSE base
<1>1. on \in Nat /\ TaxRates[i].percent \in Nat
  BY RatesType
<1>2. on * TaxRates[i].percent \in Nat
  BY <1>1, Products
<1>3. BankersRound(on * TaxRates[i].percent, Hundred) \in Nat
  BY HundredType, <1>2, BankersRoundType
<1> QED
  BY <1>3 DEF AddTax

\* The taxes, rate by rate.
LEMMA TaxInOrder ==
    ASSUME NEW base \in Nat, NEW rates
    PROVE  \E h \in [0..Len(TaxRates) -> Nat] :
               /\ h[0] = 0
               /\ \A i \in 1..Len(TaxRates) : h[i] = AddTax(base, rates, h[i - 1], i)
               /\ h[Len(TaxRates)] = TaxOn(base, rates)
<1> DEFINE n == Len(TaxRates)
           step == [x \in (1..n) \X Nat |-> AddTax(base, rates, x[2], x[1])]
<1>1. n \in Nat /\ DOMAIN TaxRates = 1..n /\ DOMAIN Indices = 1..n
      /\ \A i \in 1..n : Indices[i] = i
  BY RatesType DEF Indices
<1>2. step \in [(1..n) \X Nat -> Nat]
  <2>1. \A x \in (1..n) \X Nat : AddTax(base, rates, x[2], x[1]) \in Nat
    BY <1>1, AddTaxType
  <2> QED
    BY <2>1
<1>3. \A i \in 1..n, tax \in Nat : step[<<i, tax>>] = AddTax(base, rates, tax, i)
  OBVIOUS
<1> HIDE DEF n, step
<1>4. PICK g \in [SUBSET (1..n) -> Nat] : Steps(g, n, 0, step)
  <2>1. 0 \in Nat /\ n \in Nat
    BY <1>1
  <2> QED
    BY <1>2, <2>1, FoldInOrder, Zenon
<1>5. TaxFold(g, base, rates)
  <2>1. \A S \in SUBSET (1..n) : S # {} => Max(S) \in 1..n /\ S \ {Max(S)} \in SUBSET (1..n)
    BY <1>1, MaxBelongs
  <2>2. ASSUME NEW S \in SUBSET (1..n), S # {}
        PROVE  g[S] = AddTax(base, rates, g[S \ {Max(S)}], Indices[Max(S)])
    <3>1. Max(S) \in 1..n /\ g[S \ {Max(S)}] \in Nat /\ Indices[Max(S)] = Max(S)
      BY <1>1, <2>1, <2>2
    <3>2. g[S] = step[<<Max(S), g[S \ {Max(S)}]>>]
      BY <1>4, <2>2 DEF Steps
    <3> QED
      BY <1>3, <3>1, <3>2
  <2>3. \A S \in SUBSET DOMAIN Indices : g[S] =
            IF S = {} THEN 0 ELSE AddTax(base, rates, g[S \ {Max(S)}], Indices[Max(S)])
    BY <1>1, <1>4, <2>2 DEF Steps
  <2> QED
    BY <1>1, <1>4, <2>3 DEF TaxFold
<1> DEFINE f == CHOOSE k : TaxFold(k, base, rates)
<1>6. TaxFold(f, base, rates)
  BY <1>5
<1>7. TaxOn(base, rates) = f[1..n]
  BY <1>1, TaxOnFolds
<1> HIDE DEF f
<1>8. f[{}] = 0
  BY <1>1, <1>6 DEF TaxFold
<1>9. \A i \in 1..n : f[1..(i - 1)] \in Nat => f[1..i] = step[<<i, f[1..(i - 1)]>>]
  <2>1. SUFFICES ASSUME NEW i \in 1..n, f[1..(i - 1)] \in Nat
                 PROVE  f[1..i] = AddTax(base, rates, f[1..(i - 1)], i)
    BY <1>3
  <2>2. 1..i \in SUBSET DOMAIN Indices /\ 1..i # {} /\ i \in Nat \ {0}
    <3>1. i \in Nat \ {0} /\ i \in 1..i /\ 1..i \in SUBSET (1..n)
      BY <1>1
    <3> QED
      BY <1>1, <3>1
  <2>3. f[1..i] = AddTax(base, rates, f[(1..i) \ {Max(1..i)}], Indices[Max(1..i)])
    BY <1>6, <2>2 DEF TaxFold
  <2>4. Max(1..i) = i /\ (1..i) \ {Max(1..i)} = 1..(i - 1)
    BY <2>2, MaxOfInterval
  <2> QED
    BY <1>1, <2>3, <2>4
<1>10. PICK h \in [0..n -> Nat] : Unrolls(h, f, n, 0, step)
  <2>1. 0 \in Nat /\ n \in Nat
    BY <1>1
  <2> QED
    BY <1>2, <1>8, <1>9, <2>1, StepsInOrder, Zenon
<1>11. \A i \in 1..n : h[i] = AddTax(base, rates, h[i - 1], i)
  <2>1. \A i \in 1..n : i - 1 \in 0..n
    BY <1>1
  <2> QED
    BY <1>3, <1>10, <2>1 DEF Unrolls
<1> QED
  BY <1>7, <1>10, <1>11 DEF n, Unrolls

\* The tax on a natural number is one.
LEMMA TaxOnType ==
    ASSUME NEW base \in Nat, NEW rates
    PROVE  TaxOn(base, rates) \in Nat
<1>1. PICK h \in [0..Len(TaxRates) -> Nat] : h[Len(TaxRates)] = TaxOn(base, rates)
  BY TaxInOrder
<1>2. Len(TaxRates) \in 0..Len(TaxRates)
  BY RatesType
<1> QED
  BY <1>1, <1>2

\* Who pays more pays more tax: every rate is rounded on its own, and the compound
\* ones are taken of rounded taxes, but no step turns the order around.
LEMMA TaxOnGrows ==
    ASSUME NEW a \in Nat, NEW b \in Nat, a <= b, NEW rates
    PROVE  TaxOn(a, rates) <= TaxOn(b, rates)
<1> DEFINE n == Len(TaxRates)
<1>1. PICK f \in [0..n -> Nat] :
          /\ f[0] = 0
          /\ \A i \in 1..n : f[i] = AddTax(a, rates, f[i - 1], i)
          /\ f[n] = TaxOn(a, rates)
  BY TaxInOrder, Zenon
<1>2. PICK g \in [0..n -> Nat] :
          /\ g[0] = 0
          /\ \A i \in 1..n : g[i] = AddTax(b, rates, g[i - 1], i)
          /\ g[n] = TaxOn(b, rates)
  BY TaxInOrder, Zenon
<1>3. n \in Nat /\ DOMAIN TaxRates = 1..n
  BY RatesType
<1> DEFINE T == {i \in Nat : i <= n => f[i] <= g[i]}
<1> HIDE DEF n
<1>4. 0 \in T
  BY <1>1, <1>2
<1>5. ASSUME NEW i \in Nat, i \in T PROVE i + 1 \in T
  <2>1. SUFFICES ASSUME i + 1 <= n PROVE f[i + 1] <= g[i + 1]
    OBVIOUS
  <2>2. i + 1 \in 1..n /\ (i + 1) - 1 = i /\ i \in 0..n /\ f[i] <= g[i]
    BY <1>3, <1>5, <2>1
  <2> DEFINE p == TaxRates[i + 1].percent
             c == TaxRates[i + 1].compound
             x == IF c THEN a + f[i] ELSE a
             y == IF c THEN b + g[i] ELSE b
  <2>3. p \in Nat /\ f[i] \in Nat /\ g[i] \in Nat
    BY <1>3, <2>2, RatesType
  <2>4. x \in Nat /\ y \in Nat /\ x <= y
    BY <2>2, <2>3
  <2>5. /\ f[i + 1] = IF ~Fires(rates, i + 1) THEN f[i] ELSE f[i] + BankersRound(x * p, Hundred)
        /\ g[i + 1] = IF ~Fires(rates, i + 1) THEN g[i] ELSE g[i] + BankersRound(y * p, Hundred)
    BY <1>1, <1>2, <2>2 DEF AddTax
  <2> HIDE DEF x, y, p
  <2>6. x * p \in Nat /\ y * p \in Nat /\ x * p <= y * p
    BY <2>3, <2>4, Products
  <2>7. /\ BankersRound(x * p, Hundred) <= BankersRound(y * p, Hundred)
        /\ BankersRound(x * p, Hundred) \in Nat /\ BankersRound(y * p, Hundred) \in Nat
    BY HundredType, <2>6, BankersRoundGrows, BankersRoundType
  <2> QED
    BY <2>2, <2>3, <2>5, <2>7
<1>6. \A i \in Nat : i \in T
  <2> HIDE DEF T
  <2> QED BY <1>4, <1>5, Numbers
<1> QED
  BY <1>1, <1>2, <1>3, <1>6
----------------------------------------------------------------------------
(* Prices that include tax.                                                *)

\* The sum of the plain rates, and the factor, after rate i is looked at.
AddPlain(rates, sum, i) ==
    IF Fires(rates, i) /\ ~TaxRates[i].compound THEN sum + TaxRates[i].percent ELSE sum

AddCompound(rates, f, i) ==
    IF Fires(rates, i) /\ TaxRates[i].compound
    THEN <<f[1] * Hundred, f[2] * (Hundred + TaxRates[i].percent)>> ELSE f

PlainFold(g, rates) ==
    g = [S \in SUBSET DOMAIN Indices |->
           IF S = {} THEN Hundred ELSE AddPlain(rates, g[S \ {Max(S)}], Indices[Max(S)])]

Plain(rates) == (CHOOSE g : PlainFold(g, rates))[DOMAIN Indices]

CompoundFold(g, rates) ==
    g = [S \in SUBSET DOMAIN Indices |->
           IF S = {} THEN <<Hundred, Plain(rates)>>
           ELSE AddCompound(rates, g[S \ {Max(S)}], Indices[Max(S)])]

\* The factor is a fold over the sets of indices, and begins with another one.
LEMMA FactorFolds ==
    ASSUME NEW rates
    PROVE  Factor(rates) = (CHOOSE g : CompoundFold(g, rates))[DOMAIN Indices]
BY DEF Factor, FoldLeftDomain, FoldLeft, MapThenFoldSet, CompoundFold, PlainFold, Plain,
       AddPlain, AddCompound, Indices

\* The sum of the plain rates, rate by rate.
LEMMA PlainInOrder ==
    ASSUME NEW rates
    PROVE  \E h \in [0..Len(TaxRates) -> Nat \ {0}] :
               /\ h[0] = Hundred
               /\ \A i \in 1..Len(TaxRates) : h[i] = AddPlain(rates, h[i - 1], i)
               /\ h[Len(TaxRates)] = Plain(rates)
<1> DEFINE n == Len(TaxRates)
           V == Nat \ {0}
           base == Hundred
           step == [x \in (1..n) \X V |-> AddPlain(rates, x[2], x[1])]
<1>1. n \in Nat /\ DOMAIN TaxRates = 1..n /\ DOMAIN Indices = 1..n
      /\ \A i \in 1..n : Indices[i] = i
  BY RatesType DEF Indices
<1>2. step \in [(1..n) \X V -> V]
  <2>1. \A x \in (1..n) \X V : AddPlain(rates, x[2], x[1]) \in V
    BY <1>1, RatesType DEF AddPlain
  <2> QED
    BY <2>1
<1>3. \A i \in 1..n, sum \in V : step[<<i, sum>>] = AddPlain(rates, sum, i)
  OBVIOUS
<1>4. base \in V
  BY HundredType
<1> HIDE DEF n, step, V, base
<1>5. PICK g \in [SUBSET (1..n) -> V] : Steps(g, n, base, step)
  <2>1. n \in Nat
    BY <1>1
  <2> QED
    BY <1>2, <1>4, <2>1, FoldInOrder, Zenon
<1>6. PlainFold(g, rates)
  <2>1. ASSUME NEW S \in SUBSET (1..n), S # {}
        PROVE  g[S] = AddPlain(rates, g[S \ {Max(S)}], Indices[Max(S)])
    <3>1. Max(S) \in 1..n /\ g[S \ {Max(S)}] \in V /\ Indices[Max(S)] = Max(S)
      BY <1>1, <2>1, MaxBelongs
    <3>2. g[S] = step[<<Max(S), g[S \ {Max(S)}]>>]
      BY <1>5, <2>1 DEF Steps
    <3> QED
      BY <1>3, <3>1, <3>2
  <2>2. \A S \in SUBSET DOMAIN Indices : g[S] =
            IF S = {} THEN base ELSE AddPlain(rates, g[S \ {Max(S)}], Indices[Max(S)])
    BY <1>1, <1>5, <2>1 DEF Steps
  <2> QED
    BY <1>1, <1>5, <2>2 DEF PlainFold, base
<1> DEFINE f == CHOOSE k : PlainFold(k, rates)
<1>7. PlainFold(f, rates) /\ Plain(rates) = f[1..n]
  BY <1>1, <1>6 DEF Plain
<1> HIDE DEF f
<1>8. f[{}] = base
  BY <1>1, <1>7 DEF PlainFold, base
<1>9. \A i \in 1..n : f[1..(i - 1)] \in V => f[1..i] = step[<<i, f[1..(i - 1)]>>]
  <2>1. SUFFICES ASSUME NEW i \in 1..n, f[1..(i - 1)] \in V
                 PROVE  f[1..i] = AddPlain(rates, f[1..(i - 1)], i)
    BY <1>3
  <2>2. 1..i \in SUBSET DOMAIN Indices /\ 1..i # {} /\ i \in Nat \ {0}
    <3>1. i \in Nat \ {0} /\ i \in 1..i /\ 1..i \in SUBSET (1..n)
      BY <1>1
    <3> QED
      BY <1>1, <3>1
  <2>3. f[1..i] = AddPlain(rates, f[(1..i) \ {Max(1..i)}], Indices[Max(1..i)])
    BY <1>7, <2>2 DEF PlainFold
  <2>4. Max(1..i) = i /\ (1..i) \ {Max(1..i)} = 1..(i - 1)
    BY <2>2, MaxOfInterval
  <2> QED
    BY <1>1, <2>3, <2>4
<1>10. PICK h \in [0..n -> V] : Unrolls(h, f, n, base, step)
  <2>1. n \in Nat
    BY <1>1
  <2> QED
    BY <1>2, <1>4, <1>8, <1>9, <2>1, StepsInOrder, Zenon
<1>11. \A i \in 1..n : h[i] = AddPlain(rates, h[i - 1], i)
  <2>1. \A i \in 1..n : i - 1 \in 0..n
    BY <1>1
  <2> QED
    BY <1>3, <1>10, <2>1 DEF Unrolls
<1> QED
  BY <1>7, <1>10, <1>11 DEF n, V, base, Unrolls

\* The sum of the plain rates is at least what it begins with.
LEMMA PlainType ==
    ASSUME NEW rates
    PROVE  Plain(rates) \in Nat \ {0}
<1>1. PICK h \in [0..Len(TaxRates) -> Nat \ {0}] : h[Len(TaxRates)] = Plain(rates)
  BY PlainInOrder
<1>2. Len(TaxRates) \in 0..Len(TaxRates)
  BY RatesType
<1> QED
  BY <1>1, <1>2

\* The factor, rate by rate.
LEMMA FactorInOrder ==
    ASSUME NEW rates
    PROVE  \E h \in [0..Len(TaxRates) -> (Nat \ {0}) \X (Nat \ {0})] :
               /\ h[0] = <<Hundred, Plain(rates)>>
               /\ \A i \in 1..Len(TaxRates) : h[i] = AddCompound(rates, h[i - 1], i)
               /\ h[Len(TaxRates)] = Factor(rates)
<1> DEFINE n == Len(TaxRates)
           V == (Nat \ {0}) \X (Nat \ {0})
           base == <<Hundred, Plain(rates)>>
           step == [x \in (1..n) \X V |-> AddCompound(rates, x[2], x[1])]
<1>1. n \in Nat /\ DOMAIN TaxRates = 1..n /\ DOMAIN Indices = 1..n
      /\ \A i \in 1..n : Indices[i] = i
  BY RatesType DEF Indices
<1>2. step \in [(1..n) \X V -> V]
  <2>1. ASSUME NEW i \in 1..n, NEW f \in V PROVE AddCompound(rates, f, i) \in V
    <3>1. f[1] \in Nat \ {0} /\ f[2] \in Nat \ {0} /\ TaxRates[i].percent \in Nat
      BY <1>1, RatesType
    <3>2. \A a, b \in Nat \ {0} : a * b \in Nat \ {0}
      OBVIOUS
    <3>3. f[1] * Hundred \in Nat \ {0} /\ f[2] * (Hundred + TaxRates[i].percent) \in Nat \ {0}
      BY HundredType, <3>1, <3>2
    <3> QED
      BY <3>3 DEF AddCompound
  <2>2. \A x \in (1..n) \X V : x[1] \in 1..n /\ x[2] \in V
    OBVIOUS
  <2>3. \A x \in (1..n) \X V : AddCompound(rates, x[2], x[1]) \in V
    BY <2>1, <2>2
  <2> HIDE DEF V
  <2> QED
    BY <2>3
<1>3. base \in V
  BY HundredType, PlainType
<1> HIDE DEF V, base
<1>4. \A i \in 1..n, f \in V : step[<<i, f>>] = AddCompound(rates, f, i)
  OBVIOUS
<1> HIDE DEF n, step
<1>5. PICK g \in [SUBSET (1..n) -> V] : Steps(g, n, base, step)
  <2>1. n \in Nat
    BY <1>1
  <2> QED
    BY <1>2, <1>3, <2>1, FoldInOrder, Zenon
<1>6. CompoundFold(g, rates)
  <2>1. ASSUME NEW S \in SUBSET (1..n), S # {}
        PROVE  g[S] = AddCompound(rates, g[S \ {Max(S)}], Indices[Max(S)])
    <3>1. Max(S) \in 1..n /\ g[S \ {Max(S)}] \in V /\ Indices[Max(S)] = Max(S)
      BY <1>1, <2>1, MaxBelongs
    <3>2. g[S] = step[<<Max(S), g[S \ {Max(S)}]>>]
      BY <1>5, <2>1 DEF Steps
    <3> QED
      BY <1>4, <3>1, <3>2
  <2>2. \A S \in SUBSET DOMAIN Indices : g[S] =
            IF S = {} THEN base ELSE AddCompound(rates, g[S \ {Max(S)}], Indices[Max(S)])
    BY <1>1, <1>5, <2>1 DEF Steps
  <2> QED
    BY <1>1, <1>5, <2>2 DEF CompoundFold, base
<1> DEFINE f == CHOOSE k : CompoundFold(k, rates)
<1>7. CompoundFold(f, rates) /\ Factor(rates) = f[1..n]
  BY <1>1, <1>6, FactorFolds
<1> HIDE DEF f
<1>8. f[{}] = base
  BY <1>1, <1>7 DEF CompoundFold, base
<1>9. \A i \in 1..n : f[1..(i - 1)] \in V => f[1..i] = step[<<i, f[1..(i - 1)]>>]
  <2>1. SUFFICES ASSUME NEW i \in 1..n, f[1..(i - 1)] \in V
                 PROVE  f[1..i] = AddCompound(rates, f[1..(i - 1)], i)
    BY <1>4
  <2>2. 1..i \in SUBSET DOMAIN Indices /\ 1..i # {} /\ i \in Nat \ {0}
    <3>1. i \in Nat \ {0} /\ i \in 1..i /\ 1..i \in SUBSET (1..n)
      BY <1>1
    <3> QED
      BY <1>1, <3>1
  <2>3. f[1..i] = AddCompound(rates, f[(1..i) \ {Max(1..i)}], Indices[Max(1..i)])
    BY <1>7, <2>2 DEF CompoundFold
  <2>4. Max(1..i) = i /\ (1..i) \ {Max(1..i)} = 1..(i - 1)
    BY <2>2, MaxOfInterval
  <2> QED
    BY <1>1, <2>3, <2>4
<1>10. PICK h \in [0..n -> V] : Unrolls(h, f, n, base, step)
  <2>1. n \in Nat
    BY <1>1
  <2> QED
    BY <1>2, <1>3, <1>8, <1>9, <2>1, StepsInOrder, Zenon
<1>11. \A i \in 1..n : h[i] = AddCompound(rates, h[i - 1], i)
  <2>1. \A i \in 1..n : i - 1 \in 0..n
    BY <1>1
  <2> QED
    BY <1>4, <1>10, <2>1 DEF Unrolls
<1> QED
  BY <1>7, <1>10, <1>11 DEF n, V, base, Unrolls

\* The factor is a fraction of positive numbers.
LEMMA FactorType ==
    ASSUME NEW rates
    PROVE  Factor(rates)[1] \in Nat \ {0} /\ Factor(rates)[2] \in Nat \ {0}
<1>1. PICK h \in [0..Len(TaxRates) -> (Nat \ {0}) \X (Nat \ {0})] :
          h[Len(TaxRates)] = Factor(rates)
  BY FactorInOrder
<1>2. Len(TaxRates) \in 0..Len(TaxRates)
  BY RatesType
<1>3. Factor(rates) \in (Nat \ {0}) \X (Nat \ {0})
  BY <1>1, <1>2
<1> QED
  BY <1>3

\* The base of a natural number is one, and grows with it.
LEMMA ExtractBaseType ==
    ASSUME NEW gross \in Nat, NEW rates
    PROVE  ExtractBase(gross, rates) \in Nat
<1>1. gross * Factor(rates)[1] \in Nat
  BY FactorType, Products
<1> QED
  BY <1>1, FactorType, BankersRoundType DEF ExtractBase

LEMMA ExtractBaseGrows ==
    ASSUME NEW a \in Nat, NEW b \in Nat, a <= b, NEW rates
    PROVE  ExtractBase(a, rates) <= ExtractBase(b, rates)
<1>1. /\ a * Factor(rates)[1] \in Nat /\ b * Factor(rates)[1] \in Nat
      /\ a * Factor(rates)[1] <= b * Factor(rates)[1]
  BY FactorType, Products
<1> QED
  BY <1>1, FactorType, BankersRoundGrows DEF ExtractBase

\* A price and its tax: natural numbers, and the tax grows with the price.
LEMMA CalculateTaxType ==
    ASSUME NEW amount \in Nat, NEW rates, NEW inclusive \in BOOLEAN
    PROVE  /\ CalculateTax(amount, rates, inclusive).base \in Nat
           /\ CalculateTax(amount, rates, inclusive).tax \in Nat
           /\ ~inclusive => CalculateTax(amount, rates, inclusive).base = amount
<1> DEFINE base == IF inclusive THEN ExtractBase(amount, rates) ELSE amount
<1>1. base \in Nat
  BY ExtractBaseType
<1>2. CalculateTax(amount, rates, inclusive)
          \in {[base |-> amount, tax |-> 0], [base |-> base, tax |-> TaxOn(base, rates)]}
  BY DEF CalculateTax
<1>3. TaxOn(base, rates) \in Nat
  BY <1>1, TaxOnType
<1> QED
  BY <1>1, <1>2, <1>3

LEMMA TaxGrows ==
    ASSUME NEW a \in Nat, NEW b \in Nat, a <= b, NEW rates, NEW inclusive \in BOOLEAN
    PROVE  CalculateTax(a, rates, inclusive).tax <= CalculateTax(b, rates, inclusive).tax
<1> DEFINE x == IF inclusive THEN ExtractBase(a, rates) ELSE a
           y == IF inclusive THEN ExtractBase(b, rates) ELSE b
<1>1. x \in Nat /\ y \in Nat /\ x <= y
  BY ExtractBaseType, ExtractBaseGrows
<1>2. TaxOn(x, rates) <= TaxOn(y, rates)
  BY <1>1, TaxOnGrows
<1>3. CASE rates = {} \/ a = 0
  <2>1. CalculateTax(a, rates, inclusive).tax = 0
    BY <1>3 DEF CalculateTax
  <2>2. CalculateTax(b, rates, inclusive).tax \in Nat
    BY CalculateTaxType
  <2> QED
    BY <2>1, <2>2
<1>4. CASE ~ (rates = {} \/ a = 0)
  <2>1. b # 0
    BY <1>4
  <2> QED
    BY <1>2, <1>4, <2>1 DEF CalculateTax
<1> QED
  BY <1>3, <1>4
----------------------------------------------------------------------------
(* Taking the tax out of a price and putting it on again.                  *)

\* x and y differ by half of m at most.
Near(x, y, m) == 2 * x <= 2 * y + m /\ 2 * y <= 2 * x + m

\* Differences of sums, of products, and of neighbours of neighbours.
LEMMA NearPlus ==
    ASSUME NEW x \in Int, NEW y \in Int, NEW m \in Int, Near(x, y, m),
           NEW v \in Int, NEW w \in Int, NEW k \in Int, Near(v, w, k)
    PROVE  Near(x + v, y + w, m + k)
BY DEF Near

LEMMA NearTimes ==
    ASSUME NEW x \in Int, NEW y \in Int, NEW m \in Int, Near(x, y, m), NEW c \in Nat
    PROVE  Near(x * c, y * c, m * c)
<1>1. (2 * x) * c <= (2 * y + m) * c /\ (2 * y) * c <= (2 * x + m) * c
  BY Products DEF Near
<1>2. /\ (2 * x) * c = 2 * (x * c) /\ (2 * y) * c = 2 * (y * c)
      /\ (2 * y + m) * c = 2 * (y * c) + m * c
      /\ (2 * x + m) * c = 2 * (x * c) + m * c
  BY Products
<1> QED
  BY <1>1, <1>2 DEF Near

LEMMA NearTrans ==
    ASSUME NEW x \in Int, NEW y \in Int, NEW z \in Int, NEW m \in Int, NEW k \in Int,
           Near(x, y, m), Near(y, z, k)
    PROVE  Near(x, z, m + k)
BY DEF Near

LEMMA NearWeaken ==
    ASSUME NEW x \in Int, NEW y \in Int, NEW m \in Int, NEW k \in Int,
           Near(x, y, m), m <= k
    PROVE  Near(x, y, k)
BY DEF Near

\* A rounded rate is near the rate.
LEMMA RateNear ==
    ASSUME NEW x \in Nat, NEW q \in Nat
    PROVE  /\ BankersRound(x * q, Hundred) \in Nat
           /\ Near(BankersRound(x * q, Hundred) * Hundred, x * q, Hundred)
<1>1. x * q \in Nat
  BY Products
<1> QED
  BY HundredType, <1>1, BankersRoundNear, BankersRoundType DEF Near

\* A plain rate adds its percentage of the base, and half a unit of rounding.
LEMMA PlainStep ==
    ASSUME NEW b \in Nat, NEW t \in Nat, NEW p \in Nat, NEW q \in Nat, NEW k \in Nat,
           Near((b + t) * Hundred, b * p, Hundred * k)
    PROVE  Near((b + (t + BankersRound(b * q, Hundred))) * Hundred,
                b * (p + q), Hundred * (k + 1))
<1> DEFINE r == BankersRound(b * q, Hundred)
<1>1. r \in Nat /\ Near(r * Hundred, b * q, Hundred)
  BY RateNear
<1> HIDE DEF r
<1>2. b * p \in Int /\ b * q \in Int /\ b * (p + q) = b * p + b * q
  BY Products
<1>3. Near((b + t) * Hundred + r * Hundred, b * p + b * q, Hundred * k + Hundred)
  BY HundredType, <1>1, <1>2, NearPlus
<1>4. (b + (t + r)) * Hundred = (b + t) * Hundred + r * Hundred
      /\ Hundred * (k + 1) = Hundred * k + Hundred
  BY HundredType, <1>1
<1> QED
  BY <1>2, <1>3, <1>4 DEF r

\* A compound rate multiplies, and the error with it.
LEMMA CompoundStep ==
    ASSUME NEW b \in Nat, NEW t \in Nat, NEW d \in Nat, NEW n \in Nat, d <= n,
           NEW q \in Nat, NEW k \in Nat, Near((b + t) * d, b * n, k * n)
    PROVE  /\ d * Hundred <= n * (Hundred + q)
           /\ Near((b + (t + BankersRound((b + t) * q, Hundred))) * (d * Hundred),
                   b * (n * (Hundred + q)), (k + 1) * (n * (Hundred + q)))
<1> DEFINE x == b + t
           r == BankersRound(x * q, Hundred)
           c == Hundred + q
<1>1. r \in Nat /\ Near(r * Hundred, x * q, Hundred) /\ x \in Nat /\ c \in Nat
  <2>1. x \in Nat /\ c \in Nat
    BY HundredType
  <2> HIDE DEF x
  <2> QED
    BY <2>1, RateNear
<1> HIDE DEF r
<1>2. Near((x + r) * Hundred, x * c, Hundred)
  <2>1. x * q \in Int /\ x * c = x * Hundred + x * q
        /\ (x + r) * Hundred = x * Hundred + r * Hundred
    BY HundredType, <1>1, Products
  <2>2. Near(x * Hundred, x * Hundred, 0)
    BY HundredType, <1>1 DEF Near
  <2>3. x * Hundred \in Int /\ r * Hundred \in Int
    BY HundredType, <1>1
  <2> HIDE DEF x, c
  <2>4. Near(x * Hundred + r * Hundred, x * Hundred + x * q, 0 + Hundred)
    BY HundredType, <1>1, <2>1, <2>2, <2>3, NearPlus
  <2> QED
    BY HundredType, <2>1, <2>4
<1> HIDE DEF x, c
<1>3. Near(((x + r) * Hundred) * d, (x * c) * d, Hundred * d)
  <2>1. (x + r) * Hundred \in Int /\ x * c \in Int
    BY HundredType, <1>1, Products
  <2> QED
    BY HundredType, <1>2, <2>1, NearTimes
<1>4. Near((x * d) * c, (b * n) * c, (k * n) * c)
  <2>1. x * d \in Int /\ b * n \in Int /\ k * n \in Int
    BY <1>1, Products
  <2> QED
    BY <1>1, <2>1, NearTimes DEF x
<1>5. /\ (x * c) * d = (x * d) * c
      /\ ((x + r) * Hundred) * d = (x + r) * (d * Hundred)
      /\ (b * n) * c = b * (n * c)
      /\ (k * n) * c = k * (n * c)
  <2>1. (x * c) * d = x * (c * d) /\ c * d = d * c /\ x * (d * c) = (x * d) * c
    BY <1>1, Products
  <2>2. ((x + r) * Hundred) * d = (x + r) * (Hundred * d) /\ Hundred * d = d * Hundred
    BY HundredType, <1>1, Products
  <2>3. (b * n) * c = b * (n * c) /\ (k * n) * c = k * (n * c)
    BY <1>1, Products
  <2> QED
    BY <2>1, <2>2, <2>3
<1> DEFINE u == (x + r) * (d * Hundred)
           v == (x * d) * c
           w == b * (n * c)
           e == k * (n * c)
<1>6. u \in Int /\ v \in Int /\ w \in Int /\ e \in Int /\ n * c \in Int
  BY HundredType, <1>1, Products
<1>7. Near(u, w, Hundred * d + e)
  <2>1. Near(u, v, Hundred * d) /\ Near(v, w, e)
    BY <1>3, <1>4, <1>5
  <2> HIDE DEF u, v, w, e
  <2> QED
    BY HundredType, <1>6, <2>1, NearTrans
<1>8. d * Hundred <= n * c
  <2>1. d * Hundred <= n * Hundred /\ n * Hundred <= n * c
    BY HundredType, <1>1, Products DEF c
  <2> QED
    BY HundredType, <1>6, <2>1
<1>9. (k + 1) * (n * c) = e + n * c
  BY <1>6, Products
<1>10. Near(u, w, (k + 1) * (n * c))
  <2> HIDE DEF u, w, e
  <2>1. Hundred * d + e <= (k + 1) * (n * c) /\ (k + 1) * (n * c) \in Int
    BY HundredType, <1>6, <1>8, <1>9
  <2> QED
    BY HundredType, <1>6, <1>7, <2>1, NearWeaken
<1>11. u = (b + (t + r)) * (d * Hundred)
  BY <1>1 DEF x
<1> QED
  BY <1>8, <1>10, <1>11 DEF r, c, x

\* The rates that fire, up to index i.
Fired(rates, i) == {j \in rates : Fires(rates, j) /\ j <= i}

\* There is one more of them if rate i fires.
LEMMA FiredNext ==
    ASSUME NEW rates \in SUBSET DOMAIN TaxRates, NEW i \in 1..Len(TaxRates)
    PROVE  /\ Cardinality(Fired(rates, i - 1)) \in Nat
           /\ Cardinality(Fired(rates, i)) =
                 Cardinality(Fired(rates, i - 1)) + IF Fires(rates, i) THEN 1 ELSE 0
<1>1. IsFiniteSet(DOMAIN TaxRates) /\ DOMAIN TaxRates \in SUBSET Nat /\ i \in Nat
  BY RatesType, FS_Interval
<1>2. Fired(rates, i - 1) \in SUBSET DOMAIN TaxRates
  BY DEF Fired
<1>3. IsFiniteSet(Fired(rates, i - 1)) /\ Cardinality(Fired(rates, i - 1)) \in Nat
  BY <1>1, <1>2, FS_Subset, FS_CardinalityType
<1>4. CASE Fires(rates, i)
  <2>1. Fired(rates, i) = Fired(rates, i - 1) \cup {i} /\ i \notin Fired(rates, i - 1)
    BY <1>1, <1>4 DEF Fired, Fires
  <2> QED
    BY <1>3, <1>4, <2>1, FS_AddElement
<1>5. CASE ~Fires(rates, i)
  <2>1. Fired(rates, i) = Fired(rates, i - 1)
    BY <1>1, <1>5 DEF Fired
  <2> QED
    BY <1>3, <1>5, <2>1
<1> QED
  BY <1>3, <1>4, <1>5

\* Where every plain rate comes before the compound ones, the sum of the plain rates
\* is complete at the first compound one.
LEMMA PlainComplete ==
    ASSUME NEW rates \in SUBSET DOMAIN TaxRates, CompoundLast(rates),
           NEW p \in [0..Len(TaxRates) -> Nat \ {0}],
           \A i \in 1..Len(TaxRates) : p[i] = AddPlain(rates, p[i - 1], i),
           NEW c \in rates, TaxRates[c].compound
    PROVE  p[c] = p[c - 1] /\ p[Len(TaxRates)] = p[c]
<1> DEFINE n == Len(TaxRates)
           T == {m \in Nat : c + m <= n => p[c + m] = p[c]}
<1>1. n \in Nat /\ DOMAIN TaxRates = 1..n /\ c \in 1..n
  BY RatesType
<1>2. 0 \in T
  BY <1>1
<1>3. ASSUME NEW m \in Nat, m \in T PROVE m + 1 \in T
  <2>1. SUFFICES ASSUME c + (m + 1) <= n PROVE p[c + (m + 1)] = p[c]
    OBVIOUS
  <2> DEFINE j == c + (m + 1)
  <2>2. j \in 1..n /\ j - 1 = c + m /\ p[c + m] = p[c] /\ c < j
    BY <1>1, <1>3, <2>1
  <2>3. ~ (Fires(rates, j) /\ ~TaxRates[j].compound)
    <3>1. Fires(rates, j) => j \in rates
      BY DEF Fires
    <3>2. Fires(rates, j) /\ ~TaxRates[j].compound => j < c
      BY <3>1 DEF CompoundLast
    <3> QED
      BY <1>1, <2>2, <3>2
  <2>4. p[j] = AddPlain(rates, p[j - 1], j)
    BY <2>2
  <2>5. p[j] = p[j - 1]
    BY <2>3, <2>4 DEF AddPlain
  <2> QED
    BY <2>2, <2>5
<1>4. \A m \in Nat : m \in T
  <2> HIDE DEF T
  <2> QED BY <1>2, <1>3, Numbers
<1>5. n - c \in T /\ n - c \in Nat /\ c + (n - c) = n
  BY <1>1, <1>4
<1>6. p[c] = p[c - 1]
  BY <1>1 DEF AddPlain
<1> QED
  BY <1>5, <1>6

\* No compound rate has its turn up to index i.
PlainSoFar(rates, i) == \A c \in rates : TaxRates[c].compound => i < c

\* Rate by rate, the base with its taxes stays near the base times the factor so far:
\* every rate that fires costs half a unit, which later compound rates make larger.
\* b: the base, h: the taxes, p: the sum of the plain rates, f: the factor.
OnTrack(rates, b, h, p, f, i) ==
    LET k == Cardinality(Fired(rates, i))
    IN  /\ p[i] >= Hundred
        /\ PlainSoFar(rates, i) =>
              /\ f[i] = <<Hundred, p[Len(TaxRates)]>>
              /\ Near((b + h[i]) * Hundred, b * p[i], Hundred * k)
        /\ ~PlainSoFar(rates, i) =>
              /\ f[i][1] <= f[i][2]
              /\ Near((b + h[i]) * f[i][1], b * f[i][2], k * f[i][2])

\* One rate more.
LEMMA StaysOnTrack ==
    ASSUME NEW rates \in SUBSET DOMAIN TaxRates, CompoundLast(rates), NEW b \in Nat,
           NEW h \in [0..Len(TaxRates) -> Nat],
           \A i \in 1..Len(TaxRates) : h[i] = AddTax(b, rates, h[i - 1], i),
           NEW p \in [0..Len(TaxRates) -> Nat \ {0}],
           \A i \in 1..Len(TaxRates) : p[i] = AddPlain(rates, p[i - 1], i),
           NEW f \in [0..Len(TaxRates) -> (Nat \ {0}) \X (Nat \ {0})],
           \A i \in 1..Len(TaxRates) : f[i] = AddCompound(rates, f[i - 1], i),
           NEW j \in 1..Len(TaxRates), OnTrack(rates, b, h, p, f, j - 1)
    PROVE  OnTrack(rates, b, h, p, f, j)
<1> DEFINE n == Len(TaxRates)
           i == j - 1
           q == TaxRates[j].percent
           k == Cardinality(Fired(rates, i))
<1>1. /\ n \in Nat /\ DOMAIN TaxRates = 1..n /\ i \in 0..n /\ j \in 0..n /\ n \in 0..n
      /\ j = i + 1 /\ q \in Nat
  BY RatesType
<1>2. /\ h[i] \in Nat /\ p[i] \in Nat \ {0} /\ p[n] \in Nat \ {0}
      /\ f[i] \in (Nat \ {0}) \X (Nat \ {0}) /\ f[i][1] \in Nat \ {0} /\ f[i][2] \in Nat \ {0}
  <2>1. h[i] \in Nat
    BY <1>1
  <2>2. p[i] \in Nat \ {0} /\ p[n] \in Nat \ {0}
    BY <1>1
  <2>3. f[i] \in (Nat \ {0}) \X (Nat \ {0})
    <3>1. i \in 0..Len(TaxRates)
      BY <1>1, Zenon
    <3> HIDE DEF i
    <3> QED
      BY <3>1, Zenon
  <2>4. f[i][1] \in Nat \ {0} /\ f[i][2] \in Nat \ {0}
    BY <2>3
  <2> QED
    BY <2>1, <2>2, <2>3, <2>4
<1>3. /\ h[j] = AddTax(b, rates, h[i], j) /\ p[j] = AddPlain(rates, p[i], j)
      /\ f[j] = AddCompound(rates, f[i], j)
  OBVIOUS
<1>4. k \in Nat /\ Cardinality(Fired(rates, j)) = k + IF Fires(rates, j) THEN 1 ELSE 0
  BY FiredNext
<1>5. \A c \in rates : c \in 1..n /\ (j < c <=> i < c /\ c # j)
  <2>1. DOMAIN TaxRates = 1..n /\ n \in Nat
    BY <1>1
  <2>2. ASSUME NEW c \in rates PROVE c \in 1..n /\ (j < c <=> i < c /\ c # j)
    <3>1. c \in DOMAIN TaxRates
      OBVIOUS
    <3>2. c \in 1..n
      BY <2>1, <3>1, Zenon
    <3>3. j \in Int /\ c \in Int
      BY <2>1, <3>2
    <3> HIDE DEF n
    <3> QED
      BY <3>2, <3>3
  <2> QED
    BY <2>2
<1>6. OnTrack(rates, b, h, p, f, i)
  OBVIOUS
<1> HIDE DEF n, i, q, k
<1>7. CASE ~Fires(rates, j)
  <2>1. h[j] = h[i] /\ p[j] = p[i] /\ f[j] = f[i] /\ Cardinality(Fired(rates, j)) = k
    BY <1>3, <1>4, <1>7 DEF AddTax, AddPlain, AddCompound
  <2>2. j \in rates => ~TaxRates[j].compound
    BY <1>7 DEF Fires
  <2>3. PlainSoFar(rates, j) <=> PlainSoFar(rates, i)
    BY <1>5, <2>2 DEF PlainSoFar
  <2> QED
    BY <1>6, <2>1, <2>3 DEF OnTrack, k
<1>8. CASE Fires(rates, j) /\ ~TaxRates[j].compound
  <2>1. /\ h[j] = h[i] + BankersRound(b * q, Hundred) /\ p[j] = p[i] + q /\ f[j] = f[i]
        /\ Cardinality(Fired(rates, j)) = k + 1
    BY <1>3, <1>4, <1>8 DEF AddTax, AddPlain, AddCompound, q
  <2>2. PlainSoFar(rates, j)
    <3>1. \A c \in rates : TaxRates[c].compound => j < c
      BY <1>8 DEF CompoundLast, Fires
    <3> QED
      BY <3>1 DEF PlainSoFar
  <2>3. PlainSoFar(rates, i)
    BY <1>5, <2>2 DEF PlainSoFar
  <2>4. p[i] >= Hundred /\ f[i] = <<Hundred, p[n]>>
        /\ Near((b + h[i]) * Hundred, b * p[i], Hundred * k)
    BY <1>6, <2>3 DEF OnTrack, k, n
  <2>5. Near((b + h[j]) * Hundred, b * p[j], Hundred * (k + 1))
    <3>1. h[i] \in Nat /\ p[i] \in Nat
      BY <1>2
    <3>2. Near((b + (h[i] + BankersRound(b * q, Hundred))) * Hundred,
               b * (p[i] + q), Hundred * (k + 1))
      BY <1>1, <1>4, <2>4, <3>1, PlainStep
    <3> QED
      BY <2>1, <3>2
  <2>6. p[j] >= Hundred
    BY <1>1, <1>2, <2>1, <2>4
  <2> QED
    BY <2>1, <2>2, <2>4, <2>5, <2>6 DEF OnTrack, n
<1>9. CASE Fires(rates, j) /\ TaxRates[j].compound
  <2> DEFINE d == f[i][1]
             m == f[i][2]
  <2>1. /\ h[j] = h[i] + BankersRound((b + h[i]) * q, Hundred) /\ p[j] = p[i]
        /\ f[j] = <<d * Hundred, m * (Hundred + q)>>
        /\ Cardinality(Fired(rates, j)) = k + 1
    BY <1>3, <1>4, <1>9 DEF AddTax, AddPlain, AddCompound, q
  <2>2. ~PlainSoFar(rates, j)
    BY <1>1, <1>9 DEF PlainSoFar, Fires
  <2>3. d <= m /\ Near((b + h[i]) * d, b * m, k * m) /\ p[i] >= Hundred
    <3>1. CASE PlainSoFar(rates, i)
      <4>1. p[i] >= Hundred /\ f[i] = <<Hundred, p[n]>>
            /\ Near((b + h[i]) * Hundred, b * p[i], Hundred * k)
        BY <1>6, <3>1 DEF OnTrack, k, n
      <4>2. p[i] = p[n]
        <5>1. j \in rates
          BY <1>9 DEF Fires
        <5>2. p[j] = p[j - 1] /\ p[Len(TaxRates)] = p[j]
          BY <1>9, <5>1, PlainComplete
        <5> QED
          BY <5>2 DEF i, n
      <4>3. d = Hundred /\ m = p[i]
        BY <4>1, <4>2
      <4>4. Hundred * k <= k * p[i]
        <5>1. \A x, y \in Nat : x >= Hundred => Hundred * y <= y * x
          <6> SUFFICES ASSUME NEW x \in Nat, NEW y \in Nat, x >= Hundred
                       PROVE  Hundred * y <= y * x
            OBVIOUS
          <6>1. Hundred * y <= x * y /\ x * y = y * x
            BY HundredType, Products
          <6> QED
            BY <6>1
        <5>2. p[i] \in Nat /\ k \in Nat
          BY <1>2, <1>4
        <5> QED
          BY <4>1, <5>1, <5>2
      <4>5. /\ (b + h[i]) * Hundred \in Int /\ b * p[i] \in Int /\ Hundred * k \in Int
            /\ k * p[i] \in Int
        <5>1. b \in Int /\ k \in Int /\ h[i] \in Int /\ p[i] \in Int /\ b + h[i] \in Int
          BY <1>2, <1>4
        <5> QED
          BY HundredType, <5>1, Products
      <4>6. Near((b + h[i]) * Hundred, b * p[i], k * p[i])
        BY <4>1, <4>4, <4>5, NearWeaken
      <4> QED
        BY <4>1, <4>3, <4>6
    <3>2. CASE ~PlainSoFar(rates, i)
      BY <1>6, <3>2 DEF OnTrack, k
    <3> QED
      BY <3>1, <3>2
  <2>4. d \in Nat /\ m \in Nat
    BY <1>2
  <2> HIDE DEF d, m
  <2>5. /\ d * Hundred <= m * (Hundred + q)
        /\ Near((b + h[j]) * (d * Hundred), b * (m * (Hundred + q)), (k + 1) * (m * (Hundred + q)))
    <3>1. h[i] \in Nat
      BY <1>2
    <3>2. /\ d * Hundred <= m * (Hundred + q)
          /\ Near((b + (h[i] + BankersRound((b + h[i]) * q, Hundred))) * (d * Hundred),
                  b * (m * (Hundred + q)), (k + 1) * (m * (Hundred + q)))
      BY <1>1, <1>4, <2>3, <2>4, <3>1, CompoundStep
    <3> QED
      BY <2>1, <3>2
  <2>6. f[j][1] = d * Hundred /\ f[j][2] = m * (Hundred + q)
    BY <2>1
  <2> QED
    BY <2>1, <2>2, <2>3, <2>5, <2>6 DEF OnTrack
<1> QED
  BY <1>7, <1>8, <1>9

\* A base with its tax is near the base times the factor.
LEMMA TaxNear ==
    ASSUME NEW rates \in SUBSET DOMAIN TaxRates, CompoundLast(rates), NEW b \in Nat
    PROVE  LET k == Cardinality({j \in rates : Fires(rates, j)})
               factor == Factor(rates)
           IN  Near((b + TaxOn(b, rates)) * factor[1], b * factor[2], k * factor[2])
<1> DEFINE n == Len(TaxRates)
<1>1. PICK h \in [0..n -> Nat] : /\ h[0] = 0 /\ h[n] = TaxOn(b, rates)
                                 /\ \A i \in 1..n : h[i] = AddTax(b, rates, h[i - 1], i)
  BY TaxInOrder
<1>2. PICK p \in [0..n -> Nat \ {0}] : /\ p[0] = Hundred /\ p[n] = Plain(rates)
                                       /\ \A i \in 1..n : p[i] = AddPlain(rates, p[i - 1], i)
  BY PlainInOrder
<1>3. PICK f \in [0..n -> (Nat \ {0}) \X (Nat \ {0})] :
          /\ f[0] = <<Hundred, Plain(rates)>> /\ f[n] = Factor(rates)
          /\ \A i \in 1..n : f[i] = AddCompound(rates, f[i - 1], i)
  BY FactorInOrder
<1>4. n \in Nat /\ DOMAIN TaxRates = 1..n
  BY RatesType
<1> DEFINE T == {i \in Nat : i <= n => OnTrack(rates, b, h, p, f, i)}
<1>5. 0 \in T
  <2>1. Fired(rates, 0) = {}
    BY <1>4 DEF Fired
  <2>2. Cardinality(Fired(rates, 0)) = 0
    BY <2>1, FS_EmptySet
  <2>3. PlainSoFar(rates, 0)
    BY <1>4 DEF PlainSoFar
  <2>4. Near((b + h[0]) * Hundred, b * p[0], Hundred * 0)
    BY <1>1, <1>2 DEF Near
  <2>5. OnTrack(rates, b, h, p, f, 0)
    BY <1>2, <1>3, <2>2, <2>3, <2>4 DEF OnTrack
  <2> QED
    BY <2>5
<1>6. ASSUME NEW i \in Nat, i \in T PROVE i + 1 \in T
  <2>1. SUFFICES ASSUME i + 1 <= n PROVE OnTrack(rates, b, h, p, f, i + 1)
    OBVIOUS
  <2>2. i + 1 \in 1..n /\ (i + 1) - 1 = i /\ OnTrack(rates, b, h, p, f, i)
    BY <1>4, <1>6, <2>1
  <2>3. OnTrack(rates, b, h, p, f, (i + 1) - 1)
    BY <2>2
  <2> QED
    BY <1>1, <1>2, <1>3, <2>2, <2>3, StaysOnTrack
<1>7. \A i \in Nat : i \in T
  <2> HIDE DEF T
  <2> QED BY <1>5, <1>6, Numbers
<1>8. OnTrack(rates, b, h, p, f, n)
  BY <1>4, <1>7
<1> DEFINE k == Cardinality(Fired(rates, n))
<1>9. k \in Nat /\ Fired(rates, n) = {j \in rates : Fires(rates, j)}
  <2>1. Fired(rates, n) = {j \in rates : Fires(rates, j)}
    BY <1>4 DEF Fired
  <2>2. IsFiniteSet(Fired(rates, n))
    <3>1. IsFiniteSet(DOMAIN TaxRates)
      BY <1>4, FS_Interval
    <3>2. Fired(rates, n) \in SUBSET DOMAIN TaxRates
      BY <2>1
    <3> QED
      BY <3>1, <3>2, FS_Subset
  <2> QED
    BY <2>1, <2>2, FS_CardinalityType
<1>10. h[n] \in Nat /\ p[n] \in Nat
  BY <1>4
<1> DEFINE factor == Factor(rates)
<1>11. Near((b + h[n]) * factor[1], b * factor[2], k * factor[2])
  <2>1. CASE PlainSoFar(rates, n)
    <3>1. /\ p[n] >= Hundred /\ f[n] = <<Hundred, p[n]>>
          /\ Near((b + h[n]) * Hundred, b * p[n], Hundred * k)
      BY <1>8, <2>1 DEF OnTrack
    <3>2. Hundred * k <= k * p[n]
      <4>1. \A x, y \in Nat : x >= Hundred => Hundred * y <= y * x
        BY HundredType
      <4> QED
        BY <1>9, <1>10, <3>1, <4>1
    <3>3. /\ (b + h[n]) * Hundred \in Int /\ b * p[n] \in Int /\ Hundred * k \in Int
          /\ k * p[n] \in Int
      BY HundredType, <1>9, <1>10
    <3>4. Near((b + h[n]) * Hundred, b * p[n], k * p[n])
      BY <3>1, <3>2, <3>3, NearWeaken
    <3>5. factor[1] = Hundred /\ factor[2] = p[n]
      BY <1>3, <3>1
    <3> QED
      BY <3>4, <3>5
  <2>2. CASE ~PlainSoFar(rates, n)
    BY <1>3, <1>8, <2>2 DEF OnTrack
  <2> QED
    BY <2>1, <2>2
<1> QED
  BY <1>1, <1>9, <1>11

\* The base and the tax of a price that includes tax come to the price again, but
\* for half a unit on the base and on each rate.
LEMMA RoundTrip ==
    ASSUME NEW rates \in SUBSET DOMAIN TaxRates, CompoundLast(rates), Moderate(rates),
           NEW gross \in Nat
    PROVE  LET t == CalculateTax(gross, rates, TRUE)
               k == Cardinality({j \in rates : Fires(rates, j)})
           IN  t.base + t.tax - gross \in -k..k
<1> DEFINE b == ExtractBase(gross, rates)
           t == TaxOn(b, rates)
           k == Cardinality({j \in rates : Fires(rates, j)})
           d == Factor(rates)[1]
           n == Factor(rates)[2]
<1>1. d \in Nat \ {0} /\ n \in Nat \ {0} /\ n < 2 * d
  BY FactorType DEF Moderate
<1>2. b \in Nat /\ t \in Nat
  BY ExtractBaseType, TaxOnType
<1>3. k \in Nat
  <2>1. IsFiniteSet(DOMAIN TaxRates)
    BY RatesType, FS_Interval
  <2> QED
    BY <2>1, FS_Subset, FS_CardinalityType
<1>4. Near((b + t) * d, b * n, k * n)
  BY <1>2, TaxNear
<1>5. Near(b * n, gross * d, n)
  <2>1. gross * d \in Nat
    BY <1>1, Products
  <2>2. Near(n * b, gross * d, n)
    BY <1>1, <2>1, BankersRoundNear DEF Near, ExtractBase
  <2> QED
    BY <1>1, <1>2, <2>2, Products
<1> DEFINE split == CalculateTax(gross, rates, TRUE)
<1>6. (split.base = b /\ split.tax = t) \/ (split.base = gross /\ split.tax = 0)
  BY DEF CalculateTax
<1> HIDE DEF split
<1> HIDE DEF b, t, k, d, n
<1>7. Near((b + t) * d, gross * d, k * n + n)
  <2>1. (b + t) * d \in Int /\ b * n \in Int /\ gross * d \in Int /\ k * n \in Int
    BY <1>1, <1>2, <1>3
  <2> QED
    BY <1>1, <1>4, <1>5, <2>1, NearTrans
<1> DEFINE off == b + t - gross
<1>8. /\ (2 * off) * d <= (k + 1) * n /\ -((k + 1) * n) <= (2 * off) * d
  <2>1. (2 * off) * d = 2 * ((b + t) * d) - 2 * (gross * d)
    BY <1>1, <1>2, Products
  <2>2. (k + 1) * n = k * n + n
    BY <1>1, <1>3, Products
  <2>3. (b + t) * d \in Int /\ gross * d \in Int /\ k * n \in Int
    BY <1>1, <1>2, <1>3
  <2> QED
    BY <1>1, <1>7, <2>1, <2>2, <2>3 DEF Near
<1>9. (k + 1) * n < (2 * (k + 1)) * d
  <2>1. (k + 1) * n < (k + 1) * (2 * d)
    <3>1. \A x, y, z \in Nat : x < y /\ z > 0 => z * x < z * y
      OBVIOUS
    <3> QED
      BY <1>1, <1>3, <3>1
  <2>2. (k + 1) * (2 * d) = (2 * (k + 1)) * d
    BY <1>1, <1>3, Products
  <2> QED
    BY <2>1, <2>2
<1>10. off \in Int
  BY <1>2
<1> HIDE DEF off
<1>11. off <= k
  <2>1. SUFFICES ASSUME off >= k + 1 PROVE FALSE
    BY <1>3, <1>10
  <2>2. (2 * (k + 1)) * d <= (2 * off) * d
    BY <1>1, <1>3, <1>10, <2>1, Products
  <2>3. (2 * (k + 1)) * d \in Int /\ (2 * off) * d \in Int /\ (k + 1) * n \in Int
    BY <1>1, <1>3, <1>10
  <2> QED
    BY <1>8, <1>9, <2>2, <2>3
<1>12. -k <= off
  <2>1. SUFFICES ASSUME off <= -(k + 1) PROVE FALSE
    BY <1>3, <1>10
  <2>2. (2 * off) * d <= (-(2 * (k + 1))) * d
    BY <1>1, <1>3, <1>10, <2>1, Products
  <2>3. (-(2 * (k + 1))) * d = -((2 * (k + 1)) * d)
    BY <1>1, <1>3
  <2>4. (2 * (k + 1)) * d \in Int /\ (2 * off) * d \in Int /\ (k + 1) * n \in Int
    BY <1>1, <1>3, <1>10
  <2> QED
    BY <1>8, <1>9, <2>2, <2>3, <2>4
<1>13. b + t - gross \in -k..k
  BY <1>3, <1>10, <1>11, <1>12 DEF off
<1>14. gross + 0 - gross \in -k..k
  BY <1>3
<1>15. split.base + split.tax - gross \in -k..k
  <2>1. CASE split.base = b /\ split.tax = t
    BY <1>13, <2>1
  <2>2. CASE split.base = gross /\ split.tax = 0
    BY <1>14, <2>2
  <2> QED
    BY <1>6, <2>1, <2>2
<1> QED
  BY <1>15 DEF k, split
----------------------------------------------------------------------------
(* The inductive invariant.                                                *)

\* What the coupon has taken off the lines since it was opened.
Taken == Sum([l \in Lines |-> before[l] - remaining[l]])

Touched == {l \in Lines : before[l] # remaining[l]}

\* Nothing is left to hand out between two coupons, an opened coupon has lines to
\* discount and only takes, and the totals come last.
Standing ==
    /\ line = 0 => residual = 0
    /\ line > 0 =>
          /\ Applying /\ Applies(Coupon)
          /\ \A l \in Lines : remaining[l] <= before[l]
    /\ result # <<>> => ~Applying
    /\ active = <<>> => \A l \in Lines : perLine[l] = 0

\* What fixed_product and percent have taken so far is covered by the units they have
\* used up, and the lines ahead are as they were.
UnitsCounted ==
    Opened /\ Coupon.type \in {"fixed_product", "percent"} =>
        /\ residual = 0
        /\ \A l \in Lines : l >= line => before[l] = remaining[l]
        /\ Coupon.limit # Unlimited =>
              LET used == Coupon.limit - units
              IN  /\ units \in 0..Coupon.limit
                  /\ Cardinality(Touched) <= used
                  /\ Coupon.type = "fixed_product" => Taken <= Coupon.amount * used
                  /\ Coupon.type = "percent" =>
                        \A p \in Nat : (\A l \in Lines : basket[l].price <= p) =>
                            2 * (Hundred * Taken) <= used * (2 * (Coupon.amount * p) + Hundred)

\* What fixed_cart has taken and what it has still to hand out come to its amount, or
\* to all that its lines had.
CartShared ==
    Opened /\ Coupon.type = "fixed_cart" =>
        /\ line \in {1, Len(basket) + 1}
        /\ line = 1 => before = remaining /\ residual = 0
        /\ \A l \in Lines \ Eligible(Coupon) : before[l] = remaining[l]
        /\ line > Len(basket) =>
              Taken + residual =
                  Least(Coupon.amount, Sum([l \in Eligible(Coupon) |-> before[l]]))

IInv == TypeOK /\ Standing /\ UnitsCounted /\ CartShared
----------------------------------------------------------------------------
(* Types.                                                                  *)

\* A basket is a sequence of lines.
LEMMA BasketType ==
    ASSUME NEW b \in Baskets
    PROVE  /\ Len(b) \in Nat /\ DOMAIN b = 1..Len(b) /\ IsFiniteSet(DOMAIN b)
           /\ \A l \in DOMAIN b : b[l].price \in Nat /\ b[l].quantity \in Nat
                                  /\ b[l].price * b[l].quantity \in Nat
<1>1. b \in Seq(Line)
  BY PricingAssumption
<1>2. Len(b) \in Nat /\ DOMAIN b = 1..Len(b) /\ \A l \in DOMAIN b : b[l] \in Line
  BY <1>1
<1>3. \A x \in Line : x.price \in Nat /\ x.quantity \in Nat
  BY DEF Line
<1>4. IsFiniteSet(DOMAIN b)
  BY <1>2, FS_Interval
<1> QED
  BY <1>2, <1>3, <1>4, Products

\* The lines of the cart.
LEMMA LinesType ==
    ASSUME basket \in Baskets
    PROVE  /\ Len(basket) \in Nat /\ Lines = 1..Len(basket) /\ IsFiniteSet(Lines)
           /\ \A l \in Lines : basket[l].price \in Nat /\ basket[l].quantity \in Nat
                               /\ Subtotal(l) \in Nat
BY BasketType DEF Lines, Subtotal

\* A coupon of the shop has the type of one.
LEMMA CouponFields ==
    ASSUME NEW c \in Coupons
    PROVE  /\ c.type \in Types /\ c.amount \in Nat
           /\ c.limit \in Nat \cup {Unlimited}
           /\ c.type = "percent" => c.amount <= Hundred
BY PricingAssumption

\* The coupon that is being applied is a coupon of the shop.
LEMMA CouponType ==
    ASSUME applied \in Applied, active \in Seq(applied), at \in 1..(Len(active) + 1), Applying
    PROVE  Coupon \in Coupons
<1>1. at \in DOMAIN active
  BY DEF Applying
<1>2. active[at] \in applied
  BY <1>1
<1>3. applied \subseteq Coupons
  BY PricingAssumption
<1> QED
  BY <1>2, <1>3 DEF Coupon

\* What is taken off a line is a number, and no more than is left of it.
LEMMA LineDiscountType ==
    ASSUME TypeOK, Applying, Coupon.type \in {"fixed_product", "percent"}, NEW l \in Lines
    PROVE  /\ UnitsOn(l) \in Nat
           /\ units # Unlimited => units \in Nat /\ UnitsOn(l) <= units
           /\ LineDiscount(l) \in Nat /\ LineDiscount(l) <= remaining[l]
           /\ LineDiscount(l) > 0 => UnitsOn(l) > 0
           /\ Coupon.type = "fixed_product" => LineDiscount(l) <= Coupon.amount * UnitsOn(l)
           /\ Coupon.type = "percent" =>
                 2 * (Hundred * LineDiscount(l))
                    <= 2 * (basket[l].price * UnitsOn(l) * Coupon.amount) + Hundred
<1>1. Coupon.amount \in Nat
  BY CouponType, CouponFields DEF TypeOK
<1>2. /\ basket[l].price \in Nat /\ basket[l].quantity \in Nat
      /\ remaining[l] \in Nat /\ units \in Nat \cup {Unlimited}
  BY LinesType DEF TypeOK
<1> DEFINE u == UnitsOn(l)
           d == LineDiscount(l)
           a == Coupon.amount
           r == remaining[l]
<1>3. u \in Nat /\ (units # Unlimited => units \in Nat /\ u <= units)
  BY <1>2, LeastType DEF UnitsOn
<1>4. CASE Coupon.type = "fixed_product"
  <2>1. d = Least(a * u, r)
    BY <1>4 DEF LineDiscount
  <2>2. a * u \in Nat /\ (u = 0 => a * u = 0)
    BY <1>1, <1>3, Products
  <2>3. d \in Nat /\ d <= a * u /\ d <= r
    BY <1>2, <2>1, <2>2, LeastType
  <2>4. d > 0 => u > 0
    BY <1>3, <2>2, <2>3
  <2> QED
    BY <1>3, <1>4, <2>3, <2>4
<1>5. CASE Coupon.type = "percent"
  <2> DEFINE v == basket[l].price * u
             basis == Least(v, r)
             e == RoundHalfUp(basis * a, Hundred)
  <2>1. d = Least(e, r)
    BY <1>5 DEF LineDiscount
  <2>2. v \in Nat /\ (u = 0 => v = 0)
    BY <1>2, <1>3, Products
  <2>3. basis \in Nat /\ basis <= v
    BY <1>2, <2>2, LeastType
  <2> HIDE DEF v, basis
  <2>4. basis * a \in Nat /\ basis * a <= v * a /\ (basis = 0 => basis * a = 0)
        /\ v * a \in Nat
    BY <1>1, <2>2, <2>3, Products
  <2>5. e \in Nat /\ 2 * (Hundred * e) <= 2 * (basis * a) + Hundred
    BY <2>4, RoundHalfUpNear, PricingAssumption
  <2> HIDE DEF e
  <2>6. d \in Nat /\ d <= e /\ d <= r
    BY <1>2, <2>1, <2>5, LeastType
  <2> HIDE DEF d, u
  <2>7. 2 * (Hundred * d) <= 2 * (v * a) + Hundred
    <3>1. Hundred \in Nat /\ Hundred * d <= Hundred * e /\ Hundred * d \in Int
          /\ Hundred * e \in Int
      BY <2>5, <2>6, PricingAssumption, Products
    <3> QED
      BY <2>4, <2>5, <3>1
  <2>8. ASSUME u = 0 PROVE d = 0
    <3>1. basis * a = 0
      BY <2>2, <2>3, <2>4, <2>8
    <3>2. Hundred \in Nat \ {0} /\ 2 * (Hundred * e) <= Hundred
      BY <2>5, <3>1, PricingAssumption
    <3>3. e >= 1 => Hundred * 1 <= Hundred * e
      BY <2>5, <3>2, Products
    <3>4. Hundred * e \in Int
      BY <2>5, <3>2, Products
    <3> QED
      BY <2>5, <2>6, <3>2, <3>3, <3>4
  <2> QED
    BY <1>3, <1>5, <2>6, <2>7, <2>8 DEF d, u, v
<1> QED
  BY <1>4, <1>5
----------------------------------------------------------------------------
(* The invariant holds at the start.                                       *)

\* The coupons that take part are coupons of the cart.
LEMMA PickActiveType ==
    ASSUME NEW S, IsFiniteSet(S), NEW s \in Sorted(S)
    PROVE  PickActive(s) \in Seq(S)
<1> DEFINE individual == {i \in DOMAIN s : s[i].individual}
<1>1. Cardinality(S) \in Nat /\ s \in [1..Cardinality(S) -> S]
  BY FS_CardinalityType DEF Sorted
<1>2. s \in Seq(S)
  BY <1>1
<1>3. CASE individual = {}
  BY <1>2, <1>3 DEF PickActive
<1>4. CASE individual # {}
  <2>1. individual \in SUBSET Nat
    BY <1>1
  <2>2. \E i \in individual : \A j \in individual : i <= j
    <3> HIDE DEF individual
    <3> QED BY <1>4, <2>1, LeastNumber
  <2> DEFINE first == CHOOSE i \in individual : \A j \in individual : i <= j
  <2>3. first \in individual
    BY <2>2
  <2>4. PickActive(s) = <<s[first]>>
    BY <1>4 DEF PickActive
  <2>5. s[first] \in S
    BY <1>1, <2>3
  <2> QED
    BY <2>4, <2>5
<1> QED
  BY <1>3, <1>4

LEMMA InitIInv == ASSUME Init PROVE IInv
<1>1. basket \in Baskets /\ applied \in Applied
  BY DEF Init
<1>2. active \in Seq(applied)
  BY <1>1, PickActiveType, PricingAssumption DEF Init
<1>3. remaining \in [Lines -> Nat] /\ before = remaining /\ perLine \in [Lines -> Nat]
      /\ \A l \in Lines : perLine[l] = 0 /\ remaining[l] = Subtotal(l) /\ Subtotal(l) \in Nat
  BY <1>1, LinesType DEF Init
<1>4. at \in 1..(Len(active) + 1) /\ line \in 0..(Len(basket) + 1)
  BY <1>1, <1>2, LinesType DEF Init
<1>5. TypeOK
  BY <1>1, <1>2, <1>3, <1>4 DEF Init, TypeOK
<1>6. Standing /\ UnitsCounted /\ CartShared
  BY <1>3 DEF Init, Standing, UnitsCounted, CartShared, Opened
<1> QED
  BY <1>5, <1>6 DEF IInv
----------------------------------------------------------------------------
(* The invariant is kept.                                                  *)

\* What the types say of an opened coupon.
LEMMA StateType ==
    ASSUME TypeOK
    PROVE  /\ Len(basket) \in Nat /\ Lines = 1..Len(basket) /\ IsFiniteSet(Lines)
           /\ before \in [Lines -> Nat] /\ remaining \in [Lines -> Nat]
           /\ perLine \in [Lines -> Nat] /\ residual \in Nat
           /\ Len(active) \in Nat /\ at \in Nat
           /\ line \in 0..(Len(basket) + 1)
           /\ Applying => Coupon \in Coupons
BY LinesType, CouponType DEF TypeOK

\* Going on to the next coupon.
LEMMA NextCouponKeeps == ASSUME IInv, Applying, residual = 0, NextCoupon PROVE IInv'
<1>1. TypeOK'
  <2>1. at + 1 \in 1..(Len(active) + 1)
    BY StateType DEF IInv, TypeOK, Applying
  <2>2. 0 \in 0..(Len(basket) + 1)
    BY StateType DEF IInv
  <2> QED
    BY <2>1, <2>2 DEF IInv, TypeOK, NextCoupon, Inputs, Lines, Subtotal
<1>2. Standing'
  <2>1. result' = <<>>
    BY DEF IInv, Standing, NextCoupon
  <2> QED
    BY <2>1 DEF IInv, Standing, NextCoupon, Inputs, Lines
<1>3. ~Opened'
  BY DEF NextCoupon, Opened
<1> QED
  BY <1>1, <1>2, <1>3 DEF IInv, UnitsCounted, CartShared

\* Opening a coupon: nothing is taken yet.
LEMMA OpenKeeps == ASSUME IInv, OpenCoupon PROVE IInv'
<1>1. /\ Applying /\ line = 0 /\ Applies(Coupon) /\ line' = 1 /\ units' = Coupon.limit
      /\ before' = remaining /\ remaining' = remaining /\ perLine' = perLine
      /\ basket' = basket /\ applied' = applied /\ active' = active /\ at' = at
      /\ residual' = residual /\ result' = result
  BY DEF OpenCoupon, Inputs
<1>2. /\ Coupon' = Coupon /\ Lines' = Lines /\ (Applying' <=> Applying)
      /\ (Applies(Coupon))' = Applies(Coupon)
  BY <1>1 DEF Coupon, Lines, Applying, Applies, Eligible, IsItemEligible
<1>3. residual = 0 /\ result = <<>>
  BY <1>1 DEF IInv, Standing
<1>4. Len(basket) \in Nat \ {0}
  <2>1. Lines # {}
    BY <1>1 DEF Applies, Eligible
  <2> QED
    BY <2>1, StateType DEF IInv
<1>5. remaining \in [Lines -> Nat]
  BY StateType DEF IInv
<1>6. Coupon.amount \in Nat /\ Coupon.limit \in Nat \cup {Unlimited}
  BY <1>1, StateType, CouponFields DEF IInv
<1>7. TypeOK'
  <2>1. 1 \in 0..(Len(basket) + 1)
    BY <1>4
  <2> QED
    BY <1>1, <1>6, <2>1 DEF IInv, TypeOK, Lines, Subtotal
<1>8. Standing'
  BY <1>1, <1>2, <1>3, <1>5 DEF IInv, Standing
<1>9. Taken' = 0 /\ Touched' = {}
  <2> DEFINE zero == [l \in Lines |-> remaining[l] - remaining[l]]
  <2>1. zero \in [Lines -> Int] /\ \A l \in Lines : zero[l] = 0
    BY <1>5
  <2>2. Taken' = Sum(zero)
    BY <1>1, <1>2 DEF Taken
  <2>3. Sum(zero) = Cardinality(Lines) * 0
    <3>1. IsFiniteSet(Lines)
      BY StateType DEF IInv
    <3> HIDE DEF zero
    <3> QED
      BY <2>1, <3>1, SumSame
  <2>4. Cardinality(Lines) \in Nat
    BY StateType, FS_CardinalityType DEF IInv
  <2>5. Touched' = {}
    BY <1>1, <1>2 DEF Touched
  <2> QED
    BY <2>2, <2>3, <2>4, <2>5
<1>10. UnitsCounted'
  <2>1. Cardinality(Touched') = 0
    BY <1>9, FS_EmptySet
  <2>2. Coupon.limit # Unlimited =>
          /\ Coupon.limit - Coupon.limit = 0
          /\ Coupon.limit \in 0..Coupon.limit
          /\ 0 <= Coupon.amount * 0
          /\ \A p \in Nat : 2 * (Hundred * 0) <= 0 * (2 * (Coupon.amount * p) + Hundred)
    <3>1. \A p \in Nat : Coupon.amount * p \in Nat
      BY <1>6, Products
    <3> QED
      BY HundredType, <1>6, <3>1
  <2> QED
    BY <1>1, <1>2, <1>3, <1>9, <2>1, <2>2 DEF UnitsCounted
<1>11. CartShared'
  BY <1>1, <1>2, <1>3, <1>4 DEF CartShared
<1> QED
  BY <1>7, <1>8, <1>10, <1>11 DEF IInv

\* Passing over a line: the line ahead is the next one.
LEMMA PassKeeps == ASSUME IInv, PassLine PROVE IInv'
<1>1. /\ ByLine /\ line' = line + 1 /\ units' = units
      /\ before' = before /\ remaining' = remaining /\ perLine' = perLine
      /\ basket' = basket /\ applied' = applied /\ active' = active /\ at' = at
      /\ residual' = residual /\ result' = result
  BY DEF PassLine, Inputs
<1>2. /\ Coupon' = Coupon /\ Lines' = Lines /\ (Applying' <=> Applying)
      /\ (Applies(Coupon))' = Applies(Coupon)
      /\ Taken' = Taken /\ Touched' = Touched
  BY <1>1 DEF Coupon, Lines, Applying, Applies, Eligible, IsItemEligible, Taken, Touched
<1>3. line \in 1..Len(basket) /\ Len(basket) \in Nat /\ Applying
      /\ Coupon.type \in {"fixed_product", "percent"}
  BY <1>1, StateType DEF IInv, ByLine
<1>4. TypeOK'
  <2>1. line + 1 \in 0..(Len(basket) + 1)
    BY <1>3
  <2> QED
    BY <1>1, <2>1 DEF IInv, TypeOK, Lines, Subtotal
<1>5. Standing'
  BY <1>1, <1>2, <1>3 DEF IInv, Standing
<1>6. UnitsCounted'
  <2>1. \A l \in Lines : l >= line + 1 => l >= line
    BY <1>3, StateType DEF IInv
  <2> QED
    BY <1>1, <1>2, <1>3, <2>1 DEF IInv, UnitsCounted, Opened
<1>7. CartShared'
  BY <1>2, <1>3 DEF CartShared
<1> QED
  BY <1>4, <1>5, <1>6, <1>7 DEF IInv

\* Taking an amount off a line keeps the balance of every line, and adds the amount
\* to what was taken.
LEMMA DiscountsMove ==
    ASSUME IInv, NEW l \in Lines, NEW d \in Nat, d <= remaining[l], Discounts(l, d)
    PROVE  /\ remaining' \in [Lines -> Nat] /\ perLine' \in [Lines -> Nat]
           /\ \A m \in Lines : /\ perLine'[m] + remaining'[m] = Subtotal(m)
                               /\ m # l => remaining'[m] = remaining[m]
           /\ remaining'[l] = remaining[l] - d
           /\ Taken \in Int /\ Taken' = Taken + d
<1>1. /\ perLine' = [perLine EXCEPT ![l] = @ + d]
      /\ remaining' = [remaining EXCEPT ![l] = @ - d]
      /\ before' = before /\ basket' = basket
  BY DEF Discounts, Inputs
<1>2. /\ IsFiniteSet(Lines) /\ before \in [Lines -> Nat]
      /\ remaining \in [Lines -> Nat] /\ perLine \in [Lines -> Nat]
      /\ \A m \in Lines : perLine[m] + remaining[m] = Subtotal(m)
  BY StateType DEF IInv, TypeOK
<1>3. /\ remaining' \in [Lines -> Nat] /\ perLine' \in [Lines -> Nat]
      /\ remaining'[l] = remaining[l] - d /\ perLine'[l] = perLine[l] + d
      /\ \A m \in Lines : m # l => remaining'[m] = remaining[m] /\ perLine'[m] = perLine[m]
  BY <1>1, <1>2
<1>4. \A m \in Lines : perLine'[m] + remaining'[m] = Subtotal(m)
  BY <1>2, <1>3
<1> DEFINE f == [m \in Lines |-> before[m] - remaining[m]]
           g == [m \in Lines |-> before[m] - remaining'[m]]
<1>5. Taken = Sum(f) /\ Taken' = Sum(g)
  BY <1>1 DEF Taken, Lines
<1>6. /\ f \in [Lines -> Int] /\ g \in [Lines -> Int]
      /\ \A m \in Lines \ {l} : g[m] = f[m]
      /\ g[l] - f[l] = d
  BY <1>2, <1>3
<1> HIDE DEF f, g
<1>7. Sum(f) \in Int /\ Sum(g) = Sum(f) + (g[l] - f[l])
  BY <1>2, <1>6, SumType, SumChange
<1> QED
  BY <1>3, <1>4, <1>5, <1>6, <1>7

\* Discounting a line: the amount is covered by the units it uses up.
LEMMA DiscountLineKeeps == ASSUME IInv, DiscountLine PROVE IInv'
<1> DEFINE d == LineDiscount(line)
           u == UnitsOn(line)
<1>1. /\ ByLine /\ units # 0 /\ ~Passes(line) /\ Discounts(line, d)
      /\ units' = UnitsLeft /\ line' = line + 1 /\ residual' = residual
      /\ basket' = basket /\ applied' = applied /\ active' = active /\ at' = at
      /\ before' = before /\ result' = result
  BY DEF DiscountLine, Discounts, Inputs
<1>2. /\ Coupon' = Coupon /\ Lines' = Lines /\ (Applying' <=> Applying)
      /\ (Applies(Coupon))' = Applies(Coupon)
  BY <1>1 DEF Coupon, Lines, Applying, Applies, Eligible, IsItemEligible
<1>3. line \in Lines /\ line \in 1..Len(basket) /\ Len(basket) \in Nat /\ Applying
      /\ Coupon.type \in {"fixed_product", "percent"} /\ Coupon \in Coupons
  BY <1>1, StateType DEF IInv, ByLine
<1>4. Coupon.amount \in Nat /\ Coupon.limit \in Nat \cup {Unlimited}
  BY <1>3, CouponFields
<1>5. /\ u \in Nat /\ d \in Nat /\ d <= remaining[line]
      /\ units # Unlimited => units \in Nat /\ u <= units
      /\ d > 0 => u > 0
      /\ Coupon.type = "fixed_product" => d <= Coupon.amount * u
      /\ Coupon.type = "percent" =>
            2 * (Hundred * d) <= 2 * (basket[line].price * u * Coupon.amount) + Hundred
  BY <1>3, LineDiscountType DEF IInv
<1>6. d > 0 /\ u > 0
  BY <1>1, <1>5 DEF Passes
<1>7. units' = IF units = Unlimited THEN Unlimited ELSE units - u
  BY <1>1 DEF UnitsLeft
<1> HIDE DEF d, u
<1>8. /\ remaining' \in [Lines -> Nat] /\ perLine' \in [Lines -> Nat]
      /\ \A m \in Lines : /\ perLine'[m] + remaining'[m] = Subtotal(m)
                          /\ m # line => remaining'[m] = remaining[m]
      /\ remaining'[line] = remaining[line] - d
      /\ Taken \in Int /\ Taken' = Taken + d
  BY <1>1, <1>3, <1>5, DiscountsMove
<1>9. TypeOK'
  <2>1. line + 1 \in 0..(Len(basket) + 1) /\ units' \in Nat \cup {Unlimited}
    BY <1>3, <1>5, <1>7
  <2>2. \A m \in Lines : Subtotal(m)' = Subtotal(m)
    BY <1>1 DEF Subtotal
  <2> QED
    BY <1>1, <1>2, <1>8, <2>1, <2>2 DEF IInv, TypeOK
<1>10. /\ before \in [Lines -> Nat] /\ remaining \in [Lines -> Nat]
       /\ \A m \in Lines : remaining[m] <= before[m]
  BY <1>3, StateType DEF IInv, Standing
<1>11. Standing'
  <2>1. active # <<>> /\ line + 1 # 0
    BY <1>3, StateType DEF IInv, TypeOK, Applying
  <2>2. \A m \in Lines : remaining'[m] <= before[m]
    <3>1. remaining'[line] <= before[line]
      <4>1. remaining[line] \in Nat /\ before[line] \in Nat /\ remaining[line] <= before[line]
        BY <1>3, <1>10
      <4> QED
        BY <1>5, <1>8, <4>1
    <3>2. \A m \in Lines : m # line => remaining'[m] <= before[m]
      BY <1>8, <1>10
    <3> QED
      BY <3>1, <3>2
  <2>3. line > 0 /\ result = <<>>
    BY <1>3 DEF IInv, Standing
  <2> QED
    BY <1>1, <1>2, <1>3, <2>1, <2>2, <2>3 DEF IInv, Standing
<1>12. UnitsCounted'
  <2>1. residual = 0 /\ \A l \in Lines : l >= line => before[l] = remaining[l]
    BY <1>3 DEF IInv, UnitsCounted, Opened
  <2>2. \A l \in Lines : l >= line + 1 => before[l] = remaining'[l]
    <3>1. \A l \in Lines : l >= line + 1 => l >= line /\ l # line
      BY <1>3, StateType DEF IInv
    <3> QED
      BY <1>8, <2>1, <3>1
  <2>3. ASSUME Coupon.limit # Unlimited
        PROVE  LET used == Coupon.limit - units'
               IN  /\ units' \in 0..Coupon.limit
                   /\ Cardinality(Touched') <= used
                   /\ Coupon.type = "fixed_product" => Taken' <= Coupon.amount * used
                   /\ Coupon.type = "percent" =>
                        \A p \in Nat : (\A l \in Lines : basket[l].price <= p) =>
                            2 * (Hundred * Taken') <= used * (2 * (Coupon.amount * p) + Hundred)
    <3> DEFINE limit == Coupon.limit
               used == Coupon.limit - units
               a == Coupon.amount
    <3>1. /\ units \in 0..limit /\ Cardinality(Touched) <= used
          /\ Coupon.type = "fixed_product" => Taken <= a * used
          /\ Coupon.type = "percent" =>
                \A p \in Nat : (\A l \in Lines : basket[l].price <= p) =>
                    2 * (Hundred * Taken) <= used * (2 * (a * p) + Hundred)
      BY <1>3, <2>3 DEF IInv, UnitsCounted, Opened
    <3>2. limit \in Nat /\ units \in Nat /\ units # Unlimited /\ a \in Nat /\ used \in Nat
      BY <1>4, <2>3, <3>1, PricingAssumption
    <3>3. units' = units - u /\ u <= units /\ limit - units' = used + u
          /\ units' \in 0..limit
      BY <1>5, <1>7, <3>1, <3>2
    <3> HIDE DEF used, limit, a
    <3>4. Cardinality(Touched') <= used + u
      <4>1. Touched' = Touched \cup {line} /\ line \notin Touched
        <5>1. before[line] = remaining[line] /\ before[line] # remaining'[line]
          BY <1>3, <1>6, <1>8, <1>10, <2>1, <1>5
        <5> QED
          BY <1>1, <1>2, <1>3, <1>8, <5>1 DEF Touched
      <4>2. IsFiniteSet(Touched)
        <5>1. Touched \in SUBSET Lines
          BY DEF Touched
        <5> QED
          BY <5>1, StateType, FS_Subset DEF IInv
      <4>3. Cardinality(Touched') = Cardinality(Touched) + 1 /\ Cardinality(Touched) \in Nat
        BY <4>1, <4>2, FS_AddElement, FS_CardinalityType
      <4> QED
        BY <1>5, <1>6, <3>1, <3>2, <4>3
    <3>5. Coupon.type = "fixed_product" => Taken' <= a * (used + u)
      <4>1. a * (used + u) = a * used + a * u /\ a * used \in Int /\ a * u \in Int
        BY <1>5, <3>2, Products
      <4>2. Coupon.type = "fixed_product" => d <= a * u
        BY <1>5 DEF a
      <4> QED
        BY <1>5, <1>8, <3>1, <4>1, <4>2
    <3>6. ASSUME Coupon.type = "percent", NEW p \in Nat, \A l \in Lines : basket[l].price <= p
          PROVE  2 * (Hundred * Taken') <= (used + u) * (2 * (a * p) + Hundred)
      <4> DEFINE x == basket[line].price
                 w == 2 * (a * p)
                 c == w + Hundred
      <4>1. 2 * (Hundred * d) <= 2 * (x * u * a) + Hundred /\ x \in Nat /\ x <= p
        BY <1>3, <1>5, <3>6, LinesType DEF IInv, TypeOK, a
      <4> HIDE DEF x
      <4>2. Hundred \in Nat
        BY PricingAssumption
      <4>3. w \in Nat /\ u * w = 2 * (u * (a * p)) /\ u * (a * p) \in Int
        <5>1. a * p \in Nat
          BY <3>2, Products
        <5> DEFINE y == a * p
        <5> HIDE DEF y
        <5>2. y \in Nat
          BY <5>1 DEF y
        <5>3. 2 * y \in Nat /\ u * (2 * y) = (u * 2) * y /\ u * 2 = 2 * u
              /\ (2 * u) * y = 2 * (u * y)
              /\ u * y \in Int
          BY <1>5, <5>2, Products
        <5> QED
          BY <5>3 DEF y
      <4>4. x * u * a <= u * (a * p) /\ x * u * a \in Int
        <5>1. x * u <= p * u /\ x * u \in Nat /\ p * u \in Nat
          BY <1>5, <4>1, Products
        <5>2. (x * u) * a <= (p * u) * a /\ (x * u) * a \in Nat /\ (p * u) * a \in Nat
          BY <3>2, <5>1, Products
        <5>3. (p * u) * a = p * (u * a) /\ u * a = a * u /\ p * (a * u) = (p * a) * u
              /\ p * a = a * p /\ (a * p) * u = u * (a * p)
          BY <1>5, <3>2, Products
        <5> QED
          BY <5>2, <5>3
      <4> HIDE DEF w
      <4>5. Hundred <= u * Hundred /\ u * Hundred \in Int
        <5>1. 1 * Hundred <= u * Hundred
          BY <1>5, <1>6, <4>2, Products
        <5> QED
          BY <1>5, <4>2, <5>1, Products
      <4>6. c \in Nat /\ u * c = u * w + u * Hundred
        BY <1>5, <4>2, <4>3, Products
      <4>7. 2 * (Hundred * Taken) <= used * c
        BY <3>1, <3>6 DEF w
      <4> HIDE DEF c
      <4>8. /\ (used + u) * c = used * c + u * c /\ used * c \in Int
            /\ Hundred * (Taken + d) = Hundred * Taken + Hundred * d
            /\ Hundred * Taken \in Int /\ Hundred * d \in Int /\ u * w \in Int
        <5>1. (used + u) * c = used * c + u * c /\ used * c \in Int
          BY <1>5, <3>2, <4>6, Products
        <5>2. Hundred * (Taken + d) = Hundred * Taken + Hundred * d
              /\ Hundred * Taken \in Int /\ Hundred * d \in Int
          BY <1>5, <1>8, <4>2, Products
        <5>3. u * w \in Int
          BY <1>5, <4>3, Products
        <5> QED
          BY <5>1, <5>2, <5>3
      <4>9. 2 * (Hundred * d) <= u * c
        <5> DEFINE e == x * u * a
                   z == u * (a * p)
                   v == u * Hundred
                   y == Hundred * d
                   g == u * w
        <5>1. 2 * y <= 2 * e + Hundred /\ e <= z /\ g = 2 * z /\ Hundred <= v /\ u * c = g + v
          BY <4>1, <4>3, <4>4, <4>5, <4>6
        <5>2. e \in Int /\ z \in Int /\ v \in Int /\ y \in Int /\ g \in Int /\ Hundred \in Int
          BY <4>2, <4>3, <4>4, <4>5, <4>8
        <5> HIDE DEF e, z, v, y, g
        <5>3. 2 * y <= g + v
          BY <5>1, <5>2
        <5> QED
          BY <5>1, <5>3 DEF y
      <4>10. u * c \in Int
        BY <4>5, <4>6, <4>8
      <4>11. 2 * (Hundred * (Taken + d)) <= (used + u) * c
        BY <4>7, <4>8, <4>9, <4>10
      <4> QED
        BY <1>8, <4>11 DEF c, w
    <3> QED
      BY <3>3, <3>4, <3>5, <3>6 DEF used, limit, a
  <2> QED
    BY <1>1, <1>2, <1>3, <2>1, <2>2, <2>3 DEF UnitsCounted
<1>13. CartShared'
  BY <1>2, <1>3 DEF CartShared
<1> QED
  BY <1>9, <1>11, <1>12, <1>13 DEF IInv

\* A term of a sum of natural numbers is no more than the sum.
LEMMA SumTerm ==
    ASSUME NEW D, IsFiniteSet(D), NEW f \in [D -> Nat], NEW x \in D
    PROVE  f[x] <= Sum(f)
<1> DEFINE g == [f EXCEPT ![x] = 0]
<1>1. /\ g \in [D -> Nat] /\ g \in [D -> Int] /\ f \in [D -> Int]
      /\ \A y \in D \ {x} : f[y] = g[y]
      /\ g[x] = 0 /\ f[x] \in Nat
  OBVIOUS
<1> HIDE DEF g
<1>2. Sum(f) = Sum(g) + (f[x] - g[x])
  BY <1>1, SumChange
<1>3. Sum(g) \in Nat
  BY <1>1, SumNatural
<1> QED
  BY <1>1, <1>2, <1>3

\* A sum of zeros.
LEMMA SumZero ==
    ASSUME NEW D, IsFiniteSet(D), NEW f \in [D -> Int], \A x \in D : f[x] = 0
    PROVE  Sum(f) = 0
<1>1. Sum(f) = Cardinality(D) * 0
  BY SumSame
<1>2. Cardinality(D) \in Nat
  BY FS_CardinalityType
<1> QED
  BY <1>1, <1>2

\* Shares of an amount in proportion, rounded down: none exceeds its line, and
\* together they do not exceed the amount.
LEMMA SharesFit ==
    ASSUME NEW S, IsFiniteSet(S), NEW r \in [S -> Nat], \A l \in S : r[l] > 0,
           NEW a \in Nat, a <= Sum(r),
           NEW s, s = [l \in S |-> (r[l] * a) \div Sum(r)]
    PROVE  /\ s \in [S -> Nat]
           /\ \A l \in S : s[l] <= r[l]
           /\ Sum(s) <= a
<1> DEFINE total == Sum(r)
<1>1. total \in Nat /\ r \in [S -> Int]
  BY SumNatural
<1>2. \A l \in S : r[l] \in Nat /\ r[l] <= total /\ total \in Nat \ {0}
  BY <1>1, SumTerm
<1>3. ASSUME NEW l \in S
      PROVE  s[l] \in Nat /\ total * s[l] <= r[l] * a /\ s[l] <= r[l]
  <2> DEFINE x == r[l] * a
             q == x \div total
  <2>1. x \in Nat /\ total \in Nat \ {0} /\ r[l] \in Nat
    BY <1>2, <1>3, Products
  <2>2. s[l] = q
    BY <1>3
  <2>3. q \in Nat /\ total * q <= x
    <3>1. q \in Nat /\ x % total \in 0..(total - 1) /\ x = total * q + (x % total)
      <4> HIDE DEF x, total
      <4> QED BY <2>1, Division
    <3> DEFINE m == total * q
               rest == x % total
    <3>2. m \in Int /\ rest \in Nat /\ x = m + rest
      BY <2>1, <3>1
    <3> HIDE DEF m, rest, x
    <3>3. m <= x
      BY <2>1, <3>2
    <3> QED
      BY <3>1, <3>3 DEF m
  <2>4. x <= r[l] * total
    BY <1>1, <2>1, Products
  <2> HIDE DEF q, x, total
  <2>5. q <= r[l]
    <3>1. SUFFICES ASSUME q > r[l] PROVE FALSE
      BY <2>1, <2>3
    <3>2. \A y, z, t \in Nat : y < z /\ t > 0 => y * t < t * z
      OBVIOUS
    <3>3. r[l] * total < total * q
      BY <2>1, <2>3, <3>1, <3>2
    <3>4. r[l] * total \in Nat /\ total * q \in Nat
      BY <2>1, <2>3, Products
    <3> QED
      BY <2>1, <2>3, <2>4, <3>3, <3>4
  <2> QED
    BY <2>2, <2>3, <2>5 DEF x
<1>4. s \in [S -> Nat] /\ s \in [S -> Int]
  <2>1. \A l \in S : (r[l] * a) \div Sum(r) \in Nat
    BY <1>3
  <2> QED
    BY <2>1
<1> HIDE DEF total
<1>5. CASE S = {}
  <2>1. Sum(s) = 0
    BY <1>4, <1>5, SumZero
  <2> QED
    BY <1>3, <1>4, <2>1
<1>6. CASE S # {}
  <2> DEFINE up == [l \in S |-> s[l] * total]
             all == [l \in S |-> r[l] * a]
  <2>1. total \in Nat \ {0}
    BY <1>2, <1>6
  <2>2. /\ up \in [S -> Int] /\ all \in [S -> Int]
        /\ \A l \in S : up[l] = s[l] * total /\ all[l] = r[l] * a /\ up[l] <= all[l]
    <3>1. ASSUME NEW l \in S PROVE s[l] * total \in Int /\ r[l] * a \in Int /\ s[l] * total <= r[l] * a
      <4>1. s[l] \in Nat /\ total * s[l] <= r[l] * a /\ r[l] \in Nat
        BY <1>2, <1>3
      <4> QED
        BY <2>1, <4>1, Products
    <3> QED
      BY <3>1
  <2> HIDE DEF up, all
  <2>3. Sum(up) = Sum(s) * total
    BY <1>4, <2>1, <2>2, SumTimes
  <2>4. Sum(all) = total * a
    <3>1. a \in Int /\ \A l \in S : all[l] = r[l] * a
      BY <2>2
    <3>2. Sum(all) = Sum(r) * a
      BY <1>1, <2>2, <3>1, SumTimes
    <3> QED
      BY <3>2 DEF total
  <2>5. Sum(up) <= Sum(all)
    BY <2>2, SumAtMost
  <2>6. Sum(s) \in Int
    BY <1>4, SumType
  <2>7. Sum(s) <= a
    <3>1. SUFFICES ASSUME Sum(s) > a PROVE FALSE
      BY <2>6
    <3>2. \A y, z, t \in Int : y < z /\ t > 0 => t * y < z * t
      OBVIOUS
    <3>3. total * a < Sum(s) * total
      BY <2>1, <2>6, <3>1, <3>2
    <3>4. total * a \in Int /\ Sum(s) * total \in Int
      BY <2>1, <2>6
    <3> QED
      BY <2>3, <2>4, <2>5, <3>3, <3>4
  <2> QED
    BY <1>3, <1>4, <2>7
<1> QED
  BY <1>5, <1>6

\* Sharing the amount: what the shares leave over is the residual.
LEMMA ApportionKeeps == ASSUME IInv, Apportion PROVE IInv'
<1> DEFINE E == Eligible(Coupon)
           S == {l \in E : remaining[l] > 0}
           r == [l \in S |-> remaining[l]]
           total == Sum(r)
           a == Least(Coupon.amount, total)
           shares == [l \in Lines |-> IF l \in S THEN Share(l, S) ELSE 0]
<1>1. /\ Applying /\ Coupon.type = "fixed_cart" /\ line = 1
      /\ perLine' = [l \in Lines |-> perLine[l] + shares[l]]
      /\ remaining' = [l \in Lines |-> remaining[l] - shares[l]]
      /\ residual' = a - Sum(shares)
      /\ line' = Len(basket) + 1
      /\ basket' = basket /\ applied' = applied /\ active' = active /\ at' = at
      /\ units' = units /\ before' = before /\ result' = result
  BY DEF Apportion, Residue, Inputs
<1>2. /\ Coupon' = Coupon /\ Lines' = Lines /\ (Applying' <=> Applying)
      /\ (Applies(Coupon))' = Applies(Coupon) /\ (Eligible(Coupon))' = E
  BY <1>1 DEF Coupon, Lines, Applying, Applies, Eligible, IsItemEligible
<1>3. /\ IsFiniteSet(Lines) /\ Len(basket) \in Nat /\ Lines = 1..Len(basket)
      /\ before \in [Lines -> Nat] /\ remaining \in [Lines -> Nat] /\ perLine \in [Lines -> Nat]
      /\ \A l \in Lines : perLine[l] + remaining[l] = Subtotal(l)
  BY StateType DEF IInv, TypeOK
<1>4. before = remaining /\ Applies(Coupon) /\ result = <<>>
  BY <1>1 DEF IInv, CartShared, Standing, Opened
<1>5. Coupon.amount \in Nat
  BY <1>1, StateType, CouponFields DEF IInv
<1>6. /\ E \in SUBSET Lines /\ S \in SUBSET Lines /\ S \in SUBSET E
      /\ IsFiniteSet(E) /\ IsFiniteSet(S)
  <2>1. E \in SUBSET Lines
    BY DEF Eligible
  <2>2. S \in SUBSET Lines
    BY <2>1
  <2> QED
    BY <1>3, <2>1, <2>2, FS_Subset
<1>7. r \in [S -> Nat] /\ \A l \in S : r[l] > 0
  BY <1>3, <1>6
<1> HIDE DEF E, S
<1>8. total \in Nat /\ a \in Nat /\ a <= total
  <2>1. total \in Nat
    <3> HIDE DEF r
    <3> QED BY <1>6, <1>7, SumNatural
  <2> HIDE DEF total
  <2> QED
    BY <1>5, <2>1, LeastType
<1> DEFINE s == [l \in S |-> (r[l] * a) \div total]
<1>9. s \in [S -> Nat] /\ (\A l \in S : s[l] <= r[l]) /\ Sum(s) <= a
  <2> DEFINE b == a
  <2>1. b \in Nat /\ b <= Sum(r) /\ s = [l \in S |-> (r[l] * b) \div Sum(r)]
    BY <1>8
  <2> HIDE DEF r, s, b
  <2>2. s \in [S -> Nat] /\ (\A l \in S : s[l] <= r[l]) /\ Sum(s) <= b
    BY <1>6, <1>7, <2>1, SharesFit
  <2> QED
    BY <2>2 DEF b
<1>10. \A l \in S : Share(l, S) = s[l] /\ r[l] = remaining[l]
  BY DEF Share
<1>11. /\ shares \in [Lines -> Nat] /\ shares \in [Lines -> Int] /\ s \in [S -> Int]
       /\ \A l \in Lines : shares[l] <= remaining[l]
       /\ \A l \in S : s[l] = shares[l]
       /\ \A l \in Lines \ S : shares[l] = 0
  <2> HIDE DEF s, r
  <2>1. \A l \in S : Share(l, S) \in Nat /\ Share(l, S) <= remaining[l]
    BY <1>9, <1>10
  <2> QED
    BY <1>3, <1>6, <1>9, <1>10, <2>1
<1> HIDE DEF s, r, shares, total, a
<1>12. Sum(s) = Sum(shares) /\ Sum(shares) \in Nat
  <2>1. Sum(s) = Sum(shares)
    <3>1. \A l \in S : s[l] = shares[l]
      BY <1>11
    <3>2. \A l \in Lines \ S : shares[l] = 0
      BY <1>11
    <3>3. IsFiniteSet(Lines)
      BY <1>3
    <3>4. shares \in [Lines -> Int]
      BY <1>11
    <3>5. S \in SUBSET Lines
      BY <1>6
    <3>6. s \in [S -> Int]
      BY <1>11
    <3> QED
      BY <3>1, <3>2, <3>3, <3>4, <3>5, <3>6, SumPart
  <2> QED
    BY <1>3, <1>11, <2>1, SumNatural
<1>13. residual' \in Nat /\ Sum(shares) + residual' = a
  BY <1>1, <1>8, <1>9, <1>12
<1>14. /\ remaining' \in [Lines -> Nat] /\ perLine' \in [Lines -> Nat]
       /\ \A l \in Lines : /\ perLine'[l] + remaining'[l] = Subtotal(l)
                           /\ remaining'[l] <= before[l]
                           /\ before[l] - remaining'[l] = shares[l]
                           /\ l \notin E => before[l] = remaining'[l]
  <2>1. ASSUME NEW l \in Lines
        PROVE  /\ remaining[l] - shares[l] \in Nat /\ perLine[l] + shares[l] \in Nat
               /\ (perLine[l] + shares[l]) + (remaining[l] - shares[l]) = Subtotal(l)
               /\ remaining[l] - shares[l] <= before[l]
               /\ before[l] - (remaining[l] - shares[l]) = shares[l]
               /\ l \notin E => before[l] = remaining[l] - shares[l]
    <3>1. /\ remaining[l] \in Nat /\ perLine[l] \in Nat /\ shares[l] \in Nat
          /\ perLine[l] + remaining[l] = Subtotal(l) /\ before[l] = remaining[l]
          /\ shares[l] <= remaining[l]
      BY <1>3, <1>4, <1>11
    <3>2. l \notin E => shares[l] = 0
      BY <1>6, <1>11
    <3> QED
      BY <3>1, <3>2
  <2> QED
    BY <1>1, <2>1
<1>15. TypeOK'
  <2>1. Len(basket) + 1 \in 0..(Len(basket) + 1)
    BY <1>3
  <2>2. \A l \in Lines : Subtotal(l)' = Subtotal(l)
    BY <1>1 DEF Subtotal
  <2> QED
    BY <1>1, <1>2, <1>13, <1>14, <2>1, <2>2 DEF IInv, TypeOK
<1>16. Standing'
  <2>1. active # <<>> /\ Len(basket) + 1 # 0
    BY <1>1, <1>3, StateType DEF IInv, TypeOK, Applying
  <2> QED
    BY <1>1, <1>2, <1>4, <1>14, <2>1 DEF Standing
<1>17. UnitsCounted'
  BY <1>1, <1>2 DEF UnitsCounted
<1>18. CartShared'
  <2>1. Taken' = Sum(shares)
    <3>1. Taken' = Sum([l \in Lines |-> before[l] - remaining'[l]])
      BY <1>1, <1>2 DEF Taken
    <3>2. [l \in Lines |-> before[l] - remaining'[l]] = shares
      BY <1>11, <1>14
    <3> QED
      BY <3>1, <3>2
  <2>2. total = Sum([l \in E |-> before[l]])
    <3> DEFINE e == [l \in E |-> before[l]]
    <3>1. /\ e \in [E -> Int] /\ r \in [S -> Int]
          /\ \A l \in S : r[l] = e[l]
          /\ \A l \in E \ S : e[l] = 0
      <4>1. \A l \in E : before[l] = remaining[l] /\ remaining[l] \in Nat
        BY <1>3, <1>4, <1>6
      <4>2. \A l \in E \ S : ~ (remaining[l] > 0)
        BY DEF S
      <4> QED
        BY <1>6, <1>7, <1>10, <4>1, <4>2
    <3> HIDE DEF e
    <3>2. Sum(r) = Sum(e)
      BY <1>6, <3>1, SumPart
    <3> QED
      BY <3>2 DEF total, e
  <2>3. (Sum([l \in Eligible(Coupon) |-> before[l]]))' = Sum([l \in E |-> before[l]])
    BY <1>1, <1>2
  <2>4. Taken' + residual' = Least(Coupon.amount, Sum([l \in E |-> before[l]]))
    BY <1>13, <2>1, <2>2 DEF a
  <2>5. Len(basket) + 1 # 1
    <3>1. Lines # {}
      BY <1>4 DEF Applies, Eligible
    <3> QED
      BY <1>3, <3>1
  <2> QED
    BY <1>1, <1>2, <1>14, <2>3, <2>4, <2>5 DEF CartShared, Least
<1> QED
  BY <1>15, <1>16, <1>17, <1>18 DEF IInv

\* An opened coupon with something left to hand out is a fixed_cart that has shared
\* its amount.
LEMMA HandingOut ==
    ASSUME IInv, residual > 0
    PROVE  /\ line > 0 /\ Opened /\ Coupon.type = "fixed_cart" /\ line > Len(basket)
           /\ Taken + residual =
                 Least(Coupon.amount, Sum([l \in Eligible(Coupon) |-> before[l]]))
<1>1. line > 0 /\ Applying /\ Applies(Coupon) /\ Coupon \in Coupons
  BY StateType DEF IInv, Standing
<1>2. Opened
  BY <1>1 DEF Opened
<1>3. Coupon.type \notin {"fixed_product", "percent"}
  BY <1>2 DEF IInv, UnitsCounted
<1>4. Coupon.type = "fixed_cart"
  BY <1>1, <1>3, CouponFields DEF Types, Applies
<1>5. line = Len(basket) + 1
  BY <1>2, <1>4 DEF IInv, CartShared
<1>6. line > Len(basket)
  BY <1>5, StateType DEF IInv
<1> QED
  BY <1>1, <1>2, <1>4, <1>6 DEF IInv, CartShared

\* Handing out: what the line takes is no longer left over.
LEMMA HandOutKeeps == ASSUME IInv, HandOutResidual PROVE IInv'
<1>1. PICK l \in Lines :
          /\ TakesResidual(l) /\ Discounts(l, Least(remaining[l], residual))
          /\ residual' = residual - Least(remaining[l], residual)
  BY DEF HandOutResidual
<1> DEFINE d == Least(remaining[l], residual)
<1>2. /\ residual > 0 /\ residual' = residual - d /\ Discounts(l, d)
      /\ line' = line /\ units' = units /\ basket' = basket /\ applied' = applied
      /\ active' = active /\ at' = at /\ before' = before /\ result' = result
  BY <1>1 DEF HandOutResidual, Discounts, Inputs
<1>3. /\ Coupon' = Coupon /\ Lines' = Lines /\ (Applying' <=> Applying)
      /\ (Applies(Coupon))' = Applies(Coupon) /\ (Eligible(Coupon))' = Eligible(Coupon)
  BY <1>2 DEF Coupon, Lines, Applying, Applies, Eligible, IsItemEligible
<1>4. /\ Len(basket) \in Nat /\ before \in [Lines -> Nat] /\ remaining \in [Lines -> Nat]
      /\ residual \in Nat
  BY StateType DEF IInv
<1>5. d \in Nat /\ d <= remaining[l] /\ d <= residual
  BY <1>4, LeastType
<1> HIDE DEF d
<1>6. /\ line > 0 /\ Opened /\ Coupon.type = "fixed_cart" /\ line > Len(basket)
      /\ Taken + residual = Least(Coupon.amount, Sum([m \in Eligible(Coupon) |-> before[m]]))
  BY <1>2, HandingOut
<1>7. /\ remaining' \in [Lines -> Nat] /\ perLine' \in [Lines -> Nat]
      /\ \A m \in Lines : /\ perLine'[m] + remaining'[m] = Subtotal(m)
                          /\ m # l => remaining'[m] = remaining[m]
      /\ remaining'[l] = remaining[l] - d
      /\ Taken \in Int /\ Taken' = Taken + d
  BY <1>2, <1>5, DiscountsMove
<1>8. residual' \in Nat /\ Taken' + residual' = Taken + residual
  BY <1>2, <1>4, <1>5, <1>7
<1>9. TypeOK'
  <2>1. \A m \in Lines : Subtotal(m)' = Subtotal(m)
    BY <1>2 DEF Subtotal
  <2> QED
    BY <1>2, <1>3, <1>7, <1>8, <2>1 DEF IInv, TypeOK
<1>10. Applying /\ Applies(Coupon) /\ result = <<>> /\ active # <<>>
       /\ \A m \in Lines : remaining[m] <= before[m]
  <2>1. Applying
    BY <1>6 DEF Opened
  <2>2. active # <<>>
    BY <2>1, StateType DEF IInv, TypeOK, Applying
  <2> QED
    BY <1>6, <2>1, <2>2 DEF IInv, Standing
<1>11. Standing'
  <2>1. remaining'[l] <= before[l]
    <3>1. remaining[l] \in Nat /\ before[l] \in Nat /\ remaining[l] <= before[l]
      BY <1>4, <1>10
    <3> QED
      BY <1>5, <1>7, <3>1
  <2>2. \A m \in Lines : remaining'[m] <= before[m]
    BY <1>7, <1>10, <2>1
  <2> QED
    BY <1>2, <1>3, <1>6, <1>10, <2>2 DEF Standing
<1>12. UnitsCounted'
  BY <1>3, <1>6 DEF UnitsCounted
<1>13. CartShared'
  <2>1. line = Len(basket) + 1 /\ \A m \in Lines \ Eligible(Coupon) : before[m] = remaining[m]
    BY <1>4, <1>6 DEF IInv, CartShared
  <2>2. line # 1
    <3>1. Lines # {}
      OBVIOUS
    <3>2. Len(basket) # 0
      BY <3>1, StateType DEF IInv
    <3> QED
      BY <1>4, <2>1, <3>2
  <2>3. \A m \in Lines \ Eligible(Coupon) : before[m] = remaining'[m]
    BY <1>1, <1>7, <2>1 DEF TakesResidual
  <2>4. Taken' + residual' = Least(Coupon.amount, Sum([m \in Eligible(Coupon) |-> before[m]]))
    BY <1>6, <1>8
  <2>5. (Sum([m \in Eligible(Coupon) |-> before[m]]))' = Sum([m \in Eligible(Coupon) |-> before[m]])
    BY <1>2, <1>3
  <2> QED
    BY <1>2, <1>3, <2>1, <2>2, <2>3, <2>4, <2>5 DEF CartShared, Least
<1> QED
  BY <1>9, <1>11, <1>12, <1>13 DEF IInv

\* The totals change nothing but the result.
LEMMA TotalKeeps == ASSUME IInv, Total PROVE IInv'
<1>1. /\ ~Applying /\ basket' = basket /\ applied' = applied /\ active' = active /\ at' = at
      /\ line' = line /\ units' = units /\ before' = before /\ remaining' = remaining
      /\ perLine' = perLine /\ residual' = residual
  BY DEF Total, Inputs
<1>2. TypeOK'
  BY <1>1 DEF IInv, TypeOK, Lines, Subtotal
<1>3. line = 0
  <2>1. line \in Nat /\ ~ (line > 0)
    BY <1>1, StateType DEF IInv, Standing
  <2> QED
    BY <2>1
<1>4. ~Applying' /\ ~Opened'
  BY <1>1 DEF Applying, Opened
<1>5. Standing'
  BY <1>1, <1>3, <1>4 DEF IInv, Standing, Lines
<1> QED
  BY <1>2, <1>4, <1>5 DEF IInv, UnitsCounted, CartShared

\* A step that changes nothing.
LEMMA StutterKeeps == ASSUME IInv, UNCHANGED vars PROVE IInv'
<1>1. /\ basket' = basket /\ applied' = applied /\ active' = active /\ at' = at
      /\ line' = line /\ units' = units /\ before' = before /\ remaining' = remaining
      /\ perLine' = perLine /\ residual' = residual /\ result' = result
  BY DEF vars
<1>2. /\ Coupon' = Coupon /\ Lines' = Lines /\ (Applying' <=> Applying) /\ (Opened' <=> Opened)
      /\ (Applies(Coupon))' = Applies(Coupon) /\ (Eligible(Coupon))' = Eligible(Coupon)
      /\ Taken' = Taken /\ Touched' = Touched
  BY <1>1 DEF Coupon, Lines, Applying, Applies, Eligible, IsItemEligible, Taken, Touched, Opened
<1>3. TypeOK'
  BY <1>1 DEF IInv, TypeOK, Lines, Subtotal
<1>4. Standing'
  BY <1>1, <1>2 DEF IInv, Standing
<1>5. UnitsCounted'
  BY <1>1, <1>2 DEF IInv, UnitsCounted
<1>6. CartShared'
  BY <1>1, <1>2 DEF IInv, CartShared, Least
<1> QED
  BY <1>3, <1>4, <1>5, <1>6 DEF IInv

LEMMA NextIInv == ASSUME IInv, [Next]_vars PROVE IInv'
<1>1. CASE SkipCoupon
  BY <1>1, NextCouponKeeps DEF IInv, Standing, SkipCoupon
<1>2. CASE OpenCoupon
  BY <1>2, OpenKeeps
<1>3. CASE PassLine
  BY <1>3, PassKeeps
<1>4. CASE DiscountLine
  BY <1>4, DiscountLineKeeps
<1>5. CASE Apportion
  BY <1>5, ApportionKeeps
<1>6. CASE HandOutResidual
  BY <1>6, HandOutKeeps
<1>7. CASE CloseCoupon
  BY <1>7, NextCouponKeeps DEF CloseCoupon, CouponDone, Opened
<1>8. CASE Total
  BY <1>8, TotalKeeps
<1>9. CASE UNCHANGED vars
  BY <1>9, StutterKeeps
<1> QED
  BY <1>1, <1>2, <1>3, <1>4, <1>5, <1>6, <1>7, <1>8, <1>9 DEF Next

\* The inductive invariant is an invariant.
THEOREM Invariance == Spec => []IInv
<1>1. Init => IInv
  BY InitIInv
<1>2. IInv /\ [Next]_vars => IInv'
  BY NextIInv
<1> QED
  BY <1>1, <1>2, PTL DEF Spec
----------------------------------------------------------------------------
(* What the coupons take.                                                  *)

\* Every variable has its type, and what was taken off a line and what is left of it
\* make up its price (discounter_service.ts:440-443), whatever the coupons.
THEOREM TypeCorrect == Spec => []TypeOK
<1>1. IInv => TypeOK
  BY DEF IInv
<1> QED
  BY <1>1, Invariance, PTL

\* A fixed_cart coupon takes exactly its amount, or all that is left of its lines,
\* whatever the rounding of the shares (discounter_service.ts:406, 418): for every
\* cart and every number of lines.
THEOREM CartExact == Spec => []FixedCartExact
<1>1. IInv => FixedCartExact
  <2>1. SUFFICES ASSUME IInv, CouponDone, Coupon.type = "fixed_cart"
                 PROVE  Sum([l \in Lines |-> before[l] - remaining[l]])
                            = Least(Coupon.amount, Sum([l \in Eligible(Coupon) |-> before[l]]))
    BY DEF FixedCartExact
  <2>2. Opened /\ residual = 0 /\ line > Len(basket)
    BY <2>1 DEF CouponDone, ByLine
  <2>3. Taken + 0 = Least(Coupon.amount, Sum([l \in Eligible(Coupon) |-> before[l]]))
    BY <2>1, <2>2 DEF IInv, CartShared
  <2>4. Taken \in Int
    <3> DEFINE f == [l \in Lines |-> before[l] - remaining[l]]
    <3>1. f \in [Lines -> Int] /\ IsFiniteSet(Lines)
      BY <2>1, StateType DEF IInv
    <3> HIDE DEF f
    <3>2. Sum(f) \in Int
      BY <3>1, SumType
    <3> QED
      BY <3>2 DEF Taken, f
  <2> QED
    BY <2>3, <2>4 DEF Taken
<1> QED
  BY <1>1, Invariance, PTL

\* Of finitely many lines, one has the greatest value and is the first that has it.
LEMMA FirstGreatest ==
    ASSUME NEW D \in SUBSET Nat, IsFiniteSet(D), NEW f \in [D -> Nat], NEW S \in SUBSET D, S # {}
    PROVE  \E l \in S : \A m \in S : m # l => f[m] < f[l] \/ (f[m] = f[l] /\ l < m)
<1> DEFINE Best(T, l) == \A m \in T : m # l => f[m] < f[l] \/ (f[m] = f[l] /\ l < m)
           P == {T \in SUBSET D : T # {} => \E l \in T : Best(T, l)}
<1>1. {} \in P
  OBVIOUS
<1>2. ASSUME NEW T \in SUBSET D, NEW x \in D, T \in P, x \notin T
      PROVE  T \cup {x} \in P
  <2>1. CASE T = {}
    <3>1. Best(T \cup {x}, x)
      BY <2>1
    <3> QED
      BY <3>1
  <2>2. CASE T # {}
    <3>1. PICK l \in T : Best(T, l)
      BY <1>2, <2>2
    <3>2. f[x] \in Nat /\ f[l] \in Nat /\ x \in Nat /\ l \in Nat /\ x # l
      BY <1>2, <3>1
    <3>3. \A m \in T : f[m] \in Nat /\ m \in Nat
      OBVIOUS
    <3>4. CASE f[x] < f[l] \/ (f[x] = f[l] /\ l < x)
      <4>1. Best(T \cup {x}, l)
        BY <3>1, <3>4
      <4> QED
        BY <4>1
    <3>5. CASE ~ (f[x] < f[l] \/ (f[x] = f[l] /\ l < x))
      <4>1. f[l] < f[x] \/ (f[l] = f[x] /\ x < l)
        BY <3>2, <3>5
      <4>2. Best(T \cup {x}, x)
        BY <3>1, <3>2, <3>3, <4>1
      <4> QED
        BY <4>2
    <3> QED
      BY <3>4, <3>5
  <2> QED
    BY <2>1, <2>2
<1>3. \A T \in SUBSET D : T \in P
  <2> HIDE DEF P
  <2> QED BY <1>1, <1>2, Subsets
<1> QED
  BY <1>3

\* With limit_usage_to_x_items a coupon takes its amount, or its percentage of the
\* dearest line, no more often than the limit says, but for half a unit of rounding a
\* line (discounter_service.ts:348, 370): for every limit, amount and cart.
THEOREM UnitsAreCapped == Spec => []UnitsCapped
<1>1. IInv => UnitsCapped
  <2> DEFINE limit == Coupon.limit
             a == Coupon.amount
             used == Coupon.limit - units
  <2>1. SUFFICES ASSUME IInv, Opened, Coupon.type \in {"fixed_product", "percent"},
                        limit # Unlimited
                 PROVE  /\ Cardinality(Touched) <= limit
                        /\ Coupon.type = "fixed_product" => Taken <= a * limit
                        /\ Coupon.type = "percent" => \E l \in Lines :
                              2 * (Hundred * Taken)
                                <= 2 * (a * limit * basket[l].price) + Hundred * limit
    BY DEF UnitsCapped, Taken, Touched
  <2>2. /\ units \in 0..limit
        /\ Cardinality(Touched) <= used
        /\ Coupon.type = "fixed_product" => Taken <= a * used
        /\ Coupon.type = "percent" =>
              \A p \in Nat : (\A l \in Lines : basket[l].price <= p) =>
                  2 * (Hundred * Taken) <= used * (2 * (a * p) + Hundred)
    BY <2>1 DEF IInv, UnitsCounted
  <2>3. Coupon \in Coupons /\ Applies(Coupon)
    BY <2>1, StateType DEF IInv, Standing, Opened
  <2>4. limit \in Nat /\ a \in Nat
    BY <2>1, <2>3, CouponFields
  <2>5. used \in Nat /\ used <= limit
    <3>1. units \in Nat /\ units <= limit
      BY <2>2, <2>4
    <3> QED
      BY <2>4, <3>1
  <2>6. Lines # {} /\ Lines \in SUBSET Nat /\ IsFiniteSet(Lines)
        /\ \A l \in Lines : basket[l].price \in Nat
    <3>1. Lines # {}
      BY <2>3 DEF Applies, Eligible
    <3>2. basket \in Baskets
      BY <2>1 DEF IInv, TypeOK
    <3>3. Lines = 1..Len(basket) /\ IsFiniteSet(Lines)
          /\ \A l \in Lines : basket[l].price \in Nat
      BY <3>2, LinesType
    <3>4. 1..Len(basket) \in SUBSET Nat
      BY <2>1, StateType DEF IInv
    <3> QED
      BY <3>1, <3>3, <3>4
  <2>7. Taken \in Int /\ Cardinality(Touched) \in Nat
    <3> DEFINE f == [l \in Lines |-> before[l] - remaining[l]]
    <3>1. f \in [Lines -> Int]
      BY <2>1, StateType DEF IInv
    <3> HIDE DEF f
    <3>2. Sum(f) \in Int
      BY <2>6, <3>1, SumType
    <3>3. Touched \in SUBSET Lines
      BY DEF Touched
    <3>4. Cardinality(Touched) \in Nat
      BY <2>6, <3>3, FS_Subset, FS_CardinalityType
    <3> QED
      BY <3>2, <3>4 DEF Taken, f
  <2> HIDE DEF limit, a, used
  <2>8. Coupon.type = "fixed_product" => Taken <= a * limit
    <3>1. a * used <= a * limit /\ a * used \in Int /\ a * limit \in Int
      BY <2>4, <2>5, Products
    <3> QED
      BY <2>2, <2>7, <3>1
  <2>9. ASSUME Coupon.type = "percent"
        PROVE  \E l \in Lines :
                  2 * (Hundred * Taken) <= 2 * (a * limit * basket[l].price) + Hundred * limit
    <3> DEFINE f == [l \in Lines |-> basket[l].price]
    <3>1. f \in [Lines -> Nat]
      BY <2>6
    <3>2. PICK l \in Lines : \A m \in Lines : m # l => f[m] < f[l] \/ (f[m] = f[l] /\ l < m)
      <4> HIDE DEF f
      <4>1. Lines \in SUBSET Lines
        OBVIOUS
      <4> QED
        BY <2>6, <3>1, <4>1, FirstGreatest
    <3> DEFINE p == basket[l].price
    <3>3. p \in Nat /\ \A m \in Lines : basket[m].price <= p
      BY <2>6, <3>2
    <3> HIDE DEF p
    <3>4. 2 * (Hundred * Taken) <= used * (2 * (a * p) + Hundred)
      BY <2>2, <2>9, <3>3
    <3>5. Hundred \in Nat /\ a * p \in Nat
      BY <2>4, <3>3, PricingAssumption, Products
    <3> DEFINE c == 2 * (a * p) + Hundred
    <3>6. c \in Nat
      BY <3>5
    <3>7. limit * c = 2 * (a * limit * p) + Hundred * limit /\ a * limit * p \in Int
      <4> DEFINE y == a * p
                 z == 2 * y
      <4>1. y \in Nat /\ z \in Nat
        BY <3>5
      <4>2. limit * y = a * limit * p /\ a * limit * p \in Int
        <5>1. (limit * a) * p = limit * (a * p) /\ limit * a = a * limit
              /\ (limit * a) * p \in Int
          BY <2>4, <3>3, Products
        <5> QED
          BY <5>1
      <4> HIDE DEF y
      <4>3. limit * (2 * y) = (limit * 2) * y /\ limit * 2 = 2 * limit
            /\ (2 * limit) * y = 2 * (limit * y)
        BY <2>4, <4>1, Products
      <4> HIDE DEF z
      <4>4. limit * (z + Hundred) = limit * z + limit * Hundred
            /\ limit * Hundred = Hundred * limit
        BY <2>4, <3>5, <4>1, Products
      <4> QED
        BY <4>2, <4>3, <4>4 DEF z, y
    <3> HIDE DEF c
    <3>8. used * c <= limit * c /\ used * c \in Int /\ limit * c \in Int
      BY <2>4, <2>5, <3>6, Products
    <3>9. 2 * (Hundred * Taken) <= used * c /\ Hundred * Taken \in Int
      BY <2>7, <3>4, <3>5, Products DEF c
    <3>10. 2 * (Hundred * Taken) <= 2 * (a * limit * p) + Hundred * limit
      BY <3>7, <3>8, <3>9
    <3> QED
      BY <3>10 DEF p
  <2>10. Cardinality(Touched) <= limit
    BY <2>2, <2>4, <2>5, <2>7
  <2> QED
    BY <2>8, <2>9, <2>10
<1> QED
  BY <1>1, Invariance, PTL

\* What the rounding of the shares leaves over always finds a line with room, so the
\* loop that hands it out never comes to a point where it cannot go on
\* (discounter_service.ts:402, 409).
ResidualFits == residual > 0 => \E l \in Lines : TakesResidual(l)

THEOREM ResidualAlwaysFits == Spec => []ResidualFits
<1>1. IInv => ResidualFits
  <2> DEFINE E == Eligible(Coupon)
             S == {l \in E : remaining[l] > 0}
  <2>1. SUFFICES ASSUME IInv, residual > 0 PROVE \E l \in Lines : TakesResidual(l)
    BY DEF ResidualFits
  <2>2. /\ IsFiniteSet(Lines) /\ Lines \in SUBSET Nat /\ residual \in Nat
        /\ before \in [Lines -> Nat] /\ remaining \in [Lines -> Nat]
    BY <2>1, StateType DEF IInv
  <2>3. E \in SUBSET Lines /\ S \in SUBSET Lines
    BY DEF Eligible
  <2>4. /\ Taken + residual = Least(Coupon.amount, Sum([l \in E |-> before[l]]))
        /\ \A l \in Lines \ E : before[l] = remaining[l]
        /\ Coupon \in Coupons
    BY <2>1, HandingOut, StateType DEF IInv, CartShared, Opened
  <2> HIDE DEF E
  <2>5. S # {}
    <3>1. SUFFICES ASSUME S = {} PROVE FALSE
      OBVIOUS
    <3> DEFINE taken == [l \in Lines |-> before[l] - remaining[l]]
               had == [l \in E |-> before[l]]
    <3>2. \A l \in E : remaining[l] = 0
      <4>1. ASSUME NEW l \in E PROVE remaining[l] = 0
        <5>1. ~ (remaining[l] > 0)
          BY <3>1
        <5>2. remaining[l] \in Nat
          BY <2>2, <2>3
        <5> QED
          BY <5>1, <5>2
      <4> QED
        BY <4>1
    <3>3. taken \in [Lines -> Int]
      BY <2>2
    <3>4. had \in [E -> Nat] /\ had \in [E -> Int]
      BY <2>2, <2>3
    <3>5. \A l \in E : had[l] = taken[l]
      BY <2>2, <2>3, <3>2
    <3>6. \A l \in Lines \ E : taken[l] = 0
      BY <2>2, <2>4
    <3>7. IsFiniteSet(Lines) /\ IsFiniteSet(E)
      BY <2>2, <2>3, FS_Subset
    <3>8. Taken = Sum(taken)
      BY DEF Taken
    <3> HIDE DEF taken, had, S
    <3>9. Sum(had) = Sum(taken)
      BY <2>3, <3>3, <3>4, <3>5, <3>6, <3>7, SumPart
    <3>10. Sum(had) \in Nat
      BY <3>4, <3>7, SumNatural
    <3>11. Least(Coupon.amount, Sum(had)) <= Sum(had)
      BY <2>4, <3>10, CouponFields, LeastType
    <3> QED
      BY <2>1, <2>2, <2>4, <3>8, <3>9, <3>10, <3>11 DEF had
  <2>6. PICK l \in S :
           \A m \in S : m # l => before[m] < before[l] \/ (before[m] = before[l] /\ l < m)
    <3> HIDE DEF S
    <3> QED
      BY <2>2, <2>3, <2>5, FirstGreatest
  <2>7. TakesResidual(l)
    BY <2>6 DEF TakesResidual, E
  <2> QED
    BY <2>3, <2>7
<1> QED
  BY <1>1, Invariance, PTL
----------------------------------------------------------------------------
(* The totals.                                                             *)

\* A price of the cart with its taxes, before and after the discount: a discount makes
\* no line dearer.
LEMMA LineTotals ==
    ASSUME TypeOK, NEW in, in.inclusive \in BOOLEAN, NEW l \in Lines
    PROVE  /\ Full(l, in).base \in Nat /\ Full(l, in).tax \in Nat
           /\ Net(l, in).base \in Nat /\ Net(l, in).tax \in Nat
           /\ Net(l, in).tax <= Full(l, in).tax
           /\ ~in.inclusive => /\ Full(l, in).base = Subtotal(l)
                               /\ Net(l, in).base = Subtotal(l) - perLine[l]
           /\ Subtotal(l) \in Nat /\ perLine[l] \in Nat
           /\ Subtotal(l) - perLine[l] = remaining[l]
<1> DEFINE rates == Stack(l, in)
           a == Subtotal(l) - perLine[l]
           b == Subtotal(l)
           i == in.inclusive
<1>1. b \in Nat /\ perLine[l] \in Nat /\ remaining[l] \in Nat /\ perLine[l] + remaining[l] = b
  BY StateType, LinesType DEF TypeOK
<1>2. a \in Nat /\ a <= b /\ a = remaining[l]
  BY <1>1
<1>3. Full(l, in) = CalculateTax(b, rates, i) /\ Net(l, in) = CalculateTax(a, rates, i)
  BY DEF Full, Net
<1>4. i \in BOOLEAN
  OBVIOUS
<1> HIDE DEF rates, a, b, i
<1>5. /\ CalculateTax(b, rates, i).base \in Nat /\ CalculateTax(b, rates, i).tax \in Nat
      /\ ~i => CalculateTax(b, rates, i).base = b
  BY <1>1, <1>4, CalculateTaxType
<1>6. /\ CalculateTax(a, rates, i).base \in Nat /\ CalculateTax(a, rates, i).tax \in Nat
      /\ ~i => CalculateTax(a, rates, i).base = a
  BY <1>2, <1>4, CalculateTaxType
<1>7. CalculateTax(a, rates, i).tax <= CalculateTax(b, rates, i).tax
  BY <1>1, <1>2, <1>4, TaxGrows
<1> QED
  BY <1>1, <1>2, <1>3, <1>5, <1>6, <1>7 DEF a, b, i

\* The lines of the coupons come to the discount.
LEMMA CouponLinesSum ==
    ASSUME NEW n \in Nat, NEW total \in Nat, n = 0 => total = 0
    PROVE  Sum(CouponLines(total, n)) = total
<1> DEFINE f == CouponLines(total, n)
<1>1. IsFiniteSet(1..n) /\ Cardinality(1..n) = n
  BY FS_Interval
<1>2. CASE n = 0
  <2>1. f \in [1..n -> Int] /\ \A i \in 1..n : f[i] = 0
    BY <1>2 DEF CouponLines
  <2>2. Sum(f) = 0
    <3> HIDE DEF f
    <3> QED BY <1>1, <2>1, SumZero
  <2> QED
    BY <1>2, <2>2
<1>3. CASE n # 0
  <2> DEFINE q == total \div n
             r == total % n
             g == [i \in 1..n |-> q]
  <2>1. q \in Nat /\ r \in Nat /\ total = n * q + r
    <3>1. n \in Nat \ {0}
      BY <1>3
    <3>2. q \in Nat /\ r \in 0..(n - 1) /\ total = n * q + (total % n)
      BY <3>1, Division
    <3> QED
      BY <3>2
  <2> HIDE DEF q, r
  <2>2. f = [i \in 1..n |-> q + IF i = 1 THEN r ELSE 0]
    BY DEF CouponLines, q, r
  <2>3. /\ f \in [1..n -> Int] /\ g \in [1..n -> Int] /\ 1 \in 1..n
        /\ \A i \in (1..n) \ {1} : f[i] = g[i]
        /\ f[1] - g[1] = r
        /\ \A i \in 1..n : g[i] = q
    BY <1>3, <2>1, <2>2
  <2> HIDE DEF f, g
  <2>4. Sum(g) = n * q
    <3>1. q \in Int /\ \A i \in 1..n : g[i] = q
      BY <2>1, <2>3
    <3>2. Sum(g) = Cardinality(1..n) * q
      BY <1>1, <2>3, <3>1, SumSame
    <3> QED
      BY <1>1, <3>2
  <2>5. Sum(f) = Sum(g) + (f[1] - g[1])
    BY <1>1, <2>3, SumChange
  <2> QED
    BY <2>1, <2>3, <2>4, <2>5 DEF f
<1> QED
  BY <1>2, <1>3

\* Two amounts of one bucket reach the same thresholds, if these are multiples of its
\* width.
LEMMA SameBucket ==
    ASSUME NEW x \in Nat, NEW y \in Nat, BucketOf(x) = BucketOf(y),
           NEW m \in Nat, m % Bucket = 0
    PROVE  x >= m <=> y >= m
<1>1. Bucket \in Nat \ {0}
  BY PricingAssumption
<1> DEFINE p == x \div Bucket
           q == y \div Bucket
           k == m \div Bucket
<1>2. /\ p \in Nat /\ q \in Nat /\ k \in Nat /\ m = Bucket * k
      /\ Bucket * p <= x /\ x < Bucket * (p + 1)
      /\ Bucket * q <= y /\ y < Bucket * (q + 1)
  <2>1. /\ p \in Nat /\ x % Bucket \in 0..(Bucket - 1) /\ x = Bucket * p + (x % Bucket)
        /\ q \in Nat /\ y % Bucket \in 0..(Bucket - 1) /\ y = Bucket * q + (y % Bucket)
        /\ k \in Nat /\ m = Bucket * k + (m % Bucket)
    BY <1>1, Division
  <2> DEFINE r == x % Bucket
             s == y % Bucket
  <2>2. /\ x = Bucket * p + r /\ y = Bucket * q + s /\ m = Bucket * k + 0
        /\ r \in 0..(Bucket - 1) /\ s \in 0..(Bucket - 1)
    BY <2>1
  <2>3. Bucket * (p + 1) = Bucket * p + Bucket /\ Bucket * (q + 1) = Bucket * q + Bucket
        /\ Bucket * p \in Int /\ Bucket * q \in Int /\ Bucket * k \in Int
    BY <1>1, <2>1, Products
  <2> HIDE DEF p, q, k, r, s
  <2> QED
    BY <1>1, <2>1, <2>2, <2>3
<1>3. p * Bucket = q * Bucket
  BY DEF BucketOf
<1> HIDE DEF p, q, k
<1>4. p = q
  <2>1. \A t, u, b \in Nat : t < u /\ b > 0 => t * b < u * b
    OBVIOUS
  <2>2. ~ (p < q) /\ ~ (q < p)
    BY <1>1, <1>2, <1>3, <2>1
  <2> QED
    BY <1>2, <2>2
<1>5. ASSUME NEW z \in Nat, Bucket * p <= z, z < Bucket * (p + 1)
      PROVE  z >= m <=> p >= k
  <2>1. p >= k => Bucket * k <= Bucket * p
    BY <1>1, <1>2, Products
  <2>2. p < k => Bucket * (p + 1) <= Bucket * k
    BY <1>1, <1>2, Products
  <2>3. Bucket * k \in Int /\ Bucket * p \in Int /\ Bucket * (p + 1) \in Int
    BY <1>1, <1>2
  <2> QED
    BY <1>2, <1>5, <2>1, <2>2, <2>3
<1> QED
  BY <1>2, <1>4, <1>5

\* A carrier that is offered is a method of a zone.
LEMMA ZoneMethod ==
    ASSUME NEW address, NEW m \in UNION {Range(Zones[z].methods) : z \in MatchedZones(address)}
    PROVE  m.amount \in Nat /\ m.free \in BOOLEAN /\ (m.free => m.amount % Bucket = 0)
<1>1. PICK z \in MatchedZones(address) : m \in Range(Zones[z].methods)
  OBVIOUS
<1>2. z \in DOMAIN Zones
  BY <1>1 DEF MatchedZones
<1>3. PICK i \in DOMAIN Zones[z].methods : m = Zones[z].methods[i]
  BY <1>1 DEF Range
<1> QED
  BY <1>2, <1>3, PricingAssumption, ThresholdInvariant

\* The carriers cached for the bucket are those this cart would be offered.
THEOREM SameOptions ==
    ASSUME NEW address, NEW x \in Nat, NEW y \in Nat, BucketOf(x) = BucketOf(y)
    PROVE  Options(address, x) = Options(address, y)
<1> DEFINE ms == UNION {Range(Zones[z].methods) : z \in MatchedZones(address)}
<1>1. \A m \in ms : (m.enabled /\ (m.free => x >= m.amount))
                      <=> (m.enabled /\ (m.free => y >= m.amount))
  <2>1. ASSUME NEW m \in ms, m.free PROVE x >= m.amount <=> y >= m.amount
    <3>1. m.amount \in Nat /\ m.amount % Bucket = 0
      BY <2>1, ZoneMethod
    <3> QED
      BY <3>1, SameBucket
  <2> QED
    BY <2>1
<1>2. {m \in ms : m.enabled /\ (m.free => x >= m.amount)}
        = {m \in ms : m.enabled /\ (m.free => y >= m.amount)}
  BY <1>1
<1> HIDE DEF ms
<1> QED
  BY <1>2 DEF Options, ms

\* A carrier costs a natural number.
LEMMA OptionCost ==
    ASSUME NEW address, NEW spend, NEW o \in Options(address, spend)
    PROVE  o.cost \in Nat
<1> DEFINE ms == UNION {Range(Zones[z].methods) : z \in MatchedZones(address)}
<1>1. PICK m \in ms :
          o = [id |-> m.id, cost |-> IF m.free THEN 0 ELSE m.amount, taxable |-> m.taxable]
  BY DEF Options
<1>2. m.amount \in Nat
  BY ZoneMethod
<1> QED
  BY <1>1, <1>2

\* What is said of one result, of a cart with these lines, this total and this rest.
Worth(x) == x.base + x.tax

TotalsRight(t, lines, total) ==
    /\ ~t.in.inclusive =>
          t.grand = Sum([l \in lines |-> Worth(t.lines[l])]) + Worth(t.shipping)
    /\ t.grand <= Sum([l \in lines |-> Worth(t.full[l])]) + Worth(t.shipping)
    /\ Sum(t.couponLines) = t.discount
    /\ t.carrier = Chosen(Options(t.in.address, total), t.in.selected)

StackOf(l, cart, in) ==
    IF (in.draft \/ cart[l].taxable) /\ cart[l].class # Null /\ in.address # NoAddress
    THEN FetchRates({cart[l].class}, in.address) ELSE {}

TripRight(t, cart, left) ==
    t.in.inclusive => \A l \in DOMAIN cart :
        LET off == t.lines[l].base + t.lines[l].tax - left[l]
            stack == StackOf(l, cart, t.in)
            n == Cardinality({j \in stack : Fires(stack, j)})
        IN  CompoundLast(stack) /\ Moderate(stack) => off \in -n..n

\* No coupon takes part if none is applied.
LEMMA NothingApplied ==
    ASSUME IInv
    PROVE  /\ IsFiniteSet(applied) /\ Cardinality(applied) \in Nat
           /\ Sum(perLine) \in Nat
           /\ Cardinality(applied) = 0 => Sum(perLine) = 0
<1>1. IsFiniteSet(applied)
  BY PricingAssumption DEF IInv, TypeOK
<1>2. Cardinality(applied) \in Nat /\ (Cardinality(applied) = 0 => applied = {})
  BY <1>1, FS_CardinalityType, FS_EmptySet
<1>3. IsFiniteSet(Lines) /\ perLine \in [Lines -> Nat] /\ perLine \in [Lines -> Int]
  BY StateType DEF IInv
<1>4. Sum(perLine) \in Nat
  BY <1>3, SumNatural
<1>5. ASSUME applied = {} PROVE Sum(perLine) = 0
  <2>1. active = <<>>
    BY <1>5 DEF IInv, TypeOK
  <2>2. \A l \in Lines : perLine[l] = 0
    BY <2>1 DEF IInv, Standing
  <2> QED
    BY <1>3, <2>2, SumZero
<1> QED
  BY <1>1, <1>2, <1>4, <1>5

\* The four agreements of a result.
LEMMA TotalsOfCart ==
    ASSUME IInv, NEW in, in.inclusive \in BOOLEAN, in.seen \in InBucket(BucketOf(ItemsTotal))
    PROVE  TotalsRight(CartTotals(in), Lines, ItemsTotal)
<1> DEFINE full == [l \in Lines |-> Full(l, in)]
           net == [l \in Lines |-> Net(l, in)]
           carrier == Chosen(CachedOptions(in), in.selected)
           cost == IF carrier = Null \/ FreeShipping THEN 0 ELSE carrier.cost
           rates == IF carrier # Null /\ carrier.taxable THEN ShippingRates(in) ELSE {}
           shipping == CalculateTax(cost, rates, in.inclusive)
           bases == [l \in Lines |-> full[l].base]
           taxes == [l \in Lines |-> net[l].tax]
           t == CartTotals(in)
<1>1. /\ t.full = full /\ t.lines = net /\ t.carrier = carrier /\ t.shipping = shipping
      /\ t.discount = Sum(perLine)
      /\ t.couponLines = CouponLines(Sum(perLine), Cardinality(applied))
      /\ t.grand = Sum(bases) + shipping.base + (Sum(taxes) + shipping.tax) - Sum(perLine)
      /\ t.in = in
  BY DEF CartTotals
<1>2. /\ IsFiniteSet(Lines) /\ perLine \in [Lines -> Nat] /\ perLine \in [Lines -> Int]
      /\ basket \in Baskets
  <2>1. TypeOK
    BY DEF IInv
  <2>2. IsFiniteSet(Lines) /\ perLine \in [Lines -> Nat]
    BY <2>1, StateType
  <2>3. perLine \in [Lines -> Int]
    BY <2>2
  <2>4. basket \in Baskets
    BY <2>1 DEF TypeOK
  <2> QED
    BY <2>2, <2>3, <2>4
<1>3. ItemsTotal \in Nat
  <2> DEFINE items == [l \in Lines |-> Subtotal(l)]
  <2>1. items \in [Lines -> Nat]
    BY <1>2, LinesType
  <2> HIDE DEF items
  <2>2. Sum(items) \in Nat
    BY <1>2, <2>1, SumNatural
  <2> QED
    BY <2>2 DEF ItemsTotal, items
<1>4. in.seen \in Nat /\ BucketOf(in.seen) = BucketOf(ItemsTotal)
  BY PricingAssumption DEF InBucket
<1>5. CachedOptions(in) = Options(in.address, ItemsTotal)
  BY <1>3, <1>4, SameOptions DEF CachedOptions
<1>6. cost \in Nat
  <2>1. CASE carrier = Null \/ FreeShipping
    BY <2>1
  <2>2. CASE ~ (carrier = Null \/ FreeShipping)
    <3>1. carrier \in CachedOptions(in)
      BY <2>2 DEF Chosen
    <3>2. carrier.cost \in Nat
      <4> HIDE DEF carrier
      <4> QED
        BY <1>5, <3>1, OptionCost
    <3> QED
      BY <2>2, <3>2
  <2> QED
    BY <2>1, <2>2
<1>7. shipping.base \in Nat /\ shipping.tax \in Nat
  <2> HIDE DEF cost, rates
  <2> QED
    BY <1>6, CalculateTaxType
<1> HIDE DEF shipping, carrier, t
<1>8. \A l \in Lines :
         /\ full[l].base \in Nat /\ full[l].tax \in Nat
         /\ net[l].base \in Nat /\ net[l].tax \in Nat
         /\ net[l].tax <= full[l].tax
         /\ ~in.inclusive => net[l].base = full[l].base - perLine[l]
         /\ perLine[l] \in Nat
  <2>1. ASSUME NEW l \in Lines
        PROVE  /\ full[l].base \in Nat /\ full[l].tax \in Nat
               /\ net[l].base \in Nat /\ net[l].tax \in Nat
               /\ net[l].tax <= full[l].tax
               /\ ~in.inclusive => net[l].base = full[l].base - perLine[l]
               /\ perLine[l] \in Nat
    <3>1. full[l] = Full(l, in) /\ net[l] = Net(l, in)
      OBVIOUS
    <3>2. /\ Full(l, in).base \in Nat /\ Full(l, in).tax \in Nat
          /\ Net(l, in).base \in Nat /\ Net(l, in).tax \in Nat
          /\ Net(l, in).tax <= Full(l, in).tax
          /\ ~in.inclusive => /\ Full(l, in).base = Subtotal(l)
                              /\ Net(l, in).base = Subtotal(l) - perLine[l]
          /\ perLine[l] \in Nat
      BY LineTotals DEF IInv
    <3> HIDE DEF full, net
    <3> QED
      BY <3>1, <3>2
  <2> QED
    BY <2>1
<1> DEFINE paid == [l \in Lines |-> Worth(net[l])]
           asked == [l \in Lines |-> Worth(full[l])]
           fullTaxes == [l \in Lines |-> full[l].tax]
           nets == [l \in Lines |-> bases[l] - perLine[l]]
<1>9. /\ bases \in [Lines -> Int] /\ taxes \in [Lines -> Int] /\ fullTaxes \in [Lines -> Int]
      /\ asked \in [Lines -> Int] /\ paid \in [Lines -> Int] /\ nets \in [Lines -> Int]
      /\ \A l \in Lines : /\ taxes[l] <= fullTaxes[l]
                          /\ asked[l] = bases[l] + fullTaxes[l]
                          /\ bases[l] = nets[l] + perLine[l]
                          /\ ~in.inclusive => paid[l] = nets[l] + taxes[l]
  <2> HIDE DEF full, net
  <2> QED
    BY <1>2, <1>8 DEF Worth
<1>10. /\ Sum(bases) \in Int /\ Sum(taxes) \in Int /\ Sum(fullTaxes) \in Int
       /\ Sum(nets) \in Int /\ Sum(perLine) \in Nat
  <2> HIDE DEF bases, taxes, fullTaxes, nets
  <2> QED
    BY <1>2, <1>9, SumType, SumNatural
<1> HIDE DEF bases, taxes, fullTaxes, nets, paid, asked
<1>11. Sum(taxes) <= Sum(fullTaxes)
  BY <1>2, <1>9, SumAtMost
<1>12. Sum(asked) = Sum(bases) + Sum(fullTaxes)
  <2>1. \A l \in Lines : asked[l] = bases[l] + fullTaxes[l]
    BY <1>9
  <2> QED
    BY <1>2, <1>9, <2>1, SumPlus
<1>13. Sum(bases) = Sum(nets) + Sum(perLine)
  <2>1. \A l \in Lines : bases[l] = nets[l] + perLine[l]
    BY <1>9
  <2> QED
    BY <1>2, <1>9, <2>1, SumPlus
<1>14. ASSUME ~in.inclusive PROVE Sum(paid) = Sum(nets) + Sum(taxes)
  <2>1. \A l \in Lines : paid[l] = nets[l] + taxes[l]
    BY <1>9, <1>14
  <2> QED
    BY <1>2, <1>9, <2>1, SumPlus
<1>15. ~t.in.inclusive =>
          t.grand = Sum([l \in Lines |-> Worth(t.lines[l])]) + Worth(t.shipping)
  <2>1. [l \in Lines |-> Worth(t.lines[l])] = paid
    BY <1>1 DEF paid
  <2>2. Worth(t.shipping) = shipping.base + shipping.tax
    BY <1>1 DEF Worth
  <2>3. t.grand = Sum(bases) + shipping.base + (Sum(taxes) + shipping.tax) - Sum(perLine)
        /\ t.in = in
    BY <1>1
  <2> HIDE DEF full, net
  <2> QED
    BY <1>7, <1>10, <1>13, <1>14, <2>1, <2>2, <2>3
<1>16. t.grand <= Sum([l \in Lines |-> Worth(t.full[l])]) + Worth(t.shipping)
  <2>1. [l \in Lines |-> Worth(t.full[l])] = asked
    BY <1>1 DEF asked
  <2>2. Worth(t.shipping) = shipping.base + shipping.tax
    BY <1>1 DEF Worth
  <2>3. t.grand = Sum(bases) + shipping.base + (Sum(taxes) + shipping.tax) - Sum(perLine)
    BY <1>1
  <2> HIDE DEF full, net
  <2> QED
    BY <1>7, <1>10, <1>11, <1>12, <2>1, <2>2, <2>3
<1>17. Sum(t.couponLines) = t.discount
  <2>1. Sum(CouponLines(Sum(perLine), Cardinality(applied))) = Sum(perLine)
    BY NothingApplied, CouponLinesSum
  <2> QED
    BY <1>1, <2>1
<1>18. t.carrier = Chosen(Options(t.in.address, ItemsTotal), t.in.selected)
  BY <1>1, <1>5 DEF carrier
<1> QED
  BY <1>15, <1>16, <1>17, <1>18 DEF TotalsRight, t

\* The round trip of every line of a result.
LEMMA TripOfCart ==
    ASSUME IInv, NEW in, in.inclusive \in BOOLEAN
    PROVE  TripRight(CartTotals(in), basket, remaining)
<1> DEFINE t == CartTotals(in)
<1>1. t.in = in /\ t.lines = [l \in Lines |-> Net(l, in)]
  BY DEF CartTotals
<1> HIDE DEF t
<1>2. ASSUME in.inclusive, NEW l \in Lines, CompoundLast(Stack(l, in)), Moderate(Stack(l, in))
      PROVE  LET n == Cardinality({j \in Stack(l, in) : Fires(Stack(l, in), j)})
             IN  t.lines[l].base + t.lines[l].tax - remaining[l] \in -n..n
  <2> DEFINE rates == Stack(l, in)
  <2>1. rates \in SUBSET DOMAIN TaxRates
    BY DEF Stack, FetchRates
  <2>2. Subtotal(l) - perLine[l] = remaining[l] /\ remaining[l] \in Nat
    <3>1. TypeOK
      BY DEF IInv
    <3>2. Subtotal(l) - perLine[l] = remaining[l]
      BY <3>1, LineTotals
    <3>3. remaining \in [Lines -> Nat]
      BY <3>1, StateType
    <3> QED
      BY <3>2, <3>3
  <2>3. t.lines[l] = CalculateTax(remaining[l], rates, TRUE)
    <3>1. in.inclusive = TRUE
      BY <1>2
    <3>2. t.lines[l] = CalculateTax(Subtotal(l) - perLine[l], rates, in.inclusive)
      BY <1>1 DEF Net
    <3> QED
      BY <2>2, <3>1, <3>2
  <2> HIDE DEF rates
  <2>4. CompoundLast(rates) /\ Moderate(rates)
    BY <1>2 DEF rates
  <2>5. LET n == Cardinality({j \in rates : Fires(rates, j)})
            x == CalculateTax(remaining[l], rates, TRUE)
        IN  x.base + x.tax - remaining[l] \in -n..n
    BY <2>1, <2>2, <2>4, RoundTrip
  <2> QED
    BY <2>3, <2>5 DEF rates
<1>3. \A l \in Lines : Stack(l, in) = StackOf(l, basket, in)
  BY DEF Stack, Taxed, StackOf
<1>4. TripRight(t, basket, remaining)
  BY <1>1, <1>2, <1>3 DEF TripRight, Lines
<1> QED
  BY <1>4 DEF t

\* A step makes a result of this cart, or it is taken before there is any.
LEMMA ResultOfStep ==
    ASSUME IInv, [Next]_vars
    PROVE  \/ /\ \E in : /\ in.inclusive \in BOOLEAN
                         /\ in.seen \in InBucket(BucketOf(ItemsTotal))
                         /\ result' = <<CartTotals(in)>>
              /\ UNCHANGED <<basket, remaining>>
           \/ result' = <<>>
           \/ UNCHANGED vars
<1>1. CASE Total
  <2>1. PICK in \in [ address : Addresses \cup {NoAddress}, inclusive : BOOLEAN,
                      draft : BOOLEAN, selected : Selections,
                      seen : InBucket(BucketOf(ItemsTotal)) ] :
            result' = <<CartTotals(in)>>
    BY <1>1 DEF Total
  <2>2. in.inclusive \in BOOLEAN /\ in.seen \in InBucket(BucketOf(ItemsTotal))
    OBVIOUS
  <2>3. UNCHANGED <<basket, remaining>>
    BY <1>1 DEF Total, Inputs
  <2> QED
    BY <2>1, <2>2, <2>3
<1>2. ASSUME Applying, result' = result PROVE result' = <<>>
  BY <1>2 DEF IInv, Standing
<1>3. CASE SkipCoupon
  BY <1>2, <1>3 DEF SkipCoupon, NextCoupon
<1>4. CASE OpenCoupon
  BY <1>2, <1>4 DEF OpenCoupon
<1>5. CASE PassLine
  BY <1>2, <1>5 DEF PassLine, ByLine
<1>6. CASE DiscountLine
  BY <1>2, <1>6 DEF DiscountLine, ByLine, Discounts
<1>7. CASE Apportion
  BY <1>2, <1>7 DEF Apportion
<1>8. CASE HandOutResidual
  BY <1>2, <1>8 DEF HandOutResidual, Discounts
<1>9. CASE CloseCoupon
  BY <1>2, <1>9 DEF CloseCoupon, CouponDone, Opened, NextCoupon
<1> QED
  BY <1>1, <1>3, <1>4, <1>5, <1>6, <1>7, <1>8, <1>9 DEF Next

\* Where prices exclude tax, the grand total of the cart or the draft is what the lines
\* and the carrier come to after the discount; where they include it, which is the
\* default, it is only bounded: no more than without the coupons.  In both, the coupon
\* lines come to the discount and the cached carrier is the one this cart is offered
\* (cart_totals_service.ts, order_factory.ts, shipping_rate_service.ts).
THEOREM TotalsAlwaysAgree == Spec => []TotalsAgree
<1>1. Init => TotalsAgree
  BY DEF Init, TotalsAgree
<1>2. IInv /\ TotalsAgree /\ [Next]_vars => TotalsAgree'
  <2> SUFFICES ASSUME IInv, TotalsAgree, [Next]_vars PROVE TotalsAgree'
    OBVIOUS
  <2>1. TotalsAgree <=> \A i \in DOMAIN result : TotalsRight(result[i], Lines, ItemsTotal)
    BY DEF TotalsAgree, TotalsRight, Worth
  <2>2. TotalsAgree' <=> \A i \in DOMAIN result' : TotalsRight(result'[i], Lines', ItemsTotal')
    BY DEF TotalsAgree, TotalsRight, Worth
  <2>3. UNCHANGED <<basket, remaining>> =>
            Lines' = Lines /\ ItemsTotal' = ItemsTotal
    BY DEF Lines, ItemsTotal, Subtotal
  <2>4. ASSUME NEW in, in.inclusive \in BOOLEAN, in.seen \in InBucket(BucketOf(ItemsTotal)),
               result' = <<CartTotals(in)>>, UNCHANGED <<basket, remaining>>
        PROVE  TotalsAgree'
    <3> DEFINE t == CartTotals(in)
    <3>1. TotalsRight(t, Lines, ItemsTotal)
      BY <2>4, TotalsOfCart
    <3>2. \A i \in DOMAIN result' : result'[i] = t
      BY <2>4
    <3> HIDE DEF t
    <3> QED
      BY <2>2, <2>3, <2>4, <3>1, <3>2
  <2>5. CASE result' = <<>>
    BY <2>2, <2>5
  <2>6. CASE UNCHANGED vars
    <3>1. UNCHANGED <<basket, remaining, result>>
      BY <2>6 DEF vars
    <3> QED
      BY <2>1, <2>2, <2>3, <3>1
  <2> QED
    BY <2>4, <2>5, <2>6, ResultOfStep
<1> QED
  BY <1>1, <1>2, Invariance, PTL DEF Spec

\* Whatever the rates, if no plain one follows a compound one and they do not double
\* the price: base and tax of a price that includes tax come to that price again, but
\* for a unit a rate (tax_calculator.ts).
THEOREM TaxAlwaysRoundTrips == Spec => []TaxRoundTrip
<1>1. Init => TaxRoundTrip
  BY DEF Init, TaxRoundTrip
<1>2. IInv /\ TaxRoundTrip /\ [Next]_vars => TaxRoundTrip'
  <2> SUFFICES ASSUME IInv, TaxRoundTrip, [Next]_vars PROVE TaxRoundTrip'
    OBVIOUS
  <2>1. TaxRoundTrip <=> \A i \in DOMAIN result : TripRight(result[i], basket, remaining)
    BY DEF TaxRoundTrip, TripRight, StackOf, Stack, Taxed, Lines
  <2>2. TaxRoundTrip' <=> \A i \in DOMAIN result' : TripRight(result'[i], basket', remaining')
    BY DEF TaxRoundTrip, TripRight, StackOf, Stack, Taxed, Lines
  <2>3. UNCHANGED <<basket, remaining>> =>
            basket' = basket /\ remaining' = remaining
    BY DEF Lines, ItemsTotal, Subtotal
  <2>4. ASSUME NEW in, in.inclusive \in BOOLEAN,
               result' = <<CartTotals(in)>>, UNCHANGED <<basket, remaining>>
        PROVE  TaxRoundTrip'
    <3> DEFINE t == CartTotals(in)
    <3>1. TripRight(t, basket, remaining)
      BY <2>4, TripOfCart
    <3>2. \A i \in DOMAIN result' : result'[i] = t
      BY <2>4
    <3> HIDE DEF t
    <3> QED
      BY <2>2, <2>3, <2>4, <3>1, <3>2
  <2>5. CASE result' = <<>>
    BY <2>2, <2>5
  <2>6. CASE UNCHANGED vars
    <3>1. UNCHANGED <<basket, remaining, result>>
      BY <2>6 DEF vars
    <3> QED
      BY <2>1, <2>2, <2>3, <3>1
  <2> QED
    BY <2>4, <2>5, <2>6, ResultOfStep
<1> QED
  BY <1>1, <1>2, Invariance, PTL DEF Spec
=============================================================================
