------------------------------- MODULE Sums --------------------------------
(***************************************************************************)
(* Sums over a finite set.  SumFunctionOnSet folds over the set in an      *)
(* order of its own; what follows shows that the order does not matter, so *)
(* that a sum changes with the set and with its values as one expects.     *)
(* Induction is on a set of numbers or of sets, which the provers can take *)
(* as a constant.                                                          *)
(***************************************************************************)
EXTENDS Integers, FiniteSets, FiniteSetsExt, Functions, FiniteSetTheorems,
        NaturalsInduction, WellFoundedInduction, TLAPS

LEMMA NatInductionOn ==
    ASSUME NEW N, N \subseteq Nat, 0 \in N, \A n \in N : n + 1 \in N
    PROVE  N = Nat
<1> SUFFICES ASSUME Nat \ N # {} PROVE FALSE
  OBVIOUS
<1>1. PICK r \in Nat \ N : \A s \in Nat \ N : ~(<<s, r>> \in OpToRel(<, Nat))
  BY WFMin, NatLessThanWellFounded, Zenon
<1>2. \A r1, s \in Nat : <<s, r1>> \in OpToRel(<, Nat) <=> s < r1
  BY DEF OpToRel
<1>3. r # 0 /\ r - 1 \in Nat /\ r - 1 < r
  OBVIOUS
<1>4. r - 1 \in N
  BY <1>1, <1>2, <1>3
<1>5. (r - 1) + 1 = r
  OBVIOUS
<1>6. QED
  BY <1>4, <1>5

\* What the fold computes on every subset of S.
Pick(s) == CHOOSE x \in s : TRUE
SumStep(f, g, s) == IF s = {} THEN 0 ELSE f[Pick(s)] + g[s \ {Pick(s)}]
IsSum(f, S, g) == g = [s \in SUBSET S |-> SumStep(f, g, s)]

LEMMA SumIs ==
    ASSUME NEW f, NEW S
    PROVE  SumFunctionOnSet(f, S) = (CHOOSE g : IsSum(f, S, g))[S]
  BY DEF SumFunctionOnSet, FoldFunctionOnSet, MapThenFoldSet, IsSum, SumStep, Pick

\* A fold on the sets of D, and one that gives the sums of all subsets of S.
Folds(f, D, g) == g \in [D -> Int] /\ \A s \in D : g[s] = SumStep(f, g, s)
Sums(f, S, g) ==
    /\ g \in [SUBSET S -> Int] /\ IsSum(f, S, g)
    /\ \A s \in SUBSET S : SumFunctionOnSet(f, s) = g[s]

LEMMA PickIn == \A s : s # {} => Pick(s) \in s
  BY DEF Pick

LEMMA SmallerSubset ==
    ASSUME NEW S, IsFiniteSet(S), NEW s \in SUBSET S
    PROVE  /\ IsFiniteSet(s) /\ Cardinality(s) \in Nat
           /\ Cardinality(s) = 0 <=> s = {}
           /\ \A x \in s : s \ {x} \in SUBSET S /\ Cardinality(s \ {x}) = Cardinality(s) - 1
<1>1. IsFiniteSet(s)
  BY FS_Subset
<1>2. QED
  BY <1>1, FS_CardinalityType, FS_EmptySet, FS_RemoveElement

\* The fold is defined: it has a value on the sets of each size.
LEMMA SumExists ==
    ASSUME NEW S, IsFiniteSet(S), NEW f, \A x \in S : f[x] \in Int
    PROVE  \E g : Folds(f, SUBSET S, g) /\ IsSum(f, S, g)
<1> DEFINE Upto(n) == {s \in SUBSET S : Cardinality(s) <= n}
           Good == {n \in Nat : \E g : Folds(f, Upto(n), g)}
<1>1. 0 \in Good
  <2>1. \A s \in Upto(0) : s = {}
    BY SmallerSubset
  <2>2. \A s \in Upto(0) : [t \in Upto(0) |-> 0][s] = SumStep(f, [t \in Upto(0) |-> 0], s)
    BY <2>1 DEF SumStep
  <2>3. [t \in Upto(0) |-> 0] \in [Upto(0) -> Int]
    OBVIOUS
  <2>4. QED
    BY <2>2, <2>3 DEF Folds
<1>2. ASSUME NEW n \in Good PROVE n + 1 \in Good
  <2>1. PICK g : g \in [Upto(n) -> Int] /\ \A s \in Upto(n) : g[s] = SumStep(f, g, s)
    BY DEF Folds
  <2> DEFINE h == [s \in Upto(n + 1) |-> SumStep(f, g, s)]
  <2>2. \A s \in Upto(n + 1) : s # {} => Pick(s) \in S /\ s \ {Pick(s)} \in Upto(n)
    <3> TAKE s \in Upto(n + 1)
    <3>1. SUFFICES ASSUME s # {} PROVE Pick(s) \in s /\ s \ {Pick(s)} \in Upto(n)
      OBVIOUS
    <3>2. Pick(s) \in s
      BY <3>1, PickIn
    <3>3. Cardinality(s \ {Pick(s)}) = Cardinality(s) - 1 /\ Cardinality(s) \in Nat
      BY <3>2, SmallerSubset
    <3>4. QED
      BY <3>2, <3>3
  <2>3. \A s \in Upto(n + 1) : SumStep(f, g, s) \in Int
    BY <2>1, <2>2 DEF SumStep
  <2>4. Upto(n) \subseteq Upto(n + 1)
    BY SmallerSubset
  <2>5. \A s \in Upto(n) : h[s] = g[s]
    BY <2>1, <2>4
  <2>6. ASSUME NEW s \in Upto(n + 1) PROVE h[s] = SumStep(f, h, s)
    <3>1. h[s] = SumStep(f, g, s)
      OBVIOUS
    <3>2. s # {} => g[s \ {Pick(s)}] = h[s \ {Pick(s)}]
      BY <2>2, <2>5
    <3>3. SumStep(f, g, s) = SumStep(f, h, s)
      BY <3>2 DEF SumStep
    <3>4. QED
      BY <3>1, <3>3
  <2>7. h \in [Upto(n + 1) -> Int]
    BY <2>3
  <2> HIDE DEF h
  <2>8. Folds(f, Upto(n + 1), h)
    BY <2>6, <2>7 DEF Folds
  <2>9. n + 1 \in Nat
    OBVIOUS
  <2> HIDE DEF Upto
  <2>10. QED
    BY <2>8, <2>9
<1>3. Good = Nat
  <2> HIDE DEF Good
  <2>1. Good \subseteq Nat
    BY DEF Good
  <2>2. QED
    BY <1>1, <1>2, <2>1, NatInductionOn
<1>4. Cardinality(S) \in Good
  BY <1>3, FS_CardinalityType
<1>5. Upto(Cardinality(S)) = SUBSET S
  BY FS_Subset
<1>6. PICK g : Folds(f, SUBSET S, g)
  BY <1>4, <1>5
<1>7. QED
  BY <1>6 DEF IsSum, Folds

\* Two folds agree where both are defined.
LEMMA SumsAgree ==
    ASSUME NEW S, IsFiniteSet(S), NEW f, NEW f2, \A x \in S : f[x] = f2[x],
           NEW g, IsSum(f, S, g), NEW T, S \subseteq T, NEW h, IsSum(f2, T, h)
    PROVE  \A s \in SUBSET S : g[s] = h[s]
<1> DEFINE Good == {n \in Nat : \A s \in SUBSET S : Cardinality(s) = n => g[s] = h[s]}
<1>1. \A s \in SUBSET S : g[s] = SumStep(f, g, s) /\ h[s] = SumStep(f2, h, s)
  BY DEF IsSum
<1>2. 0 \in Good
  BY <1>1, SmallerSubset DEF SumStep
<1>3. ASSUME NEW n \in Good PROVE n + 1 \in Good
  <2> SUFFICES ASSUME NEW s \in SUBSET S, Cardinality(s) = n + 1 PROVE g[s] = h[s]
    OBVIOUS
  <2>1. s # {}
    BY SmallerSubset
  <2>2. Pick(s) \in s
    BY <2>1, PickIn
  <2>3. g[s \ {Pick(s)}] = h[s \ {Pick(s)}]
    BY <2>2, SmallerSubset
  <2>4. QED
    BY <1>1, <2>1, <2>2, <2>3 DEF SumStep
<1>4. Good = Nat
  <2> HIDE DEF Good
  <2>1. Good \subseteq Nat
    BY DEF Good
  <2>2. QED
    BY <1>2, <1>3, <2>1, NatInductionOn
<1>5. QED
  BY <1>4, SmallerSubset

\* The fold of a set gives the sums of its subsets.
LEMMA SumOfSubset ==
    ASSUME NEW S, IsFiniteSet(S), NEW f, \A x \in S : f[x] \in Int
    PROVE  \E g : Sums(f, S, g)
<1>1. PICK g : g \in [SUBSET S -> Int] /\ IsSum(f, S, g)
  BY SumExists DEF Folds
<1>2. ASSUME NEW s \in SUBSET S PROVE SumFunctionOnSet(f, s) = g[s]
  <2>1. IsFiniteSet(s)
    BY FS_Subset
  <2>2. \E h : IsSum(f, s, h)
    BY <2>1, SumExists
  <2>3. IsSum(f, s, CHOOSE h : IsSum(f, s, h))
    BY <2>2
  <2> DEFINE h == CHOOSE k : IsSum(f, s, k)
  <2>4. IsSum(f, s, h) /\ SumFunctionOnSet(f, s) = h[s]
    BY <2>3, SumIs
  <2> HIDE DEF h
  <2>5. h[s] = g[s]
    BY <1>1, <2>1, <2>4, SumsAgree
  <2>6. QED
    BY <2>4, <2>5
<1>3. QED
  BY <1>1, <1>2 DEF Sums

LEMMA SumType ==
    ASSUME NEW S, IsFiniteSet(S), NEW f, \A x \in S : f[x] \in Int
    PROVE  SumFunctionOnSet(f, S) \in Int
<1>1. PICK g : Sums(f, S, g)
  BY SumOfSubset
<1>2. S \in SUBSET S
  OBVIOUS
<1>3. QED
  BY <1>1, <1>2 DEF Sums

LEMMA SumEmpty == ASSUME NEW f PROVE SumFunctionOnSet(f, {}) = 0
<1>1. IsFiniteSet({})
  BY FS_EmptySet
<1> DEFINE E == {}
<1>2. \A x \in E : f[x] \in Int
  OBVIOUS
<1> HIDE DEF E
<1>3. PICK g : Sums(f, E, g)
  <2>1. IsFiniteSet(E)
    BY <1>1 DEF E
  <2>2. QED
    BY <1>2, <2>1, SumOfSubset
<1>4. {} \in SUBSET E
  OBVIOUS
<1>5. g[{}] = SumStep(f, g, {})
  BY <1>3, <1>4 DEF Sums, IsSum
<1>6. QED
  BY <1>3, <1>4, <1>5 DEF Sums, SumStep

\* Any element may be taken first.
LEMMA SumAdd ==
    ASSUME NEW S, IsFiniteSet(S), NEW f, \A x \in S : f[x] \in Int, NEW m \in S
    PROVE  SumFunctionOnSet(f, S) = f[m] + SumFunctionOnSet(f, S \ {m})
<1>1. PICK g : Sums(f, S, g)
  BY SumOfSubset
<1>0. g \in [SUBSET S -> Int]
  BY <1>1 DEF Sums
<1> DEFINE Good == {n \in Nat : \A s \in SUBSET S : Cardinality(s) = n =>
                                   \A x \in s : g[s] = f[x] + g[s \ {x}]}
<1>2. 0 \in Good
  <2>1. \A s \in SUBSET S : Cardinality(s) = 0 => s = {}
    BY SmallerSubset
  <2>2. QED
    BY <2>1
<1>3. ASSUME NEW n \in Good PROVE n + 1 \in Good
  <2> SUFFICES ASSUME NEW s \in SUBSET S, Cardinality(s) = n + 1, NEW x \in s
               PROVE  g[s] = f[x] + g[s \ {x}]
    OBVIOUS
  <2> DEFINE c == Pick(s)
  <2>1. c \in s
    BY PickIn
  <2>2. g[s] = f[c] + g[s \ {c}]
    <3>1. g[s] = SumStep(f, g, s) /\ s # {}
      BY <1>1 DEF Sums, IsSum
    <3>2. QED
      BY <3>1 DEF SumStep
  <2>3. CASE x = c
    BY <2>2, <2>3
  <2>4. CASE x # c
    <3>1. s \ {c} \in SUBSET S /\ Cardinality(s \ {c}) = n /\ x \in s \ {c}
      BY <2>1, <2>4, SmallerSubset
    <3>2. s \ {x} \in SUBSET S /\ Cardinality(s \ {x}) = n /\ c \in s \ {x}
      BY <2>1, <2>4, SmallerSubset
    <3> HIDE DEF c
    <3>3. g[s \ {c}] = f[x] + g[(s \ {c}) \ {x}]
      BY <3>1
    <3>4. g[s \ {x}] = f[c] + g[(s \ {x}) \ {c}]
      BY <3>2
    <3>5. (s \ {c}) \ {x} = (s \ {x}) \ {c}
      OBVIOUS
    <3>6. f[x] \in Int /\ f[c] \in Int /\ g[(s \ {x}) \ {c}] \in Int
      BY <1>0, <2>1
    <3>7. g[s \ {c}] = f[x] + g[(s \ {x}) \ {c}]
      BY <3>3, <3>5
    <3>8. QED
      BY <2>2, <3>4, <3>6, <3>7
  <2>5. QED
    BY <2>3, <2>4
<1>4. Good = Nat
  <2> HIDE DEF Good
  <2>1. Good \subseteq Nat
    BY DEF Good
  <2>2. QED
    BY <1>2, <1>3, <2>1, NatInductionOn
<1>5. g[S] = f[m] + g[S \ {m}]
  BY <1>4, FS_CardinalityType
<1>6. QED
  BY <1>1, <1>5 DEF Sums


\* Induction on the subsets of a finite set, for a set of them.
LEMMA SetInductionOn ==
    ASSUME NEW S, IsFiniteSet(S), NEW Good, {} \in Good,
           \A s \in SUBSET S : \A x \in s : s \ {x} \in Good => s \in Good
    PROVE  S \in Good
<1> DEFINE N == {n \in Nat : \A s \in SUBSET S : Cardinality(s) = n => s \in Good}
<1>1. 0 \in N
  BY SmallerSubset
<1>2. ASSUME NEW n \in N PROVE n + 1 \in N
  <2> SUFFICES ASSUME NEW s \in SUBSET S, Cardinality(s) = n + 1 PROVE s \in Good
    OBVIOUS
  <2>1. PICK x \in s : TRUE
    BY SmallerSubset
  <2>2. s \ {x} \in SUBSET S /\ Cardinality(s \ {x}) = n
    BY SmallerSubset
  <2>3. QED
    BY <2>2
<1>3. N = Nat
  <2> HIDE DEF N
  <2>1. N \subseteq Nat
    BY DEF N
  <2>2. QED
    BY <1>1, <1>2, <2>1, NatInductionOn
<1>4. QED
  BY <1>3, FS_CardinalityType

\* The sum depends on the values on the set only, and is linear.
LEMMA SumSame ==
    ASSUME NEW S, IsFiniteSet(S), NEW f, NEW g, \A x \in S : f[x] \in Int /\ g[x] = f[x]
    PROVE  SumFunctionOnSet(g, S) = SumFunctionOnSet(f, S)
<1>1. PICK F : Sums(f, S, F)
  BY SumOfSubset
<1>2. PICK G : Sums(g, S, G)
  BY SumOfSubset
<1>3. \A s \in SUBSET S : F[s] = G[s]
  BY <1>1, <1>2, SumsAgree DEF Sums
<1>4. QED
  BY <1>1, <1>2, <1>3 DEF Sums

LEMMA SumMinus ==
    ASSUME NEW S, IsFiniteSet(S), NEW f, NEW g, NEW h,
           \A x \in S : f[x] \in Int /\ g[x] \in Int /\ h[x] = f[x] - g[x]
    PROVE  SumFunctionOnSet(h, S) = SumFunctionOnSet(f, S) - SumFunctionOnSet(g, S)
<1> DEFINE F(s) == SumFunctionOnSet(f, s)
           G(s) == SumFunctionOnSet(g, s)
           H(s) == SumFunctionOnSet(h, s)
           Good == {s \in SUBSET S : H(s) = F(s) - G(s)}
<1>1. {} \in Good
  BY SumEmpty
<1>2. ASSUME NEW s \in SUBSET S, NEW x \in s, s \ {x} \in Good PROVE s \in Good
  <2>1. IsFiniteSet(s) /\ IsFiniteSet(s \ {x})
    BY FS_Subset
  <2>2. f[x] \in Int /\ g[x] \in Int /\ h[x] = f[x] - g[x]
    OBVIOUS
  <2>3. F(s) = f[x] + F(s \ {x}) /\ G(s) = g[x] + G(s \ {x}) /\ H(s) = h[x] + H(s \ {x})
    BY <2>1, SumAdd
  <2>4. F(s \ {x}) \in Int /\ G(s \ {x}) \in Int
    BY <2>1, SumType
  <2>5. H(s \ {x}) = F(s \ {x}) - G(s \ {x})
    BY <1>2
  <2> HIDE DEF F, G, H
  <2>6. QED
    BY <2>2, <2>3, <2>4, <2>5
<1> HIDE DEF Good
<1>3. S \in Good
  BY <1>1, <1>2, SetInductionOn
<1>4. QED
  BY <1>3 DEF Good

\* A part of the set is the whole set with nothing elsewhere.
LEMMA SumPart ==
    ASSUME NEW S, IsFiniteSet(S), NEW T \in SUBSET S, NEW f, \A x \in S : f[x] \in Int
    PROVE  SumFunctionOnSet([x \in S |-> IF x \in T THEN f[x] ELSE 0], S) = SumFunctionOnSet(f, T)
<1> DEFINE h == [x \in S |-> IF x \in T THEN f[x] ELSE 0]
           Good == {s \in SUBSET S : SumFunctionOnSet(h, s) = SumFunctionOnSet(f, s \cap T)}
<1>1. {} \in Good
  <2>1. {} \cap T = {}
    OBVIOUS
  <2>2. QED
    BY <2>1, SumEmpty
<1>2. ASSUME NEW s \in SUBSET S, NEW x \in s, s \ {x} \in Good PROVE s \in Good
  <2>1. IsFiniteSet(s) /\ IsFiniteSet(s \ {x}) /\ IsFiniteSet(s \cap T) /\ IsFiniteSet((s \ {x}) \cap T)
    BY FS_Subset
  <2>2. \A y \in S : h[y] \in Int
    OBVIOUS
  <2>3. SumFunctionOnSet(h, s) = h[x] + SumFunctionOnSet(h, s \ {x})
    BY <2>1, <2>2, SumAdd
  <2>4. SumFunctionOnSet(h, s \ {x}) = SumFunctionOnSet(f, (s \ {x}) \cap T)
    BY <1>2
  <2>5. CASE x \in T
    <3>1. (s \cap T) \ {x} = (s \ {x}) \cap T /\ x \in s \cap T
      BY <2>5
    <3>2. SumFunctionOnSet(f, s \cap T) = f[x] + SumFunctionOnSet(f, (s \cap T) \ {x})
      BY <2>1, <3>1, SumAdd
    <3>3. h[x] = f[x]
      BY <2>5
    <3> HIDE DEF h
    <3>4. SumFunctionOnSet(f, (s \cap T) \ {x}) = SumFunctionOnSet(f, (s \ {x}) \cap T)
      BY <3>1
    <3>5. SumFunctionOnSet(h, s) = SumFunctionOnSet(f, s \cap T)
      BY <2>3, <2>4, <3>2, <3>3, <3>4
    <3>6. QED
      BY <3>5
  <2>6. CASE x \notin T
    <3>1. s \cap T = (s \ {x}) \cap T
      BY <2>6
    <3>2. h[x] = 0
      BY <2>6
    <3>3. SumFunctionOnSet(f, (s \ {x}) \cap T) \in Int
      BY <2>1, SumType
    <3> HIDE DEF h
    <3>4. SumFunctionOnSet(f, (s \ {x}) \cap T) = SumFunctionOnSet(f, s \cap T)
      BY <3>1
    <3>5. SumFunctionOnSet(h, s) = SumFunctionOnSet(f, s \cap T)
      BY <2>3, <2>4, <3>2, <3>3, <3>4
    <3>6. QED
      BY <3>5
  <2>7. QED
    BY <2>5, <2>6
<1> HIDE DEF Good
<1>3. S \in Good
  BY <1>1, <1>2, SetInductionOn
<1>4. S \cap T = T
  OBVIOUS
<1>5. QED
  BY <1>3, <1>4 DEF Good

\* A sum of natural numbers is one, and no more than a larger sum.
LEMMA SumNat ==
    ASSUME NEW S, IsFiniteSet(S), NEW f, \A x \in S : f[x] \in Nat
    PROVE  SumFunctionOnSet(f, S) \in Nat
<1> DEFINE Good == {s \in SUBSET S : SumFunctionOnSet(f, s) \in Nat}
<1>1. {} \in Good
  BY SumEmpty
<1>2. ASSUME NEW s \in SUBSET S, NEW x \in s, s \ {x} \in Good PROVE s \in Good
  <2>1. IsFiniteSet(s)
    BY FS_Subset
  <2>2. SumFunctionOnSet(f, s) = f[x] + SumFunctionOnSet(f, s \ {x})
    BY <2>1, SumAdd
  <2>3. QED
    BY <1>2, <2>2
<1> HIDE DEF Good
<1>3. S \in Good
  BY <1>1, <1>2, SetInductionOn
<1>4. QED
  BY <1>3 DEF Good


LEMMA SumLess ==
    ASSUME NEW S, IsFiniteSet(S), NEW f, NEW g,
           \A x \in S : f[x] \in Nat /\ g[x] \in Nat /\ g[x] <= f[x]
    PROVE  SumFunctionOnSet(g, S) <= SumFunctionOnSet(f, S)
<1> DEFINE h == [x \in S |-> f[x] - g[x]]
<1>1. \A x \in S : f[x] \in Int /\ g[x] \in Int /\ h[x] = f[x] - g[x] /\ h[x] \in Nat
  OBVIOUS
<1> HIDE DEF h
<1>2. SumFunctionOnSet(h, S) = SumFunctionOnSet(f, S) - SumFunctionOnSet(g, S)
  BY <1>1, SumMinus
<1>3. SumFunctionOnSet(h, S) \in Nat
  BY <1>1, SumNat
<1>4. SumFunctionOnSet(f, S) \in Int /\ SumFunctionOnSet(g, S) \in Int
  BY <1>1, SumType
<1>5. QED
  BY <1>2, <1>3, <1>4

LEMMA SumPlus ==
    ASSUME NEW S, IsFiniteSet(S), NEW f, NEW g, NEW h,
           \A x \in S : f[x] \in Int /\ g[x] \in Int /\ h[x] = f[x] + g[x]
    PROVE  SumFunctionOnSet(h, S) = SumFunctionOnSet(f, S) + SumFunctionOnSet(g, S)
<1>1. \A x \in S : h[x] \in Int /\ g[x] \in Int /\ f[x] = h[x] - g[x]
  OBVIOUS
<1>2. SumFunctionOnSet(f, S) = SumFunctionOnSet(h, S) - SumFunctionOnSet(g, S)
  BY <1>1, SumMinus
<1>3. SumFunctionOnSet(h, S) \in Int /\ SumFunctionOnSet(g, S) \in Int
  BY <1>1, SumType
<1>4. QED
  BY <1>2, <1>3

\* One value changes.
LEMMA SumOne ==
    ASSUME NEW S, IsFiniteSet(S), NEW m \in S, NEW f, NEW g,
           \A x \in S : f[x] \in Int /\ g[x] \in Int /\ (x # m => g[x] = f[x])
    PROVE  SumFunctionOnSet(g, S) = (SumFunctionOnSet(f, S) - f[m]) + g[m]
<1> DEFINE T == S \ {m}
<1>1. IsFiniteSet(T)
  BY FS_Subset
<1>2. SumFunctionOnSet(g, T) = SumFunctionOnSet(f, T) /\ SumFunctionOnSet(f, T) \in Int
  BY <1>1, SumSame, SumType
<1>3. SumFunctionOnSet(f, S) = f[m] + SumFunctionOnSet(f, T)
  BY SumAdd
<1>4. SumFunctionOnSet(g, S) = g[m] + SumFunctionOnSet(g, T)
  BY SumAdd
<1>5. f[m] \in Int /\ g[m] \in Int
  OBVIOUS
<1> HIDE DEF T
<1>6. QED
  BY <1>2, <1>3, <1>4, <1>5
============================================================================
