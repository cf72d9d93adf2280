-------------------------------- MODULE Sums --------------------------------
(***************************************************************************)
(* Lemmas about SumFunctionOnSet, with which the counters of requests are   *)
(* added up (Window.Count, NetworkData.updateStats, StatsWindows).          *)
(*                                                                         *)
(* The library defines the sum by a recursive function over the subsets of  *)
(* the set.  That such a function exists is shown here, by the size of the  *)
(* subsets; everything else follows by induction over them, in a form       *)
(* without operator parameters: a family of subsets that is closed under    *)
(* the induction step holds them all.                                      *)
(***************************************************************************)
EXTENDS Integers, Functions, FiniteSetTheorems, WellFoundedInduction, TLAPS

-----------------------------------------------------------------------------
(* Least numbers. *)

LEMMA Minimal ==
    ASSUME NEW R, NEW S, IsWellFoundedOn(R, S), NEW T, T \subseteq S, T # {}
    PROVE  \E n \in T : \A m \in T : ~ (<<m, n>> \in R)
  BY WFMin

LEMMA LeastByOrder ==
    ASSUME NEW R, NEW S, IsWellFoundedOn(R, S), NEW T, T \subseteq S, T # {}
    PROVE  (S \subseteq Int /\ \A x, y \in S : x < y => <<x, y>> \in R)
               => \E n \in T : \A m \in T : n <= m
<1>1. PICK n \in T : \A m \in T : ~ (<<m, n>> \in R)
  BY Minimal
<1>2. (\A x, y \in S : x < y => <<x, y>> \in R) => \A m \in T : ~ (m < n)
  BY <1>1
<1> QED
  BY <1>2

Less == OpToRel(<, Nat)

LEMMA LessThan == IsWellFoundedOn(Less, Nat) /\ \A x, y \in Nat : x < y => <<x, y>> \in Less
<1>1. \A x, y \in Nat : x < y => <<x, y>> \in Less
  BY DEF Less, OpToRel
<1>2. IsWellFoundedOn(Less, Nat)
  BY NatLessThanWellFounded, Zenon DEF Less
<1> QED
  BY <1>1, <1>2

\* A set of numbers that is not empty has a least one.
LEMMA Least ==
    ASSUME NEW T, T \subseteq Nat, T # {}
    PROVE  \E n \in T : \A m \in T : n <= m
<1>1. Nat \subseteq Int
  OBVIOUS
<1> QED
  BY <1>1, LessThan, LeastByOrder, Zenon

\* A set of numbers with an upper bound has a greatest one.
LEMMA Greatest ==
    ASSUME NEW T, T \subseteq Int, T # {}, NEW b \in Int, \A m \in T : m <= b
    PROVE  \E n \in T : \A m \in T : m <= n
<1> DEFINE D == {k \in Nat : b - k \in T}
<1>1. \A m \in T : b - m \in D
  BY SMT
<1>2. D # {} /\ D \subseteq Nat
  BY <1>1
<1> HIDE DEF D
<1>3. PICK k \in D : \A j \in D : k <= j
  BY <1>2, Least
<1>4. k \in Nat /\ b - k \in T
  BY <1>3 DEF D
<1>5. \A m \in T : m <= b - k
  BY <1>1, <1>3, <1>4
<1> QED
  BY <1>4, <1>5

\* Induction over the subsets of a finite set.
LEMMA SubsetInduction ==
    ASSUME NEW S, IsFiniteSet(S), NEW T, {} \in T,
           \A s \in SUBSET S : (s # {} /\ \A x \in s : s \ {x} \in T) => s \in T
    PROVE  \A s \in SUBSET S : s \in T
<1> SUFFICES ASSUME NEW c \in SUBSET S, c \notin T PROVE FALSE
  OBVIOUS
<1> DEFINE Sizes == {Cardinality(s) : s \in (SUBSET S) \ T}
<1>1. \A s \in SUBSET S : IsFiniteSet(s) /\ Cardinality(s) \in Nat
  BY FS_Subset, FS_CardinalityType
<1>2. Sizes \subseteq Nat /\ Sizes # {}
  BY <1>1
<1> HIDE DEF Sizes
<1>3. PICK n \in Sizes : \A m \in Sizes : n <= m
  BY <1>2, Least
<1>4. PICK s \in (SUBSET S) \ T : n = Cardinality(s)
  BY <1>3 DEF Sizes
<1>5. s # {}
  BY <1>4
<1>6. PICK x \in s : s \ {x} \notin T
  BY <1>4, <1>5
<1>7. Cardinality(s \ {x}) = n - 1 /\ n \in Nat
  BY <1>1, <1>4, <1>6, FS_RemoveElement
<1>8. Cardinality(s \ {x}) \in Sizes
  BY <1>4, <1>6 DEF Sizes
<1> QED
  BY <1>3, <1>7, <1>8

-----------------------------------------------------------------------------
(* The recursive function behind the sum. *)

Chosen(s) == CHOOSE x \in s : TRUE

Step(f, it, s) == IF s = {} THEN 0 ELSE f[Chosen(s)] + it[s \ {Chosen(s)}]

SumsOf(f, S) == CHOOSE it : it = [s \in SUBSET S |-> Step(f, it, s)]

LEMMA SumIsRecursive ==
    ASSUME NEW f, NEW S
    PROVE  SumFunctionOnSet(f, S) = SumsOf(f, S)[S]
<1> DEFINE It == CHOOSE it : it = [s \in SUBSET S |-> IF s = {} THEN 0
                    ELSE LET x == CHOOSE x \in s : TRUE IN f[x] + it[s \ {x}]]
<1>1. SumFunctionOnSet(f, S) = It[S]
  BY DEF SumFunctionOnSet, FoldFunctionOnSet, MapThenFoldSet
<1>2. It = SumsOf(f, S)
  BY DEF SumsOf, Step, Chosen
<1> QED
  BY <1>1, <1>2

UpTo(S, n) == {s \in SUBSET S : Cardinality(s) <= n}

\* g gives the sums of the subsets with at most n elements.
SumsUpTo(f, S, n, g) == g = [s \in UpTo(S, n) |-> Step(f, g, s)]

LEMMA ChosenInside == ASSUME NEW s, s # {} PROVE Chosen(s) \in s
  BY DEF Chosen

LEMMA OneMore ==
    ASSUME NEW f, NEW S, IsFiniteSet(S), NEW n \in Nat, NEW g, SumsUpTo(f, S, n, g)
    PROVE  \E h : SumsUpTo(f, S, n + 1, h)
<1> DEFINE h == [s \in UpTo(S, n + 1) |-> Step(f, g, s)]
<1>1. \A s \in SUBSET S : IsFiniteSet(s) /\ Cardinality(s) \in Nat
  BY FS_Subset, FS_CardinalityType
<1>2. ASSUME NEW s \in UpTo(S, n + 1), s # {} PROVE s \ {Chosen(s)} \in UpTo(S, n)
  <2>1. Chosen(s) \in s
    BY <1>2, ChosenInside
  <2>2. Cardinality(s \ {Chosen(s)}) = Cardinality(s) - 1
    BY <1>1, <2>1, FS_RemoveElement DEF UpTo
  <2> QED
    BY <1>1, <2>2 DEF UpTo
<1>3. ASSUME NEW t \in UpTo(S, n) PROVE h[t] = g[t]
  <2>1. t \in UpTo(S, n + 1)
    BY <1>1, <1>3 DEF UpTo
  <2>2. g[t] = Step(f, g, t)
    BY <1>3 DEF SumsUpTo
  <2> QED
    BY <2>1, <2>2
<1>4. \A s \in UpTo(S, n + 1) : Step(f, h, s) = Step(f, g, s)
  <2> HIDE DEF h
  <2>1. \A s \in UpTo(S, n + 1) : s # {} => h[s \ {Chosen(s)}] = g[s \ {Chosen(s)}]
    BY <1>2, <1>3
  <2> QED
    BY <2>1 DEF Step
<1>5. h = [s \in UpTo(S, n + 1) |-> Step(f, h, s)]
  BY <1>4
<1> QED
  BY <1>5 DEF SumsUpTo

LEMMA SumsExist ==
    ASSUME NEW f, NEW S, IsFiniteSet(S), NEW n \in Nat
    PROVE  \E g : SumsUpTo(f, S, n, g)
<1> DEFINE T == {m \in Nat : ~\E g : SumsUpTo(f, S, m, g)}
<1> SUFFICES ASSUME T # {} PROVE FALSE
  OBVIOUS
<1>1. T \subseteq Nat
  OBVIOUS
<1>2. 0 \notin T
  <2>1. \A s \in UpTo(S, 0) : s = {}
    <3> SUFFICES ASSUME NEW s \in UpTo(S, 0) PROVE s = {}
      OBVIOUS
    <3>1. IsFiniteSet(s) /\ Cardinality(s) \in Nat /\ Cardinality(s) <= 0
      BY FS_Subset, FS_CardinalityType DEF UpTo
    <3> QED
      BY <3>1, FS_EmptySet
  <2>2. SumsUpTo(f, S, 0, [s \in UpTo(S, 0) |-> 0])
    BY <2>1 DEF SumsUpTo, Step
  <2> QED
    BY <2>2
<1> HIDE DEF T
<1>3. PICK m \in T : \A k \in T : m <= k
  BY <1>1, Least
<1>4. m - 1 \in Nat /\ m - 1 \notin T
  BY <1>1, <1>2, <1>3
<1>5. \E g : SumsUpTo(f, S, m - 1 + 1, g)
  BY <1>4, OneMore DEF T
<1>6. m - 1 + 1 = m
  BY <1>1
<1> QED
  BY <1>3, <1>5, <1>6 DEF T

LEMMA SumsOfStep ==
    ASSUME NEW f, NEW S, IsFiniteSet(S), NEW s \in SUBSET S
    PROVE  SumsOf(f, S)[s] = Step(f, SumsOf(f, S), s)
<1>1. Cardinality(S) \in Nat
  BY FS_CardinalityType
<1>2. UpTo(S, Cardinality(S)) = SUBSET S
  BY FS_Subset DEF UpTo
<1>3. PICK g : g = [t \in SUBSET S |-> Step(f, g, t)]
  <2>1. PICK g : SumsUpTo(f, S, Cardinality(S), g)
    BY <1>1, SumsExist
  <2>2. g = [t \in SUBSET S |-> Step(f, g, t)]
    BY <1>2, <2>1, Zenon DEF SumsUpTo
  <2> QED
    BY <2>2
<1>4. SumsOf(f, S) = [t \in SUBSET S |-> Step(f, SumsOf(f, S), t)]
  BY <1>3 DEF SumsOf
<1> QED
  BY <1>4

\* The sums of a set's subsets do not depend on the set.
LEMMA SumsAgree ==
    ASSUME NEW f, NEW S, IsFiniteSet(S), NEW A \in SUBSET S
    PROVE  \A s \in SUBSET A : SumsOf(f, A)[s] = SumsOf(f, S)[s]
<1> DEFINE T == {s \in SUBSET A : SumsOf(f, A)[s] = SumsOf(f, S)[s]}
<1>1. IsFiniteSet(A)
  BY FS_Subset
<1>2. ASSUME NEW s \in SUBSET A PROVE SumsOf(f, A)[s] = Step(f, SumsOf(f, A), s)
                                    /\ SumsOf(f, S)[s] = Step(f, SumsOf(f, S), s)
  BY <1>1, SumsOfStep
<1>3. {} \in T
  BY <1>2 DEF Step
<1>4. ASSUME NEW s \in SUBSET A, s # {}, \A x \in s : s \ {x} \in T PROVE s \in T
  <2>1. s \ {Chosen(s)} \in T
    BY <1>4, ChosenInside
  <2> QED
    BY <1>2, <1>4, <2>1 DEF Step
<1> HIDE DEF T
<1>5. \A s \in SUBSET A : s \in T
  BY <1>1, <1>3, <1>4, SubsetInduction
<1> QED
  BY <1>5 DEF T

-----------------------------------------------------------------------------
(* The sum. *)

LEMMA SumEmpty == ASSUME NEW f PROVE SumFunctionOnSet(f, {}) = 0
<1>1. IsFiniteSet({})
  BY FS_EmptySet
<1> QED
  BY <1>1, SumIsRecursive, SumsOfStep DEF Step

LEMMA SumChosen ==
    ASSUME NEW f, NEW S, IsFiniteSet(S), S # {}
    PROVE  SumFunctionOnSet(f, S) = f[Chosen(S)] + SumFunctionOnSet(f, S \ {Chosen(S)})
<1> DEFINE R == S \ {Chosen(S)}
<1>1. SumsOf(f, S)[S] = f[Chosen(S)] + SumsOf(f, S)[R]
  BY SumsOfStep DEF Step
<1>2. SumsOf(f, R)[R] = SumsOf(f, S)[R]
  BY SumsAgree
<1> QED
  BY <1>1, <1>2, SumIsRecursive

LEMMA SumTyped ==
    ASSUME NEW f, NEW S, IsFiniteSet(S), \A x \in S : f[x] \in Int
    PROVE  SumFunctionOnSet(f, S) \in Int
<1> DEFINE T == {s \in SUBSET S : SumFunctionOnSet(f, s) \in Int}
<1>1. {} \in T
  BY SumEmpty
<1>2. ASSUME NEW s \in SUBSET S, s # {}, \A x \in s : s \ {x} \in T PROVE s \in T
  <2>1. Chosen(s) \in s /\ IsFiniteSet(s)
    BY <1>2, ChosenInside, FS_Subset
  <2>2. SumFunctionOnSet(f, s \ {Chosen(s)}) \in Int /\ f[Chosen(s)] \in Int
    BY <1>2, <2>1
  <2>3. SumFunctionOnSet(f, s) = f[Chosen(s)] + SumFunctionOnSet(f, s \ {Chosen(s)})
    BY <1>2, <2>1, SumChosen
  <2> QED
    BY <2>2, <2>3
<1> HIDE DEF T
<1>3. \A s \in SUBSET S : s \in T
  BY <1>1, <1>2, SubsetInduction
<1> QED
  BY <1>3 DEF T

\* The sum does not depend on the order.
LEMMA SumRemove ==
    ASSUME NEW f, NEW S, IsFiniteSet(S), \A x \in S : f[x] \in Int, NEW y \in S
    PROVE  SumFunctionOnSet(f, S) = f[y] + SumFunctionOnSet(f, S \ {y})
<1> DEFINE Sum(s) == SumFunctionOnSet(f, s)
           T == {s \in SUBSET S : \A x \in s : Sum(s) = f[x] + Sum(s \ {x})}
<1>1. {} \in T
  OBVIOUS
<1>2. ASSUME NEW s \in SUBSET S, s # {}, \A x \in s : s \ {x} \in T PROVE s \in T
  <2> DEFINE p == Chosen(s)
  <2>1. p \in s /\ IsFiniteSet(s) /\ \A t \in SUBSET s : Sum(t) \in Int
    BY <1>2, ChosenInside, FS_Subset, SumTyped
  <2>2. Sum(s) = f[p] + Sum(s \ {p})
    BY <1>2, <2>1, SumChosen
  <2> HIDE DEF p, Sum
  <2>3. ASSUME NEW x \in s, x # p PROVE Sum(s) = f[x] + Sum(s \ {x})
    <3>1. Sum(s \ {p}) = f[x] + Sum((s \ {p}) \ {x})
      BY <1>2, <2>1, <2>3
    <3>2. Sum(s \ {x}) = f[p] + Sum((s \ {x}) \ {p})
      BY <1>2, <2>1, <2>3
    <3>3. (s \ {p}) \ {x} = (s \ {x}) \ {p}
      OBVIOUS
    <3>4. f[x] \in Int /\ f[p] \in Int /\ Sum((s \ {p}) \ {x}) \in Int
      BY <2>1
    <3> DEFINE rest == Sum((s \ {p}) \ {x})
    <3>5. Sum(s) = f[p] + (f[x] + rest) /\ Sum(s \ {x}) = f[p] + rest
      BY <2>2, <3>1, <3>2, <3>3
    <3> HIDE DEF rest
    <3> QED
      BY <3>4, <3>5 DEF rest
  <2> QED
    BY <2>2, <2>3
<1> HIDE DEF T
<1>3. \A s \in SUBSET S : s \in T
  BY <1>1, <1>2, SubsetInduction
<1> QED
  BY <1>3 DEF T

LEMMA SumSplit ==
    ASSUME NEW f, NEW S, IsFiniteSet(S), \A x \in S : f[x] \in Int, NEW G \in SUBSET S
    PROVE  SumFunctionOnSet(f, S) = SumFunctionOnSet(f, G) + SumFunctionOnSet(f, S \ G)
<1> DEFINE Sum(s) == SumFunctionOnSet(f, s)
           T == {s \in SUBSET S : Sum(S) = Sum(s) + Sum(S \ s)}
<1>0. \A s \in SUBSET S : Sum(s) \in Int /\ IsFiniteSet(s)
  BY FS_Subset, SumTyped
<1>1. {} \in T
  BY <1>0, SumEmpty
<1>2. ASSUME NEW s \in SUBSET S, s # {}, \A x \in s : s \ {x} \in T PROVE s \in T
  <2>1. PICK x \in s : TRUE
    BY <1>2
  <2>2. Sum(s) = f[x] + Sum(s \ {x})
    BY <1>0, <2>1, SumRemove
  <2>3. Sum(S \ (s \ {x})) = f[x] + Sum(S \ s)
    <3>1. (S \ (s \ {x})) \ {x} = S \ s /\ x \in S \ (s \ {x})
      BY <2>1
    <3> QED
      BY <1>0, <3>1, SumRemove
  <2>4. Sum(S) = Sum(s \ {x}) + Sum(S \ (s \ {x}))
    BY <1>2, <2>1
  <2>5. f[x] \in Int /\ Sum(s \ {x}) \in Int /\ Sum(S \ s) \in Int
    BY <1>0, <2>1
  <2> HIDE DEF Sum
  <2> QED
    BY <2>2, <2>3, <2>4, <2>5
<1> HIDE DEF T
<1>3. \A s \in SUBSET S : s \in T
  BY <1>1, <1>2, SubsetInduction
<1> QED
  BY <1>3 DEF T

LEMMA SumMonotone ==
    ASSUME NEW f, NEW g, NEW S, IsFiniteSet(S),
           \A x \in S : f[x] \in Int /\ g[x] \in Int /\ f[x] <= g[x]
    PROVE  SumFunctionOnSet(f, S) <= SumFunctionOnSet(g, S)
<1> DEFINE T == {s \in SUBSET S : SumFunctionOnSet(f, s) <= SumFunctionOnSet(g, s)}
<1>1. {} \in T
  BY SumEmpty
<1>2. ASSUME NEW s \in SUBSET S, s # {}, \A x \in s : s \ {x} \in T PROVE s \in T
  <2> DEFINE c == Chosen(s)
  <2>1. c \in s /\ \A t \in SUBSET s : IsFiniteSet(t)
    BY <1>2, ChosenInside, FS_Subset
  <2>2. SumFunctionOnSet(f, s) = f[c] + SumFunctionOnSet(f, s \ {c})
    BY <1>2, <2>1, SumRemove
  <2>3. SumFunctionOnSet(g, s) = g[c] + SumFunctionOnSet(g, s \ {c})
    BY <1>2, <2>1, SumRemove
  <2>4. SumFunctionOnSet(f, s \ {c}) \in Int /\ SumFunctionOnSet(g, s \ {c}) \in Int
    BY <2>1, SumTyped
  <2>5. SumFunctionOnSet(f, s \ {c}) <= SumFunctionOnSet(g, s \ {c})
    BY <1>2, <2>1
  <2>6. f[c] \in Int /\ g[c] \in Int /\ f[c] <= g[c]
    BY <2>1
  <2> HIDE DEF c
  <2> QED
    BY <2>2, <2>3, <2>4, <2>5, <2>6
<1> HIDE DEF T
<1>3. \A s \in SUBSET S : s \in T
  BY <1>1, <1>2, SubsetInduction
<1> QED
  BY <1>3 DEF T

LEMMA SumEqual ==
    ASSUME NEW f, NEW g, NEW S, IsFiniteSet(S), \A x \in S : f[x] \in Int /\ f[x] = g[x]
    PROVE  SumFunctionOnSet(f, S) = SumFunctionOnSet(g, S)
<1>1. SumFunctionOnSet(f, S) <= SumFunctionOnSet(g, S)
      /\ SumFunctionOnSet(g, S) <= SumFunctionOnSet(f, S)
  BY SumMonotone
<1> QED
  BY <1>1, SumTyped

LEMMA SumZero ==
    ASSUME NEW f, NEW S, IsFiniteSet(S), \A x \in S : f[x] = 0
    PROVE  SumFunctionOnSet(f, S) = 0
<1> DEFINE T == {s \in SUBSET S : SumFunctionOnSet(f, s) = 0}
<1>1. {} \in T
  BY SumEmpty
<1>2. ASSUME NEW s \in SUBSET S, s # {}, \A x \in s : s \ {x} \in T PROVE s \in T
  <2>1. Chosen(s) \in s /\ IsFiniteSet(s)
    BY <1>2, ChosenInside, FS_Subset
  <2>2. f[Chosen(s)] = 0 /\ SumFunctionOnSet(f, s \ {Chosen(s)}) = 0
    BY <1>2, <2>1
  <2>3. SumFunctionOnSet(f, s) = f[Chosen(s)] + SumFunctionOnSet(f, s \ {Chosen(s)})
    BY <1>2, <2>1, SumChosen
  <2> QED
    BY <2>2, <2>3
<1> HIDE DEF T
<1>3. \A s \in SUBSET S : s \in T
  BY <1>1, <1>2, SubsetInduction
<1> QED
  BY <1>3 DEF T

LEMMA SumNotNegative ==
    ASSUME NEW f, NEW S, IsFiniteSet(S), \A x \in S : f[x] \in Nat
    PROVE  SumFunctionOnSet(f, S) \in Nat
<1> DEFINE zero == [x \in S |-> 0]
<1>1. SumFunctionOnSet(zero, S) = 0
  BY SumZero
<1>2. SumFunctionOnSet(zero, S) <= SumFunctionOnSet(f, S)
  BY SumMonotone
<1> QED
  BY <1>1, <1>2, SumTyped

\* One summand changes.
LEMMA SumChange ==
    ASSUME NEW f, NEW g, NEW S, IsFiniteSet(S), NEW y \in S,
           \A x \in S : f[x] \in Int /\ g[x] \in Int /\ (x # y => g[x] = f[x])
    PROVE  SumFunctionOnSet(g, S) = SumFunctionOnSet(f, S) + g[y] - f[y]
<1>1. IsFiniteSet(S \ {y})
  BY FS_Subset
<1>2. SumFunctionOnSet(f, S \ {y}) = SumFunctionOnSet(g, S \ {y})
  BY <1>1, SumEqual
<1>3. SumFunctionOnSet(f, S) = f[y] + SumFunctionOnSet(f, S \ {y})
  BY SumRemove
<1>4. SumFunctionOnSet(g, S) = g[y] + SumFunctionOnSet(g, S \ {y})
  BY SumRemove
<1> QED
  BY <1>1, <1>2, <1>3, <1>4, SumTyped
=============================================================================
