---------------------------- MODULE SumTheorems -----------------------------
(***************************************************************************)
(* What MapThenSumSet computes on a finite set, in whatever order it picks *)
(* the elements.                                                           *)
(***************************************************************************)
EXTENDS FiniteSetsExt, Integers, FiniteSetTheorems, TLAPS

Sum(f, S) == MapThenSumSet(LAMBDA x : f[x], S)

Pick(s) == CHOOSE x \in s : TRUE

\* The function that MapThenSumSet folds S with, on the subsets of S.
Fold(f, S) == CHOOSE g : g = [s \in SUBSET S |-> IF s = {} THEN 0
                                                 ELSE f[Pick(s)] + g[s \ {Pick(s)}]]

\* g has the recursion equation on the subsets of T.
Folds(g, f, T) ==
  \A s \in SUBSET T : g[s] = IF s = {} THEN 0 ELSE f[Pick(s)] + g[s \ {Pick(s)}]

LEMMA SumIsFold == \A f, S : Sum(f, S) = Fold(f, S)[S]
BY DEF Sum, MapThenSumSet, MapThenFoldSet, Fold, Pick

\* Induction: some smallest member of a collection of subsets of a finite set.
LEMMA Smallest ==
  ASSUME NEW S, IsFiniteSet(S), NEW T \in SUBSET (SUBSET S), T # {}
  PROVE  \E x \in T : \A y \in T : y \subseteq x => y = x
<1>1. IsWellFoundedOn(StrictSubsetOrdering(S), SUBSET S)
  BY FS_StrictSubsetOrderingWellFounded, FS_FiniteSubsetsOfFinite, Zenon
<1>2. \E x \in T : \A y \in T : ~ (<<y, x>> \in StrictSubsetOrdering(S))
  BY <1>1, WFMin, Zenon
<1>3. \A y, x \in SUBSET S : y \subseteq x /\ y # x => <<y, x>> \in StrictSubsetOrdering(S)
  BY DEF StrictSubsetOrdering
<1> QED
  BY <1>2, <1>3

LEMMA PickIn == \A s : s # {} => Pick(s) \in s
BY DEF Pick

LEMMA FoldsAgree ==
  ASSUME NEW S, IsFiniteSet(S), NEW f, NEW g, NEW h, NEW T \in SUBSET S,
         Folds(g, f, S), Folds(h, f, T)
  PROVE  \A s \in SUBSET T : g[s] = h[s]
<1> DEFINE Bad == {s \in SUBSET T : g[s] # h[s]}
<1> SUFFICES ASSUME Bad # {} PROVE FALSE
  OBVIOUS
<1>0. Bad \in SUBSET (SUBSET S) /\ Bad # {} /\ IsFiniteSet(S)
  OBVIOUS
<1>a. \E s \in Bad : \A t \in Bad : t \subseteq s => t = s
  <2> HIDE DEF Bad
  <2> QED
    BY <1>0, Smallest
<1>1. PICK s \in Bad : \A t \in Bad : t \subseteq s => t = s
  BY <1>a
<1>2. s # {}
  BY <1>1 DEF Folds
<1>3. Pick(s) \in s
  BY <1>2, PickIn
<1>4. s \ {Pick(s)} \in SUBSET T /\ s \ {Pick(s)} # s /\ s \ {Pick(s)} \subseteq s
  BY <1>1, <1>3
<1>5. g[s \ {Pick(s)}] = h[s \ {Pick(s)}]
  BY <1>1, <1>4
<1>6. /\ g[s] = f[Pick(s)] + g[s \ {Pick(s)}]
      /\ h[s] = f[Pick(s)] + h[s \ {Pick(s)}]
  BY <1>1, <1>2 DEF Folds
<1> QED
  BY <1>1, <1>5, <1>6


LEMMA FoldsExist ==
  ASSUME NEW S, IsFiniteSet(S), NEW f
  PROVE  \E g : Folds(g, f, S)
<1> DEFINE Bad == {t \in SUBSET S : ~ \E g : Folds(g, f, t)}
<1> SUFFICES ASSUME Bad # {} PROVE FALSE
  OBVIOUS
<1>0. Bad \in SUBSET (SUBSET S) /\ Bad # {} /\ IsFiniteSet(S)
  OBVIOUS
<1>a. \E t \in Bad : \A u \in Bad : u \subseteq t => u = t
  <2> HIDE DEF Bad
  <2> QED
    BY <1>0, Smallest
<1>1. PICK t \in Bad : \A u \in Bad : u \subseteq t => u = t
  BY <1>a
<1> DEFINE G(u) == CHOOSE g : Folds(g, f, u)
           h    == [u \in SUBSET t |-> IF u # t THEN G(u)[u]
                                       ELSE IF t = {} THEN 0
                                       ELSE f[Pick(t)] + G(t \ {Pick(t)})[t \ {Pick(t)}]]
<1>2. ASSUME NEW u \in SUBSET t, u # t
      PROVE  Folds(G(u), f, u)
  BY <1>1, <1>2
<1>3. ASSUME NEW u \in SUBSET t
      PROVE  h[u] = IF u = {} THEN 0 ELSE f[Pick(u)] + h[u \ {Pick(u)}]
  <2>1. u # {} => Pick(u) \in u
    BY PickIn
  <2>2. CASE u = t
    BY <2>1, <2>2
  <2>3. CASE u # t /\ u = {}
    <3>1. G(u)[u] = 0
      BY <1>2, <2>3 DEF Folds
    <3> QED
      BY <3>1, <2>3
  <2>4. CASE u # t /\ u # {}
    <3> DEFINE v == u \ {Pick(u)}
    <3>1. v \in SUBSET t /\ v # t /\ v \in SUBSET u /\ u \in SUBSET u
      BY <2>1, <2>4
    <3>2. Folds(G(u), f, u) /\ Folds(G(v), f, v)
      BY <1>2, <2>4, <3>1
    <3>3. IsFiniteSet(u)
      BY <1>1, FS_Subset
    <3> HIDE DEF G
    <3>4. G(u)[v] = G(v)[v]
      BY <3>1, <3>2, <3>3, FoldsAgree
    <3>5. G(u)[u] = f[Pick(u)] + G(u)[v]
      BY <2>4, <3>1, <3>2 DEF Folds
    <3>6. h[u] = G(u)[u] /\ h[v] = G(v)[v]
      BY <2>4, <3>1
    <3> QED
      BY <2>4, <3>4, <3>5, <3>6
  <2> QED
    BY <2>2, <2>3, <2>4
<1>4. Folds(h, f, t)
  BY <1>3 DEF Folds
<1> QED
  BY <1>1, <1>4

LEMMA FoldFolds ==
  ASSUME NEW S, IsFiniteSet(S), NEW f
  PROVE  Folds(Fold(f, S), f, S)
<1>1. PICK g : Folds(g, f, S)
  BY FoldsExist
<1> DEFINE h == [s \in SUBSET S |-> g[s]]
<1>2. \A s \in SUBSET S : s \ {Pick(s)} \in SUBSET S
  OBVIOUS
<1>3. h = [s \in SUBSET S |-> IF s = {} THEN 0 ELSE f[Pick(s)] + h[s \ {Pick(s)}]]
  BY <1>1, <1>2 DEF Folds
<1> HIDE DEF h
<1> DEFINE Eq(k) == k = [s \in SUBSET S |-> IF s = {} THEN 0 ELSE f[Pick(s)] + k[s \ {Pick(s)}]]
<1>4. Eq(Fold(f, S))
  <2>1. Fold(f, S) = CHOOSE k : Eq(k)
    BY DEF Fold
  <2>2. Eq(h)
    BY <1>3
  <2> HIDE DEF Eq
  <2> QED
    BY <2>1, <2>2
<1> DEFINE F == Fold(f, S)
<1>5. F = [s \in SUBSET S |-> IF s = {} THEN 0 ELSE f[Pick(s)] + F[s \ {Pick(s)}]]
  BY <1>4
<1> HIDE DEF F
<1>6. Folds(F, f, S)
  BY <1>5 DEF Folds
<1> QED
  BY <1>6 DEF F

\* The fold of a set contains the sums over its subsets.
LEMMA SumOfSubset ==
  ASSUME NEW S, IsFiniteSet(S), NEW f, NEW T \in SUBSET S
  PROVE  Sum(f, T) = Fold(f, S)[T]
<1>1. IsFiniteSet(T) /\ T \in SUBSET T
  BY FS_Subset
<1>2. Folds(Fold(f, S), f, S) /\ Folds(Fold(f, T), f, T)
  BY <1>1, FoldFolds
<1>3. Fold(f, S)[T] = Fold(f, T)[T]
  BY <1>1, <1>2, FoldsAgree
<1> QED
  BY <1>3, SumIsFold

LEMMA SumOfNothing == \A f : Sum(f, {}) = 0
<1> SUFFICES ASSUME NEW f PROVE Sum(f, {}) = 0
  OBVIOUS
<1>1. Folds(Fold(f, {}), f, {})
  BY FoldFolds, FS_EmptySet
<1>2. Fold(f, {})[{}] = 0
  BY <1>1 DEF Folds
<1> QED
  BY <1>2, SumIsFold

\* A set of numbers that is closed under addition contains the sums of its members.
LEMMA SumIsClosed ==
  ASSUME NEW S, IsFiniteSet(S), NEW N, 0 \in N, \A m, n \in N : m + n \in N,
         NEW f, \A x \in S : f[x] \in N
  PROVE  Sum(f, S) \in N
<1> DEFINE F == Fold(f, S)
<1>1. Folds(F, f, S)
  BY FoldFolds
<1> DEFINE Bad == {s \in SUBSET S : F[s] \notin N}
<1> HIDE DEF F
<1>2. Bad = {}
  <2> SUFFICES ASSUME Bad # {} PROVE FALSE
    OBVIOUS
  <2>0. Bad \in SUBSET (SUBSET S) /\ Bad # {} /\ IsFiniteSet(S)
    OBVIOUS
  <2>a. \E s \in Bad : \A t \in Bad : t \subseteq s => t = s
    <3> HIDE DEF Bad
    <3> QED
      BY <2>0, Smallest
  <2>1. PICK s \in Bad : \A t \in Bad : t \subseteq s => t = s
    BY <2>a
  <2>2. s # {}
    <3>1. F[{}] = 0
      BY <1>1 DEF Folds
    <3>2. 0 \in N /\ F[s] \notin N
      BY <2>1
    <3> QED
      BY <3>1, <3>2
  <2>3. Pick(s) \in s
    BY <2>2, PickIn
  <2>4. s \ {Pick(s)} \in SUBSET S /\ s \ {Pick(s)} # s /\ s \ {Pick(s)} \subseteq s
    BY <2>1, <2>3
  <2>5. F[s \ {Pick(s)}] \in N /\ f[Pick(s)] \in N
    BY <2>1, <2>3, <2>4
  <2>6. F[s] = f[Pick(s)] + F[s \ {Pick(s)}]
    BY <1>1, <2>1, <2>2 DEF Folds
  <2> QED
    BY <2>1, <2>5, <2>6
<1>3. S \in SUBSET S
  OBVIOUS
<1> QED
  BY <1>2, <1>3, SumIsFold DEF F

LEMMA SumIsInt ==
  ASSUME NEW S, IsFiniteSet(S), NEW f, \A x \in S : f[x] \in Int
  PROVE  Sum(f, S) \in Int
<1>1. 0 \in Int /\ \A m, n \in Int : m + n \in Int
  OBVIOUS
<1> QED
  BY <1>1, SumIsClosed

LEMMA SumIsNat ==
  ASSUME NEW S, IsFiniteSet(S), NEW f, \A x \in S : f[x] \in Nat
  PROVE  Sum(f, S) \in Nat
<1>1. 0 \in Nat /\ \A m, n \in Nat : m + n \in Nat
  OBVIOUS
<1> QED
  BY <1>1, SumIsClosed

LEMMA SumOfZeros ==
  ASSUME NEW S, IsFiniteSet(S), NEW f, \A x \in S : f[x] = 0
  PROVE  Sum(f, S) = 0
<1>1. 0 \in {0} /\ \A m, n \in {0} : m + n \in {0}
  OBVIOUS
<1>2. Sum(f, S) \in {0}
  BY <1>1, SumIsClosed
<1> QED
  BY <1>2

\* Any element may be taken out first.
LEMMA SumTakeOut ==
  ASSUME NEW S, IsFiniteSet(S), NEW f, \A x \in S : f[x] \in Int, NEW x \in S
  PROVE  Sum(f, S) = f[x] + Sum(f, S \ {x})
<1> DEFINE F == Fold(f, S)
           Bad == {s \in SUBSET S : \E y \in s : F[s] # f[y] + F[s \ {y}]}
<1>1. Folds(F, f, S)
  BY FoldFolds
<1>2. \A s \in SUBSET S : F[s] \in Int
  <2> TAKE s \in SUBSET S
  <2>1. IsFiniteSet(s) /\ \A y \in s : f[y] \in Int
    BY FS_Subset
  <2>2. Sum(f, s) \in Int
    BY <2>1, SumIsInt
  <2> QED
    BY <2>2, SumOfSubset
<1> HIDE DEF F
<1>3. Bad = {}
  <2> SUFFICES ASSUME Bad # {} PROVE FALSE
    OBVIOUS
  <2>0. Bad \in SUBSET (SUBSET S) /\ Bad # {} /\ IsFiniteSet(S)
    OBVIOUS
  <2>a. \E s \in Bad : \A t \in Bad : t \subseteq s => t = s
    <3> HIDE DEF Bad
    <3> QED
      BY <2>0, Smallest
  <2>1. PICK s \in Bad : \A t \in Bad : t \subseteq s => t = s
    BY <2>a
  <2>2. PICK y \in s : F[s] # f[y] + F[s \ {y}]
    BY <2>1
  <2> DEFINE c == Pick(s)
  <2>3. c \in s /\ s \in SUBSET S
    BY <2>1, <2>2, PickIn
  <2>4. F[s] = f[c] + F[s \ {c}]
    BY <1>1, <2>2, <2>3 DEF Folds
  <2> HIDE DEF c
  <2>5. c # y
    BY <2>2, <2>4
  <2>6. s \ {c} \notin Bad /\ s \ {y} \notin Bad
    BY <2>1, <2>2, <2>3
  <2>7. F[s \ {c}] = f[y] + F[(s \ {c}) \ {y}]
    BY <2>2, <2>3, <2>5, <2>6
  <2>8. F[s \ {y}] = f[c] + F[(s \ {y}) \ {c}]
    BY <2>2, <2>3, <2>5, <2>6
  <2>9. (s \ {c}) \ {y} = (s \ {y}) \ {c}
    OBVIOUS
  <2> QED
    <3> DEFINE r == F[(s \ {y}) \ {c}]
    <3>1. r \in Int /\ f[y] \in Int /\ f[c] \in Int
      BY <1>2, <2>2, <2>3
    <3>2. F[s] = f[c] + (f[y] + r) /\ F[s \ {y}] = f[c] + r
      BY <2>4, <2>7, <2>8, <2>9
    <3> HIDE DEF r
    <3> QED
      BY <2>2, <3>1, <3>2
<1>4. F[S] = f[x] + F[S \ {x}]
  BY <1>3
<1> QED
  BY <1>4, SumIsFold, SumOfSubset DEF F

\* Sums depend on the values on the set only.
LEMMA SumSame ==
  ASSUME NEW S, IsFiniteSet(S), NEW f, NEW g, \A x \in S : f[x] = g[x]
  PROVE  Sum(f, S) = Sum(g, S)
<1>1. Folds(Fold(f, S), f, S) /\ Folds(Fold(g, S), g, S)
  BY FoldFolds
<1>2. Folds(Fold(g, S), f, S)
  <2>1. \A s \in SUBSET S : s # {} => f[Pick(s)] = g[Pick(s)]
    BY PickIn
  <2> QED
    BY <1>1, <2>1 DEF Folds
<1>3. S \in SUBSET S
  OBVIOUS
<1>4. Fold(f, S)[S] = Fold(g, S)[S]
  BY <1>1, <1>2, <1>3, FoldsAgree
<1> QED
  BY <1>4, SumIsFold

\* One summand changes by k: so does the sum.
LEMMA SumChange ==
  ASSUME NEW S, IsFiniteSet(S), NEW f, NEW g, NEW x \in S, NEW k \in Int,
         \A y \in S : f[y] \in Int, g[x] = f[x] + k, \A y \in S \ {x} : g[y] = f[y]
  PROVE  Sum(g, S) = Sum(f, S) + k
<1> DEFINE R == S \ {x}
<1>1. IsFiniteSet(R)
  BY FS_RemoveElement
<1>2. \A y \in S : g[y] \in Int
  OBVIOUS
<1>3. Sum(f, S) = f[x] + Sum(f, R) /\ Sum(g, S) = g[x] + Sum(g, R)
  BY <1>2, SumTakeOut
<1>4. Sum(g, R) = Sum(f, R)
  BY <1>1, SumSame
<1>5. Sum(f, R) \in Int
  BY <1>1, SumIsInt
<1> HIDE DEF R
<1> QED
  BY <1>3, <1>4, <1>5

\* What makes a fold a sum, for summands that are not given by a function: MapThenSumSet
\* chooses a solution of the recursion equation, which has one, and any is the sum.
Unfolds(g, h, S) ==
  g = [s \in SUBSET S |-> IF s = {} THEN 0 ELSE h[Pick(s)] + g[s \ {Pick(s)}]]

LEMMA UnfoldsExist ==
  ASSUME NEW S, IsFiniteSet(S), NEW h
  PROVE  \E g : Unfolds(g, h, S)
<1>1. PICK g : Folds(g, h, S)
  BY FoldsExist
<1> DEFINE e == [s \in SUBSET S |-> g[s]]
<1>2. \A s \in SUBSET S : s \ {Pick(s)} \in SUBSET S
  OBVIOUS
<1>3. e = [s \in SUBSET S |-> IF s = {} THEN 0 ELSE h[Pick(s)] + e[s \ {Pick(s)}]]
  BY <1>1, <1>2 DEF Folds
<1> HIDE DEF e
<1> QED
  BY <1>3 DEF Unfolds

LEMMA UnfoldsToSum ==
  ASSUME NEW S, IsFiniteSet(S), NEW h, NEW g, Unfolds(g, h, S)
  PROVE  g[S] = Sum(h, S)
<1>1. Folds(g, h, S)
  BY DEF Unfolds, Folds
<1>2. S \in SUBSET S
  OBVIOUS
<1>3. g[S] = Fold(h, S)[S]
  BY <1>1, <1>2, FoldFolds, FoldsAgree
<1> QED
  BY <1>3, SumIsFold

\* A column of a table of numbers, summed where it stands.
LEMMA SumOfColumn ==
  ASSUME NEW S, IsFiniteSet(S), NEW f, NEW k
  PROVE  MapThenSumSet(LAMBDA x : f[x][k], S) = Sum([x \in S |-> f[x][k]], S)
<1> DEFINE h     == [x \in S |-> f[x][k]]
           Eq(g) == g = [s \in SUBSET S |-> IF s = {} THEN 0 ELSE f[Pick(s)][k] + g[s \ {Pick(s)}]]
           F     == CHOOSE g : Eq(g)
<1>1. MapThenSumSet(LAMBDA x : f[x][k], S) = F[S]
  BY DEF MapThenSumSet, MapThenFoldSet, Pick
<1>2. \A s \in SUBSET S : s # {} => h[Pick(s)] = f[Pick(s)][k]
  BY PickIn
<1> HIDE DEF h
<1>3. \A g : Eq(g) <=> Unfolds(g, h, S)
  BY <1>2 DEF Unfolds
<1> HIDE DEF Eq
<1>4. Eq(F)
  BY <1>3, UnfoldsExist
<1> HIDE DEF F
<1>5. F[S] = Sum(h, S)
  BY <1>3, <1>4, UnfoldsToSum
<1> QED
  BY <1>1, <1>5 DEF h

\* A cell of each record of a set, summed where it stands.
LEMMA SumOfCells ==
  ASSUME NEW S, IsFiniteSet(S), NEW j, NEW k
  PROVE  MapThenSumSet(LAMBDA x : x[j][k], S) = Sum([x \in S |-> x[j][k]], S)
<1> DEFINE h     == [x \in S |-> x[j][k]]
           Eq(g) == g = [s \in SUBSET S |-> IF s = {} THEN 0 ELSE Pick(s)[j][k] + g[s \ {Pick(s)}]]
           F     == CHOOSE g : Eq(g)
<1>1. MapThenSumSet(LAMBDA x : x[j][k], S) = F[S]
  BY DEF MapThenSumSet, MapThenFoldSet, Pick
<1>2. \A s \in SUBSET S : s # {} => h[Pick(s)] = Pick(s)[j][k]
  BY PickIn
<1> HIDE DEF h
<1>3. \A g : Eq(g) <=> Unfolds(g, h, S)
  BY <1>2 DEF Unfolds
<1> HIDE DEF Eq
<1>4. Eq(F)
  BY <1>3, UnfoldsExist
<1> HIDE DEF F
<1>5. F[S] = Sum(h, S)
  BY <1>3, <1>4, UnfoldsToSum
<1> QED
  BY <1>1, <1>5 DEF h

-----------------------------------------------------------------------------
\* Induction over the subsets of a finite set, for the collection G of those of which
\* something is so.
LEMMA SubsetInduction ==
  ASSUME NEW S, IsFiniteSet(S), NEW G \in SUBSET (SUBSET S), {} \in G,
         \A T \in G : \A x \in S \ T : T \cup {x} \in G
  PROVE  S \in G
<1> DEFINE Bad == (SUBSET S) \ G
<1> SUFFICES ASSUME Bad # {} PROVE FALSE
  OBVIOUS
<1>1. PICK s \in Bad : \A t \in Bad : t \subseteq s => t = s
  <2>1. Bad \in SUBSET (SUBSET S) /\ Bad # {}
    OBVIOUS
  <2> HIDE DEF Bad
  <2> QED
    BY <2>1, Smallest
<1>2. PICK x \in s : TRUE
  BY <1>1
<1>3. s \ {x} \in G
  BY <1>1, <1>2
<1>4. (s \ {x}) \cup {x} = s /\ x \in S \ (s \ {x})
  BY <1>1, <1>2
<1> QED
  BY <1>1, <1>3, <1>4

LEMMA SumAddOne ==
  ASSUME NEW S, IsFiniteSet(S), NEW f, \A x \in S : f[x] \in Int,
         NEW T \in SUBSET S, NEW x \in S \ T
  PROVE  Sum(f, T \cup {x}) = f[x] + Sum(f, T)
<1>1. IsFiniteSet(T \cup {x})
  BY FS_Subset
<1>2. (T \cup {x}) \ {x} = T
  OBVIOUS
<1> QED
  BY <1>1, <1>2, SumTakeOut

LEMMA SumOfUnion ==
  ASSUME NEW A, NEW B, IsFiniteSet(A), IsFiniteSet(B), A \cap B = {},
         NEW f, \A x \in A \cup B : f[x] \in Int
  PROVE  Sum(f, A \cup B) = Sum(f, A) + Sum(f, B)
<1> DEFINE S == A \cup B
           G == {T \in SUBSET B : Sum(f, A \cup T) = Sum(f, A) + Sum(f, T)}
<1>1. IsFiniteSet(S)
  BY FS_Union
<1>2. Sum(f, A) \in Int
  BY SumIsInt
<1>3. {} \in G
  <2>1. A \cup {} = A
    OBVIOUS
  <2> QED
    BY <1>2, <2>1, SumOfNothing
<1>4. ASSUME NEW T \in G, NEW x \in B \ T
      PROVE  T \cup {x} \in G
  <2>1. Sum(f, T \cup {x}) = f[x] + Sum(f, T)
    BY SumAddOne
  <2>2. Sum(f, (A \cup T) \cup {x}) = f[x] + Sum(f, A \cup T)
    <3>1. A \cup T \in SUBSET S /\ x \in S \ (A \cup T)
      OBVIOUS
    <3> QED
      BY <1>1, <3>1, SumAddOne
  <2>3. (A \cup T) \cup {x} = A \cup (T \cup {x})
    OBVIOUS
  <2>4. f[x] \in Int /\ Sum(f, T) \in Int
    <3>1. IsFiniteSet(T) /\ \A y \in T : f[y] \in Int
      BY FS_Subset
    <3> QED
      BY <3>1, SumIsInt
  <2>5. Sum(f, A \cup T) = Sum(f, A) + Sum(f, T) /\ T \cup {x} \in SUBSET B
    OBVIOUS
  <2>6. Sum(f, A \cup (T \cup {x})) = Sum(f, A) + Sum(f, T \cup {x})
    <3>1. Sum(f, A \cup (T \cup {x})) = f[x] + (Sum(f, A) + Sum(f, T))
      BY <2>2, <2>3, <2>5
    <3> HIDE DEF S, G
    <3> QED
      BY <1>2, <2>1, <2>4, <3>1
  <2> QED
    BY <2>5, <2>6
<1>5. B \in G
  <2>1. G \in SUBSET (SUBSET B)
    OBVIOUS
  <2> HIDE DEF G
  <2> QED
    BY <1>3, <1>4, <2>1, SubsetInduction
<1> QED
  BY <1>5

\* The sum over a set is that of the sums over its parts.
LEMMA SumOfParts ==
  ASSUME NEW S, IsFiniteSet(S), NEW f, \A x \in S : f[x] \in Int,
         NEW P, IsFiniteSet(P), NEW part \in [P -> SUBSET S],
         \A x \in S : \E p \in P : x \in part[p],
         \A p, q \in P : p # q => part[p] \cap part[q] = {},
         NEW g, \A p \in P : g[p] = Sum(f, part[p])
  PROVE  Sum(g, P) = Sum(f, S)
<1> DEFINE Of(Q) == UNION {part[p] : p \in Q}
           G     == {Q \in SUBSET P : Sum(g, Q) = Sum(f, Of(Q))}
<1>1. \A Q \in SUBSET P : Of(Q) \in SUBSET S
  OBVIOUS
<1>2. \A T \in SUBSET S : IsFiniteSet(T) /\ Sum(f, T) \in Int
  BY FS_Subset, SumIsInt
<1>3. \A p \in P : g[p] \in Int
  BY <1>2
<1>4. {} \in G
  <2>1. Of({}) = {}
    OBVIOUS
  <2> QED
    BY <2>1, SumOfNothing
<1>5. ASSUME NEW Q \in G, NEW p \in P \ Q
      PROVE  Q \cup {p} \in G
  <2>1. Sum(g, Q \cup {p}) = g[p] + Sum(g, Q)
    BY <1>3, SumAddOne
  <2>2. Of(Q \cup {p}) = part[p] \cup Of(Q)
    OBVIOUS
  <2>3. part[p] \cap Of(Q) = {}
    OBVIOUS
  <2>4. part[p] \in SUBSET S /\ Of(Q) \in SUBSET S
    OBVIOUS
  <2> HIDE DEF Of
  <2>5. Sum(f, part[p] \cup Of(Q)) = Sum(f, part[p]) + Sum(f, Of(Q))
    BY <1>2, <2>3, <2>4, SumOfUnion
  <2> QED
    BY <2>1, <2>2, <2>5
<1>6. P \in G
  <2>1. G \in SUBSET (SUBSET P)
    OBVIOUS
  <2> HIDE DEF G
  <2> QED
    BY <1>4, <1>5, <2>1, SubsetInduction
<1>7. Of(P) = S
  OBVIOUS
<1> QED
  BY <1>6, <1>7

\* Halves that are rounded up are together above the half of the whole by at most half of
\* one for each.
LEMMA SumOfHalves ==
  ASSUME NEW S, IsFiniteSet(S), NEW f, NEW g, \A x \in S : f[x] \in Int /\ g[x] \in Int,
         \A x \in S : 2 * f[x] - g[x] \in {0, 1}
  PROVE  2 * Sum(f, S) - Sum(g, S) \in 0 .. Cardinality(S)
<1> DEFINE G == {T \in SUBSET S : 2 * Sum(f, T) - Sum(g, T) \in 0 .. Cardinality(T)}
<1>1. \A T \in SUBSET S : /\ Sum(f, T) \in Int /\ Sum(g, T) \in Int
                          /\ IsFiniteSet(T) /\ Cardinality(T) \in Nat
  BY FS_Subset, FS_CardinalityType, SumIsInt
<1>2. {} \in G
  BY SumOfNothing, FS_EmptySet
<1>3. ASSUME NEW T \in G, NEW x \in S \ T
      PROVE  T \cup {x} \in G
  <2>1. Sum(f, T \cup {x}) = f[x] + Sum(f, T) /\ Sum(g, T \cup {x}) = g[x] + Sum(g, T)
    BY SumAddOne
  <2>2. Cardinality(T \cup {x}) = Cardinality(T) + 1
    BY <1>1, FS_AddElement
  <2>3. 2 * f[x] - g[x] \in {0, 1} /\ f[x] \in Int /\ g[x] \in Int
    OBVIOUS
  <2>4. 2 * Sum(f, T) - Sum(g, T) \in 0 .. Cardinality(T) /\ T \cup {x} \in SUBSET S
    OBVIOUS
  <2>5. 2 * Sum(f, T \cup {x}) - Sum(g, T \cup {x}) \in 0 .. Cardinality(T \cup {x})
    BY <1>1, <2>1, <2>2, <2>3, <2>4
  <2> QED
    BY <2>4, <2>5
<1>4. S \in G
  <2>1. G \in SUBSET (SUBSET S)
    OBVIOUS
  <2> HIDE DEF G
  <2> QED
    BY <1>2, <1>3, <2>1, SubsetInduction
<1> QED
  BY <1>4
=============================================================================
