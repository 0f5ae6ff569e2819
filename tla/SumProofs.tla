------------------------------ MODULE SumProofs ------------------------------
(* Facts about sums over finite sets.  The library's induction theorems take *)
(* a predicate; here the set of the cases for which a fact holds stands for  *)
(* it, so that the provers can use the principle at all.                     *)
EXTENDS Sums, FiniteSetTheorems, WellFoundedInduction, TLAPS

\* A set of natural numbers has a least element.
LEMMA LeastNatural ==
  ASSUME NEW N \in SUBSET Nat, N # {}
  PROVE  \E n \in N : \A m \in N : ~ (m < n)
<1>1. \E n \in N : \A m \in N : ~ (<<m, n>> \in OpToRel(<, Nat))
  BY NatLessThanWellFounded, WFMin
<1> QED
  BY <1>1 DEF OpToRel

\* Induction over the subsets of a finite set: what holds of the empty set, and
\* of a set if it holds of the set without any one of its elements, holds of all.
LEMMA SetInduction ==
  ASSUME NEW S, IsFiniteSet(S), NEW Q, {} \in Q,
         \A X \in SUBSET S : X # {} /\ (\A a \in X : X \ {a} \in Q) => X \in Q
  PROVE  \A X \in SUBSET S : X \in Q
<1> DEFINE Bad == {Cardinality(X) : X \in {Y \in SUBSET S : Y \notin Q}}
<1> SUFFICES ASSUME \E X \in SUBSET S : X \notin Q PROVE FALSE
  OBVIOUS
<1>1. \A X \in SUBSET S : IsFiniteSet(X) /\ Cardinality(X) \in Nat
  BY FS_Subset, FS_CardinalityType
<1>2. Bad \in SUBSET Nat /\ Bad # {}
  BY <1>1
<1>3. PICK n \in Bad : \A m \in Bad : ~ (m < n)
  BY <1>2, LeastNatural
<1>4. PICK X \in SUBSET S : X \notin Q /\ n = Cardinality(X)
  BY <1>3
<1>5. PICK a \in X : X \ {a} \notin Q
  BY <1>4
<1>6. Cardinality(X \ {a}) \in Bad
  BY <1>5
<1>7. Cardinality(X \ {a}) = n - 1 /\ n \in Nat
  BY <1>1, <1>4, FS_RemoveElement
<1>8. ~ (Cardinality(X \ {a}) < n)
  <2> HIDE DEF Bad
  <2> QED
    BY <1>3, <1>6
<1> QED
  BY <1>7, <1>8

\* g sums f over each subset of S, whichever element is taken first.
Folds(f, S, g) ==
  /\ g \in [SUBSET S -> Int]
  /\ g[{}] = 0
  /\ \A X \in SUBSET S : \A x \in X : g[X] = f[x] + g[X \ {x}]

LEMMA FoldExists ==
  ASSUME NEW S, IsFiniteSet(S), NEW f \in [S -> Int]
  PROVE  \E g : Folds(f, S, g)
<1> DEFINE Q == {X \in SUBSET S : \E g : Folds(f, X, g)}
<1>1. {} \in Q
  <2>1. Folds(f, {}, [X \in SUBSET {} |-> 0])
    BY DEF Folds
  <2> QED
    BY <2>1
<1>2. ASSUME NEW X \in SUBSET S, X # {}, \A a \in X : X \ {a} \in Q
      PROVE  X \in Q
  <2>0. PICK a \in X : X \ {a} \in Q
    BY <1>2
  <2>1. PICK h : Folds(f, X \ {a}, h)
    BY <2>0
  <2> DEFINE g == [Y \in SUBSET X |-> IF a \in Y THEN f[a] + h[Y \ {a}] ELSE h[Y]]
  <2>2. \A Y \in SUBSET X : Y \ {a} \in SUBSET (X \ {a}) /\ (a \notin Y => Y \in SUBSET (X \ {a}))
    OBVIOUS
  <2>3. g \in [SUBSET X -> Int]
    BY <2>1, <2>2 DEF Folds
  <2>4. g[{}] = 0
    BY <2>1 DEF Folds
  <2>5. ASSUME NEW Y \in SUBSET X, NEW x \in Y
        PROVE  g[Y] = f[x] + g[Y \ {x}]
    <3>1. CASE x = a
      BY <3>1
    <3>2. CASE x # a /\ a \notin Y
      <4>1. Y \in SUBSET (X \ {a}) /\ a \notin Y \ {x}
        BY <3>2
      <4>2. h[Y] = f[x] + h[Y \ {x}]
        BY <2>1, <4>1 DEF Folds
      <4> QED
        BY <3>2, <4>1, <4>2
    <3>3. CASE x # a /\ a \in Y
      <4> DEFINE Z == Y \ {a}
      <4>1. Z \in SUBSET (X \ {a}) /\ x \in Z /\ Z \ {x} \in SUBSET (X \ {a})
        BY <3>3
      <4>2. h[Z] = f[x] + h[Z \ {x}] /\ h[Z \ {x}] \in Int /\ f[x] \in Int /\ f[a] \in Int
        BY <2>1, <4>1 DEF Folds
      <4>3. (Y \ {x}) \ {a} = Z \ {x}
        OBVIOUS
      <4>4. g[Y] = f[a] + h[Z] /\ g[Y \ {x}] = f[a] + h[Z \ {x}]
        BY <3>3, <4>3
      <4> QED
        BY <4>2, <4>4
    <3> QED
      BY <3>1, <3>2, <3>3
  <2> HIDE DEF g
  <2>6. Folds(f, X, g)
    BY <2>3, <2>4, <2>5 DEF Folds
  <2> QED
    BY <2>6
<1> HIDE DEF Q
<1>3. S \in Q
  <2>1. \A X \in SUBSET S : X \in Q
    BY <1>1, <1>2, SetInduction
  <2> QED
    BY <2>1
<1> QED
  BY <1>3 DEF Q

\* That is what the fold computes, which takes the elements in an order of its own.
LEMMA TotalFolds ==
  ASSUME NEW S, IsFiniteSet(S), NEW f \in [S -> Int], NEW g, Folds(f, S, g)
  PROVE  Total(f) = g[S]
<1> DEFINE Body(i) == [X \in SUBSET S |->
             IF X = {} THEN 0
             ELSE f[CHOOSE x \in X : TRUE] + i[X \ {CHOOSE x \in X : TRUE}]]
           iter == CHOOSE i : i = Body(i)
<1>1. Total(f) = iter[S]
  BY DEF Total, MapThenSumSet, MapThenFoldSet
<1>2. g = Body(g)
  <2>1. \A X \in SUBSET S : X # {} => (CHOOSE x \in X : TRUE) \in X
    OBVIOUS
  <2>2. \A X \in SUBSET S : g[X] = Body(g)[X]
    BY <2>1 DEF Folds
  <2>3. g \in [SUBSET S -> Int] /\ DOMAIN Body(g) = SUBSET S
    BY DEF Folds
  <2>4. g = [X \in SUBSET S |-> g[X]]
    BY <2>3
  <2> QED
    BY <2>2, <2>4
<1>3. iter = Body(iter)
  BY <1>2
<1> DEFINE Q == {X \in SUBSET S : iter[X] = g[X]}
<1> HIDE DEF iter
<1>4. {} \in Q
  BY <1>3 DEF Folds
<1>5. ASSUME NEW X \in SUBSET S, X # {}, \A a \in X : X \ {a} \in Q
      PROVE  X \in Q
  BY <1>3, <1>5 DEF Folds
<1>6. \A X \in SUBSET S : X \in Q
  <2> HIDE DEF Q
  <2> QED
    BY <1>4, <1>5, SetInduction
<1> QED
  BY <1>1, <1>6

-----------------------------------------------------------------------------
(* Sums                                                                      *)

LEMMA TotalInt ==
  ASSUME NEW S, IsFiniteSet(S), NEW f \in [S -> Int]
  PROVE  Total(f) \in Int
<1>1. PICK g : Folds(f, S, g)
  BY FoldExists
<1>2. g[S] \in Int
  BY <1>1 DEF Folds
<1> QED
  BY <1>1, <1>2, TotalFolds

\* The sum over nothing.
LEMMA TotalEmpty == ASSUME NEW f \in [{} -> Int] PROVE Total(f) = 0
<1>1. IsFiniteSet({})
  BY FS_EmptySet
<1>2. PICK g : Folds(f, {}, g)
  BY <1>1, FoldExists
<1> QED
  BY <1>1, <1>2, TotalFolds DEF Folds

\* One value taken out of a sum.
LEMMA TotalSplit ==
  ASSUME NEW S, IsFiniteSet(S), NEW f \in [S -> Int], NEW a \in S
  PROVE  Total(f) = f[a] + Total([x \in S \ {a} |-> f[x]])
<1> DEFINE T == S \ {a}
           h == [x \in T |-> f[x]]
<1>1. PICK g : Folds(f, S, g)
  BY FoldExists
<1> DEFINE k == [X \in SUBSET T |-> g[X]]
<1>2. Folds(h, T, k)
  <2>1. k \in [SUBSET T -> Int] /\ k[{}] = 0
    BY <1>1 DEF Folds
  <2>2. \A X \in SUBSET T : \A x \in X : k[X] = h[x] + k[X \ {x}]
    BY <1>1 DEF Folds
  <2> QED
    BY <2>1, <2>2 DEF Folds
<1>3. IsFiniteSet(T) /\ h \in [T -> Int]
  BY FS_RemoveElement
<1>4. Total(h) = k[T]
  BY <1>2, <1>3, TotalFolds
<1>5. Total(f) = g[S]
  BY <1>1, TotalFolds
<1> QED
  BY <1>1, <1>4, <1>5 DEF Folds

\* A change of one value changes the sum by as much.
LEMMA TotalUpdate ==
  ASSUME NEW S, IsFiniteSet(S), NEW f \in [S -> Int], NEW g \in [S -> Int], NEW a \in S,
         \A x \in S \ {a} : g[x] = f[x]
  PROVE  Total(g) = Total(f) + (g[a] - f[a])
<1>1. [x \in S \ {a} |-> f[x]] = [x \in S \ {a} |-> g[x]]
  OBVIOUS
<1>2. /\ Total(f) = f[a] + Total([x \in S \ {a} |-> f[x]])
      /\ Total(g) = g[a] + Total([x \in S \ {a} |-> g[x]])
  BY TotalSplit
<1>3. Total(f) \in Int /\ Total(g) \in Int
  BY TotalInt
<1> DEFINE rest == Total([x \in S \ {a} |-> f[x]])
<1>4. rest \in Int
  <2>1. IsFiniteSet(S \ {a}) /\ [x \in S \ {a} |-> f[x]] \in [S \ {a} -> Int]
    BY FS_RemoveElement
  <2> QED
    BY <2>1, TotalInt
<1>5. Total(f) = f[a] + rest /\ Total(g) = g[a] + rest
  BY <1>1, <1>2
<1> HIDE DEF rest
<1> QED
  BY <1>3, <1>4, <1>5

\* The induction step of facts about sums: a sum over X is one value and a sum
\* over X without its argument.
LEMMA TotalRestrict ==
  ASSUME NEW S, IsFiniteSet(S), NEW f \in [S -> Int], NEW X \in SUBSET S, NEW a \in X
  PROVE  /\ Total([x \in X |-> f[x]]) = f[a] + Total([x \in X \ {a} |-> f[x]])
         /\ Total([x \in X \ {a} |-> f[x]]) \in Int
<1>1. IsFiniteSet(X) /\ IsFiniteSet(X \ {a})
  BY FS_Subset
<1>2. [x \in X |-> f[x]] \in [X -> Int] /\ [x \in X \ {a} |-> f[x]] \in [X \ {a} -> Int]
  OBVIOUS
<1>3. [x \in X \ {a} |-> [y \in X |-> f[y]][x]] = [x \in X \ {a} |-> f[x]]
  OBVIOUS
<1>4. Total([x \in X |-> f[x]])
        = [x \in X |-> f[x]][a] + Total([x \in X \ {a} |-> [y \in X |-> f[y]][x]])
  <2> DEFINE h == [x \in X |-> f[x]]
  <2> HIDE DEF h
  <2>1. h \in [X -> Int] => Total(h) = h[a] + Total([x \in X \ {a} |-> h[x]])
    BY <1>1, TotalSplit
  <2> QED
    BY <1>2, <2>1 DEF h
<1> QED
  BY <1>1, <1>2, <1>3, <1>4, TotalInt

\* A sum of sums.
LEMMA TotalPlus ==
  ASSUME NEW S, IsFiniteSet(S), NEW f \in [S -> Int], NEW g \in [S -> Int]
  PROVE  Total([x \in S |-> f[x] + g[x]]) = Total(f) + Total(g)
<1> DEFINE h == [x \in S |-> f[x] + g[x]]
           T(k, X) == Total([x \in X |-> k[x]])
           Q == {X \in SUBSET S : T(h, X) = T(f, X) + T(g, X)}
<1>1. h \in [S -> Int]
  OBVIOUS
<1>2. {} \in Q
  <2>1. \A k : [x \in {} |-> k[x]] \in [{} -> Int]
    OBVIOUS
  <2>2. \A k : T(k, {}) = 0
    BY <2>1, TotalEmpty
  <2> QED
    BY <2>2
<1>3. ASSUME NEW X \in SUBSET S, X # {}, \A a \in X : X \ {a} \in Q
      PROVE  X \in Q
  <2>1. PICK a \in X : X \ {a} \in Q
    BY <1>3
  <2> HIDE DEF h
  <2>2. ASSUME NEW k \in [S -> Int]
        PROVE  T(k, X) = k[a] + T(k, X \ {a}) /\ T(k, X \ {a}) \in Int
    BY TotalRestrict
  <2>3. h[a] = f[a] + g[a] /\ f[a] \in Int /\ g[a] \in Int
    BY DEF h
  <2>4. T(h, X \ {a}) = T(f, X \ {a}) + T(g, X \ {a})
    BY <2>1
  <2>5. /\ T(h, X) = h[a] + T(h, X \ {a}) /\ T(h, X \ {a}) \in Int
        /\ T(f, X) = f[a] + T(f, X \ {a}) /\ T(f, X \ {a}) \in Int
        /\ T(g, X) = g[a] + T(g, X \ {a}) /\ T(g, X \ {a}) \in Int
    BY <1>1, <2>2
  <2>6. T(h, X) = T(f, X) + T(g, X)
    <3> HIDE DEF T
    <3> QED
      BY <2>3, <2>4, <2>5
  <2> QED
    BY <2>6
<1>4. \A X \in SUBSET S : X \in Q
  <2> HIDE DEF Q
  <2> QED
    BY <1>2, <1>3, SetInduction
<1>5. T(h, S) = T(f, S) + T(g, S)
  BY <1>4
<1>6. [x \in S |-> h[x]] = h /\ [x \in S |-> f[x]] = f /\ [x \in S |-> g[x]] = g
  OBVIOUS
<1> QED
  BY <1>5, <1>6

\* What bounds every value bounds the sum.
LEMMA TotalBounded ==
  ASSUME NEW S, IsFiniteSet(S), NEW f \in [S -> Int], NEW b \in Int,
         \A x \in S : f[x] <= b
  PROVE  Total(f) <= b * Cardinality(S)
<1> DEFINE T(X) == Total([x \in X |-> f[x]])
           Q == {X \in SUBSET S : T(X) <= b * Cardinality(X)}
<1>1. {} \in Q
  <2>1. [x \in {} |-> f[x]] \in [{} -> Int]
    OBVIOUS
  <2>2. T({}) = 0
    BY <2>1, TotalEmpty
  <2> QED
    BY <2>2, FS_EmptySet
<1>2. ASSUME NEW X \in SUBSET S, X # {}, \A a \in X : X \ {a} \in Q
      PROVE  X \in Q
  <2>1. PICK a \in X : X \ {a} \in Q
    BY <1>2
  <2>2. T(X) = f[a] + T(X \ {a}) /\ T(X \ {a}) \in Int
    BY TotalRestrict
  <2>3. f[a] \in Int /\ f[a] <= b
    OBVIOUS
  <2>4. T(X \ {a}) <= b * Cardinality(X \ {a})
    BY <2>1
  <2>5. IsFiniteSet(X)
    BY FS_Subset
  <2>6. Cardinality(X \ {a}) = Cardinality(X) - 1 /\ Cardinality(X) \in Nat
    BY <2>5, FS_RemoveElement, FS_CardinalityType
  <2>7. \A n \in Nat : b * (n - 1) = b * n - b
    OBVIOUS
  <2> DEFINE n == Cardinality(X)
  <2>8. b * (n - 1) = b * n - b /\ b * n \in Int
    BY <2>6, <2>7
  <2> HIDE DEF T
  <2> QED
    BY <2>2, <2>3, <2>4, <2>6, <2>8
<1>3. \A X \in SUBSET S : X \in Q
  <2> HIDE DEF Q
  <2> QED
    BY <1>1, <1>2, SetInduction
<1>4. [x \in S |-> f[x]] = f
  OBVIOUS
<1> QED
  BY <1>3, <1>4

\* Values that are zero do not count.
LEMMA TotalOfSupport ==
  ASSUME NEW S, IsFiniteSet(S), NEW f \in [S -> Int], NEW D \in SUBSET S,
         \A x \in S \ D : f[x] = 0
  PROVE  Total(f) = Total([x \in D |-> f[x]])
<1> DEFINE T(X) == Total([x \in X |-> f[x]])
           Q == {X \in SUBSET S : T(X) = T(X \cap D)}
<1>1. {} \in Q
  BY {} \cap D = {}
<1>2. ASSUME NEW X \in SUBSET S, X # {}, \A a \in X : X \ {a} \in Q
      PROVE  X \in Q
  <2>1. CASE X \subseteq D
    <3>1. X \cap D = X
      BY <2>1
    <3> QED
      BY <3>1
  <2>2. CASE ~ (X \subseteq D)
    <3>1. PICK a \in X : a \notin D
      BY <2>2
    <3>2. (X \ {a}) \cap D = X \cap D
      BY <3>1
    <3>3. T(X \ {a}) = T((X \ {a}) \cap D)
      BY <1>2
    <3>4. T(X) = f[a] + T(X \ {a}) /\ T(X \ {a}) \in Int
      BY TotalRestrict
    <3>5. f[a] = 0
      BY <3>1
    <3>6. T(X \ {a}) = T(X \cap D)
      BY <3>2, <3>3
    <3>7. T(X) = T(X \cap D)
      <4> HIDE DEF T
      <4> QED
        BY <3>4, <3>5, <3>6
    <3> QED
      BY <3>7
  <2> QED
    BY <2>1, <2>2
<1>3. \A X \in SUBSET S : X \in Q
  <2> HIDE DEF Q
  <2> QED
    BY <1>1, <1>2, SetInduction
<1>4. [x \in S |-> f[x]] = f /\ S \cap D = D
  OBVIOUS
<1>5. T(S) = T(S \cap D)
  BY <1>3
<1> QED
  BY <1>4, <1>5

\* Natural numbers add up to one.
LEMMA TotalNat ==
  ASSUME NEW S, IsFiniteSet(S), NEW f \in [S -> Nat]
  PROVE  Total(f) \in Nat
<1> DEFINE T(X) == Total([x \in X |-> f[x]])
           Q == {X \in SUBSET S : T(X) \in Nat}
<1>1. {} \in Q
  <2>1. [x \in {} |-> f[x]] \in [{} -> Int]
    OBVIOUS
  <2>2. T({}) = 0
    BY <2>1, TotalEmpty
  <2> QED
    BY <2>2
<1>2. ASSUME NEW X \in SUBSET S, X # {}, \A a \in X : X \ {a} \in Q
      PROVE  X \in Q
  <2>1. PICK a \in X : X \ {a} \in Q
    BY <1>2
  <2>2. f \in [S -> Int]
    OBVIOUS
  <2>3. T(X) = f[a] + T(X \ {a})
    <3>1. ASSUME NEW k \in [S -> Int]
          PROVE  /\ Total([x \in X |-> k[x]]) = k[a] + Total([x \in X \ {a} |-> k[x]])
                 /\ Total([x \in X \ {a} |-> k[x]]) \in Int
      BY TotalRestrict
    <3> QED
      BY <2>2, <3>1
  <2>4. T(X \ {a}) \in Nat /\ f[a] \in Nat
    BY <2>1
  <2>5. T(X) \in Nat
    <3> HIDE DEF T
    <3> QED
      BY <2>3, <2>4
  <2> QED
    BY <2>5
<1>3. \A X \in SUBSET S : X \in Q
  <2> HIDE DEF Q
  <2> QED
    BY <1>1, <1>2, SetInduction
<1>4. [x \in S |-> f[x]] = f
  OBVIOUS
<1> QED
  BY <1>3, <1>4

\* What bounds the sum of every row of a table bounds the sum of its columns.
LEMMA TotalOfColumns ==
  ASSUME NEW I, IsFiniteSet(I), NEW O, IsFiniteSet(O), NEW A \in [I -> [O -> Int]],
         NEW b \in Int, \A i \in I : Total(A[i]) <= b
  PROVE  Total([o \in O |-> Total([i \in I |-> A[i][o]])]) <= b * Cardinality(I)
<1> DEFINE Column(o) == [i \in I |-> A[i][o]]
           Sums(X) == [o \in O |-> Total([i \in X |-> Column(o)[i]])]
           T(X) == Total(Sums(X))
           Q == {X \in SUBSET I : Sums(X) \in [O -> Int] /\ T(X) <= b * Cardinality(X)}
<1>0. \A o \in O : Column(o) \in [I -> Int]
  OBVIOUS
<1>1. {} \in Q
  <2>1. \A o \in O : [i \in {} |-> Column(o)[i]] \in [{} -> Int]
    OBVIOUS
  <2>2. \A o \in O : Sums({})[o] = 0
    BY <2>1, TotalEmpty
  <2>3. Sums({}) \in [O -> Int]
    BY <2>2
  <2>4. T({}) <= 0 * Cardinality(O)
    <3> DEFINE none == Sums({})
    <3>1. none \in [O -> Int] /\ 0 \in Int /\ \A o \in O : none[o] <= 0
      BY <2>2, <2>3
    <3> HIDE DEF none
    <3>2. Total(none) <= 0 * Cardinality(O)
      BY <3>1, TotalBounded
    <3> QED
      BY <3>2 DEF none
  <2>5. Cardinality({}) = 0 /\ Cardinality(O) \in Nat
    BY FS_EmptySet, FS_CardinalityType
  <2>6. T({}) <= b * Cardinality({})
    <3> HIDE DEF T
    <3> QED
      BY <2>4, <2>5
  <2> QED
    BY <2>3, <2>6
<1>2. ASSUME NEW X \in SUBSET I, X # {}, \A a \in X : X \ {a} \in Q
      PROVE  X \in Q
  <2>1. PICK a \in X : X \ {a} \in Q
    BY <1>2
  <2> DEFINE rest == Sums(X \ {a})
             row == A[a]
  <2>2. rest \in [O -> Int] /\ Total(rest) <= b * Cardinality(X \ {a})
    BY <2>1
  <2>3. row \in [O -> Int] /\ Total(row) <= b
    OBVIOUS
  <2>4. \A o \in O : Sums(X)[o] = row[o] + rest[o]
    <3>1. ASSUME NEW k \in [I -> Int]
          PROVE  /\ Total([i \in X |-> k[i]]) = k[a] + Total([i \in X \ {a} |-> k[i]])
                 /\ Total([i \in X \ {a} |-> k[i]]) \in Int
      BY TotalRestrict
    <3>2. SUFFICES ASSUME NEW o \in O PROVE Sums(X)[o] = row[o] + rest[o]
      OBVIOUS
    <3>3. Column(o)[a] = row[o]
      OBVIOUS
    <3> DEFINE k == Column(o)
    <3>4. k \in [I -> Int]
      BY <1>0
    <3>5. Sums(X)[o] = Total([i \in X |-> k[i]]) /\ rest[o] = Total([i \in X \ {a} |-> k[i]])
      OBVIOUS
    <3> HIDE DEF k, Sums, rest
    <3>6. Total([i \in X |-> k[i]]) = k[a] + Total([i \in X \ {a} |-> k[i]])
      BY <3>1, <3>4
    <3> QED
      BY <3>3, <3>5, <3>6 DEF k
  <2>5. Sums(X) = [o \in O |-> row[o] + rest[o]]
    BY <2>4
  <2> HIDE DEF row, rest
  <2>6. Sums(X) \in [O -> Int]
    <3>1. \A o \in O : row[o] + rest[o] \in Int
      BY <2>2, <2>3
    <3> HIDE DEF Sums
    <3> QED
      BY <2>5, <3>1
  <2>7. Total([o \in O |-> row[o] + rest[o]]) = Total(row) + Total(rest)
    BY <2>2, <2>3, TotalPlus
  <2>8. Total(row) \in Int /\ Total(rest) \in Int
    BY <2>2, <2>3, TotalInt
  <2>9. Cardinality(X \ {a}) = Cardinality(X) - 1 /\ Cardinality(X) \in Nat
    BY FS_Subset, FS_RemoveElement, FS_CardinalityType
  <2>10. b * (Cardinality(X) - 1) = b * Cardinality(X) - b /\ b * Cardinality(X) \in Int
    <3>1. \A n \in Nat : b * (n - 1) = b * n - b /\ b * n \in Int
      OBVIOUS
    <3> QED
      BY <2>9, <3>1
  <2>11. T(X) = Total(row) + Total(rest)
    BY <2>5, <2>7
  <2>12. T(X) <= b * Cardinality(X)
    <3> HIDE DEF T
    <3> QED
      BY <2>2, <2>3, <2>8, <2>9, <2>10, <2>11
  <2> QED
    BY <2>6, <2>12
<1>3. \A X \in SUBSET I : X \in Q
  <2> HIDE DEF Q
  <2> QED
    BY <1>1, <1>2, SetInduction
<1>4. Sums(I) = [o \in O |-> Total([i \in I |-> A[i][o]])]
  <2>1. \A o \in O : [i \in I |-> Column(o)[i]] = [i \in I |-> A[i][o]]
    OBVIOUS
  <2> QED
    BY <2>1
<1>5. T(I) <= b * Cardinality(I)
  BY <1>3
<1> HIDE DEF Sums
<1> QED
  BY <1>4, <1>5
==============================================================================
