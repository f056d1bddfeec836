------------------------------ MODULE Induction ------------------------------
(* Induction over the data of the other modules, and what it gives: that     *)
(* walks along a sequence, folds and sums are defined, what sums of parts    *)
(* have to do with each other, and how powers of two grow.                   *)
(*                                                                           *)
(* The library's induction takes a property, which the provers cannot put in *)
(* its place.  Here properties are sets, and facts are cited with any set.   *)
EXTENDS Integers, FiniteSets, Functions, FiniteSetsExt, TLAPS, WellFoundedInduction, FiniteSetTheorems

\* A set of numbers that contains 0 and with each number the next has them all:
\* the least number it lacks would have a predecessor that it has.
LEMMA NumbersByInduction ==
    ASSUME NEW P, 0 \in P, \A n \in Nat : n \in P => n + 1 \in P
    PROVE  Nat \subseteq P
<1> SUFFICES ASSUME ~(Nat \subseteq P) PROVE FALSE
  OBVIOUS
<1> DEFINE lacking == Nat \ P
<1>1. lacking \subseteq Nat /\ lacking # {}
  OBVIOUS
<1> HIDE DEF lacking
<1>2. PICK n \in lacking : \A m \in lacking : ~(<<m, n>> \in OpToRel(<, Nat))
  BY <1>1, NatLessThanWellFounded, WFMin
<1>3. n \in Nat /\ n - 1 \in Nat /\ n - 1 \in lacking
  BY DEF lacking
<1>4. <<n - 1, n>> \in OpToRel(<, Nat)
  BY <1>3 DEF OpToRel
<1> QED
  BY <1>2, <1>3, <1>4

\* The same with all smaller numbers at hand.
LEMMA NumbersByStrongInduction ==
    ASSUME NEW P, \A n \in Nat : (\A m \in Nat : m < n => m \in P) => n \in P
    PROVE  Nat \subseteq P
<1> DEFINE Q == {n \in Nat : \A m \in Nat : m < n => m \in P}
<1>1. 0 \in Q
  OBVIOUS
<1>2. ASSUME NEW n \in Nat, n \in Q PROVE n + 1 \in Q
  <2>1. n \in P
    BY <1>2
  <2>2. \A m \in Nat : m < n + 1 => m < n \/ m = n
    OBVIOUS
  <2> QED
    BY <1>2, <2>1, <2>2
<1> HIDE DEF Q
<1>3. Nat \subseteq Q
  BY <1>1, <1>2, NumbersByInduction
<1> QED
  BY <1>3 DEF Q

\* A walk of n steps from a: every step is defined for what the one before it
\* may have left.
IsWalk(w, S, a, n, step) ==
    w \in [0..n -> S] /\ w[0] = a /\ \A k \in 1..n : w[k] = step[k][w[k-1]]

LEMMA WalkExists ==
    ASSUME NEW S, NEW a \in S, NEW n \in Nat, NEW step \in [1..n -> [S -> S]]
    PROVE  \E w : IsWalk(w, S, a, n, step)
<1> DEFINE Walks(m, w) == w[0] = a /\ \A k \in 1..m : w[k] = step[k][w[k-1]]
<1> DEFINE P == {m \in Nat : m <= n => \E w \in [0..m -> S] : Walks(m, w)}
<1>1. 0 \in P
  <2>1. [k \in 0..0 |-> a] \in [0..0 -> S] /\ Walks(0, [k \in 0..0 |-> a])
    OBVIOUS
  <2> QED
    BY <2>1
<1>2. ASSUME NEW m \in Nat, m \in P PROVE m + 1 \in P
  <2> SUFFICES ASSUME m + 1 <= n PROVE \E w \in [0..(m+1) -> S] : Walks(m + 1, w)
    OBVIOUS
  <2>1. PICK w \in [0..m -> S] : Walks(m, w)
    BY <1>2
  <2> DEFINE longer == [k \in 0..(m+1) |-> IF k = m + 1 THEN step[m+1][w[m]] ELSE w[k]]
  <2>2. step[m+1][w[m]] \in S
    OBVIOUS
  <2>3. longer \in [0..(m+1) -> S]
    BY <2>2
  <2>4. longer[0] = a
    BY <2>1
  <2>5. ASSUME NEW k \in 1..(m+1) PROVE longer[k] = step[k][longer[k-1]]
    BY <2>1
  <2> QED
    BY <2>3, <2>4, <2>5
<1> HIDE DEF P
<1>3. Nat \subseteq P
  BY <1>1, <1>2, NumbersByInduction
<1> QED
  BY <1>3 DEF P, IsWalk

\* What holds of the empty set and still holds with one element more holds of
\* every finite set.
LEMMA SetsByInduction ==
    ASSUME NEW S, IsFiniteSet(S), NEW P, {} \in P,
           \A T \in SUBSET S : T \in P => \A x \in S \ T : T \cup {x} \in P
    PROVE  S \in P
<1> DEFINE Q == {n \in Nat : \A T \in SUBSET S : Cardinality(T) = n => T \in P}
<1>1. 0 \in Q
  <2>1. \A T \in SUBSET S : Cardinality(T) = 0 => T = {}
    BY FS_Subset, FS_EmptySet
  <2> QED
    BY <2>1
<1>2. ASSUME NEW n \in Nat, n \in Q PROVE n + 1 \in Q
  <2> SUFFICES ASSUME NEW T \in SUBSET S, Cardinality(T) = n + 1 PROVE T \in P
    OBVIOUS
  <2>1. IsFiniteSet(T)
    BY FS_Subset
  <2>2. PICK x : x \in T
    BY <2>1, FS_EmptySet
  <2>3. T \ {x} \in SUBSET S /\ Cardinality(T \ {x}) = n
    <3>1. Cardinality(T \ {x}) = Cardinality(T) - 1
      BY <2>1, <2>2, FS_RemoveElement
    <3> QED
      BY <3>1
  <2>4. T \ {x} \in P
    BY <1>2, <2>3
  <2>5. (T \ {x}) \cup {x} = T /\ x \in S \ (T \ {x})
    BY <2>2
  <2> QED
    BY <2>3, <2>4, <2>5
<1> HIDE DEF Q
<1>3. Nat \subseteq Q
  BY <1>1, <1>2, NumbersByInduction
<1>4. Cardinality(S) \in Q
  BY <1>3, FS_CardinalityType
<1> QED
  BY <1>4 DEF Q

-----------------------------------------------------------------------------
(* Folds over finite sets, as MapThenFoldSet has them, and sums *)

\* A fold takes the elements in the order that c chooses, and is defined when
\* every element can be taken into whatever the ones before have left.
IsFold(it, S, V, base, body, c) ==
    /\ it \in [SUBSET S -> V]
    /\ \A T \in SUBSET S :
         it[T] = IF T = {} THEN base ELSE body[c[T]][it[T \ {c[T]}]]

LEMMA FoldExists ==
    ASSUME NEW S, IsFiniteSet(S), NEW V, NEW base \in V, NEW body \in [S -> [V -> V]],
           NEW c, \A T \in SUBSET S : T # {} => c[T] \in T
    PROVE  \E it : IsFold(it, S, V, base, body, c)
<1> DEFINE Small(n) == {T \in SUBSET S : Cardinality(T) <= n}
           next(it, T) == IF T = {} THEN base ELSE body[c[T]][it[T \ {c[T]}]]
           Folds(it, n) == it \in [Small(n) -> V] /\ \A T \in Small(n) : it[T] = next(it, T)
           P == {n \in Nat : \E it : Folds(it, n)}
<1>1. \A T \in SUBSET S : IsFiniteSet(T) /\ Cardinality(T) \in Nat
  BY FS_Subset, FS_CardinalityType
<1>2. ASSUME NEW n \in Nat, NEW T \in Small(n + 1), T # {}
      PROVE  c[T] \in S /\ T \ {c[T]} \in Small(n)
  <2>1. c[T] \in T /\ T \ {c[T]} \in SUBSET S
    BY <1>2
  <2>2. Cardinality(T \ {c[T]}) = Cardinality(T) - 1
    BY <1>1, <2>1, FS_RemoveElement
  <2> QED
    BY <1>1, <2>1, <2>2
<1>3. 0 \in P
  <2>1. \A T \in Small(0) : T = {}
    BY <1>1, FS_EmptySet
  <2>2. Folds([T \in Small(0) |-> base], 0)
    BY <2>1
  <2> QED
    BY <2>2
<1>4. ASSUME NEW n \in Nat, n \in P PROVE n + 1 \in P
  <2>1. PICK it : Folds(it, n)
    BY <1>4
  <2> DEFINE longer == [T \in Small(n + 1) |-> next(it, T)]
  <2>2. longer \in [Small(n + 1) -> V]
    BY <1>2, <2>1
  <2>3. \A T \in Small(n) : T \in Small(n + 1) /\ longer[T] = it[T]
    <3>1. \A T \in Small(n) : T \in Small(n + 1)
      BY <1>1
    <3>2. \A T \in Small(n) : it[T] = next(it, T)
      BY <2>1
    <3> HIDE DEF Small, next
    <3> QED
      BY <3>1, <3>2
  <2>4. \A T \in Small(n + 1) : longer[T] = next(longer, T)
    BY <1>2, <2>3
  <2> HIDE DEF longer
  <2>5. Folds(longer, n + 1)
    BY <2>2, <2>4
  <2> HIDE DEF Folds
  <2> QED
    BY <2>5
<1> HIDE DEF P
<1>5. Nat \subseteq P
  BY <1>3, <1>4, NumbersByInduction
<1>6. PICK it : Folds(it, Cardinality(S))
  <2>1. Cardinality(S) \in P
    BY <1>5, FS_CardinalityType
  <2> QED
    BY <2>1 DEF P
<1>7. Small(Cardinality(S)) = SUBSET S
  BY FS_Subset
<1> QED
  BY <1>6, <1>7 DEF IsFold

-----------------------------------------------------------------------------
(* Folds along a sequence *)

\* FoldLeft takes the last element first, by Max.
LEMMA MaxIn ==
    ASSUME NEW n \in Nat, NEW T \in SUBSET (1..n), T # {}
    PROVE  Max(T) \in T
<1> DEFINE HasMax(U) == \E x \in U : \A y \in U : x >= y
<1>1. IsFiniteSet(1..n)
  BY FS_Interval
<1>2. HasMax(T)
  <2> DEFINE Q == {U \in SUBSET T : U = {} \/ HasMax(U)}
  <2>1. {} \in Q
    OBVIOUS
  <2>2. ASSUME NEW U \in SUBSET T, U \in Q, NEW z \in T \ U PROVE U \cup {z} \in Q
    <3>1. CASE U = {}
      BY <3>1
    <3>2. CASE HasMax(U)
      <4>1. PICK x \in U : \A y \in U : x >= y
        BY <3>2
      <4>2. HasMax(U \cup {z})
        BY <4>1
      <4> QED
        BY <4>2
    <3> QED
      BY <2>2, <3>1, <3>2
  <2> HIDE DEF Q
  <2>3. IsFiniteSet(T)
    BY <1>1, FS_Subset
  <2>4. T \in Q
    BY <2>1, <2>2, <2>3, SetsByInduction
  <2> QED
    BY <2>4 DEF Q
<1> QED
  BY <1>2 DEF Max

LEMMA MaxOfFirst == ASSUME NEW k \in Nat, k > 0 PROVE Max(1..k) = k
<1>1. Max(1..k) = CHOOSE x \in 1..k : \A y \in 1..k : x >= y
  BY DEF Max
<1>2. \A x \in 1..k : (\A y \in 1..k : x >= y) <=> x = k
  OBVIOUS
<1> QED
  BY <1>1, <1>2

\* The function that FoldLeft takes its value from, for steps between values in V.
IsFoldLeft(it, n, V, base, body) ==
    /\ it \in [SUBSET (1..n) -> V]
    /\ \A T \in SUBSET (1..n) :
         it[T] = IF T = {} THEN base ELSE body[Max(T)][it[T \ {Max(T)}]]

LEMMA FoldLeftExists ==
    ASSUME NEW n \in Nat, NEW V, NEW base \in V, NEW body \in [1..n -> [V -> V]]
    PROVE  \E it : IsFoldLeft(it, n, V, base, body)
<1>1. PICK c : \A T \in SUBSET (1..n) : c[T] = Max(T)
  <2>1. \A T \in SUBSET (1..n) : [U \in SUBSET (1..n) |-> Max(U)][T] = Max(T)
    OBVIOUS
  <2> QED
    BY <2>1
<1>2. IsFiniteSet(1..n)
  BY FS_Interval
<1>3. ASSUME NEW T \in SUBSET (1..n), T # {} PROVE c[T] \in T
  BY <1>1, <1>3, MaxIn
<1>4. PICK it : IsFold(it, 1..n, V, base, body, c)
  BY <1>2, <1>3, FoldExists, Zenon
<1>5. ASSUME NEW T \in SUBSET (1..n)
      PROVE  it[T] = IF T = {} THEN base ELSE body[Max(T)][it[T \ {Max(T)}]]
  <2>1. it[T] = IF T = {} THEN base ELSE body[c[T]][it[T \ {c[T]}]]
    BY <1>4 DEF IsFold
  <2>2. c[T] = Max(T)
    BY <1>1
  <2> QED
    BY <2>1, <2>2, Zenon
<1>6. it \in [SUBSET (1..n) -> V]
  BY <1>4 DEF IsFold
<1> QED
  BY <1>5, <1>6, Zenon DEF IsFoldLeft

\* Along the prefixes such a function is a walk, and stays in V.
LEMMA PrefixesStay ==
    ASSUME NEW n \in Nat, NEW V, NEW g, g[{}] \in V,
           \A k \in 1..n : g[1..(k - 1)] \in V => g[1..k] \in V
    PROVE  \A k \in 0..n : g[1..k] \in V
<1> DEFINE P == {k \in Nat : k <= n => g[1..k] \in V}
<1>1. 0 \in P
  BY 1..0 = {}
<1>2. ASSUME NEW k \in Nat, k \in P PROVE k + 1 \in P
  <2> SUFFICES ASSUME k + 1 <= n PROVE g[1..(k + 1)] \in V
    OBVIOUS
  <2>1. k + 1 \in 1..n /\ (k + 1) - 1 = k /\ g[1..k] \in V
    BY <1>2
  <2> QED
    BY <2>1
<1> HIDE DEF P
<1>3. Nat \subseteq P
  BY <1>1, <1>2, NumbersByInduction
<1> QED
  BY <1>3 DEF P

\* The function SumFunctionOnSet takes its value from.
Adds(it, f, S) ==
    it = [T \in SUBSET S |-> IF T = {} THEN 0
                             ELSE f[CHOOSE x \in T : TRUE] + it[T \ {CHOOSE x \in T : TRUE}]]

LEMMA SumDefined ==
    ASSUME NEW S, IsFiniteSet(S), NEW f, \A x \in S : f[x] \in Int
    PROVE  \E it : Adds(it, f, S) /\ SumFunctionOnSet(f, S) = it[S]
<1>1. PICK body \in [S -> [Int -> Int]] : \A x \in S : \A v \in Int : body[x][v] = f[x] + v
  <2>1. [x \in S |-> [v \in Int |-> f[x] + v]] \in [S -> [Int -> Int]]
    OBVIOUS
  <2> QED
    BY <2>1
<1>2. PICK c : \A T \in SUBSET S : c[T] = CHOOSE x \in T : TRUE
  <2>1. \A T \in SUBSET S :
          [U \in SUBSET S |-> CHOOSE x \in U : TRUE][T] = CHOOSE x \in T : TRUE
    OBVIOUS
  <2> QED
    BY <2>1
<1>3. \A T \in SUBSET S : T # {} => c[T] \in T
  BY <1>2
<1>4. PICK it : IsFold(it, S, Int, 0, body, c)
  <2>1. 0 \in Int
    OBVIOUS
  <2> QED
    BY <1>3, <2>1, FoldExists, Zenon
<1>5. it \in [SUBSET S -> Int]
  BY <1>4 DEF IsFold
<1>6. ASSUME NEW T \in SUBSET S
      PROVE  it[T] = IF T = {} THEN 0 ELSE f[c[T]] + it[T \ {c[T]}]
  <2>1. it[T] = IF T = {} THEN 0 ELSE body[c[T]][it[T \ {c[T]}]]
    BY <1>4 DEF IsFold
  <2>2. T # {} => c[T] \in S /\ it[T \ {c[T]}] \in Int
    BY <1>3, <1>5
  <2> QED
    BY <1>1, <2>1, <2>2
<1>7. Adds(it, f, S)
  <2>1. it = [T \in SUBSET S |-> it[T]]
    BY <1>5
  <2>2. \A T \in SUBSET S :
          it[T] = IF T = {} THEN 0
                  ELSE f[CHOOSE x \in T : TRUE] + it[T \ {CHOOSE x \in T : TRUE}]
    BY <1>2, <1>6
  <2> QED
    BY <2>1, <2>2 DEF Adds
<1>8. SumFunctionOnSet(f, S) = (CHOOSE g : Adds(g, f, S))[S]
  BY DEF SumFunctionOnSet, FoldFunctionOnSet, MapThenFoldSet, Adds
<1>9. Adds(CHOOSE g : Adds(g, f, S), f, S)
  BY <1>7
<1> QED
  BY <1>8, <1>9

\* A sum over a part of the set is the same wherever it is taken from.
LEMMA SumAgrees ==
    ASSUME NEW S, IsFiniteSet(S), NEW f, \A x \in S : f[x] \in Int,
           NEW it, Adds(it, f, S), NEW T \in SUBSET S
    PROVE  it[T] \in Int /\ it[T] = SumFunctionOnSet(f, T)
<1> DEFINE P == {n \in Nat : \A U \in SUBSET S : \A g : Adds(g, f, U) =>
                   \A R \in SUBSET U : Cardinality(R) = n =>
                     g[R] \in Int /\ g[R] = SumFunctionOnSet(f, R)}
<1>1. \A R \in SUBSET S : IsFiniteSet(R) /\ Cardinality(R) \in Nat
  BY FS_Subset, FS_CardinalityType
<1>2. \A U \in SUBSET S : \A g : Adds(g, f, U) =>
        \A R \in SUBSET U : g[R] =
          IF R = {} THEN 0 ELSE f[CHOOSE x \in R : TRUE] + g[R \ {CHOOSE x \in R : TRUE}]
  BY DEF Adds
<1>3. \A R \in SUBSET S : \E g : Adds(g, f, R) /\ SumFunctionOnSet(f, R) = g[R]
  BY <1>1, SumDefined
<1>4. 0 \in P
  <2>1. \A R \in SUBSET S : Cardinality(R) = 0 => R = {}
    BY <1>1, FS_EmptySet
  <2>2. \A U \in SUBSET S : \A g : Adds(g, f, U) => g[{}] = 0
    BY <1>2
  <2>3. SumFunctionOnSet(f, {}) = 0
    BY <1>3, <2>2
  <2> QED
    BY <2>1, <2>2, <2>3
<1>5. ASSUME NEW n \in Nat, n \in P PROVE n + 1 \in P
  <2> SUFFICES ASSUME NEW U \in SUBSET S, NEW g, Adds(g, f, U), NEW R \in SUBSET U,
                      Cardinality(R) = n + 1
               PROVE  g[R] \in Int /\ g[R] = SumFunctionOnSet(f, R)
    OBVIOUS
  <2> DEFINE x == CHOOSE x \in R : TRUE
  <2>1. R # {}
    BY FS_EmptySet
  <2>2. x \in R /\ x \in S
    BY <2>1
  <2>3. R \ {x} \in SUBSET U /\ R \ {x} \in SUBSET R /\ R \in SUBSET S
    OBVIOUS
  <2>4. Cardinality(R \ {x}) = n
    <3>1. Cardinality(R \ {x}) = Cardinality(R) - 1
      BY <1>1, <2>2, FS_RemoveElement
    <3> QED
      BY <3>1
  <2>5. PICK h : Adds(h, f, R) /\ SumFunctionOnSet(f, R) = h[R]
    BY <1>3
  <2>6. g[R] = f[x] + g[R \ {x}] /\ h[R] = f[x] + h[R \ {x}]
    <3>1. g[R] = IF R = {} THEN 0 ELSE f[x] + g[R \ {x}]
      BY <1>2
    <3>2. h[R] = IF R = {} THEN 0 ELSE f[x] + h[R \ {x}]
      BY <1>2, <2>3, <2>5
    <3> QED
      BY <2>1, <3>1, <3>2
  <2>7. /\ g[R \ {x}] \in Int /\ g[R \ {x}] = SumFunctionOnSet(f, R \ {x})
        /\ h[R \ {x}] = SumFunctionOnSet(f, R \ {x})
    BY <1>5, <2>3, <2>4, <2>5
  <2> QED
    BY <2>2, <2>5, <2>6, <2>7
<1> HIDE DEF P
<1>6. Nat \subseteq P
  BY <1>4, <1>5, NumbersByInduction
<1>7. Cardinality(T) \in P
  BY <1>1, <1>6
<1> QED
  BY <1>7 DEF P

LEMMA SumEmpty == ASSUME NEW f PROVE SumFunctionOnSet(f, {}) = 0
<1>1. PICK it : Adds(it, f, {}) /\ SumFunctionOnSet(f, {}) = it[{}]
  BY FS_EmptySet, SumDefined
<1> QED
  BY <1>1 DEF Adds

\* Any element can be taken out.
LEMMA SumRemove ==
    ASSUME NEW S, IsFiniteSet(S), NEW f, \A x \in S : f[x] \in Int, NEW y \in S
    PROVE  /\ SumFunctionOnSet(f, S) \in Int /\ SumFunctionOnSet(f, S \ {y}) \in Int
           /\ SumFunctionOnSet(f, S) = f[y] + SumFunctionOnSet(f, S \ {y})
<1> DEFINE V(T) == SumFunctionOnSet(f, T)
           first(T) == CHOOSE x \in T : TRUE
           P == {n \in Nat : \A T \in SUBSET S : Cardinality(T) = n =>
                               \A x \in T : V(T) = f[x] + V(T \ {x})}
<1>1. \A T \in SUBSET S : IsFiniteSet(T) /\ Cardinality(T) \in Nat
  BY FS_Subset, FS_CardinalityType
<1>2. PICK it : Adds(it, f, S)
  BY SumDefined
<1>3. \A T \in SUBSET S : V(T) \in Int /\ V(T) = it[T]
  BY <1>2, SumAgrees
<1>4. ASSUME NEW T \in SUBSET S, T # {}
      PROVE  first(T) \in T /\ V(T) = f[first(T)] + V(T \ {first(T)})
  <2>1. it[T] = f[first(T)] + it[T \ {first(T)}]
    BY <1>2, <1>4 DEF Adds
  <2> HIDE DEF V
  <2> QED
    BY <1>3, <1>4, <2>1
<1> HIDE DEF V, first
<1>5. 0 \in P
  <2>1. \A T \in SUBSET S : Cardinality(T) = 0 => T = {}
    BY <1>1, FS_EmptySet
  <2> QED
    BY <2>1
<1>6. ASSUME NEW n \in Nat, n \in P PROVE n + 1 \in P
  <2> SUFFICES ASSUME NEW T \in SUBSET S, Cardinality(T) = n + 1, NEW x \in T
               PROVE  V(T) = f[x] + V(T \ {x})
    OBVIOUS
  <2> DEFINE z == first(T)
  <2>1. z \in T /\ V(T) = f[z] + V(T \ {z})
    BY <1>4
  <2>2. CASE x # z
    <3>1. x \in T \ {z} /\ z \in T \ {x} /\ T \ {z} \in SUBSET S /\ T \ {x} \in SUBSET S
      BY <2>1, <2>2
    <3>2. Cardinality(T \ {z}) = n /\ Cardinality(T \ {x}) = n
      <4>1. Cardinality(T \ {z}) = Cardinality(T) - 1 /\ Cardinality(T \ {x}) = Cardinality(T) - 1
        BY <1>1, <2>1, FS_RemoveElement
      <4> QED
        BY <4>1
    <3>3. V(T \ {z}) = f[x] + V((T \ {z}) \ {x}) /\ V(T \ {x}) = f[z] + V((T \ {x}) \ {z})
      BY <1>6, <3>1, <3>2
    <3>4. (T \ {z}) \ {x} = (T \ {x}) \ {z} /\ (T \ {x}) \ {z} \in SUBSET S
      OBVIOUS
    <3>5. PICK v \in Int : v = V((T \ {x}) \ {z}) /\ v = V((T \ {z}) \ {x})
      BY <1>3, <3>4
    <3>6. f[x] \in Int /\ f[z] \in Int
      BY <2>1
    <3>7. V(T) = f[z] + (f[x] + v) /\ V(T \ {x}) = f[z] + v
      BY <2>1, <3>3, <3>5
    <3> QED
      BY <3>5, <3>6, <3>7
  <2> QED
    BY <2>1, <2>2
<1> HIDE DEF P
<1>7. Nat \subseteq P
  BY <1>5, <1>6, NumbersByInduction
<1>8. V(S) = f[y] + V(S \ {y})
  BY <1>1, <1>7 DEF P
<1> QED
  BY <1>3, <1>8 DEF V

LEMMA SumType ==
    ASSUME NEW S, IsFiniteSet(S), NEW f, \A x \in S : f[x] \in Int
    PROVE  SumFunctionOnSet(f, S) \in Int
<1>1. CASE S = {}
  BY <1>1, SumEmpty
<1>2. CASE S # {}
  BY <1>2, SumRemove
<1> QED
  BY <1>1, <1>2

\* A sum of values that are all higher by c.
LEMMA SumRaised ==
    ASSUME NEW S, IsFiniteSet(S), NEW c \in Int, NEW f, NEW g,
           \A x \in S : f[x] \in Int /\ g[x] = f[x] + c
    PROVE  SumFunctionOnSet(g, S) = SumFunctionOnSet(f, S) + c * Cardinality(S)
<1> DEFINE F(T) == SumFunctionOnSet(f, T)
           G(T) == SumFunctionOnSet(g, T)
           P == {T \in SUBSET S : G(T) = F(T) + c * Cardinality(T)}
<1>1. \A T \in SUBSET S : IsFiniteSet(T) /\ Cardinality(T) \in Nat
  BY FS_Subset, FS_CardinalityType
<1>2. \A x \in S : f[x] \in Int /\ g[x] \in Int
  OBVIOUS
<1>3. F({}) = 0 /\ G({}) = 0 /\ Cardinality({}) = 0
  BY SumEmpty, FS_EmptySet
<1>4. ASSUME NEW T \in SUBSET S, NEW x \in S \ T
      PROVE  /\ F(T) \in Int /\ F(T \cup {x}) = f[x] + F(T)
             /\ G(T) \in Int /\ G(T \cup {x}) = g[x] + G(T)
             /\ Cardinality(T \cup {x}) = Cardinality(T) + 1
  <2>1. T \cup {x} \in SUBSET S /\ (T \cup {x}) \ {x} = T /\ x \in T \cup {x}
    BY <1>4
  <2>2. /\ F(T) \in Int /\ F(T \cup {x}) = f[x] + F(T)
        /\ G(T) \in Int /\ G(T \cup {x}) = g[x] + G(T)
    <3>1. IsFiniteSet(T \cup {x}) /\ \A y \in T \cup {x} : f[y] \in Int /\ g[y] \in Int
      BY <1>1, <1>2, <2>1
    <3> QED
      BY <2>1, <3>1, SumRemove
  <2>3. Cardinality(T \cup {x}) = Cardinality(T) + 1
    BY <1>1, FS_AddElement
  <2> QED
    BY <2>2, <2>3
<1> HIDE DEF F, G
<1>5. {} \in P
  BY <1>3
<1>6. ASSUME NEW T \in SUBSET S, T \in P, NEW x \in S \ T
      PROVE  T \cup {x} \in P
  <2>1. PICK n \in Nat : n = Cardinality(T)
    BY <1>1
  <2>2. G(T) = F(T) + c * n /\ F(T) \in Int /\ c * n \in Int
    <3>1. G(T) = F(T) + c * Cardinality(T)
      BY <1>6
    <3>2. F(T) \in Int
      BY <1>4, <1>6
    <3>3. c * n \in Int
      OBVIOUS
    <3> HIDE DEF P
    <3> QED
      BY <2>1, <3>1, <3>2, <3>3
  <2>3. c * (n + 1) = c * n + c
    OBVIOUS
  <2>4. G(T \cup {x}) = F(T \cup {x}) + c * (n + 1)
    BY <1>2, <1>4, <2>2, <2>3
  <2> QED
    BY <1>4, <2>1, <2>4
<1> HIDE DEF P
<1>7. S \in P
  BY <1>5, <1>6, SetsByInduction
<1> QED
  BY <1>7 DEF P, F, G

LEMMA SumSame ==
    ASSUME NEW S, IsFiniteSet(S), NEW f, NEW g, \A x \in S : f[x] \in Int /\ g[x] = f[x]
    PROVE  SumFunctionOnSet(g, S) = SumFunctionOnSet(f, S)
<1>1. SumFunctionOnSet(g, S) = SumFunctionOnSet(f, S) + 0 * Cardinality(S)
  <2>1. 0 \in Int /\ \A x \in S : f[x] \in Int /\ g[x] = f[x] + 0
    OBVIOUS
  <2> QED
    BY <2>1, SumRaised
<1> QED
  BY <1>1, SumType, FS_CardinalityType

LEMMA ZeroSum ==
    ASSUME NEW S, IsFiniteSet(S), NEW f, \A x \in S : f[x] = 0
    PROVE  SumFunctionOnSet(f, S) = 0
<1> DEFINE F(T) == SumFunctionOnSet(f, T)
           P == {T \in SUBSET S : F(T) = 0}
<1>1. {} \in P
  BY SumEmpty
<1>2. ASSUME NEW T \in SUBSET S, T \in P, NEW x \in S \ T
      PROVE  T \cup {x} \in P
  <2>1. PICK U \in SUBSET S : U = T \cup {x} /\ x \in U /\ U \ {x} = T
    <3>1. T \cup {x} \in SUBSET S /\ x \in T \cup {x} /\ (T \cup {x}) \ {x} = T
      BY <1>2
    <3> QED
      BY <3>1
  <2>2. IsFiniteSet(U) /\ \A y \in U : f[y] \in Int
    BY FS_Subset
  <2>3. F(U) = f[x] + F(U \ {x})
    BY <2>1, <2>2, SumRemove
  <2> HIDE DEF F
  <2>4. F(U) = 0
    BY <1>2, <2>1, <2>3
  <2> QED
    BY <2>1, <2>4
<1> HIDE DEF P
<1>3. S \in P
  BY <1>1, <1>2, SetsByInduction
<1> QED
  BY <1>3 DEF P

\* A sum of which one value has changed.
LEMMA SumChanged ==
    ASSUME NEW S, IsFiniteSet(S), NEW f, NEW g, NEW y \in S,
           \A x \in S : f[x] \in Int /\ g[x] \in Int /\ (x # y => g[x] = f[x])
    PROVE  SumFunctionOnSet(g, S) = SumFunctionOnSet(f, S) + g[y] - f[y]
<1>1. IsFiniteSet(S \ {y})
  BY FS_Subset
<1>2. SumFunctionOnSet(g, S \ {y}) = SumFunctionOnSet(f, S \ {y})
  BY <1>1, SumSame
<1>3. /\ SumFunctionOnSet(f, S) = f[y] + SumFunctionOnSet(f, S \ {y})
      /\ SumFunctionOnSet(g, S) = g[y] + SumFunctionOnSet(g, S \ {y})
      /\ SumFunctionOnSet(f, S \ {y}) \in Int
  BY SumRemove
<1> QED
  BY <1>2, <1>3

LEMMA SumNext ==
    ASSUME NEW n \in Nat, NEW f, \A k \in 1..(n + 1) : f[k] \in Int
    PROVE  /\ SumFunctionOnSet(f, 1..n) \in Int
           /\ SumFunctionOnSet(f, 1..(n + 1)) = f[n + 1] + SumFunctionOnSet(f, 1..n)
<1>1. PICK S : S = 1..(n + 1)
  OBVIOUS
<1>2. S \ {n + 1} = 1..n /\ n + 1 \in S
  BY <1>1
<1>3. IsFiniteSet(S) /\ \A k \in S : f[k] \in Int
  BY <1>1, FS_Interval
<1>4. /\ SumFunctionOnSet(f, S \ {n + 1}) \in Int
      /\ SumFunctionOnSet(f, S) = f[n + 1] + SumFunctionOnSet(f, S \ {n + 1})
  BY <1>2, <1>3, SumRemove
<1> QED
  BY <1>1, <1>2, <1>4

\* A sum along a sequence that is cut in two.
LEMMA SumSplit ==
    ASSUME NEW n \in Nat, NEW m \in Nat, NEW f, NEW g,
           \A k \in 1..(n + m) : f[k] \in Int,
           \A k \in 1..m : g[k] = f[n + k]
    PROVE  SumFunctionOnSet(f, 1..(n + m)) =
             SumFunctionOnSet(f, 1..n) + SumFunctionOnSet(g, 1..m)
<1> DEFINE F(k) == SumFunctionOnSet(f, 1..k)
           G(k) == SumFunctionOnSet(g, 1..k)
           P == {k \in Nat : k <= m => F(n + k) = F(n) + G(k)}
<1>1. \A k \in 0..(n + m) : F(k) \in Int
  <2>1. ASSUME NEW k \in 0..(n + m) PROVE F(k) \in Int
    <3>1. IsFiniteSet(1..k) /\ \A j \in 1..k : f[j] \in Int
      BY FS_Interval
    <3> QED
      BY <3>1, SumType
  <2> QED
    BY <2>1
<1>2. 0 \in P
  <2>1. G(0) = 0
    <3>1. 1..0 = {}
      OBVIOUS
    <3> QED
      BY <3>1, SumEmpty
  <2> HIDE DEF F, G
  <2> QED
    BY <1>1, <2>1
<1>3. ASSUME NEW k \in Nat, k \in P PROVE k + 1 \in P
  <2> SUFFICES ASSUME k + 1 <= m PROVE F(n + (k + 1)) = F(n) + G(k + 1)
    OBVIOUS
  <2>1. F((n + k) + 1) = f[(n + k) + 1] + F(n + k)
    <3>1. \A j \in 1..((n + k) + 1) : f[j] \in Int
      OBVIOUS
    <3> QED
      BY <3>1, SumNext
  <2>2. G(k + 1) = g[k + 1] + G(k) /\ G(k) \in Int
    <3>1. \A j \in 1..(k + 1) : j \in 1..m /\ n + j \in 1..(n + m)
      OBVIOUS
    <3>2. \A j \in 1..(k + 1) : g[j] \in Int
      BY <3>1
    <3> QED
      BY <3>2, SumNext
  <2>3. g[k + 1] = f[(n + k) + 1] /\ g[k + 1] \in Int /\ n + (k + 1) = (n + k) + 1
    OBVIOUS
  <2>4. n \in 0..(n + m) /\ F(n) \in Int
    BY <1>1
  <2> HIDE DEF F, G
  <2>5. F(n + k) = F(n) + G(k)
    BY <1>3
  <2> QED
    BY <2>1, <2>2, <2>3, <2>4, <2>5
<1> HIDE DEF P
<1>4. Nat \subseteq P
  BY <1>2, <1>3, NumbersByInduction
<1> QED
  BY <1>4 DEF P

\* The same for every part of the second piece.
Pieces(f, g, n, m) ==
    (\A j \in 1..(n + m) : f[j] \in Int) /\ (\A j \in 1..m : g[j] = f[n + j])
SumsOfPieces(f, g, n, m) ==
    \A k \in 0..m :
      /\ SumFunctionOnSet(g, 1..k) \in Int
      /\ SumFunctionOnSet(f, 1..(n + k)) =
           SumFunctionOnSet(f, 1..n) + SumFunctionOnSet(g, 1..k)

LEMMA SumsSplit ==
    ASSUME NEW n \in Nat, NEW m \in Nat, NEW f, NEW g, Pieces(f, g, n, m)
    PROVE  SumsOfPieces(f, g, n, m)
<1> SUFFICES ASSUME NEW k \in 0..m
             PROVE  /\ SumFunctionOnSet(g, 1..k) \in Int
                    /\ SumFunctionOnSet(f, 1..(n + k)) =
                         SumFunctionOnSet(f, 1..n) + SumFunctionOnSet(g, 1..k)
  BY DEF SumsOfPieces
<1>1. k \in Nat /\ (\A j \in 1..(n + k) : j \in 1..(n + m)) /\ (\A j \in 1..k : j \in 1..m)
  OBVIOUS
<1>2. /\ \A j \in 1..(n + k) : f[j] \in Int
      /\ \A j \in 1..k : g[j] = f[n + j]
  BY <1>1 DEF Pieces
<1>3. \A j \in 1..k : g[j] \in Int
  BY <1>2
<1>4. IsFiniteSet(1..k)
  BY <1>1, FS_Interval
<1>5. SumFunctionOnSet(f, 1..(n + k)) = SumFunctionOnSet(f, 1..n) + SumFunctionOnSet(g, 1..k)
  BY <1>1, <1>2, SumSplit
<1> QED
  BY <1>3, <1>4, <1>5, SumType

-----------------------------------------------------------------------------
(* Powers of two, as numbers of subsets *)

LEMMA PowerCounts ==
    ASSUME NEW n \in Nat
    PROVE  /\ IsFiniteSet(SUBSET (1..n)) /\ Cardinality(SUBSET (1..n)) = 2 ^ n
           /\ 2 ^ n \in Nat /\ 2 ^ n > 0
<1>1. IsFiniteSet(1..n) /\ Cardinality(1..n) = n
  BY FS_Interval
<1>2. IsFiniteSet(SUBSET (1..n)) /\ Cardinality(SUBSET (1..n)) = 2 ^ n
  BY <1>1, FS_SUBSET
<1>3. Cardinality(SUBSET (1..n)) \in Nat
  BY <1>2, FS_CardinalityType
<1>4. Cardinality(SUBSET (1..n)) # 0
  <2>1. SUBSET (1..n) # {}
    OBVIOUS
  <2> QED
    BY <1>2, <2>1, FS_EmptySet
<1> DEFINE c == Cardinality(SUBSET (1..n))
<1>5. c > 0
  <2>1. c \in Nat /\ c # 0
    BY <1>3, <1>4
  <2> HIDE DEF c
  <2> QED
    BY <2>1
<1> QED
  BY <1>2, <1>3, <1>5

\* A subset of 1..(n + 1) has the last number or not.
LEMMA PowerDoubles ==
    ASSUME NEW n \in Nat
    PROVE  2 ^ (n + 1) = 2 * 2 ^ n
<1> DEFINE without == SUBSET (1..n)
           with == {B \cup {n + 1} : B \in without}
           f == [B \in without |-> B \cup {n + 1}]
<1>1. IsFiniteSet(without) /\ Cardinality(without) = 2 ^ n /\ 2 ^ n \in Nat
  BY PowerCounts
<1>2. n + 1 \in Nat /\ n + 1 \notin 1..n /\ 1..(n + 1) = (1..n) \cup {n + 1}
  OBVIOUS
<1>3. Cardinality(SUBSET (1..(n + 1))) = 2 ^ (n + 1)
  BY <1>2, PowerCounts
<1>4. SUBSET (1..(n + 1)) = without \cup with
  <2>1. ASSUME NEW B \in SUBSET (1..(n + 1)) PROVE B \in without \cup with
    <3>1. CASE n + 1 \notin B
      BY <1>2, <3>1
    <3>2. CASE n + 1 \in B
      <4>1. B \ {n + 1} \in without /\ B = (B \ {n + 1}) \cup {n + 1}
        BY <1>2, <3>2
      <4> QED
        BY <4>1
    <3> QED
      BY <3>1, <3>2
  <2>2. ASSUME NEW B \in without PROVE B \subseteq 1..(n + 1) /\ B \cup {n + 1} \subseteq 1..(n + 1)
    BY <1>2
  <2>3. ASSUME NEW B \in without \cup with PROVE B \in SUBSET (1..(n + 1))
    BY <2>2
  <2> HIDE DEF without, with
  <2> QED
    BY <2>1, <2>3
<1>5. without \cap with = {}
  BY <1>2
<1>6. IsFiniteSet(with) /\ Cardinality(with) = Cardinality(without)
  <2>1. f \in [without -> with] /\ \A y \in with : \E B \in without : f[B] = y
    OBVIOUS
  <2>2. ASSUME NEW A \in without, NEW B \in without, f[A] = f[B] PROVE A = B
    <3>1. A \cup {n + 1} = B \cup {n + 1}
      BY <2>2
    <3>2. n + 1 \notin A /\ n + 1 \notin B
      BY <1>2
    <3> QED
      BY <3>1, <3>2
  <2> HIDE DEF f, with, without
  <2>3. f \in Bijection(without, with)
    BY <2>1, <2>2 DEF Bijection, Injection, Surjection, IsInjective
  <2>4. ExistsBijection(without, with)
    BY <2>3 DEF ExistsBijection
  <2> QED
    BY <1>1, <2>4, FS_Bijection
<1> HIDE DEF without, with
<1>7. Cardinality(without \cup with) = Cardinality(without) + Cardinality(with) - Cardinality({})
  BY <1>1, <1>5, <1>6, FS_Union
<1>8. PICK a, b, k : /\ a = 2 ^ n /\ b = 2 ^ (n + 1) /\ k = Cardinality(without)
  OBVIOUS
<1>9. a \in Nat /\ k = a /\ b = k + k - 0
  BY <1>1, <1>3, <1>4, <1>6, <1>7, <1>8, FS_EmptySet, Zenon
<1>10. b = 2 * a
  BY <1>9
<1> QED
  BY <1>8, <1>10, Zenon

=============================================================================
