----------------------------- MODULE DataLemmas -----------------------------
(***************************************************************************)
(* Induction over finite sets and recursion up to a number, and facts      *)
(* about the sums of module Functions: what adding, taking away, changing  *)
(* and renaming terms does to SumFunction, for functions and for the rows  *)
(* of a log.  Facts about lists of SQL statements: what they make of the   *)
(* rows, in one go and one part after the other.                           *)
(***************************************************************************)
EXTENDS Statements, Functions, FiniteSetTheorems, TLAPS

-----------------------------------------------------------------------------
(* Induction, for a set instead of a predicate, and recursion, for a       *)
(* function instead of an operator.                                        *)

\* The least-counterexample form of induction over the subsets of a finite set.
LEMMA SmallestSet ==
  ASSUME NEW S, IsFiniteSet(S), NEW Bad, Bad \subseteq SUBSET S, Bad # {}
  PROVE  \E T \in Bad : \A x \in T : T \ {x} \notin Bad
<1> DEFINE R == StrictSubsetOrdering(S)
<1>1. IsWellFoundedOn(R, SUBSET S)
  BY FS_StrictSubsetOrderingWellFounded, FS_FiniteSubsetsOfFinite
<1>2. PICK T \in Bad : \A U \in Bad : <<U, T>> \notin R
  <2> HIDE DEF R
  <2>1. QED BY <1>1, WFMin
<1>3. ASSUME NEW x \in T
      PROVE  T \ {x} # T /\ T \ {x} \subseteq T /\ T \ {x} \in SUBSET S
  OBVIOUS
<1>4. ASSUME NEW x \in T, T \ {x} \in Bad
      PROVE  FALSE
  <2>1. <<T \ {x}, T>> \in R
    BY <1>3 DEF StrictSubsetOrdering
  <2>2. QED BY <1>2, <1>4, <2>1
<1>5. QED BY <1>4

\* Induction over a finite set, for a family of sets instead of a predicate.
LEMMA FiniteInduction ==
  ASSUME NEW S, IsFiniteSet(S), NEW G,
         {} \in G,
         \A T \in SUBSET S : \A x \in S \ T : T \in G => T \cup {x} \in G
  PROVE  S \in G
<1> DEFINE Bad == {T \in SUBSET S : T \notin G}
<1>1. SUFFICES ASSUME S \notin G PROVE FALSE
  OBVIOUS
<1>2. Bad \subseteq SUBSET S /\ Bad # {}
  BY <1>1
<1>3. PICK T \in Bad : \A x \in T : T \ {x} \notin Bad
  <2> HIDE DEF Bad
  <2>1. QED BY <1>2, SmallestSet
<1>4. PICK x \in T : TRUE
  OBVIOUS
<1>5. T = (T \ {x}) \cup {x} /\ T \ {x} \in SUBSET S /\ x \in S \ (T \ {x})
  OBVIOUS
<1>6. T \ {x} \in G => T \in G
  <2>1. T \ {x} \in G => (T \ {x}) \cup {x} \in G
    BY <1>5
  <2>2. QED BY <1>5, <2>1
<1>7. QED BY <1>3, <1>5, <1>6

\* Induction up to n, for a set instead of a predicate.
LEMMA Climb ==
  ASSUME NEW n \in Nat, NEW G, 0 \in G, \A k \in 0 .. (n - 1) : k \in G => k + 1 \in G
  PROVE  \A k \in 0 .. n : k \in G
<1> DEFINE Bad == {1 .. k : k \in {i \in 0 .. n : i \notin G}}
<1>1. SUFFICES ASSUME \E k \in 0 .. n : k \notin G PROVE FALSE
  OBVIOUS
<1>2. Bad \subseteq SUBSET (1 .. n) /\ Bad # {}
  BY <1>1
<1>3. PICK T \in Bad : \A x \in T : T \ {x} \notin Bad
  <2>1. IsFiniteSet(1 .. n)
    BY FS_Interval
  <2> HIDE DEF Bad
  <2>2. QED BY <1>2, <2>1, SmallestSet
<1>4. PICK k \in 0 .. n : k \notin G /\ T = 1 .. k
  OBVIOUS
<1>5. k # 0 /\ k - 1 \in 0 .. (n - 1) /\ (k - 1) + 1 = k
  BY <1>4
<1>6. k - 1 \notin G
  BY <1>4, <1>5
<1>7. 1 .. (k - 1) \in Bad
  BY <1>5, <1>6
<1>8. (1 .. k) \ {k} = 1 .. (k - 1) /\ k \in 1 .. k
  BY <1>5
<1>9. QED BY <1>3, <1>4, <1>7, <1>8

\* The values of f are made by g step by step, from the first one.
Follows(f, S, n, first, g) ==
  f \in [0 .. n -> S] /\ f[0] = first /\ \A i \in 1 .. n : f[i] = g[<<i, f[i - 1]>>]

\* Such a function exists.
LEMMA Recursion ==
  ASSUME NEW S, NEW n \in Nat, NEW first \in S, NEW g, g \in [(1 .. n) \X S -> S]
  PROVE  \E f : Follows(f, S, n, first, g)
<1> DEFINE Up(k, f) == f[0] = first /\ \A i \in 1 .. k : f[i] = g[<<i, f[i - 1]>>]
           G == {k \in 0 .. n : \E f \in [0 .. k -> S] : Up(k, f)}
<1>1. 0 \in G
  <2> DEFINE h == [i \in 0 .. 0 |-> first]
  <2>1. h \in [0 .. 0 -> S] /\ h[0] = first
    OBVIOUS
  <2>2. \A i \in 1 .. 0 : h[i] = g[<<i, h[i - 1]>>]
    <3>1. 1 .. 0 = {}
      OBVIOUS
    <3>2. QED BY <3>1
  <2> HIDE DEF h
  <2>3. Up(0, h) /\ 0 \in 0 .. n
    BY <2>1, <2>2
  <2>4. QED BY <2>1, <2>3
<1>2. ASSUME NEW k \in 0 .. (n - 1), k \in G
      PROVE  k + 1 \in G
  <2>1. PICK f \in [0 .. k -> S] : Up(k, f)
    BY <1>2
  <2> DEFINE h == [i \in 0 .. (k + 1) |-> IF i = k + 1 THEN g[<<k + 1, f[k]>>] ELSE f[i]]
  <2>2. g[<<k + 1, f[k]>>] \in S
    <3>1. <<k + 1, f[k]>> \in (1 .. n) \X S
      OBVIOUS
    <3>2. QED BY <3>1
  <2>3. h \in [0 .. (k + 1) -> S]
    BY <2>2
  <2>4. h[0] = first
    BY <2>1
  <2>5. ASSUME NEW i \in 1 .. (k + 1)
        PROVE  h[i] = g[<<i, h[i - 1]>>]
    <3>1. CASE i = k + 1
      <4>1. k \in 0 .. (k + 1) /\ k # k + 1 /\ i - 1 = k
        BY <3>1
      <4>2. h[i] = g[<<k + 1, f[k]>>] /\ h[k] = f[k]
        BY <3>1, <4>1
      <4>3. QED BY <3>1, <4>1, <4>2
    <3>2. CASE i # k + 1
      <4>1. i \in 1 .. k /\ i - 1 \in 0 .. k /\ i - 1 # k + 1 /\ i \in 0 .. (k + 1)
            /\ i - 1 \in 0 .. (k + 1)
        BY <3>2
      <4>2. h[i] = f[i] /\ h[i - 1] = f[i - 1]
        BY <3>2, <4>1
      <4>3. QED BY <2>1, <4>1, <4>2
    <3>3. QED BY <3>1, <3>2
  <2> HIDE DEF h
  <2>6. Up(k + 1, h) /\ k + 1 \in 0 .. n
    BY <2>4, <2>5
  <2>7. QED BY <2>3, <2>6
<1> HIDE DEF G
<1>3. n \in G
  BY <1>1, <1>2, Climb
<1>4. PICK f \in [0 .. n -> S] : Up(n, f)
  BY <1>3 DEF G
<1>5. QED BY <1>4 DEF Follows

-----------------------------------------------------------------------------
(* Sums.  SumFunction folds a recursive function over the domain; here it  *)
(* is shown to count points, so that a term can be added or taken away.    *)

\* A sum counts the points under the graph of f, those above zero and those below.
Above(f, S) == {p \in S \X Nat : 1 <= p[2] /\ p[2] <= f[p[1]]}
Below(f, S) == {p \in S \X Nat : 1 <= p[2] /\ p[2] <= -f[p[1]]}
Count(f, S) == Cardinality(Above(f, S)) - Cardinality(Below(f, S))

LEMMA Column ==
  ASSUME NEW x, NEW n \in Int
  PROVE  /\ IsFiniteSet({x} \X (1 .. n))
         /\ Cardinality({x} \X (1 .. n)) = IF n >= 0 THEN n ELSE 0
<1>1. IsFiniteSet({x}) /\ Cardinality({x}) = 1
  BY FS_Singleton
<1>2. IsFiniteSet(1 .. n) /\ Cardinality(1 .. n) = IF 1 > n THEN 0 ELSE n - 1 + 1
  BY FS_Interval
<1>3. /\ IsFiniteSet({x} \X (1 .. n))
      /\ Cardinality({x} \X (1 .. n)) = Cardinality({x}) * Cardinality(1 .. n)
  BY <1>1, <1>2, FS_Product
<1>4. QED BY <1>1, <1>2, <1>3

LEMMA AboveAdd ==
  ASSUME NEW f, NEW S, NEW x, x \notin S, f[x] \in Int, IsFiniteSet(Above(f, S))
  PROVE  /\ IsFiniteSet(Above(f, S \cup {x}))
         /\ Cardinality(Above(f, S \cup {x})) =
              Cardinality(Above(f, S)) + IF f[x] >= 0 THEN f[x] ELSE 0
<1> DEFINE C == {x} \X (1 .. f[x])
<1>1. Above(f, S \cup {x}) = Above(f, S) \cup C
  BY DEF Above
<1>2. Above(f, S) \cap C = {}
  BY DEF Above
<1>3. IsFiniteSet(C) /\ Cardinality(C) = IF f[x] >= 0 THEN f[x] ELSE 0
  BY Column
<1> HIDE DEF C
<1>4. Cardinality(Above(f, S)) \in Nat /\ Cardinality(C) \in Nat /\ Cardinality({}) = 0
  BY <1>3, FS_CardinalityType, FS_EmptySet
<1>5. /\ IsFiniteSet(Above(f, S) \cup C)
      /\ Cardinality(Above(f, S) \cup C) =
           Cardinality(Above(f, S)) + Cardinality(C) - Cardinality(Above(f, S) \cap C)
  BY <1>3, FS_Union
<1>6. Cardinality(Above(f, S \cup {x})) = Cardinality(Above(f, S)) + Cardinality(C)
  <2>1. Cardinality(Above(f, S) \cap C) = 0
    BY <1>2, <1>4
  <2>2. Cardinality(Above(f, S) \cup C) = Cardinality(Above(f, S)) + Cardinality(C)
    BY <1>4, <1>5, <2>1
  <2>3. QED BY <1>1, <2>2
<1>7. IsFiniteSet(Above(f, S \cup {x}))
  BY <1>1, <1>5
<1>8. QED BY <1>3, <1>6, <1>7

LEMMA BelowAdd ==
  ASSUME NEW f, NEW S, NEW x, x \notin S, f[x] \in Int, IsFiniteSet(Below(f, S))
  PROVE  /\ IsFiniteSet(Below(f, S \cup {x}))
         /\ Cardinality(Below(f, S \cup {x})) =
              Cardinality(Below(f, S)) + IF f[x] >= 0 THEN 0 ELSE -f[x]
<1> DEFINE C == {x} \X (1 .. (-f[x]))
<1>1. Below(f, S \cup {x}) = Below(f, S) \cup C
  BY DEF Below
<1>2. Below(f, S) \cap C = {}
  BY DEF Below
<1>3. IsFiniteSet(C) /\ Cardinality(C) = IF f[x] >= 0 THEN 0 ELSE -f[x]
  <2>1. -f[x] \in Int
    OBVIOUS
  <2>2. IsFiniteSet(C) /\ Cardinality(C) = IF -f[x] >= 0 THEN -f[x] ELSE 0
    BY <2>1, Column
  <2>3. QED BY <2>2
<1> HIDE DEF C
<1>4. Cardinality(Below(f, S)) \in Nat /\ Cardinality(C) \in Nat /\ Cardinality({}) = 0
  BY <1>3, FS_CardinalityType, FS_EmptySet
<1>5. /\ IsFiniteSet(Below(f, S) \cup C)
      /\ Cardinality(Below(f, S) \cup C) =
           Cardinality(Below(f, S)) + Cardinality(C) - Cardinality(Below(f, S) \cap C)
  BY <1>3, FS_Union
<1>6. Cardinality(Below(f, S \cup {x})) = Cardinality(Below(f, S)) + Cardinality(C)
  <2>1. Cardinality(Below(f, S) \cap C) = 0
    BY <1>2, <1>4
  <2>2. Cardinality(Below(f, S) \cup C) = Cardinality(Below(f, S)) + Cardinality(C)
    BY <1>4, <1>5, <2>1
  <2>3. QED BY <1>1, <2>2
<1>7. IsFiniteSet(Below(f, S \cup {x}))
  BY <1>1, <1>5
<1>8. QED BY <1>3, <1>6, <1>7

LEMMA Counts ==
  ASSUME NEW f, NEW S, IsFiniteSet(S), \A x \in S : f[x] \in Int
  PROVE  IsFiniteSet(Above(f, S)) /\ IsFiniteSet(Below(f, S))
<1> DEFINE G == {T \in SUBSET S : IsFiniteSet(Above(f, T)) /\ IsFiniteSet(Below(f, T))}
<1>1. {} \in G
  <2>1. Above(f, {}) = {} /\ Below(f, {}) = {}
    BY DEF Above, Below
  <2>2. QED BY <2>1, FS_EmptySet
<1>2. ASSUME NEW T \in SUBSET S, NEW x \in S \ T, T \in G
      PROVE  T \cup {x} \in G
  BY <1>2, AboveAdd, BelowAdd
<1> HIDE DEF G
<1>3. S \in G
  BY <1>1, <1>2, FiniteInduction
<1>4. QED BY <1>3 DEF G

LEMMA CountAdd ==
  ASSUME NEW f, NEW S, IsFiniteSet(S), NEW x, x \notin S, f[x] \in Int,
         \A y \in S : f[y] \in Int
  PROVE  /\ Count(f, S) \in Int
         /\ Count(f, S \cup {x}) = Count(f, S) + f[x]
<1>1. IsFiniteSet(Above(f, S)) /\ IsFiniteSet(Below(f, S))
  BY Counts
<1>2. Cardinality(Above(f, S)) \in Nat /\ Cardinality(Below(f, S)) \in Nat
  BY <1>1, FS_CardinalityType
<1>3. Cardinality(Above(f, S \cup {x})) =
        Cardinality(Above(f, S)) + IF f[x] >= 0 THEN f[x] ELSE 0
  BY <1>1, AboveAdd
<1>4. Cardinality(Below(f, S \cup {x})) =
        Cardinality(Below(f, S)) + IF f[x] >= 0 THEN 0 ELSE -f[x]
  BY <1>1, BelowAdd
<1>5. QED BY <1>2, <1>3, <1>4 DEF Count

LEMMA CountEmpty == ASSUME NEW f PROVE Count(f, {}) = 0
<1>1. Above(f, {}) = {} /\ Below(f, {}) = {}
  BY DEF Above, Below
<1>2. QED BY <1>1, FS_EmptySet DEF Count

\* The recursive function inside the fold exists, and counts.
LEMMA SumIsCount ==
  ASSUME NEW f, NEW S, IsFiniteSet(S), \A x \in S : f[x] \in Int
  PROVE  SumFunctionOnSet(f, S) = Count(f, S)
<1> DEFINE Unfold(g) == [s \in SUBSET S |->
                         IF s = {} THEN 0
                         ELSE LET x == CHOOSE x \in s : TRUE IN f[x] + g[s \ {x}]]
           iter == CHOOSE g : g = Unfold(g)
           count == [s \in SUBSET S |-> Count(f, s)]
<1>1. SumFunctionOnSet(f, S) = iter[S]
  BY DEF SumFunctionOnSet, FoldFunctionOnSet, MapThenFoldSet
<1>2. ASSUME NEW s \in SUBSET S, NEW x \in s
      PROVE  Count(f, s) = f[x] + Count(f, s \ {x})
  <2>1. IsFiniteSet(s) /\ IsFiniteSet(s \ {x})
    BY FS_Subset
  <2>2. s = (s \ {x}) \cup {x}
    OBVIOUS
  <2>3. /\ Count(f, s \ {x}) \in Int
        /\ Count(f, (s \ {x}) \cup {x}) = Count(f, s \ {x}) + f[x]
    BY <2>1, CountAdd
  <2>4. f[x] \in Int
    OBVIOUS
  <2>5. Count(f, s) = Count(f, s \ {x}) + f[x]
    BY <2>2, <2>3
  <2>6. QED BY <2>3, <2>4, <2>5
<1>3. count = Unfold(count)
  <2>1. ASSUME NEW s \in SUBSET S
        PROVE  count[s] = Unfold(count)[s]
    <3>1. CASE s = {}
      BY <3>1, CountEmpty
    <3>2. CASE s # {}
      <4> DEFINE y == CHOOSE y \in s : TRUE
      <4>1. y \in s
        BY <3>2
      <4>2. Unfold(count)[s] = f[y] + count[s \ {y}]
        BY <3>2
      <4>3. s \ {y} \in SUBSET S
        OBVIOUS
      <4>4. count[s \ {y}] = Count(f, s \ {y})
        BY <4>3
      <4> HIDE DEF y
      <4>5. QED BY <4>1, <4>2, <4>4, <1>2
    <3>3. QED BY <3>1, <3>2
  <2>2. DOMAIN count = SUBSET S /\ DOMAIN Unfold(count) = SUBSET S
    OBVIOUS
  <2>3. QED BY <2>1, <2>2
<1>4. iter = Unfold(iter)
  <2>1. \E g : g = Unfold(g)
    BY <1>3
  <2>2. QED BY <2>1
<1> DEFINE Bad == {s \in SUBSET S : iter[s] # Count(f, s)}
<1> HIDE DEF iter
<1>5. SUFFICES ASSUME Bad # {} PROVE FALSE
  BY <1>1
<1>6. PICK s \in Bad : \A x \in s : s \ {x} \notin Bad
  <2>1. Bad \subseteq SUBSET S
    OBVIOUS
  <2> HIDE DEF Bad
  <2>2. QED BY <1>5, <2>1, SmallestSet
<1>7. CASE s = {}
  BY <1>4, <1>7, CountEmpty
<1>8. CASE s # {}
  <2> DEFINE y == CHOOSE y \in s : TRUE
  <2>1. y \in s
    BY <1>8
  <2>2. iter[s] = f[y] + iter[s \ {y}]
    BY <1>4, <1>8
  <2> HIDE DEF y
  <2>3. s \in SUBSET S /\ s \ {y} \in SUBSET S /\ s \ {y} \notin Bad
    BY <1>6, <2>1
  <2>4. iter[s \ {y}] = Count(f, s \ {y})
    BY <2>3
  <2>5. iter[s] = Count(f, s)
    BY <1>2, <2>1, <2>2, <2>3, <2>4
  <2>6. QED BY <1>6, <2>5
<1>9. QED BY <1>7, <1>8

-----------------------------------------------------------------------------
Summable(f) == IsFiniteSet(DOMAIN f) /\ \A x \in DOMAIN f : f[x] \in Int

LEMMA CountSame ==
  ASSUME NEW S, NEW f, NEW g, \A x \in S : f[x] = g[x]
  PROVE  Count(f, S) = Count(g, S)
<1>1. Above(f, S) = Above(g, S) /\ Below(f, S) = Below(g, S)
  BY DEF Above, Below
<1>2. QED BY <1>1 DEF Count

LEMMA CountType ==
  ASSUME NEW f, NEW S, IsFiniteSet(S), \A x \in S : f[x] \in Int
  PROVE  Count(f, S) \in Int
<1>1. Cardinality(Above(f, S)) \in Nat /\ Cardinality(Below(f, S)) \in Nat
  BY Counts, FS_CardinalityType
<1>2. QED BY <1>1 DEF Count

LEMMA SumEmpty ==
  ASSUME NEW f, DOMAIN f = {}
  PROVE  Summable(f) /\ SumFunction(f) = 0
<1>1. Summable(f)
  BY FS_EmptySet DEF Summable
<1>2. QED BY <1>1, SumIsCount, CountEmpty, FS_EmptySet DEF SumFunction

LEMMA SumType ==
  ASSUME NEW f, Summable(f)
  PROVE  SumFunction(f) \in Int
BY SumIsCount, CountType DEF SumFunction, Summable

LEMMA SumAdd ==
  ASSUME NEW f, Summable(f), NEW x, x \notin DOMAIN f, NEW g, g[x] \in Int,
         DOMAIN g = DOMAIN f \cup {x}, \A y \in DOMAIN f : g[y] = f[y]
  PROVE  Summable(g) /\ SumFunction(g) = SumFunction(f) + g[x]
<1> DEFINE S == DOMAIN f
<1>1. IsFiniteSet(S) /\ \A y \in S : f[y] \in Int
  BY DEF Summable
<1>2. IsFiniteSet(S \cup {x}) /\ \A y \in S \cup {x} : g[y] \in Int
  BY <1>1, FS_AddElement
<1>3. SumFunction(f) = Count(f, S)
  BY <1>1, SumIsCount DEF SumFunction
<1>4. SumFunction(g) = Count(g, S \cup {x})
  BY <1>2, SumIsCount DEF SumFunction
<1>5. Count(g, S \cup {x}) = Count(g, S) + g[x]
  BY <1>1, CountAdd
<1>6. Count(g, S) = Count(f, S)
  BY CountSame
<1>7. Summable(g)
  BY <1>2 DEF Summable
<1>8. QED BY <1>3, <1>4, <1>5, <1>6, <1>7

\* The sum without one of its terms.
LEMMA SumRemove ==
  ASSUME NEW f, Summable(f), NEW x \in DOMAIN f
  PROVE  LET g == [y \in DOMAIN f \ {x} |-> f[y]]
         IN  Summable(g) /\ SumFunction(g) = SumFunction(f) - f[x]
<1> DEFINE g == [y \in DOMAIN f \ {x} |-> f[y]]
<1>1. Summable(g)
  <2>1. IsFiniteSet(DOMAIN f \ {x})
    BY FS_RemoveElement DEF Summable
  <2>2. QED BY <2>1 DEF Summable
<1>2. x \notin DOMAIN g /\ DOMAIN f = DOMAIN g \cup {x} /\ \A y \in DOMAIN g : f[y] = g[y]
  OBVIOUS
<1>3. f[x] \in Int
  BY DEF Summable
<1> HIDE DEF g
<1>4. SumFunction(f) = SumFunction(g) + f[x]
  BY <1>1, <1>2, <1>3, SumAdd
<1>5. SumFunction(g) \in Int
  BY <1>1, SumType
<1>6. SumFunction(g) = SumFunction(f) - f[x]
  BY <1>3, <1>4, <1>5
<1> USE DEF g
<1>7. QED BY <1>1, <1>6

LEMMA SumChange ==
  ASSUME NEW f, Summable(f), NEW x \in DOMAIN f, NEW g, g[x] \in Int,
         DOMAIN g = DOMAIN f, \A y \in DOMAIN f \ {x} : g[y] = f[y]
  PROVE  Summable(g) /\ SumFunction(g) = SumFunction(f) - f[x] + g[x]
<1> DEFINE h == [y \in DOMAIN f \ {x} |-> f[y]]
<1>1. Summable(h) /\ SumFunction(h) = SumFunction(f) - f[x]
  BY SumRemove
<1>2. x \notin DOMAIN h /\ DOMAIN g = DOMAIN h \cup {x} /\ \A y \in DOMAIN h : g[y] = h[y]
  OBVIOUS
<1> HIDE DEF h
<1>3. Summable(g) /\ SumFunction(g) = SumFunction(h) + g[x]
  BY <1>1, <1>2, SumAdd
<1>4. QED BY <1>1, <1>3

\* Of terms that are not negative, the sum is at least each of them.
LEMMA SumNat ==
  ASSUME NEW f, Summable(f), \A x \in DOMAIN f : f[x] >= 0
  PROVE  SumFunction(f) >= 0 /\ \A x \in DOMAIN f : SumFunction(f) >= f[x]
<1>1. ASSUME NEW g, Summable(g), \A x \in DOMAIN g : g[x] >= 0
      PROVE  SumFunction(g) >= 0
  <2>1. Below(g, DOMAIN g) = {}
    BY <1>1 DEF Below, Summable
  <2>2. Cardinality(Above(g, DOMAIN g)) \in Nat /\ Cardinality({}) = 0
    BY <1>1, Counts, FS_CardinalityType, FS_EmptySet DEF Summable
  <2>3. SumFunction(g) = Count(g, DOMAIN g)
    BY <1>1, SumIsCount DEF SumFunction, Summable
  <2>4. QED BY <2>1, <2>2, <2>3 DEF Count
<1>2. ASSUME NEW x \in DOMAIN f
      PROVE  SumFunction(f) >= f[x]
  <2> DEFINE g == [y \in DOMAIN f \ {x} |-> f[y]]
  <2>1. Summable(g) /\ SumFunction(g) = SumFunction(f) - f[x]
    BY SumRemove
  <2>2. \A y \in DOMAIN g : g[y] >= 0
    OBVIOUS
  <2> HIDE DEF g
  <2>3. SumFunction(g) >= 0
    BY <1>1, <2>1, <2>2
  <2>4. SumFunction(f) \in Int /\ f[x] \in Int
    BY SumType DEF Summable
  <2>5. QED BY <2>1, <2>3, <2>4
<1>3. QED BY <1>1, <1>2

\* Two sets without a common element.
LEMMA SumUnion ==
  ASSUME NEW f, Summable(f), NEW g, Summable(g), NEW h,
         DOMAIN f \cap DOMAIN g = {}, DOMAIN h = DOMAIN f \cup DOMAIN g,
         \A x \in DOMAIN f : h[x] = f[x], \A x \in DOMAIN g : h[x] = g[x]
  PROVE  Summable(h) /\ SumFunction(h) = SumFunction(f) + SumFunction(g)
<1> DEFINE part(T) == [x \in DOMAIN f \cup T |-> h[x]]
           rest(T) == [x \in T |-> g[x]]
           G == {T \in SUBSET DOMAIN g :
                   /\ Summable(part(T)) /\ Summable(rest(T))
                   /\ SumFunction(part(T)) = SumFunction(f) + SumFunction(rest(T))}
<1>0. IsFiniteSet(DOMAIN g)
  BY DEF Summable
<1>1. {} \in G
  <2>1. Summable(rest({})) /\ SumFunction(rest({})) = 0
    BY SumEmpty
  <2>2. Summable(part({})) /\ SumFunction(part({})) = SumFunction(f)
    <3>1. Summable(part({}))
      BY DEF Summable
    <3>2. Count(part({}), DOMAIN f) = Count(f, DOMAIN f)
      BY CountSame
    <3>3. QED BY <3>1, <3>2, SumIsCount DEF SumFunction, Summable
  <2>3. SumFunction(f) \in Int
    BY SumType
  <2>4. QED BY <2>1, <2>2, <2>3
<1>2. ASSUME NEW T \in SUBSET DOMAIN g, NEW x \in DOMAIN g \ T, T \in G
      PROVE  T \cup {x} \in G
  <2> DEFINE oldPart == part(T)
             newPart == part(T \cup {x})
             oldRest == rest(T)
             newRest == rest(T \cup {x})
  <2>1. /\ x \notin DOMAIN oldPart /\ DOMAIN newPart = DOMAIN oldPart \cup {x}
        /\ \A y \in DOMAIN oldPart : newPart[y] = oldPart[y]
        /\ newPart[x] = g[x]
    OBVIOUS
  <2>2. /\ x \notin DOMAIN oldRest /\ DOMAIN newRest = DOMAIN oldRest \cup {x}
        /\ \A y \in DOMAIN oldRest : newRest[y] = oldRest[y]
        /\ newRest[x] = g[x]
    OBVIOUS
  <2>3. /\ Summable(oldPart) /\ Summable(oldRest)
        /\ SumFunction(oldPart) = SumFunction(f) + SumFunction(oldRest)
    BY <1>2
  <2>4. g[x] \in Int /\ SumFunction(f) \in Int
    BY SumType DEF Summable
  <2>5. (/\ Summable(newPart) /\ Summable(newRest)
         /\ SumFunction(newPart) = SumFunction(f) + SumFunction(newRest))
           => T \cup {x} \in G
    OBVIOUS
  <2> HIDE DEF oldPart, newPart, oldRest, newRest, G
  <2>6. Summable(newPart) /\ SumFunction(newPart) = SumFunction(oldPart) + newPart[x]
    BY <2>1, <2>3, <2>4, SumAdd
  <2>7. Summable(newRest) /\ SumFunction(newRest) = SumFunction(oldRest) + newRest[x]
    BY <2>2, <2>3, <2>4, SumAdd
  <2>8. SumFunction(oldRest) \in Int
    BY <2>3, SumType
  <2>9. QED BY <2>1, <2>2, <2>3, <2>4, <2>5, <2>6, <2>7, <2>8
<1>3. DOMAIN g \in G
  <2> HIDE DEF G
  <2>1. QED BY <1>0, <1>1, <1>2, FiniteInduction
<1>4. SumFunction(part(DOMAIN g)) = SumFunction(h) /\ Summable(h)
  <2>1. Summable(part(DOMAIN g)) /\ DOMAIN part(DOMAIN g) = DOMAIN h
    BY <1>3
  <2>2. Count(part(DOMAIN g), DOMAIN h) = Count(h, DOMAIN h)
    BY CountSame
  <2>3. Summable(h)
    BY <2>1 DEF Summable
  <2>4. QED BY <2>1, <2>2, <2>3, SumIsCount DEF SumFunction, Summable
<1>5. SumFunction(rest(DOMAIN g)) = SumFunction(g)
  <2>1. Summable(rest(DOMAIN g)) /\ DOMAIN rest(DOMAIN g) = DOMAIN g
    BY <1>3
  <2>2. Count(rest(DOMAIN g), DOMAIN g) = Count(g, DOMAIN g)
    BY CountSame
  <2>3. QED BY <2>1, <2>2, SumIsCount DEF SumFunction, Summable
<1>6. QED BY <1>3, <1>4, <1>5

\* The order and the names of the terms do not matter.
LEMMA SumRenamed ==
  ASSUME NEW f, Summable(f), NEW g, NEW b \in Bijection(DOMAIN f, DOMAIN g),
         \A x \in DOMAIN f : g[b[x]] = f[x]
  PROVE  Summable(g) /\ SumFunction(g) = SumFunction(f)
<1> DEFINE img(T) == {b[x] : x \in T}
           part(T) == [x \in T |-> f[x]]
           copy(T) == [y \in img(T) |-> g[y]]
           G == {T \in SUBSET DOMAIN f :
                   /\ Summable(part(T)) /\ Summable(copy(T))
                   /\ SumFunction(copy(T)) = SumFunction(part(T))}
<1>0. IsFiniteSet(DOMAIN f)
  BY DEF Summable
<1>1. {} \in G
  BY SumEmpty
<1>2. ASSUME NEW T \in SUBSET DOMAIN f, NEW x \in DOMAIN f \ T, T \in G
      PROVE  T \cup {x} \in G
  <2>1. /\ b[x] \notin DOMAIN copy(T) /\ DOMAIN copy(T \cup {x}) = DOMAIN copy(T) \cup {b[x]}
        /\ \A y \in DOMAIN copy(T) : copy(T \cup {x})[y] = copy(T)[y]
        /\ copy(T \cup {x})[b[x]] = f[x]
    BY DEF Bijection, Injection, IsInjective
  <2>2. /\ x \notin DOMAIN part(T) /\ DOMAIN part(T \cup {x}) = DOMAIN part(T) \cup {x}
        /\ \A y \in DOMAIN part(T) : part(T \cup {x})[y] = part(T)[y]
        /\ part(T \cup {x})[x] = f[x]
    OBVIOUS
  <2>3. /\ Summable(part(T)) /\ Summable(copy(T))
        /\ SumFunction(copy(T)) = SumFunction(part(T))
    BY <1>2
  <2>4. T \cup {x} \in SUBSET DOMAIN f /\ f[x] \in Int
    BY DEF Summable
  <2> HIDE DEF part, copy
  <2>6. /\ Summable(part(T \cup {x}))
        /\ SumFunction(part(T \cup {x})) = SumFunction(part(T)) + f[x]
    BY <2>2, <2>3, <2>4, SumAdd
  <2>7. /\ Summable(copy(T \cup {x}))
        /\ SumFunction(copy(T \cup {x})) = SumFunction(copy(T)) + f[x]
    BY <2>1, <2>3, <2>4, SumAdd
  <2>9. QED BY <2>3, <2>4, <2>6, <2>7
<1>3. DOMAIN f \in G
  <2> HIDE DEF G
  <2>1. QED BY <1>0, <1>1, <1>2, FiniteInduction
<1>4. img(DOMAIN f) = DOMAIN g
  BY DEF Bijection, Surjection, Injection
<1>5. Summable(g) /\ SumFunction(copy(DOMAIN f)) = SumFunction(g)
  <2>1. Summable(copy(DOMAIN f)) /\ DOMAIN copy(DOMAIN f) = DOMAIN g
    BY <1>3, <1>4
  <2>2. Count(copy(DOMAIN f), DOMAIN g) = Count(g, DOMAIN g)
    BY <1>4, CountSame
  <2>3. Summable(g)
    BY <1>4, <2>1 DEF Summable
  <2>4. QED BY <2>1, <2>2, <2>3, SumIsCount DEF SumFunction, Summable
<1>6. SumFunction(part(DOMAIN f)) = SumFunction(f)
  <2>1. Summable(part(DOMAIN f)) /\ DOMAIN part(DOMAIN f) = DOMAIN f
    BY <1>3
  <2>2. Count(part(DOMAIN f), DOMAIN f) = Count(f, DOMAIN f)
    BY CountSame
  <2>3. QED BY <2>1, <2>2, SumIsCount DEF SumFunction, Summable
<1>7. QED BY <1>3, <1>5, <1>6

LEMMA SumSame ==
  ASSUME NEW f, Summable(f), NEW g, DOMAIN g = DOMAIN f, \A x \in DOMAIN f : g[x] = f[x]
  PROVE  Summable(g) /\ SumFunction(g) = SumFunction(f)
<1>1. Summable(g)
  BY DEF Summable
<1>2. Count(g, DOMAIN f) = Count(f, DOMAIN f)
  BY CountSame
<1>3. QED BY <1>1, <1>2, SumIsCount DEF SumFunction, Summable

\* One more row, which may or may not count.
LEMMA SumLog ==
  ASSUME NEW f, Summable(f), NEW x, x \notin DOMAIN f, NEW g,
         DOMAIN g = DOMAIN f \/ DOMAIN g = DOMAIN f \cup {x},
         \A y \in DOMAIN f : g[y] = f[y], NEW n \in Int, x \in DOMAIN g => g[x] = n
  PROVE  /\ Summable(g)
         /\ SumFunction(g) = SumFunction(f) + IF x \in DOMAIN g THEN n ELSE 0
<1>1. CASE x \in DOMAIN g
  <2>1. DOMAIN g = DOMAIN f \cup {x} /\ g[x] = n /\ g[x] \in Int
    BY <1>1
  <2>2. Summable(g) /\ SumFunction(g) = SumFunction(f) + g[x]
    BY <2>1, SumAdd
  <2>3. QED BY <1>1, <2>1, <2>2
<1>2. CASE x \notin DOMAIN g
  <2>1. DOMAIN g = DOMAIN f
    BY <1>2
  <2>2. Summable(g) /\ SumFunction(g) = SumFunction(f) /\ SumFunction(f) \in Int
    BY <2>1, SumSame, SumType
  <2>3. QED BY <1>2, <2>2
<1>3. QED BY <1>1, <1>2

-----------------------------------------------------------------------------
(* The sums over the logs, and what one more row adds to them. *)

LEMMA LogIndices ==
  ASSUME NEW S, NEW log \in Seq(S), NEW I, I \subseteq DOMAIN log
  PROVE  IsFiniteSet(I)
<1>1. DOMAIN log = 1 .. Len(log) /\ Len(log) \in Int
  OBVIOUS
<1>2. IsFiniteSet(1 .. Len(log))
  BY <1>1, FS_Interval
<1>3. QED BY <1>1, <1>2, FS_Subset

LEMMA Appended ==
  ASSUME NEW S, NEW log \in Seq(S), NEW e \in S, NEW next, next = Append(log, e)
  PROVE  /\ next \in Seq(S)
         /\ DOMAIN next = DOMAIN log \cup {Len(log) + 1}
         /\ Len(log) + 1 \notin DOMAIN log
         /\ \A i \in DOMAIN log : next[i] = log[i]
         /\ next[Len(log) + 1] = e
         /\ next[Len(next)] = e
  OBVIOUS

-----------------------------------------------------------------------------
(* Lists of statements on the rows K.                                      *)

StatementOn(K) == [op : Ops, row : K, n : Int]
SnapshotOn(K) == [rows : [K -> SUBSET Int], read : SUBSET Int]

LEMMA ValueOn ==
  ASSUME NEW K, NEW s \in StatementOn(K), NEW v \in SUBSET Int, NEW read \in SUBSET Int
  PROVE  Value(s, v, read) \in SUBSET Int
<1>1. s.n \in Int /\ s.op \in Ops
  BY DEF StatementOn
<1>2. /\ {x + s.n : x \in v} \in SUBSET Int
      /\ {x + s.n : x \in read} \in SUBSET Int
      /\ {s.n : x \in v} \in SUBSET Int
      /\ {s.n} \in SUBSET Int /\ {} \in SUBSET Int
  BY <1>1
<1>3. QED BY <1>1, <1>2, Zenon DEF Value, Ops

LEMMA ApplyOn ==
  ASSUME NEW K, NEW l \in SnapshotOn(K), NEW s \in StatementOn(K)
  PROVE  /\ Apply(l, s) \in SnapshotOn(K)
         /\ Apply(l, s).rows = [l.rows EXCEPT ![s.row] = Value(s, l.rows[s.row], l.read)]
         /\ Apply(l, s).read = IF s.op = "lock" THEN l.rows[s.row] ELSE l.read
         /\ s.row \in K
<1>1. s.row \in K /\ l.rows \in [K -> SUBSET Int] /\ l.read \in SUBSET Int
  BY DEF SnapshotOn, StatementOn
<1>2. l.rows[s.row] \in SUBSET Int /\ Value(s, l.rows[s.row], l.read) \in SUBSET Int
  BY <1>1, ValueOn
<1>3. QED BY <1>1, <1>2 DEF Apply, SnapshotOn

\* A transaction run alone goes statement by statement.
LEMMA ReplayOn ==
  ASSUME NEW K, NEW p \in Seq(StatementOn(K)), NEW rows \in [K -> SUBSET Int]
  PROVE  /\ Replay(p, rows) \in [0 .. Len(p) -> SnapshotOn(K)]
         /\ Replay(p, rows)[0] = [rows |-> rows, read |-> {}]
         /\ \A i \in 1 .. Len(p) : Replay(p, rows)[i] = Apply(Replay(p, rows)[i - 1], p[i])
<1>1. PICK S : S = SnapshotOn(K)
  OBVIOUS
<1>2. PICK n : n = Len(p)
  OBVIOUS
<1>3. PICK first : first = [rows |-> rows, read |-> {}]
  OBVIOUS
<1>4. PICK g : g = [x \in (1 .. n) \X S |-> Apply(x[2], p[x[1]])]
  OBVIOUS
<1>5. n \in Nat
  BY <1>2
<1>6. \A i \in 1 .. n : p[i] \in StatementOn(K)
  BY <1>2
<1>7. first \in S
  BY <1>1, <1>3 DEF SnapshotOn
<1>8. \A l \in S, i \in 1 .. n : Apply(l, p[i]) \in S
  BY <1>1, <1>6, ApplyOn
<1>9. g \in [(1 .. n) \X S -> S]
  BY <1>4, <1>8
<1>10. PICK f : Follows(f, S, n, first, g)
  BY <1>5, <1>7, <1>9, Recursion
<1>11. f \in [0 .. n -> S] /\ f[0] = first
  BY <1>10 DEF Follows
<1>12. \A i \in 1 .. n : f[i] = Apply(f[i - 1], p[i])
  <2>1. ASSUME NEW i \in 1 .. n PROVE f[i] = Apply(f[i - 1], p[i])
    <3>1. i - 1 \in 0 .. n
      BY <1>5
    <3>2. f[i - 1] \in S
      BY <1>11, <3>1
    <3>3. f[i] = g[<<i, f[i - 1]>>]
      BY <1>10 DEF Follows
    <3>4. QED BY <1>4, <3>2, <3>3
  <2>2. QED BY <2>1
<1>13. f = [i \in 0 .. n |-> IF i = 0 THEN first ELSE Apply(f[i - 1], p[i])]
  BY <1>11, <1>12
<1>14. PICK R : R = Replay(p, rows)
  OBVIOUS
<1>15. R = CHOOSE h : h = [i \in 0 .. n |-> IF i = 0 THEN first ELSE Apply(h[i - 1], p[i])]
  BY <1>2, <1>3, <1>14 DEF Replay
<1>16. R = [i \in 0 .. n |-> IF i = 0 THEN first ELSE Apply(R[i - 1], p[i])]
  BY <1>13, <1>15
<1>17. R[0] = first /\ \A i \in 1 .. n : R[i] = Apply(R[i - 1], p[i])
  BY <1>5, <1>16
<1>18. PICK G : G = {k \in 0 .. n : R[k] \in S}
  OBVIOUS
<1>19. 0 \in G
  BY <1>5, <1>7, <1>17, <1>18
<1>20. ASSUME NEW k \in 0 .. (n - 1), k \in G
       PROVE  k + 1 \in G
  <2>1. k + 1 \in 1 .. n /\ k + 1 \in 0 .. n /\ (k + 1) - 1 = k
    BY <1>5
  <2>2. R[k + 1] = Apply(R[k], p[k + 1])
    BY <1>17, <2>1
  <2>3. R[k] \in S
    BY <1>18, <1>20
  <2>4. R[k + 1] \in S
    BY <1>8, <2>1, <2>2, <2>3
  <2>5. QED BY <1>18, <2>1, <2>4
<1>21. \A k \in 0 .. n : k \in G
  BY <1>5, <1>19, <1>20, Climb
<1>22. R \in [0 .. n -> S]
  BY <1>16, <1>18, <1>21
<1>23. QED BY <1>1, <1>2, <1>3, <1>14, <1>17, <1>22

\* R holds what there is after each statement.
Stages(R, p, rows) == /\ R[0] = [rows |-> rows, read |-> {}]
                      /\ \A i \in 1 .. Len(p) : R[i] = Apply(R[i - 1], p[i])

LEMMA ReplayStages ==
  ASSUME NEW K, NEW p \in Seq(StatementOn(K)), NEW rows \in [K -> SUBSET Int]
  PROVE  Stages(Replay(p, rows), p, rows)
<1>1. PICK R : R = Replay(p, rows)
  OBVIOUS
<1>2. /\ R[0] = [rows |-> rows, read |-> {}]
      /\ \A i \in 1 .. Len(p) : R[i] = Apply(R[i - 1], p[i])
  BY <1>1, ReplayOn
<1>3. QED BY <1>1, <1>2 DEF Stages

LEMMA AloneOn ==
  ASSUME NEW K, NEW p \in Seq(StatementOn(K)), NEW rows \in [K -> SUBSET Int]
  PROVE  Alone(p, rows) \in [K -> SUBSET Int]
<1>1. Len(p) \in 0 .. Len(p)
  OBVIOUS
<1>2. Replay(p, rows) \in [0 .. Len(p) -> SnapshotOn(K)]
  BY ReplayOn
<1>3. Replay(p, rows)[Len(p)] \in SnapshotOn(K)
  BY <1>1, <1>2
<1>4. QED BY <1>3 DEF Alone, SnapshotOn

\* One list of statements after the other.
LEMMA AloneJoined ==
  ASSUME NEW K, NEW p \in Seq(StatementOn(K)), NEW q \in Seq(StatementOn(K)), ReadsFirst(q),
         NEW rows \in [K -> SUBSET Int]
  PROVE  Alone(p \o q, rows) = Alone(q, Alone(p, rows))
<1>1. PICK m : m = Len(p)
  OBVIOUS
<1>2. PICK n : n = Len(q)
  OBVIOUS
<1>3. PICK pq : pq = p \o q
  OBVIOUS
<1>4. PICK mid : mid = Alone(p, rows)
  OBVIOUS
<1>5. PICK P : P = Replay(p, rows)
  OBVIOUS
<1>6. PICK Q : Q = Replay(q, mid)
  OBVIOUS
<1>7. PICK R : R = Replay(pq, rows)
  OBVIOUS
<1>8. m \in Nat /\ n \in Nat
  BY <1>1, <1>2
<1>9. pq \in Seq(StatementOn(K))
  BY <1>3
<1>10. /\ Len(pq) = m + n /\ m \in Nat /\ n \in Nat
       /\ \A i \in 1 .. m : pq[i] = p[i]
       /\ \A i \in 1 .. n : pq[m + i] = q[i]
  BY <1>1, <1>2, <1>3
<1>11. mid \in [K -> SUBSET Int]
  BY <1>4, AloneOn
<1>12. /\ P \in [0 .. m -> SnapshotOn(K)] /\ P[0] = [rows |-> rows, read |-> {}]
       /\ \A i \in 1 .. m : P[i] = Apply(P[i - 1], p[i])
  BY <1>1, <1>5, ReplayOn
<1>13. /\ Q \in [0 .. n -> SnapshotOn(K)] /\ Q[0] = [rows |-> mid, read |-> {}]
       /\ \A i \in 1 .. n : Q[i] = Apply(Q[i - 1], q[i])
  BY <1>2, <1>6, <1>11, ReplayOn
<1>14. /\ R \in [0 .. (m + n) -> SnapshotOn(K)] /\ R[0] = [rows |-> rows, read |-> {}]
       /\ \A i \in 1 .. (m + n) : R[i] = Apply(R[i - 1], pq[i])
  <2>1. /\ R \in [0 .. Len(pq) -> SnapshotOn(K)] /\ R[0] = [rows |-> rows, read |-> {}]
        /\ \A i \in 1 .. Len(pq) : R[i] = Apply(R[i - 1], pq[i])
    BY <1>7, <1>9, ReplayOn
  <2>2. QED BY <1>10, <2>1
<1>15. R[m] = P[m]
  <2> DEFINE G == {k \in 0 .. m : R[k] = P[k]}
  <2>1. 0 \in G
    <3>1. 0 \in 0 .. m
      BY <1>8
    <3>2. R[0] = P[0]
      BY <1>12, <1>14, Zenon
    <3>3. QED BY <3>1, <3>2
  <2>2. ASSUME NEW k \in 0 .. (m - 1), k \in G
        PROVE  k + 1 \in G
    <3>1. k + 1 \in 1 .. m /\ k + 1 \in 1 .. (m + n) /\ (k + 1) - 1 = k /\ k + 1 \in 0 .. m
      BY <1>10
    <3>2. R[k + 1] = Apply(R[k], pq[k + 1])
      BY <1>14, <3>1
    <3>3. P[k + 1] = Apply(P[k], p[k + 1])
      BY <1>12, <3>1
    <3>4. QED BY <1>10, <2>2, <3>1, <3>2, <3>3
  <2> HIDE DEF G
  <2>3. m \in Nat /\ m \in 0 .. m
    BY <1>10
  <2>4. m \in G
    BY <2>1, <2>2, <2>3, Climb
  <2>5. QED BY <2>4 DEF G
<1>16. P[m].rows = mid
  BY <1>1, <1>4, <1>5 DEF Alone
<1> DEFINE SameRead(k) == k > 0 /\ q[k].op = "lock" => R[m + k].read = Q[k].read
           G == {k \in 0 .. n : R[m + k].rows = Q[k].rows /\ SameRead(k)}
<1>17. 0 \in G
  <2>1. m + 0 = m /\ 0 \in 0 .. n
    BY <1>8
  <2>2. R[m + 0].rows = mid /\ Q[0].rows = mid
    BY <1>13, <1>15, <1>16, <2>1
  <2>3. QED BY <2>1, <2>2
<1>18. ASSUME NEW k \in 0 .. (n - 1), k \in G
       PROVE  k + 1 \in G
  <2>1. /\ k + 1 \in 1 .. n /\ (k + 1) - 1 = k /\ k + 1 \in 0 .. n /\ k \in 0 .. n
        /\ m + (k + 1) \in 1 .. (m + n) /\ (m + (k + 1)) - 1 = m + k /\ m + k \in 0 .. (m + n)
    BY <1>10
  <2>2. PICK s : s = q[k + 1]
    OBVIOUS
  <2>3. PICK a : a = R[m + k]
    OBVIOUS
  <2>4. PICK b : b = Q[k]
    OBVIOUS
  <2>5. q[k + 1] \in StatementOn(K) /\ k + 1 \in DOMAIN q
    BY <1>2, <2>1
  <2>6. R[m + k] \in SnapshotOn(K) /\ Q[k] \in SnapshotOn(K)
    BY <1>13, <1>14, <2>1
  <2>7. s \in StatementOn(K) /\ a \in SnapshotOn(K) /\ b \in SnapshotOn(K)
    BY <2>2, <2>3, <2>4, <2>5, <2>6
  <2>8. R[m + (k + 1)] = Apply(a, s) /\ Q[k + 1] = Apply(b, s)
    BY <1>10, <1>13, <1>14, <2>1, <2>2, <2>3, <2>4
  <2>9. a.rows = b.rows
    BY <1>18, <2>3, <2>4
  <2>10. s.op = "store" => a.read = b.read
    <3>1. SUFFICES ASSUME s.op = "store" PROVE a.read = b.read
      OBVIOUS
    <3>2. k + 1 \in DOMAIN q /\ q[k + 1].op = "store"
      BY <2>2, <2>5, <3>1
    <3>3. k > 0 /\ q[k].op = "lock"
      BY <2>1, <3>2 DEF ReadsFirst
    <3>4. QED BY <1>18, <2>3, <2>4, <3>3
  <2>11. Value(s, a.rows[s.row], a.read) = Value(s, b.rows[s.row], b.read)
    <3>1. CASE s.op = "store"
      BY <2>9, <2>10, <3>1
    <3>2. CASE s.op # "store"
      <4>1. s.op \in Ops
        BY <2>7 DEF StatementOn
      <4>2. QED BY <2>9, <3>2, <4>1 DEF Value, Ops
    <3>3. QED BY <3>1, <3>2
  <2>12. /\ Apply(a, s).rows = [a.rows EXCEPT ![s.row] = Value(s, a.rows[s.row], a.read)]
         /\ Apply(a, s).read = IF s.op = "lock" THEN a.rows[s.row] ELSE a.read
    BY <2>7, ApplyOn
  <2>13. /\ Apply(b, s).rows = [b.rows EXCEPT ![s.row] = Value(s, b.rows[s.row], b.read)]
         /\ Apply(b, s).read = IF s.op = "lock" THEN b.rows[s.row] ELSE b.read
    BY <2>7, ApplyOn
  <2>14. R[m + (k + 1)].rows = Q[k + 1].rows
    BY <2>8, <2>9, <2>11, <2>12, <2>13, Zenon
  <2>15. SameRead(k + 1)
    BY <2>2, <2>8, <2>9, <2>12, <2>13
  <2>16. QED BY <2>1, <2>14, <2>15
<1> HIDE DEF G
<1>19. n \in Nat /\ n \in 0 .. n
  BY <1>10
<1>20. n \in G
  BY <1>17, <1>18, <1>19, Climb
<1>21. R[m + n].rows = Q[n].rows
  BY <1>20 DEF G
<1>22. QED BY <1>2, <1>3, <1>4, <1>6, <1>7, <1>10, <1>21 DEF Alone

\* One row is written; one list of statements follows another.
Put(rows, r, v) == [rows EXCEPT ![r] = v]
Splits(pq, p, q) == pq = p \o q

\* Short lists.
LEMMA AloneNone ==
  ASSUME NEW K, NEW rows \in [K -> SUBSET Int]
  PROVE  Alone(<< >>, rows) = rows
<1>1. << >> \in Seq(StatementOn(K)) /\ Len(<< >>) = 0
  OBVIOUS
<1>2. Replay(<< >>, rows)[0] = [rows |-> rows, read |-> {}]
  BY <1>1, ReplayOn
<1>3. QED BY <1>1, <1>2 DEF Alone

LEMMA AloneOne ==
  ASSUME NEW K, NEW s \in StatementOn(K), NEW rows \in [K -> SUBSET Int], NEW p, p = << s >>,
         NEW v, v = Value(s, rows[s.row], {})
  PROVE  p \in Seq(StatementOn(K)) /\ Alone(p, rows) = Put(rows, s.row, v)
<1>1. p \in Seq(StatementOn(K)) /\ Len(p) = 1 /\ p[1] = s
  OBVIOUS
<1>2. PICK R : R = Replay(p, rows)
  OBVIOUS
<1>3. /\ R[0] = [rows |-> rows, read |-> {}]
      /\ \A i \in 1 .. Len(p) : R[i] = Apply(R[i - 1], p[i])
  <2>1. Stages(R, p, rows)
    BY <1>1, <1>2, ReplayStages
  <2>2. QED BY <2>1, Zenon DEF Stages
<1>4. R[1] = Apply(R[0], s)
  <2>1. 1 \in 1 .. Len(p) /\ 1 - 1 = 0
    BY <1>1
  <2>2. QED BY <1>1, <1>3, <2>1
<1>5. R[1].rows = [rows EXCEPT ![s.row] = Value(s, rows[s.row], {})]
  BY <1>3, <1>4 DEF Apply
<1>6. QED BY <1>1, <1>2, <1>5 DEF Alone, Put

\* What is read is what is written on.
LEMMA AlonePair ==
  ASSUME NEW K, NEW l \in StatementOn(K), NEW s \in StatementOn(K),
         l.op = "lock", l.row = s.row, NEW rows \in [K -> SUBSET Int],
         NEW p, p = << l, s >>, NEW v, v = Value(s, rows[s.row], rows[s.row])
  PROVE  p \in Seq(StatementOn(K)) /\ Alone(p, rows) = Put(rows, s.row, v)
<1>1. p \in Seq(StatementOn(K)) /\ Len(p) = 2 /\ p[1] = l /\ p[2] = s
  OBVIOUS
<1>2. PICK R : R = Replay(p, rows)
  OBVIOUS
<1>3. /\ R[0] = [rows |-> rows, read |-> {}]
      /\ \A i \in 1 .. Len(p) : R[i] = Apply(R[i - 1], p[i])
  <2>1. Stages(R, p, rows)
    BY <1>1, <1>2, ReplayStages
  <2>2. QED BY <2>1, Zenon DEF Stages
<1>4. R[1] = Apply(R[0], l) /\ R[2] = Apply(R[1], s)
  <2>1. 1 \in 1 .. Len(p) /\ 2 \in 1 .. Len(p) /\ 1 - 1 = 0 /\ 2 - 1 = 1
    BY <1>1
  <2>2. QED BY <1>1, <1>3, <2>1
<1>5. s.row \in K
  BY DEF StatementOn
<1>6. R[1].rows = rows /\ R[1].read = rows[s.row]
  <2>1. Value(l, rows[s.row], {}) = rows[s.row]
    BY DEF Value
  <2>2. R[1].rows = [rows EXCEPT ![s.row] = Value(l, rows[s.row], {})] /\ R[1].read = rows[s.row]
    BY <1>3, <1>4 DEF Apply
  <2>3. QED BY <1>5, <2>1, <2>2
<1>7. R[2].rows = [rows EXCEPT ![s.row] = Value(s, rows[s.row], rows[s.row])]
  <2>1. PICK m : m = R[1]
    OBVIOUS
  <2>2. Apply(m, s).rows = [m.rows EXCEPT ![s.row] = Value(s, m.rows[s.row], m.read)]
    BY DEF Apply
  <2>3. m.rows = rows /\ m.read = rows[s.row]
    BY <1>6, <2>1
  <2>4. QED BY <1>4, <2>1, <2>2, <2>3
<1>8. QED BY <1>1, <1>2, <1>7 DEF Alone, Put

\* Statements that only lock or check leave the rows as they are.
LEMMA AloneIdle ==
  ASSUME NEW K, NEW p \in Seq(StatementOn(K)), NEW rows \in [K -> SUBSET Int],
         \A i \in DOMAIN p : p[i].op \in {"lock", "ref"}
  PROVE  Alone(p, rows) = rows
<1>1. PICK R : R = Replay(p, rows)
  OBVIOUS
<1>2. PICK n : n = Len(p)
  OBVIOUS
<1>3. n \in Nat /\ n \in 0 .. n /\ 0 \in 0 .. n
  BY <1>2
<1>4. /\ R \in [0 .. n -> SnapshotOn(K)] /\ R[0] = [rows |-> rows, read |-> {}]
      /\ \A i \in 1 .. n : R[i] = Apply(R[i - 1], p[i])
  BY <1>1, <1>2, ReplayOn
<1>5. PICK G : G = {k \in 0 .. n : R[k].rows = rows}
  OBVIOUS
<1>6. 0 \in G
  BY <1>3, <1>4, <1>5
<1>7. ASSUME NEW k \in 0 .. (n - 1), k \in G
      PROVE  k + 1 \in G
  <2>1. k + 1 \in 1 .. n /\ k + 1 \in 0 .. n /\ (k + 1) - 1 = k /\ k \in 0 .. n
    BY <1>3
  <2>2. R[k + 1] = Apply(R[k], p[k + 1]) /\ R[k] \in SnapshotOn(K)
    BY <1>4, <2>1
  <2>3. PICK s : s = p[k + 1]
    OBVIOUS
  <2>4. s \in StatementOn(K) /\ s.op \in {"lock", "ref"}
    BY <1>2, <2>1, <2>3
  <2>5. R[k + 1].rows = [R[k].rows EXCEPT ![s.row] = Value(s, R[k].rows[s.row], R[k].read)]
    <3>1. PICK l : l = R[k]
      OBVIOUS
    <3>2. Apply(l, s).rows = [l.rows EXCEPT ![s.row] = Value(s, l.rows[s.row], l.read)]
      BY DEF Apply
    <3>3. QED BY <2>2, <2>3, <3>1, <3>2
  <2>6. Value(s, R[k].rows[s.row], R[k].read) = R[k].rows[s.row]
    BY <2>4 DEF Value
  <2>7. R[k].rows = rows
    BY <1>5, <1>7
  <2>8. R[k + 1].rows = rows
    BY <2>5, <2>6, <2>7
  <2>9. QED BY <1>5, <2>1, <2>8
<1>8. n \in G
  BY <1>3, <1>6, <1>7, Climb
<1>9. QED BY <1>1, <1>2, <1>5, <1>8 DEF Alone

\* UPDATE ... SET X = X + x on several rows.
Adds(p, x) ==
  /\ \A i \in DOMAIN p : p[i].op = "add" /\ p[i].n = x
  /\ \A i \in DOMAIN p : \A j \in DOMAIN p : p[i].row = p[j].row => i = j

\* What is in row r then.
Added(p, x, rows, r) ==
  IF \E i \in DOMAIN p : p[i].row = r THEN {y + x : y \in rows[r]} ELSE rows[r]

LEMMA AloneAdds ==
  ASSUME NEW K, NEW p \in Seq(StatementOn(K)), NEW rows \in [K -> SUBSET Int], NEW x \in Int,
         Adds(p, x)
  PROVE  \A r \in K : Alone(p, rows)[r] = Added(p, x, rows, r)
<1>1. PICK R : R = Replay(p, rows)
  OBVIOUS
<1>2. PICK n : n = Len(p)
  OBVIOUS
<1>3. n \in Nat /\ n \in 0 .. n /\ 0 \in 0 .. n /\ DOMAIN p = 1 .. n
  BY <1>2
<1>4. /\ R \in [0 .. n -> SnapshotOn(K)] /\ R[0] = [rows |-> rows, read |-> {}]
      /\ \A i \in 1 .. n : R[i] = Apply(R[i - 1], p[i])
  BY <1>1, <1>2, ReplayOn
<1> DEFINE Done(k) == {p[i].row : i \in 1 .. k}
           Upto(k, r) == R[k].rows[r] = IF r \in Done(k) THEN {y + x : y \in rows[r]} ELSE rows[r]
<1>5. PICK G : G = {k \in 0 .. n : \A r \in K : Upto(k, r)}
  OBVIOUS
<1>6. 0 \in G
  <2>1. 1 .. 0 = {}
    OBVIOUS
  <2>2. \A r \in K : Upto(0, r)
    BY <1>4, <2>1
  <2>3. QED BY <1>3, <1>5, <2>2
<1>7. ASSUME NEW k \in 0 .. (n - 1), k \in G
      PROVE  k + 1 \in G
  <2>1. k + 1 \in 1 .. n /\ k + 1 \in 0 .. n /\ (k + 1) - 1 = k /\ k \in 0 .. n
        /\ 1 .. (k + 1) = (1 .. k) \cup {k + 1} /\ k + 1 \notin 1 .. k /\ 1 .. k \subseteq 1 .. n
    BY <1>3
  <2>2. R[k + 1] = Apply(R[k], p[k + 1]) /\ R[k] \in SnapshotOn(K)
    BY <1>4, <2>1
  <2>3. PICK s : s = p[k + 1]
    OBVIOUS
  <2>4. s \in StatementOn(K)
    BY <1>2, <2>1, <2>3
  <2>5. s.op = "add" /\ s.n = x
    BY <1>3, <2>1, <2>3 DEF Adds
  <2>6. R[k + 1].rows = [R[k].rows EXCEPT ![s.row] = Value(s, R[k].rows[s.row], R[k].read)]
    <3>1. PICK l : l = R[k]
      OBVIOUS
    <3>2. Apply(l, s).rows = [l.rows EXCEPT ![s.row] = Value(s, l.rows[s.row], l.read)]
      BY DEF Apply
    <3>3. QED BY <2>2, <2>3, <3>1, <3>2
  <2>7. Value(s, R[k].rows[s.row], R[k].read) = {y + x : y \in R[k].rows[s.row]}
    BY <2>5 DEF Value
  <2>8. \A r \in K : Upto(k, r)
    BY <1>5, <1>7
  <2>9. s.row \in K /\ R[k].rows \in [K -> SUBSET Int]
    BY <2>2, <2>4 DEF StatementOn, SnapshotOn
  <2>10. s.row \notin Done(k)
    BY <1>3, <2>1, <2>3 DEF Adds
  <2>11. Done(k + 1) = Done(k) \cup {s.row}
    BY <2>1, <2>3
  <2>12. PICK f : f = R[k].rows
    OBVIOUS
  <2>13. PICK old : old = Done(k)
    OBVIOUS
  <2>14. PICK now : now = Done(k + 1)
    OBVIOUS
  <2>15. f[s.row] = rows[s.row]
    BY <2>8, <2>9, <2>10, <2>12
  <2>16. R[k + 1].rows = [f EXCEPT ![s.row] = {y + x : y \in rows[s.row]}]
    BY <2>6, <2>7, <2>12, <2>15
  <2>17. \A r \in K : f[r] = IF r \in old THEN {y + x : y \in rows[r]} ELSE rows[r]
    BY <2>8, <2>12, <2>13
  <2>18. now = old \cup {s.row}
    BY <2>11, <2>13, <2>14
  <2>19. f \in [K -> SUBSET Int]
    BY <2>9, <2>12
  <2>20. \A r \in K : R[k + 1].rows[r] = IF r \in now THEN {y + x : y \in rows[r]} ELSE rows[r]
    BY <2>9, <2>16, <2>17, <2>18, <2>19
  <2>21. QED BY <1>5, <2>1, <2>14, <2>20
<1>8. n \in G
  BY <1>3, <1>6, <1>7, Climb
<1>9. \A r \in K : Upto(n, r)
  BY <1>5, <1>8
<1>10. QED BY <1>1, <1>2, <1>3, <1>9 DEF Alone, Added


\* The lists of statements below, taken apart.
LEMMA List2 ==
  ASSUME NEW S, NEW a \in S, NEW b \in S, NEW p, p = <<a>>, NEW q, q = <<b>>, NEW pq, pq = <<a, b>>
  PROVE  p \in Seq(S) /\ q \in Seq(S) /\ Splits(pq, p, q)
<1>1. pq \in Seq(S) /\ Len(pq) = 2 /\ pq[1] = a /\ pq[2] = b
  OBVIOUS
<1>2. PICK r : r = p \o q
  OBVIOUS
<1>3. p \in Seq(S) /\ q \in Seq(S)
  OBVIOUS
<1>4. r \in Seq(S) /\ Len(r) = 2 /\ r[1] = a /\ r[2] = b
  BY <1>2, <1>3
<1>5. \A i \in 1 .. 2 : r[i] = pq[i]
  BY <1>1, <1>4
<1>6. r = pq
  BY <1>1, <1>4, <1>5
<1>7. QED BY <1>2, <1>3, <1>6 DEF Splits

LEMMA List3 ==
  ASSUME NEW S, NEW a \in S, NEW b \in S, NEW c \in S,
         NEW p, p = <<a, b>>, NEW q, q = <<c>>, NEW pq, pq = <<a, b, c>>
  PROVE  p \in Seq(S) /\ q \in Seq(S) /\ Splits(pq, p, q)
<1>1. pq \in Seq(S) /\ Len(pq) = 3 /\ pq[1] = a /\ pq[2] = b /\ pq[3] = c
  OBVIOUS
<1>2. PICK r : r = p \o q
  OBVIOUS
<1>3. p \in Seq(S) /\ q \in Seq(S)
  OBVIOUS
<1>4. r \in Seq(S) /\ Len(r) = 3 /\ r[1] = a /\ r[2] = b /\ r[3] = c
  BY <1>2, <1>3
<1>5. \A i \in 1 .. 3 : r[i] = pq[i]
  BY <1>1, <1>4
<1>6. r = pq
  BY <1>1, <1>4, <1>5
<1>7. QED BY <1>2, <1>3, <1>6 DEF Splits

LEMMA List5 ==
  ASSUME NEW S, NEW a \in S, NEW b \in S, NEW c \in S, NEW d \in S, NEW e \in S,
         NEW p, p = <<a, b>>, NEW q, q = <<c, d, e>>, NEW pq, pq = <<a, b, c, d, e>>
  PROVE  p \in Seq(S) /\ q \in Seq(S) /\ Splits(pq, p, q)
<1>1. /\ pq \in Seq(S) /\ Len(pq) = 5
      /\ pq[1] = a /\ pq[2] = b /\ pq[3] = c /\ pq[4] = d /\ pq[5] = e
  OBVIOUS
<1>2. PICK r : r = p \o q
  OBVIOUS
<1>3. p \in Seq(S) /\ q \in Seq(S)
  OBVIOUS
<1>4. /\ r \in Seq(S) /\ Len(r) = 5
      /\ r[1] = a /\ r[2] = b /\ r[3] = c /\ r[4] = d /\ r[5] = e
  BY <1>2, <1>3
<1>5. \A i \in 1 .. 5 : r[i] = pq[i]
  BY <1>1, <1>4
<1>6. r = pq
  BY <1>1, <1>4, <1>5
<1>7. QED BY <1>2, <1>3, <1>6 DEF Splits

\* The rows after a list of statements that is taken apart.
LEMMA AloneParts ==
  ASSUME NEW K, NEW p \in Seq(StatementOn(K)), NEW q \in Seq(StatementOn(K)), ReadsFirst(q),
         NEW rows \in [K -> SUBSET Int], NEW pq, Splits(pq, p, q),
         NEW mid, mid = Alone(p, rows)
  PROVE  pq \in Seq(StatementOn(K)) /\ Alone(pq, rows) = Alone(q, mid)
BY AloneJoined DEF Splits

\* The statements of a list are those of its two parts.
LEMMA JoinedAt ==
  ASSUME NEW S, NEW p \in Seq(S), NEW q \in Seq(S), NEW pq, Splits(pq, p, q)
  PROVE  /\ pq \in Seq(S) /\ Len(pq) = Len(p) + Len(q)
         /\ \A i \in 1 .. Len(p) : i \in DOMAIN pq /\ pq[i] = p[i]
         /\ \A i \in 1 .. Len(q) : Len(p) + i \in DOMAIN pq /\ pq[Len(p) + i] = q[i]
         /\ \A i \in DOMAIN pq : \/ i \in 1 .. Len(p)
                                 \/ \E j \in 1 .. Len(q) : i = Len(p) + j
<1>1. pq = p \o q
  BY DEF Splits
<1>2. /\ pq \in Seq(S) /\ Len(pq) = Len(p) + Len(q) /\ DOMAIN pq = 1 .. Len(p) + Len(q)
      /\ Len(p) \in Nat /\ Len(q) \in Nat
  BY <1>1
<1>3. ASSUME NEW i \in 1 .. Len(p) PROVE i \in DOMAIN pq /\ pq[i] = p[i]
  BY <1>1, <1>2
<1>4. ASSUME NEW i \in 1 .. Len(q) PROVE Len(p) + i \in DOMAIN pq /\ pq[Len(p) + i] = q[i]
  BY <1>1, <1>2
<1>5. ASSUME NEW i \in DOMAIN pq, i \notin 1 .. Len(p) PROVE \E j \in 1 .. Len(q) : i = Len(p) + j
  <2>1. i - Len(p) \in 1 .. Len(q) /\ i = Len(p) + (i - Len(p))
    BY <1>2, <1>5
  <2>2. QED BY <2>1
<1>6. QED BY <1>2, <1>3, <1>4, <1>5

LEMMA ReadsFirstJoined ==
  ASSUME NEW S, NEW p \in Seq(S), NEW q \in Seq(S), NEW pq, Splits(pq, p, q),
         ReadsFirst(p), ReadsFirst(q)
  PROVE  ReadsFirst(pq)
<1>1. /\ Len(pq) = Len(p) + Len(q) /\ Len(p) \in Nat /\ Len(q) \in Nat
      /\ DOMAIN p = 1 .. Len(p) /\ DOMAIN q = 1 .. Len(q)
      /\ \A i \in 1 .. Len(p) : pq[i] = p[i]
      /\ \A i \in 1 .. Len(q) : pq[Len(p) + i] = q[i]
      /\ \A i \in DOMAIN pq : \/ i \in 1 .. Len(p)
                              \/ \E j \in 1 .. Len(q) : i = Len(p) + j
  BY JoinedAt
<1>2. ASSUME NEW i \in DOMAIN pq, pq[i].op = "store"
      PROVE  i > 1 /\ pq[i - 1].op = "lock" /\ pq[i - 1].row = pq[i].row
  <2>1. CASE i \in 1 .. Len(p)
    <3>1. i \in DOMAIN p /\ pq[i] = p[i]
      BY <1>1, <2>1
    <3>2. i > 1 /\ p[i - 1].op = "lock" /\ p[i - 1].row = p[i].row
      BY <1>2, <3>1 DEF ReadsFirst
    <3>3. i - 1 \in 1 .. Len(p)
      BY <1>1, <2>1, <3>2
    <3>4. pq[i - 1] = p[i - 1]
      BY <1>1, <3>3
    <3>5. QED BY <3>1, <3>2, <3>4
  <2>2. ASSUME NEW j \in 1 .. Len(q), i = Len(p) + j
        PROVE  i > 1 /\ pq[i - 1].op = "lock" /\ pq[i - 1].row = pq[i].row
    <3>1. j \in DOMAIN q /\ pq[i] = q[j]
      BY <1>1, <2>2
    <3>2. j > 1 /\ q[j - 1].op = "lock" /\ q[j - 1].row = q[j].row
      BY <1>2, <3>1 DEF ReadsFirst
    <3>3. j - 1 \in 1 .. Len(q) /\ i - 1 = Len(p) + (j - 1) /\ i > 1
      BY <1>1, <2>2, <3>2
    <3>4. pq[i - 1] = q[j - 1]
      BY <1>1, <3>3
    <3>5. QED BY <3>1, <3>2, <3>3, <3>4
  <2>3. QED BY <1>1, <2>1, <2>2
<1>3. QED BY <1>2 DEF ReadsFirst

\* p has a statement on row r.
Names(p, r) == \E i \in DOMAIN p : p[i].row = r

\* The rows of a list's parts are rows of the list.
LEMMA NamesJoined ==
  ASSUME NEW S, NEW p \in Seq(S), NEW q \in Seq(S), NEW pq, Splits(pq, p, q), NEW r,
         Names(p, r) \/ Names(q, r)
  PROVE  Names(pq, r)
<1>1. \A i \in 1 .. Len(p) : i \in DOMAIN pq /\ pq[i] = p[i]
  BY JoinedAt
<1>2. \A i \in 1 .. Len(q) : Len(p) + i \in DOMAIN pq /\ pq[Len(p) + i] = q[i]
  BY JoinedAt
<1>3. DOMAIN p = 1 .. Len(p) /\ DOMAIN q = 1 .. Len(q)
  OBVIOUS
<1>4. ASSUME NEW i \in DOMAIN p, p[i].row = r PROVE Names(pq, r)
  <2>1. i \in DOMAIN pq /\ pq[i] = p[i]
    BY <1>1, <1>3
  <2>2. QED BY <1>4, <2>1 DEF Names
<1>5. ASSUME NEW i \in DOMAIN q, q[i].row = r PROVE Names(pq, r)
  <2>1. Len(p) + i \in DOMAIN pq /\ pq[Len(p) + i] = q[i]
    BY <1>2, <1>3
  <2>2. QED BY <1>5, <2>1 DEF Names
<1>6. QED BY <1>4, <1>5 DEF Names
=============================================================================
