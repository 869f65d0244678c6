------------------------ MODULE LargestRemainderProofs ------------------------
(* Lemmas about sums over finite sets, about the order of a specification, and *)
(* about the division under it and the sum of its shares.                     *)
EXTENDS LargestRemainder, FiniteSetTheorems, TLAPS

\* What the folds of the community modules compute when they add.
Adds(f, sum, U) ==
    sum = [s \in U |-> IF s = {} THEN 0
                       ELSE f[CHOOSE x \in s : TRUE] + sum[s \ {CHOOSE x \in s : TRUE}]]
Sum(f, S) == (CHOOSE sum : Adds(f, sum, SUBSET S))[S]

\* A family of finite sets, and a member that includes no other.
Family(F, S) == F # {} /\ \A s \in F : s \in SUBSET S /\ IsFiniteSet(s)
Minimal(s, F) == s \in F /\ \A t \in F : t \subseteq s => t = s

\* A finite sum of integers.
Summable(f, S) == IsFiniteSet(S) /\ \A x \in S : f[x] \in Int
-----------------------------------------------------------------------------
\* A family of finite sets has a minimal member.
LEMMA LeastSet ==
    ASSUME NEW S, NEW F, Family(F, S)
    PROVE  \E s : Minimal(s, F)
  <1>1. IsWellFoundedOn(StrictSubsetOrdering(S), FiniteSubsetsOf(S))
    BY FS_StrictSubsetOrderingWellFounded
  <1>2. F \subseteq FiniteSubsetsOf(S) /\ F # {}
    BY DEF FiniteSubsetsOf, Family
  <1>3. \E s \in F : \A t \in F : ~(<<t, s>> \in StrictSubsetOrdering(S))
    BY <1>1, <1>2, WFMin
  <1>4. PICK s \in F : \A t \in F : ~(<<t, s>> \in StrictSubsetOrdering(S))
    BY <1>3
  <1>5. ASSUME NEW t \in F, t \subseteq s, t # s PROVE FALSE
    <2>1. <<t, s>> \in (SUBSET S) \X (SUBSET S)
      BY DEF Family
    <2> QED  BY <1>4, <1>5, <2>1 DEF StrictSubsetOrdering
  <1> QED  BY <1>5 DEF Minimal

\* A set of natural numbers has a least element.
LEMMA Least ==
    ASSUME NEW T, T \subseteq Nat, T # {}
    PROVE  \E n \in T : \A m \in T : n =< m
  <1> DEFINE F == {1 .. n : n \in T}
  <1>1. \A n \in T : 1 .. n \in SUBSET Nat /\ IsFiniteSet(1 .. n)
    BY FS_Interval
  <1>2. Family(F, Nat)
    BY <1>1 DEF Family
  <1>3. \E s : Minimal(s, F)
    <2> HIDE DEF F
    <2> QED  BY <1>2, LeastSet
  <1>4. PICK n \in T : \A t \in F : t \subseteq 1 .. n => t = 1 .. n
    BY <1>3 DEF Minimal
  <1>5. ASSUME NEW m \in T, m < n PROVE FALSE
    <2>1. 1 .. m \subseteq 1 .. n /\ n \in 1 .. n /\ n \notin 1 .. m
      BY <1>5
    <2> QED  BY <1>4, <2>1
  <1> QED  BY <1>5

\* Induction, for a set of numbers in the place of a predicate.
LEMMA Induct ==
    ASSUME NEW T, 0 \in T, \A n \in Nat : n \in T => n + 1 \in T
    PROVE  Nat \subseteq T
  <1>1. SUFFICES ASSUME Nat \ T # {} PROVE FALSE
    OBVIOUS
  <1>2. PICK n \in Nat \ T : \A m \in Nat \ T : n =< m
    BY <1>1, Least
  <1>3. n # 0 /\ n - 1 \in Nat /\ n - 1 \notin Nat \ T
    BY <1>2
  <1> QED  BY <1>2, <1>3

LEMMA TotalIsSum == \A f : Total(f) = Sum(f, DOMAIN f)
  BY DEF Total, Sum, Adds, FoldFunction, FoldFunctionOnSet, MapThenFoldSet

\* There is a sum of every finite set.
LEMMA SumExists ==
    ASSUME NEW f, NEW S, IsFiniteSet(S)
    PROVE  \E sum : Adds(f, sum, SUBSET S)
  <1> DEFINE Small(n) == {s \in SUBSET S : Cardinality(s) =< n}
             T == {n \in Nat : \E sum : Adds(f, sum, Small(n))}
             pick(s) == CHOOSE x \in s : TRUE
  <1>1. \A s \in SUBSET S : IsFiniteSet(s) /\ Cardinality(s) \in Nat
                              /\ Cardinality(s) =< Cardinality(S)
    BY FS_Subset, FS_CardinalityType
  <1>2. 0 \in T
    <2>1. \A s \in Small(0) : s = {}
      BY <1>1, FS_EmptySet
    <2>2. Adds(f, [s \in Small(0) |-> 0], Small(0))
      BY <2>1 DEF Adds
    <2> QED  BY <2>2
  <1>3. ASSUME NEW n \in Nat, n \in T PROVE n + 1 \in T
    <2>1. PICK g : Adds(f, g, Small(n))
      BY <1>3
    <2> DEFINE h == [s \in Small(n + 1) |-> IF s = {} THEN 0
                                            ELSE f[pick(s)] + g[s \ {pick(s)}]]
    <2>2. \A s \in Small(n) : s \in Small(n + 1) /\ g[s] = h[s]
      <3>1. g = [s \in Small(n) |-> IF s = {} THEN 0 ELSE f[pick(s)] + g[s \ {pick(s)}]]
        BY <2>1 DEF Adds
      <3>2. \A s \in Small(n) : s \in Small(n + 1)
        BY <1>1
      <3> HIDE DEF Small, pick
      <3>3. \A s \in Small(n) : g[s] = IF s = {} THEN 0 ELSE f[pick(s)] + g[s \ {pick(s)}]
        BY <3>1
      <3> QED  BY <3>2, <3>3
    <2>3. ASSUME NEW s \in Small(n + 1), s # {}
          PROVE  s \ {pick(s)} \in Small(n)
      <3>1. pick(s) \in s
        BY <2>3
      <3>2. Cardinality(s \ {pick(s)}) = Cardinality(s) - 1
        BY <1>1, <3>1, FS_RemoveElement
      <3> QED  BY <1>1, <3>2
    <2>4. h = [s \in Small(n + 1) |-> IF s = {} THEN 0 ELSE f[pick(s)] + h[s \ {pick(s)}]]
      <3> DEFINE k == [s \in Small(n + 1) |-> IF s = {} THEN 0
                                              ELSE f[pick(s)] + h[s \ {pick(s)}]]
      <3>1. \A s \in Small(n + 1) : h[s] = k[s]
        <4> HIDE DEF Small, pick
        <4> QED  BY <2>2, <2>3
      <3> QED  BY <3>1
    <2>5. Adds(f, h, Small(n + 1))
      BY <2>4 DEF Adds
    <2> QED  BY <2>5
  <1>4. Nat \subseteq T
    <2> HIDE DEF T
    <2> QED  BY <1>2, <1>3, Induct
  <1>5. Cardinality(S) \in T /\ Small(Cardinality(S)) = SUBSET S
    BY <1>1, <1>4
  <1> QED  BY <1>5

\* What is a sum of a set is a sum of its subsets.
LEMMA SumsAgree ==
    ASSUME NEW f, NEW S, NEW R, IsFiniteSet(S), NEW g, NEW h,
           Adds(f, g, SUBSET S), Adds(f, h, SUBSET R)
    PROVE  \A s \in SUBSET (S \cap R) : g[s] = h[s]
  <1> DEFINE F == {s \in SUBSET (S \cap R) : g[s] # h[s]}
  <1>1. SUFFICES ASSUME F # {} PROVE FALSE
    OBVIOUS
  <1>2. Family(F, S)
    BY <1>1, FS_Subset DEF Family
  <1>3. \E s : Minimal(s, F)
    <2> HIDE DEF F
    <2> QED  BY <1>2, LeastSet
  <1>8. PICK s \in F : \A t \in F : t \subseteq s => t = s
    BY <1>3 DEF Minimal
  <1>4. s # {}
    BY DEF Adds
  <1> DEFINE x == CHOOSE x \in s : TRUE
  <1>5. x \in s
    BY <1>4
  <1>6. g[s \ {x}] = h[s \ {x}]
    BY <1>8, <1>5
  <1>7. g[s] = f[x] + g[s \ {x}] /\ h[s] = f[x] + h[s \ {x}]
    BY <1>4 DEF Adds
  <1> QED  BY <1>6, <1>7

LEMMA SumEmpty == \A f : Sum(f, {}) = 0
  <1> TAKE f
  <1>1. Adds(f, CHOOSE sum : Adds(f, sum, SUBSET {}), SUBSET {})
    BY SumExists, FS_EmptySet
  <1> QED  BY <1>1 DEF Adds, Sum

\* The sum of a set in terms of the sum without the element chosen first.
LEMMA SumUnfolds ==
    ASSUME NEW f, NEW S, IsFiniteSet(S), S # {}
    PROVE  \E x \in S : Sum(f, S) = f[x] + Sum(f, S \ {x})
  <1> DEFINE x == CHOOSE x \in S : TRUE
             R == S \ {x}
             g == CHOOSE sum : Adds(f, sum, SUBSET S)
             h == CHOOSE sum : Adds(f, sum, SUBSET R)
  <1>1. x \in S
    OBVIOUS
  <1>2. IsFiniteSet(R)
    BY FS_Subset
  <1>3. Adds(f, g, SUBSET S) /\ Adds(f, h, SUBSET R)
    BY <1>2, SumExists
  <1>4. g[R] = h[R]
    <2>1. R \in SUBSET (S \cap R)
      OBVIOUS
    <2> HIDE DEF g, h, R
    <2> QED  BY <1>3, <2>1, SumsAgree
  <1>5. g[S] = f[x] + g[R]
    BY <1>3 DEF Adds
  <1>6. Sum(f, S) = g[S] /\ Sum(f, R) = h[R]
    BY DEF Sum
  <1> QED  BY <1>1, <1>4, <1>5, <1>6

\* Any element may be added last, and sums of integers are integers.
LEMMA SumAdds ==
    ASSUME NEW f, NEW S, IsFiniteSet(S), \A x \in S : f[x] \in Int
    PROVE  /\ Sum(f, S) \in Int
           /\ \A x \in S : Sum(f, S) = f[x] + Sum(f, S \ {x})
  <1> DEFINE Good(s) == /\ Sum(f, s) \in Int
                        /\ \A x \in s : Sum(f, s) = f[x] + Sum(f, s \ {x})
             F == {s \in SUBSET S : ~Good(s)}
  <1>1. SUFFICES ASSUME F # {} PROVE FALSE
    OBVIOUS
  <1>2. Family(F, S)
    BY <1>1, FS_Subset DEF Family
  <1>3. \E s : Minimal(s, F)
    <2> HIDE DEF F
    <2> QED  BY <1>2, LeastSet
  <1>4. PICK s \in SUBSET S : ~Good(s) /\ \A t \in SUBSET s : t # s => Good(t)
    BY <1>3 DEF Minimal
  <1>5. s # {}
    <2>1. Sum(f, {}) = 0 /\ 0 \in Int /\ Good({})
      BY SumEmpty
    <2> QED  BY <1>4, <2>1
  <1>6. IsFiniteSet(s)
    BY FS_Subset
  <1>7. PICK y \in s : Sum(f, s) = f[y] + Sum(f, s \ {y})
    BY <1>5, <1>6, SumUnfolds
  <1>8. Good(s \ {y})
    BY <1>4
  <1>9. Sum(f, s) \in Int
    BY <1>7, <1>8
  <1>10. ASSUME NEW x \in s PROVE Sum(f, s) = f[x] + Sum(f, s \ {x})
    <2>1. CASE x = y
      BY <1>7, <2>1
    <2>2. CASE x # y
      <3> DEFINE a == Sum(f, s \ {y})
                 b == Sum(f, s \ {x})
                 r == Sum(f, (s \ {y}) \ {x})
      <3>1. Good(s \ {x}) /\ Good((s \ {y}) \ {x})
        BY <1>4
      <3>2. a = f[x] + r
        BY <1>8, <2>2
      <3>3. (s \ {x}) \ {y} = (s \ {y}) \ {x}
        OBVIOUS
      <3>4. b = f[y] + r
        BY <3>1, <3>3, <2>2
      <3>5. r \in Int /\ a \in Int /\ b \in Int
        BY <3>1, <1>8
      <3>6. f[x] \in Int /\ f[y] \in Int
        OBVIOUS
      <3>7. Sum(f, s) = f[y] + a
        BY <1>7
      <3> HIDE DEF a, b, r
      <3>8. f[y] + a = f[x] + b
        BY <3>2, <3>4, <3>5, <3>6
      <3> QED  BY <3>7, <3>8 DEF b
    <2> QED  BY <2>1, <2>2
  <1> QED  BY <1>4, <1>9, <1>10

LEMMA SumTakes ==
    ASSUME NEW f, NEW S, Summable(f, S)
    PROVE  /\ Sum(f, S) \in Int
           /\ \A x \in S : Sum(f, S) = f[x] + Sum(f, S \ {x})
  BY SumAdds DEF Summable

\* Two sums in step: what the second has more at each element, and at each
\* element that the first leaves out, it has more in all.
LEMMA SumsOrdered ==
    ASSUME NEW S, IsFiniteSet(S), NEW R \in SUBSET S, NEW f, NEW g,
           \A x \in R : f[x] \in Int, \A x \in S : g[x] \in Int,
           \A x \in R : f[x] =< g[x], \A x \in S \ R : 0 =< g[x]
    PROVE  Sum(f, R) =< Sum(g, S)
  <1> DEFINE Good(s) == Sum(f, s \cap R) =< Sum(g, s)
             F == {s \in SUBSET S : ~Good(s)}
  <1>1. SUFFICES ASSUME F # {} PROVE FALSE
    <2>1. S \notin F
      BY <1>1
    <2>2. S \cap R = R
      OBVIOUS
    <2> QED  BY <2>1, <2>2
  <1>2. Family(F, S)
    BY <1>1, FS_Subset DEF Family
  <1>3. \E s : Minimal(s, F)
    <2> HIDE DEF F
    <2> QED  BY <1>2, LeastSet
  <1>4. PICK s \in SUBSET S : ~Good(s) /\ \A t \in SUBSET s : t # s => Good(t)
    BY <1>3 DEF Minimal
  <1>5. PICK y \in s : TRUE
    <2>1. {} \cap R = {} /\ Sum(f, {}) = 0 /\ Sum(g, {}) = 0
      BY SumEmpty
    <2>2. Good({})
      BY <2>1
    <2> QED  BY <1>4, <2>2
  <1>6. IsFiniteSet(s) /\ IsFiniteSet(s \cap R) /\ IsFiniteSet(s \ {y})
          /\ IsFiniteSet((s \ {y}) \cap R)
    BY FS_Subset
  <1>7. Sum(f, (s \ {y}) \cap R) =< Sum(g, s \ {y})
    BY <1>4, <1>5
  <1>8. /\ Sum(g, s) \in Int /\ Sum(g, s) = g[y] + Sum(g, s \ {y})
        /\ Sum(g, s \ {y}) \in Int
    BY <1>5, <1>6, SumAdds
  <1>9. Sum(f, s \cap R) \in Int /\ Sum(f, (s \ {y}) \cap R) \in Int
    BY <1>6, SumAdds
  <1>10. CASE y \in R
    <2>1. Sum(f, s \cap R) = f[y] + Sum(f, (s \cap R) \ {y})
      BY <1>5, <1>6, <1>10, SumAdds
    <2>2. (s \cap R) \ {y} = (s \ {y}) \cap R
      OBVIOUS
    <2>3. f[y] \in Int /\ g[y] \in Int /\ f[y] =< g[y]
      BY <1>5, <1>10
    <2> DEFINE a == Sum(f, s \cap R)
               b == Sum(f, (s \ {y}) \cap R)
               c == Sum(g, s)
               d == Sum(g, s \ {y})
    <2>4. a = f[y] + b /\ c = g[y] + d /\ b =< d
      BY <1>7, <1>8, <2>1, <2>2
    <2>5. a \in Int /\ b \in Int /\ c \in Int /\ d \in Int
      BY <1>8, <1>9
    <2>6. a =< c
      <3> HIDE DEF a, b, c, d
      <3> QED  BY <2>3, <2>4, <2>5
    <2> QED  BY <1>4, <2>6
  <1>11. CASE y \notin R
    <2>1. s \cap R = (s \ {y}) \cap R
      BY <1>11
    <2>2. g[y] \in Int /\ 0 =< g[y]
      BY <1>5, <1>11
    <2> QED  BY <1>4, <1>7, <1>8, <1>9, <2>1, <2>2
  <1> QED  BY <1>10, <1>11

\* Equal terms have equal sums.
LEMMA SumsEqual ==
    ASSUME NEW S, IsFiniteSet(S), NEW f, NEW g,
           \A x \in S : f[x] \in Int /\ g[x] = f[x]
    PROVE  Sum(f, S) = Sum(g, S)
  <1>1. Sum(f, S) =< Sum(g, S) /\ Sum(g, S) =< Sum(f, S)
    <2>1. S \in SUBSET S /\ S \ S = {}
      OBVIOUS
    <2>2. \A x \in S : f[x] \in Int /\ g[x] \in Int /\ f[x] =< g[x] /\ g[x] =< f[x]
      OBVIOUS
    <2>3. Sum(f, S) =< Sum(g, S)
      BY <2>1, <2>2, SumsOrdered
    <2>4. Sum(g, S) =< Sum(f, S)
      BY <2>1, <2>2, SumsOrdered
    <2> QED  BY <2>3, <2>4
  <1>2. Sum(f, S) \in Int /\ Sum(g, S) \in Int
    BY SumAdds
  <1> QED  BY <1>1, <1>2

LEMMA SumOfOne ==
    ASSUME NEW f, NEW x, f[x] \in Int
    PROVE  Sum(f, {x}) = f[x]
  <1>1. IsFiniteSet({x}) /\ {x} \ {x} = {}
    BY FS_Singleton
  <1>2. Sum(f, {x}) = f[x] + Sum(f, {})
    BY <1>1, SumAdds
  <1> QED  BY <1>2, SumEmpty

\* Doubts add up: as many as there are terms.
LEMMA SumsClose ==
    ASSUME NEW S, IsFiniteSet(S), NEW f, NEW g, NEW doubt \in Nat,
           \A x \in S : f[x] \in Int /\ g[x] \in Int,
           \A x \in S : 2 * f[x] =< 2 * g[x] + doubt
    PROVE  2 * Sum(f, S) =< 2 * Sum(g, S) + Cardinality(S) * doubt
  <1> DEFINE Good(s) == 2 * Sum(f, s) =< 2 * Sum(g, s) + Cardinality(s) * doubt
             F == {s \in SUBSET S : ~Good(s)}
  <1>1. SUFFICES ASSUME F # {} PROVE FALSE
    OBVIOUS
  <1>2. Family(F, S)
    BY <1>1, FS_Subset DEF Family
  <1>3. \E s : Minimal(s, F)
    <2> HIDE DEF F
    <2> QED  BY <1>2, LeastSet
  <1>4. PICK s \in SUBSET S : ~Good(s) /\ \A t \in SUBSET s : t # s => Good(t)
    BY <1>3 DEF Minimal
  <1>5. PICK y \in s : TRUE
    <2>1. Sum(f, {}) = 0 /\ Sum(g, {}) = 0 /\ Cardinality({}) = 0
      BY SumEmpty, FS_EmptySet
    <2>2. Good({})
      BY <2>1
    <2> QED  BY <1>4, <2>2
  <1>6. IsFiniteSet(s) /\ IsFiniteSet(s \ {y})
    BY FS_Subset
  <1> DEFINE a == Sum(f, s)
             b == Sum(f, s \ {y})
             c == Sum(g, s)
             d == Sum(g, s \ {y})
             m == Cardinality(s \ {y})
  <1>7. a = f[y] + b /\ c = g[y] + d
    BY <1>6, SumAdds
  <1>8. a \in Int /\ b \in Int /\ c \in Int /\ d \in Int
    BY <1>6, SumAdds
  <1>9. m \in Nat /\ Cardinality(s) = m + 1
    BY <1>6, FS_RemoveElement, FS_CardinalityType
  <1>10. 2 * b =< 2 * d + m * doubt
    BY <1>4
  <1>11. f[y] \in Int /\ g[y] \in Int /\ 2 * f[y] =< 2 * g[y] + doubt
    OBVIOUS
  <1>12. 2 * a =< 2 * c + (m + 1) * doubt
    <2> HIDE DEF a, b, c, d, m
    <2>1. (m + 1) * doubt = m * doubt + doubt /\ m * doubt \in Nat
      BY <1>9
    <2> QED  BY <1>7, <1>8, <1>10, <1>11, <2>1
  <1>13. Good(s)
    BY <1>9, <1>12
  <1> QED  BY <1>4, <1>13

-----------------------------------------------------------------------------
(* The order of a specification.                                           *)

\* n entries of different keys.
Listed(s, n) ==
    /\ n \in Nat /\ DOMAIN s = 1 .. n
    /\ \A i \in 1 .. n : s[i].key \in Int
    /\ \A i, j \in 1 .. n : s[i].key = s[j].key => i = j

Ascending(s, n) ==
    /\ n \in Nat /\ DOMAIN s = 1 .. n
    /\ \A i \in 1 .. n : s[i].key \in Int
    /\ \A i, j \in 1 .. n : i < j => s[i].key < s[j].key

Before(s, i) == {j \in DOMAIN s : KeyOrder(s, j, i)}

\* The entries before one with a smaller key are fewer.
LEMMA BeforeGrows ==
    ASSUME NEW s, NEW n, Listed(s, n)
    PROVE  /\ \A i \in 1 .. n : Cardinality(Before(s, i)) \in 0 .. n - 1
           /\ \A i, j \in 1 .. n : s[i].key < s[j].key =>
                 Cardinality(Before(s, i)) < Cardinality(Before(s, j))
  <1>1. n \in Nat /\ DOMAIN s = 1 .. n /\ \A i \in 1 .. n : s[i].key \in Int
    BY DEF Listed
  <1>2. \A i \in 1 .. n : Before(s, i) = {j \in 1 .. n : s[j].key < s[i].key}
    BY DEF Before, KeyOrder, Listed
  <1>3. IsFiniteSet(1 .. n) /\ Cardinality(1 .. n) = n
    BY <1>1, FS_Interval
  <1>4. \A i \in 1 .. n : IsFiniteSet(Before(s, i)) /\ Cardinality(Before(s, i)) \in Nat
    BY <1>2, <1>3, FS_Subset, FS_CardinalityType
  <1>5. ASSUME NEW i \in 1 .. n PROVE Cardinality(Before(s, i)) \in 0 .. n - 1
    <2> DEFINE U == 1 .. n
    <2>1. Before(s, i) \in SUBSET U /\ Before(s, i) # U
      BY <1>1, <1>2
    <2>2. IsFiniteSet(U) /\ Cardinality(U) = n
      BY <1>3
    <2> HIDE DEF U
    <2>3. Cardinality(Before(s, i)) =< n /\ Cardinality(Before(s, i)) # n
      BY <2>1, <2>2, FS_Subset
    <2> QED  BY <1>1, <1>4, <2>3
  <1>6. ASSUME NEW i \in 1 .. n, NEW j \in 1 .. n, s[i].key < s[j].key
        PROVE  Cardinality(Before(s, i)) < Cardinality(Before(s, j))
    <2>1. Before(s, i) \in SUBSET Before(s, j)
      BY <1>1, <1>2, <1>6
    <2>2. Before(s, i) # Before(s, j)
      <3>1. i \in Before(s, j) /\ i \notin Before(s, i)
        BY <1>1, <1>2, <1>6
      <3> QED  BY <3>1
    <2>3. /\ Cardinality(Before(s, i)) =< Cardinality(Before(s, j))
          /\ Cardinality(Before(s, i)) # Cardinality(Before(s, j))
      BY <1>4, <2>1, <2>2, FS_Subset
    <2> QED  BY <1>4, <2>3
  <1> QED  BY <1>5, <1>6

\* Sorting moves every entry to the place of its rank.
LEMMA SortedRanks ==
    ASSUME NEW s, NEW n, Listed(s, n)
    PROVE  \E rank \in [1 .. n -> 1 .. n] :
              /\ \A m \in 1 .. n : \E i \in 1 .. n : rank[i] = m
              /\ \A i, j \in 1 .. n : rank[i] = rank[j] => i = j
              /\ \A i, j \in 1 .. n : s[i].key < s[j].key => rank[i] < rank[j]
              /\ \A i \in 1 .. n : Sorted(s)[rank[i]] = s[i]
  <1> DEFINE U == 1 .. n
             rank == [i \in U |-> Cardinality(Before(s, i)) + 1]
  <1>1. n \in Nat /\ DOMAIN s = U /\ \A i \in U : s[i].key \in Int
    BY DEF Listed
  <1>2. rank \in [U -> U] /\ \A i \in U : Cardinality(Before(s, i)) \in Nat
    BY <1>1, BeforeGrows
  <1>3. \A i, j \in U : s[i].key < s[j].key => rank[i] < rank[j]
    <2> SUFFICES ASSUME NEW i \in U, NEW j \in U, s[i].key < s[j].key PROVE rank[i] < rank[j]
      OBVIOUS
    <2>1. Cardinality(Before(s, i)) < Cardinality(Before(s, j))
      BY BeforeGrows
    <2>2. Cardinality(Before(s, i)) \in Nat /\ Cardinality(Before(s, j)) \in Nat
      BY <1>2
    <2>3. /\ rank[i] = Cardinality(Before(s, i)) + 1
          /\ rank[j] = Cardinality(Before(s, j)) + 1
      OBVIOUS
    <2> HIDE DEF rank, U
    <2> QED  BY <2>1, <2>2, <2>3
  <1>4. \A i, j \in U : rank[i] = rank[j] => i = j
    <2> SUFFICES ASSUME NEW i \in U, NEW j \in U, rank[i] = rank[j] PROVE i = j
      OBVIOUS
    <2>1. rank[i] \in Int /\ rank[j] \in Int /\ s[i].key \in Int /\ s[j].key \in Int
      BY <1>1, <1>2
    <2>2. ~(s[i].key < s[j].key) /\ ~(s[j].key < s[i].key)
      BY <1>3, <2>1
    <2>3. s[i].key = s[j].key
      BY <2>1, <2>2
    <2> QED  BY <2>3 DEF Listed
  <1>5. \A m \in U : \E i \in U : rank[i] = m
    <2>1. IsFiniteSet(U)
      BY <1>1, FS_Interval
    <2>2. rank \in Injection(U, U)
      BY <1>2, <1>4 DEF Injection, IsInjective
    <2> HIDE DEF rank, U
    <2>3. rank \in Surjection(U, U)
      BY <2>1, <2>2, FS_Injection
    <2> QED  BY <2>3 DEF Surjection
  <1>6. ASSUME NEW i \in U PROVE Sorted(s)[rank[i]] = s[i]
    <2> DEFINE at(j) == Cardinality(Before(s, j)) = rank[i] - 1
    <2>1. rank[i] \in U /\ at(i)
      BY <1>2
    <2>2. \A j \in U : at(j) => j = i
      BY <1>2, <1>4
    <2>3. Sorted(s)[rank[i]] = s[CHOOSE j \in U : at(j)]
      BY <1>1, <2>1 DEF Sorted, Before
    <2>4. (CHOOSE j \in U : at(j)) = i
      <3> HIDE DEF U, rank, at
      <3> QED  BY <2>1, <2>2
    <2> QED  BY <2>3, <2>4
  <1> QED  BY <1>2, <1>3, <1>4, <1>5, <1>6

\* It orders the entries by their keys, and loses and invents none.
LEMMA SortedAscends ==
    ASSUME NEW s, NEW n, Listed(s, n)
    PROVE  Ascending(Sorted(s), n) /\ Range(Sorted(s)) = Range(s)
  <1> DEFINE t == Sorted(s)
  <1>1. n \in Nat /\ DOMAIN s = 1 .. n /\ \A i \in 1 .. n : s[i].key \in Int
    BY DEF Listed
  <1>2. DOMAIN t = 1 .. n
    BY <1>1 DEF Sorted
  <1>3. PICK rank \in [1 .. n -> 1 .. n] :
          /\ \A m \in 1 .. n : \E i \in 1 .. n : rank[i] = m
          /\ \A i, j \in 1 .. n : rank[i] = rank[j] => i = j
          /\ \A i, j \in 1 .. n : s[i].key < s[j].key => rank[i] < rank[j]
          /\ \A i \in 1 .. n : t[rank[i]] = s[i]
    BY SortedRanks
  <1> HIDE DEF t
  <1>4. \A m \in 1 .. n : t[m].key \in Int
    BY <1>1, <1>3
  <1>5. ASSUME NEW l \in 1 .. n, NEW m \in 1 .. n, l < m PROVE t[l].key < t[m].key
    <2>1. PICK i \in 1 .. n, j \in 1 .. n : rank[i] = l /\ rank[j] = m
      BY <1>3
    <2>2. t[l] = s[i] /\ t[m] = s[j]
      <3>1. t[rank[i]] = s[i] /\ t[rank[j]] = s[j]
        BY <1>3
      <3> QED  BY <2>1, <3>1
    <2>3. l \in Int /\ m \in Int
      BY <1>1
    <2>4. i # j
      BY <1>5, <2>1, <2>3
    <2>5. s[i].key # s[j].key
      BY <2>4 DEF Listed
    <2>6. ~(s[j].key < s[i].key)
      <3>1. s[j].key < s[i].key => m < l
        BY <1>3, <2>1
      <3> QED  BY <1>5, <2>3, <3>1
    <2>7. s[i].key \in Int /\ s[j].key \in Int
      BY <1>1
    <2>8. s[i].key < s[j].key
      BY <2>5, <2>6, <2>7
    <2> QED  BY <2>2, <2>8
  <1>6. Range(t) = Range(s)
    BY <1>1, <1>2, <1>3 DEF Range
  <1> QED  BY <1>1, <1>2, <1>4, <1>5, <1>6 DEF Ascending, t

\* There is one way to order given entries by their keys.
LEMMA OrderUnique ==
    ASSUME NEW s, NEW t, NEW n, Ascending(s, n), Ascending(t, n), Range(s) = Range(t)
    PROVE  \A i \in 1 .. n : s[i] = t[i]
  <1> DEFINE T == {i \in 1 .. n : s[i] # t[i]}
  <1>1. SUFFICES ASSUME T # {} PROVE FALSE
    OBVIOUS
  <1>2. /\ n \in Nat /\ DOMAIN s = 1 .. n /\ DOMAIN t = 1 .. n
        /\ \A i \in 1 .. n : s[i].key \in Int /\ t[i].key \in Int
        /\ \A i, j \in 1 .. n : i < j => s[i].key < s[j].key /\ t[i].key < t[j].key
    BY DEF Ascending
  <1>3. T \subseteq Nat
    OBVIOUS
  <1>4. \E i \in T : \A j \in T : i =< j
    <2> HIDE DEF T
    <2> QED  BY <1>1, <1>3, Least
  <1>5. PICK i \in 1 .. n : s[i] # t[i] /\ \A j \in 1 .. n : s[j] # t[j] => i =< j
    BY <1>4
  <1>6. PICK j \in 1 .. n, l \in 1 .. n : s[i] = t[j] /\ t[i] = s[l]
    BY <1>2 DEF Range
  <1>7. i < j /\ i < l
    <2>1. ~(j < i)
      <3>1. j < i => s[j] = t[j] /\ s[j].key < s[i].key
        BY <1>2, <1>5
      <3> QED  BY <1>2, <1>6, <3>1
    <2>2. ~(l < i)
      <3>1. l < i => s[l] = t[l] /\ t[l].key < t[i].key
        BY <1>2, <1>5
      <3> QED  BY <1>2, <1>6, <3>1
    <2> QED  BY <1>2, <1>5, <1>6, <2>1, <2>2
  <1>8. t[i].key < t[j].key /\ s[i].key < s[l].key
    BY <1>2, <1>7
  <1> QED  BY <1>2, <1>6, <1>8

-----------------------------------------------------------------------------
(* Division and powers of ten.                                             *)

\* The quotient of a division without its rest.
LEMMA Division ==
    ASSUME NEW n \in Nat, NEW q \in Nat \ {0}
    PROVE  /\ n \div q \in Nat /\ (n \div q) * q \in Nat
           /\ (n \div q) * q =< n /\ n < (n \div q) * q + q
  OBVIOUS

LEMMA Multiple ==
    ASSUME NEW m \in Nat, NEW q \in Nat \ {0}
    PROVE  /\ (m * q) \div q = m
           /\ (m + 1) * q = m * q + q
  OBVIOUS

LEMMA MultiplesApart ==
    ASSUME NEW a \in Nat, NEW b \in Nat, a < b, NEW q \in Nat \ {0}
    PROVE  a * q + q =< b * q
  OBVIOUS

LEMMA DivisionMonotone ==
    ASSUME NEW m \in Nat, NEW n \in Nat, m =< n, NEW q \in Nat \ {0}
    PROVE  m \div q =< n \div q
  OBVIOUS

LEMMA Times ==
    ASSUME NEW m \in Nat, NEW n \in Nat, m =< n, NEW p \in Nat
    PROVE  m * p \in Nat /\ n * p \in Nat /\ m * p =< n * p
  OBVIOUS

\* The quotient, from above and below.
LEMMA DivisionUnique ==
    ASSUME NEW n \in Nat, NEW q \in Nat \ {0}, NEW d \in Nat, NEW r \in Nat,
           n = d * q + r, r < q
    PROVE  n \div q = d /\ n % q = r
  <1>1. PICK e \in Nat, t \in Nat : e = n \div q /\ t = n % q /\ t < q /\ n = e * q + t
    OBVIOUS
  <1>2. PICK a \in Nat, b \in Nat : a = d * q /\ b = e * q
    OBVIOUS
  <1>3. ~(d < e) /\ ~(e < d)
    <2>1. d < e => a + q =< b
      BY <1>2, MultiplesApart
    <2>2. e < d => b + q =< a
      BY <1>2, MultiplesApart
    <2> QED  BY <1>1, <1>2, <2>1, <2>2
  <1>4. d = e
    BY <1>3
  <1> QED  BY <1>1, <1>2, <1>4

LEMMA TensAre ==
    Tens = [p \in 0 .. Digits + 2 |-> IF p = 0 THEN 1 ELSE 10 * Tens[p - 1]]
  <1> DEFINE Upto(f, k) == f = [p \in 0 .. k |-> IF p = 0 THEN 1 ELSE 10 * f[p - 1]]
             T == {k \in Nat : \E f : Upto(f, k)}
  <1>1. 0 \in T
    <2>1. Upto([p \in 0 .. 0 |-> 1], 0)
      OBVIOUS
    <2> QED  BY <2>1
  <1>2. ASSUME NEW k \in Nat, k \in T PROVE k + 1 \in T
    <2>1. PICK f : Upto(f, k)
      BY <1>2
    <2> DEFINE g == [p \in 0 .. k + 1 |-> IF p = 0 THEN 1 ELSE 10 * f[p - 1]]
               h == [p \in 0 .. k + 1 |-> IF p = 0 THEN 1 ELSE 10 * g[p - 1]]
    <2>2. \A p \in 0 .. k : f[p] = IF p = 0 THEN 1 ELSE 10 * f[p - 1]
      BY <2>1
    <2>3. \A p \in 0 .. k : p \in 0 .. k + 1 /\ g[p] = f[p]
      BY <2>2
    <2>4. \A p \in 0 .. k + 1 : p # 0 => p - 1 \in 0 .. k
      OBVIOUS
    <2>5. \A p \in 0 .. k + 1 : g[p] = h[p]
      BY <2>3, <2>4
    <2>6. g = h
      BY <2>5
    <2>7. Upto(g, k + 1)
      BY <2>6
    <2> HIDE DEF Upto, g
    <2>8. \E e : Upto(e, k + 1)
      BY <2>7
    <2> QED  BY <2>8
  <1>3. Digits + 2 \in T
    <2>1. Nat \subseteq T
      <3> HIDE DEF T
      <3> QED  BY <1>1, <1>2, Induct
    <2>2. Digits + 2 \in Nat
      BY DigitsAssumption
    <2> QED  BY <2>1, <2>2
  <1>4. \E f : Upto(f, Digits + 2)
    BY <1>3
  <1>5. Tens = CHOOSE f : Upto(f, Digits + 2)
    BY DEF Tens
  <1>6. Upto(CHOOSE f : Upto(f, Digits + 2), Digits + 2)
    <2> HIDE DEF Upto
    <2> QED  BY <1>4
  <1> QED  BY <1>5, <1>6

\* Positive, each ten times the one before, and divisors of the largest.
LEMMA TensValues ==
    /\ Tens[0] = 1
    /\ \A p \in 0 .. Digits + 2 : Tens[p] \in Nat \ {0}
    /\ \A p \in 0 .. Digits + 1 : Tens[p + 1] = 10 * Tens[p]
    /\ \A p \in 0 .. Digits + 2 : Tens[p] * Tens[Digits + 2 - p] = One
  <1>1. Digits + 2 \in Nat /\ Digits \in Nat
    BY DigitsAssumption
  <1>2. /\ Tens[0] = 1
        /\ \A p \in 0 .. Digits + 1 : Tens[p + 1] = 10 * Tens[p]
    <2>1. \A p \in 0 .. Digits + 2 : Tens[p] = IF p = 0 THEN 1 ELSE 10 * Tens[p - 1]
      BY TensAre
    <2>2. \A p \in 0 .. Digits + 1 :
             p + 1 \in 0 .. Digits + 2 /\ p + 1 # 0 /\ (p + 1) - 1 = p
      BY <1>1
    <2>3. 0 \in 0 .. Digits + 2
      BY <1>1
    <2> QED  BY <2>1, <2>2, <2>3
  <1>3. \A p \in 0 .. Digits + 2 : Tens[p] \in Nat \ {0}
    <2> DEFINE T == {p \in Nat : p =< Digits + 2 => Tens[p] \in Nat \ {0}}
    <2>1. 0 \in T
      BY <1>2
    <2>2. ASSUME NEW p \in Nat, p \in T PROVE p + 1 \in T
      <3> SUFFICES ASSUME p + 1 =< Digits + 2 PROVE Tens[p + 1] \in Nat \ {0}
        OBVIOUS
      <3>1. p \in 0 .. Digits + 1 /\ Tens[p] \in Nat \ {0}
        BY <1>1, <2>2
      <3> QED  BY <1>2, <3>1
    <2>3. Nat \subseteq T
      <3> HIDE DEF T
      <3> QED  BY <2>1, <2>2, Induct
    <2> QED  BY <1>1, <2>3
  <1>4. \A p \in 0 .. Digits + 2 : Tens[p] * Tens[Digits + 2 - p] = One
    <2> DEFINE T == {p \in Nat : p =< Digits + 2 => Tens[p] * Tens[Digits + 2 - p] = One}
    <2>1. 0 \in T
      <3>1. Tens[Digits + 2] \in Nat /\ Digits + 2 - 0 = Digits + 2
        BY <1>1, <1>3
      <3> QED  BY <1>2, <3>1 DEF One
    <2>2. ASSUME NEW p \in Nat, p \in T PROVE p + 1 \in T
      <3> SUFFICES ASSUME p + 1 =< Digits + 2 PROVE Tens[p + 1] * Tens[Digits + 2 - (p + 1)] = One
        OBVIOUS
      <3>1. p \in 0 .. Digits + 1 /\ Digits + 2 - (p + 1) \in 0 .. Digits + 1
        BY <1>1
      <3>2. Digits + 2 - (p + 1) + 1 = Digits + 2 - p
        BY <1>1
      <3>3. Tens[p + 1] = 10 * Tens[p] /\ Tens[Digits + 2 - p] = 10 * Tens[Digits + 2 - (p + 1)]
        BY <1>2, <3>1, <3>2
      <3>4. PICK a \in Nat, b \in Nat : a = Tens[p] /\ b = Tens[Digits + 2 - (p + 1)]
        BY <1>1, <1>3, <3>1
      <3>5. Tens[p] * Tens[Digits + 2 - p] = One
        BY <1>1, <2>2, <3>1
      <3>6. (10 * a) * b = a * (10 * b)
        OBVIOUS
      <3> QED  BY <3>3, <3>4, <3>5, <3>6
    <2>3. Nat \subseteq T
      <3> HIDE DEF T
      <3> QED  BY <2>1, <2>2, Induct
    <2> QED  BY <1>1, <2>3
  <1> QED  BY <1>2, <1>3, <1>4

\* n is d and r/w in places finer than half of w.
Placed(n, d, r, w, p) ==
    /\ n \in Nat /\ d \in Nat /\ r \in Nat /\ w \in Nat \ {0} /\ p \in Nat \ {0}
    /\ r < w /\ w < 2 * p /\ n = (d * w + r) * p

\* Rounding to such places never reaches an integer that the exact quotient
\* does not.
LEMMA RoundsWithin ==
    ASSUME NEW n, NEW d, NEW r, NEW w, NEW p, Placed(n, d, r, w, p)
    PROVE  \E x \in Nat : HalfEven(n, w) = d * p + x /\ x < p /\ (x = 0 <=> r = 0)
  <1> USE DEF Placed
  <1>1. PICK t \in Nat : t = r * p
    OBVIOUS
  <1>2. PICK e \in Nat, m \in Nat : t = e * w + m /\ m < w
    <2>1. t \div w \in Nat /\ t % w \in Nat /\ t % w < w /\ t = (t \div w) * w + (t % w)
      OBVIOUS
    <2> QED  BY <2>1
  <1>3. PICK dp \in Nat : dp = d * p
    OBVIOUS
  <1>5. n \div w = dp + e /\ n % w = m
    <2>1. n = (dp + e) * w + m
      <3>1. (d * w + r) * p = (d * p) * w + r * p
        OBVIOUS
      <3>2. (dp + e) * w = dp * w + e * w
        OBVIOUS
      <3> QED  BY <1>1, <1>2, <1>3, <3>1, <3>2
    <2>2. dp + e \in Nat
      OBVIOUS
    <2> QED  BY <1>2, <2>1, <2>2, DivisionUnique
  <1> DEFINE up == 2 * m > w \/ (2 * m = w /\ (dp + e) % 2 = 1)
             x == IF up THEN e + 1 ELSE e
  <1>6. HalfEven(n, w) = dp + x
    <2>1. HalfEven(n, w) = IF up THEN dp + e + 1 ELSE dp + e
      BY <1>5 DEF HalfEven
    <2> QED  BY <2>1
  <1>7. 2 * m < w => ~up
    OBVIOUS
  <1>8. w < 2 * m => up
    OBVIOUS
  <1>9. x \in Nat /\ (up => x = e + 1) /\ (~up => x = e)
    OBVIOUS
  <1> HIDE DEF up, x
  <1>10. PICK wp \in Nat, ew \in Nat : wp = w * p /\ ew = e * w
    OBVIOUS
  <1>11. t + p =< wp
    <2>1. r * p + p =< w * p
      BY MultiplesApart
    <2> QED  BY <1>1, <1>10, <2>1
  <1>12. e < p
    <2>1. p =< e => p * w =< e * w
      OBVIOUS
    <2>2. p * w = w * p
      OBVIOUS
    <2> QED  BY <1>2, <1>10, <1>11, <2>1, <2>2
  <1>13. x < p
    <2>1. CASE e + 1 < p
      BY <1>9, <2>1
    <2>2. CASE e + 1 = p
      <3>1. (e + 1) * w = e * w + w /\ p * w = w * p
        OBVIOUS
      <3>2. ew + w = wp
        BY <1>10, <2>2, <3>1
      <3>3. 2 * m < w
        BY <1>2, <1>10, <1>11, <3>2
      <3> QED  BY <1>7, <1>9, <2>2, <3>3
    <2> QED  BY <1>12, <2>1, <2>2
  <1>14. x = 0 <=> r = 0
    <2>1. ASSUME r = 0 PROVE x = 0
      <3>1. t = 0
        BY <1>1, <2>1
      <3>2. ew = 0 /\ m = 0
        BY <1>2, <1>10, <3>1
      <3>3. e = 0
        <4>1. e # 0 => w =< e * w
          OBVIOUS
        <4> QED  BY <1>10, <3>2, <4>1
      <3> QED  BY <1>7, <1>9, <3>2, <3>3
    <2>2. ASSUME r # 0, x = 0 PROVE FALSE
      <3>1. e = 0 /\ ~up
        BY <1>9, <2>2
      <3>2. t = m
        BY <1>2, <3>1
      <3>3. p =< r * p
        BY <2>2
      <3> QED  BY <1>1, <1>8, <3>1, <3>2, <3>3
    <2> QED  BY <2>1, <2>2
  <1> QED  BY <1>3, <1>6, <1>9, <1>13, <1>14

\* A division rounds at a power of ten: at the finest there is, or at one whose
\* next finer one has too many digits.
LEMMA QuotientPlaces ==
    ASSUME NEW n \in Nat, NEW w \in Nat \ {0}, n < Limit
    PROVE  \E p, q \in Nat \ {0} :
              /\ p * q = One /\ (p = One \/ Limit =< (n * (10 * p)) \div w)
              /\ Quotient(n, w) = HalfEven(n * p, w) * q
  <1> DEFINE fits(p) == (n * p) \div w < Limit
  <1>1. /\ Digits \in Nat /\ Digits + 2 \in Nat
        /\ One \in Nat \ {0} /\ Limit \in Nat \ {0} /\ Tens[Digits + 2] = One
    BY DigitsAssumption, TensValues DEF One, Limit
  <1>2. \E k \in 0 .. Digits + 2 : fits(Tens[k]) /\ (k = Digits + 2 \/ ~fits(Tens[k + 1]))
    <2> DEFINE T == {k \in 0 .. Digits + 2 : k = Digits + 2 \/ ~fits(Tens[k + 1])}
    <2>1. T \subseteq Nat /\ T # {}
      <3>1. Digits + 2 \in T
        BY <1>1
      <3> QED  BY <1>1, <3>1
    <2>2. PICK k \in T : \A l \in T : k =< l
      <3> HIDE DEF T
      <3> QED  BY <2>1, Least
    <2>3. k \in 0 .. Digits + 2 /\ k \in Nat
      BY <1>1
    <2>4. fits(Tens[k])
      <3>1. CASE k = 0
        <4>1. Tens[k] = 1
          BY <3>1, TensValues
        <4>2. (n * 1) \div w =< n
          OBVIOUS
        <4> QED  BY <1>1, <4>1, <4>2
      <3>2. CASE k # 0
        <4>1. k - 1 \in 0 .. Digits + 2 /\ k - 1 # Digits + 2 /\ (k - 1) + 1 = k /\ ~(k =< k - 1)
          BY <1>1, <2>3, <3>2
        <4>2. k - 1 \notin T
          BY <2>2, <4>1
        <4> HIDE DEF fits
        <4> QED  BY <4>1, <4>2
      <3> QED  BY <3>1, <3>2
    <2> QED  BY <2>3, <2>4
  <1>3. \E p \in Places : fits(p) /\ (p = One \/ ~fits(10 * p))
    <2>1. PICK k \in 0 .. Digits + 2 : fits(Tens[k]) /\ (k = Digits + 2 \/ ~fits(Tens[k + 1]))
      BY <1>2
    <2>2. Tens[k] \in Places
      BY DEF Places
    <2>3. k # Digits + 2 => Tens[k + 1] = 10 * Tens[k]
      BY <1>1, TensValues
    <2> HIDE DEF fits
    <2>4. k = Digits + 2 => Tens[k] = One
      BY <1>1
    <2> QED  BY <2>1, <2>2, <2>3, <2>4
  <1>4. PICK p \in Places : /\ fits(p) /\ (p = One \/ ~fits(10 * p))
                            /\ Quotient(n, w) = HalfEven(n * p, w) * (One \div p)
    <2> DEFINE places == CHOOSE p \in Places : fits(p) /\ (p = One \/ ~fits(10 * p))
    <2>1. Quotient(n, w) = HalfEven(n * places, w) * (One \div places)
      BY DEF Quotient
    <2> HIDE DEF fits
    <2>2. places \in Places /\ fits(places) /\ (places = One \/ ~fits(10 * places))
      BY <1>3
    <2> QED  BY <2>1, <2>2
  <1>5. PICK q \in Nat \ {0} : p \in Nat \ {0} /\ p * q = One /\ One \div p = q
    <2>1. PICK k \in 0 .. Digits + 2 : p = Tens[k]
      BY DEF Places
    <2>2. Digits + 2 - k \in 0 .. Digits + 2
      BY <1>1
    <2>3. p \in Nat \ {0} /\ Tens[Digits + 2 - k] \in Nat \ {0} /\ p * Tens[Digits + 2 - k] = One
      <3>1. p \in Nat \ {0} /\ Tens[Digits + 2 - k] \in Nat \ {0}
        BY <2>1, <2>2, TensValues
      <3>2. p * Tens[Digits + 2 - k] = One
        BY <2>1, TensValues
      <3> QED  BY <3>1, <3>2
    <2>4. PICK q \in Nat \ {0} : q = Tens[Digits + 2 - k]
      BY <2>3
    <2>5. p * q = q * p
      BY <2>3
    <2>6. (q * p) \div p = q
      BY <2>3, Multiple
    <2> QED  BY <2>3, <2>4, <2>5, <2>6
  <1>6. p = One \/ Limit =< (n * (10 * p)) \div w
    <2>1. (n * (10 * p)) \div w \in Int
      BY <1>5
    <2> QED  BY <1>1, <1>4, <2>1
  <1> QED  BY <1>4, <1>5, <1>6

\* Those places are finer than one over the divisor.
LEMMA PlacesFine ==
    ASSUME NEW n \in Nat, NEW w \in Nat \ {0}, 10 * n < Limit, w < One,
           NEW p \in Nat \ {0}, p = One \/ Limit =< (n * (10 * p)) \div w
    PROVE  w < p
  <1>1. Limit \in Nat
    BY DigitsAssumption, TensValues DEF Limit
  <1>2. CASE p = One
    BY <1>2
  <1>3. CASE Limit =< (n * (10 * p)) \div w
    <2>1. PICK u \in Nat : u = n * (10 * p)
      OBVIOUS
    <2>2. PICK a \in Nat : a = u \div w /\ a * w =< u
      BY <2>1, Division
    <2>3. 10 * n + 1 =< a
      BY <1>1, <1>3, <2>1, <2>2
    <2>4. (10 * n + 1) * w =< a * w
      BY <2>3
    <2>5. (10 * n + 1) * w = 10 * (n * w) + w
      OBVIOUS
    <2>6. n * (10 * p) = 10 * (n * p)
      OBVIOUS
    <2>7. PICK b \in Nat, c \in Nat, e \in Nat : b = n * w /\ c = n * p /\ e = a * w
      OBVIOUS
    <2>8. b < c
      BY <2>1, <2>2, <2>4, <2>5, <2>6, <2>7
    <2>9. p =< w => n * p =< n * w
      OBVIOUS
    <2> QED  BY <2>7, <2>8, <2>9
  <1> QED  BY <1>2, <1>3

\* A division whose dividend leaves a digit to spare finds the integer part of
\* the exact quotient, and a remainder exactly when there is one.
LEMMA QuotientIs ==
    ASSUME NEW n \in Nat, NEW w \in Nat \ {0}, 10 * n < Limit, w < One
    PROVE  /\ Quotient(n, w) \in Nat
           /\ Quotient(n, w) \div One = n \div w
           /\ Quotient(n, w) % One \in Nat
           /\ Quotient(n, w) % One = 0 <=> n % w = 0
  <1>1. One \in Nat \ {0} /\ Limit \in Nat \ {0}
    BY DigitsAssumption, TensValues DEF One, Limit
  <1>2. n < Limit
    BY <1>1
  <1>3. PICK p \in Nat \ {0}, q \in Nat \ {0} :
          /\ p * q = One /\ (p = One \/ Limit =< (n * (10 * p)) \div w)
          /\ Quotient(n, w) = HalfEven(n * p, w) * q
    BY <1>2, QuotientPlaces
  <1>4. w < 2 * p
    <2>1. w < p
      BY <1>3, PlacesFine
    <2> QED  BY <2>1
  <1>5. PICK d \in Nat, r \in Nat : d = n \div w /\ r = n % w /\ r < w /\ n = d * w + r
    OBVIOUS
  <1>6. PICK x \in Nat : HalfEven(n * p, w) = d * p + x /\ x < p /\ (x = 0 <=> r = 0)
    <2>1. p \in Nat \ {0} /\ r < w
      BY <1>5
    <2>2. PICK u \in Nat : u = (d * w + r) * p
      BY <2>1
    <2>3. \E x \in Nat : HalfEven(u, w) = d * p + x /\ x < p /\ (x = 0 <=> r = 0)
      <3>1. Placed(u, d, r, w, p)
        BY <1>4, <2>1, <2>2 DEF Placed
      <3> QED  BY <3>1, RoundsWithin
    <2>4. n * p = u
      BY <1>5, <2>2
    <2> QED  BY <2>3, <2>4
  <1>7. Quotient(n, w) = d * One + x * q
    <2>1. (d * p + x) * q = d * (p * q) + x * q
      OBVIOUS
    <2> QED  BY <1>3, <1>6, <2>1
  <1>8. PICK y \in Nat : y = x * q /\ y < One /\ (y = 0 <=> x = 0)
    <2>1. x * q + q =< p * q
      BY <1>6, MultiplesApart
    <2>2. x * q \in Nat /\ (x * q = 0 <=> x = 0)
      OBVIOUS
    <2> QED  BY <1>1, <1>3, <2>1, <2>2
  <1>9. PICK o \in Nat \ {0} : o = One
    BY <1>1
  <1>10. PICK z \in Nat : z = d * o + y /\ Quotient(n, w) = z
    BY <1>7, <1>8, <1>9
  <1>11. z \div o = d /\ z % o = y
    BY <1>8, <1>9, <1>10, DivisionUnique
  <1> QED  BY <1>5, <1>6, <1>8, <1>9, <1>10, <1>11

\* Rounding to a multiple of 1 / w is off by at most half of it.
LEMMA HalfEvenClose ==
    ASSUME NEW n \in Nat, NEW w \in Nat \ {0}
    PROVE  /\ HalfEven(n, w) \in Nat
           /\ 2 * (HalfEven(n, w) * w) =< 2 * n + w
           /\ 2 * n =< 2 * (HalfEven(n, w) * w) + w
  <1>1. PICK d \in Nat, m \in Nat : d = n \div w /\ m = n % w /\ m < w /\ n = d * w + m
    OBVIOUS
  <1>2. PICK c \in {0, 1} : HalfEven(n, w) = d + c /\ (c = 1 => w =< 2 * m) /\ (c = 0 => 2 * m =< w)
    BY <1>1 DEF HalfEven
  <1>3. PICK y \in Nat : y = d * w
    OBVIOUS
  <1>4. (d + c) * w = y + c * w /\ (c = 0 => c * w = 0) /\ (c = 1 => c * w = w)
    BY <1>3
  <1> QED  BY <1>1, <1>2, <1>3, <1>4

\* A quotient is within half of 1 / w of the exact one.
LEMMA QuotientClose ==
    ASSUME NEW n \in Nat, NEW w \in Nat \ {0}, 10 * n < Limit, w < One
    PROVE  /\ 2 * (w * Quotient(n, w)) < 2 * (n * One) + One
           /\ 2 * (n * One) < 2 * (w * Quotient(n, w)) + One
  <1>1. PICK o \in Nat \ {0} : o = One /\ Limit \in Nat \ {0}
    BY DigitsAssumption, TensValues DEF One, Limit
  <1>2. n < Limit
    BY <1>1
  <1>3. PICK p \in Nat \ {0}, q \in Nat \ {0} :
          /\ p * q = One /\ (p = One \/ Limit =< (n * (10 * p)) \div w)
          /\ Quotient(n, w) = HalfEven(n * p, w) * q
    BY <1>2, QuotientPlaces
  <1>4. w < p
    BY <1>3, PlacesFine
  <1>5. PICK x \in Nat : x = n * p
    OBVIOUS
  <1>6. PICK h \in Nat : h = HalfEven(x, w) /\ 2 * (h * w) =< 2 * x + w /\ 2 * x =< 2 * (h * w) + w
    BY HalfEvenClose
  <1>7. PICK v \in Nat, hq \in Nat : v = h * w /\ hq = h * q
    OBVIOUS
  <1>8. 2 * v =< 2 * x + w /\ 2 * x =< 2 * v + w
    BY <1>6, <1>7
  <1>9. PICK vq \in Nat, xq \in Nat, wq \in Nat : vq = v * q /\ xq = x * q /\ wq = w * q
    OBVIOUS
  <1>10. 2 * vq =< 2 * xq + wq
    <2>1. (2 * v) * q =< (2 * x + w) * q
      BY <1>8
    <2>2. (2 * v) * q = 2 * (v * q) /\ (2 * x + w) * q = 2 * (x * q) + w * q
      OBVIOUS
    <2> QED  BY <1>9, <2>1, <2>2
  <1>11. 2 * xq =< 2 * vq + wq
    <2>1. (2 * x) * q =< (2 * v + w) * q
      BY <1>8
    <2>2. (2 * x) * q = 2 * (x * q) /\ (2 * v + w) * q = 2 * (v * q) + w * q
      OBVIOUS
    <2> QED  BY <1>9, <2>1, <2>2
  <1>12. wq < o
    <2>1. w * q + q =< p * q
      BY <1>4, MultiplesApart
    <2> QED  BY <1>1, <1>3, <1>9, <2>1
  <1>13. xq = n * o
    <2>1. (n * p) * q = n * (p * q)
      OBVIOUS
    <2> QED  BY <1>1, <1>3, <1>5, <1>9, <2>1
  <1>14. w * Quotient(n, w) = vq
    <2>1. w * (h * q) = (h * w) * q
      OBVIOUS
    <2> QED  BY <1>3, <1>5, <1>6, <1>7, <1>9, <2>1
  <1> QED  BY <1>1, <1>10, <1>11, <1>12, <1>13, <1>14

-----------------------------------------------------------------------------
(* The units left over, and what the shares add up to.                     *)

\* h adds a of f and b of g.
Combined(h, a, f, b, g, S) ==
    /\ IsFiniteSet(S) /\ a \in Int /\ b \in Int
    /\ \A x \in S : f[x] \in Int /\ g[x] \in Int /\ h[x] = a * f[x] + b * g[x]

LEMMA SumLinear ==
    ASSUME NEW h, NEW a, NEW f, NEW b, NEW g, NEW S, Combined(h, a, f, b, g, S)
    PROVE  Sum(h, S) = a * Sum(f, S) + b * Sum(g, S)
  <1> DEFINE Good(s) == Sum(h, s) = a * Sum(f, s) + b * Sum(g, s)
             F == {s \in SUBSET S : ~Good(s)}
  <1>1. SUFFICES ASSUME F # {} PROVE FALSE
    OBVIOUS
  <1>2. Family(F, S)
    BY <1>1, FS_Subset DEF Family, Combined
  <1>3. \E s : Minimal(s, F)
    <2> HIDE DEF F
    <2> QED  BY <1>2, LeastSet
  <1>4. PICK s \in SUBSET S : ~Good(s) /\ \A t \in SUBSET s : t # s => Good(t)
    BY <1>3 DEF Minimal
  <1>5. PICK y \in s : TRUE
    <2>1. Sum(f, {}) = 0 /\ Sum(g, {}) = 0 /\ Sum(h, {}) = 0
      BY SumEmpty
    <2>2. a * 0 + b * 0 = 0
      BY DEF Combined
    <2>3. Good({})
      BY <2>1, <2>2
    <2> QED  BY <1>4, <2>3
  <1>6. \A x \in S : f[x] \in Int /\ g[x] \in Int /\ h[x] \in Int
    BY DEF Combined
  <1>7. Summable(f, s) /\ Summable(g, s) /\ Summable(h, s)
    BY <1>6, FS_Subset DEF Summable, Combined
  <1>8. Summable(f, s \ {y}) /\ Summable(g, s \ {y}) /\ Summable(h, s \ {y})
    BY <1>6, FS_Subset DEF Summable, Combined
  <1>9. PICK k \in Int : k = Sum(f, s \ {y}) /\ Sum(f, s) = f[y] + k
    BY <1>7, <1>8, SumTakes
  <1>10. PICK l \in Int : l = Sum(g, s \ {y}) /\ Sum(g, s) = g[y] + l
    BY <1>7, <1>8, SumTakes
  <1>11. PICK m \in Int : m = Sum(h, s \ {y}) /\ Sum(h, s) = h[y] + m
    BY <1>7, <1>8, SumTakes
  <1>12. m = a * k + b * l
    BY <1>4, <1>9, <1>10, <1>11
  <1>13. PICK c \in Int, d \in Int : c = f[y] /\ d = g[y] /\ h[y] = a * c + b * d
    BY DEF Combined
  <1>14. (a * c + b * d) + (a * k + b * l) = a * (c + k) + b * (d + l)
    BY DEF Combined
  <1>15. Sum(h, s) = a * (c + k) + b * (d + l)
    BY <1>11, <1>12, <1>13, <1>14
  <1>16. Good(s)
    BY <1>9, <1>10, <1>13, <1>15
  <1> QED  BY <1>4, <1>16

\* A[i] is what comes before i in an order of 1 .. n.
Ranked(A, n) ==
    /\ n \in Nat
    /\ \A i \in 1 .. n : A[i] \in SUBSET (1 .. n) /\ i \notin A[i]
    /\ \A i, j \in 1 .. n : i \in A[j] => A[i] \subseteq A[j]
    /\ \A i, j \in 1 .. n : i = j \/ i \in A[j] \/ j \in A[i]

\* In an order every place is taken, once.
LEMMA RanksFill ==
    ASSUME NEW A, NEW n, Ranked(A, n)
    PROVE  /\ \A i \in 1 .. n : Cardinality(A[i]) \in 0 .. n - 1
           /\ \A i, j \in 1 .. n : Cardinality(A[i]) = Cardinality(A[j]) => i = j
           /\ \A m \in 1 .. n : \E i \in 1 .. n : Cardinality(A[i]) = m - 1
  <1> DEFINE U == 1 .. n
             rank == [i \in U |-> Cardinality(A[i]) + 1]
  <1>0. n \in Nat
    BY DEF Ranked
  <1>1. n \in Nat /\ IsFiniteSet(U) /\ Cardinality(U) = n
    BY <1>0, FS_Interval
  <1>2. ASSUME NEW i \in U
        PROVE  IsFiniteSet(A[i]) /\ Cardinality(A[i]) \in 0 .. n - 1
    <2>1. A[i] \in SUBSET U /\ A[i] # U
      BY DEF Ranked
    <2> HIDE DEF U
    <2>2. IsFiniteSet(A[i]) /\ Cardinality(A[i]) =< n /\ Cardinality(A[i]) # n
      BY <1>1, <2>1, FS_Subset
    <2>3. Cardinality(A[i]) \in Nat
      BY <2>2, FS_CardinalityType
    <2> QED  BY <1>1, <2>2, <2>3
  <1>3. ASSUME NEW i \in U, NEW j \in U, i \in A[j]
        PROVE  Cardinality(A[i]) # Cardinality(A[j])
    <2>1. A[i] \in SUBSET A[j] /\ A[i] # A[j]
      BY <1>3 DEF Ranked
    <2> QED  BY <1>2, <2>1, FS_Subset
  <1>4. ASSUME NEW i \in U, NEW j \in U, Cardinality(A[i]) = Cardinality(A[j]) PROVE i = j
    BY <1>3, <1>4 DEF Ranked
  <1>5. rank \in [U -> U] /\ \A i, j \in U : rank[i] = rank[j] => i = j
    <2>1. \A i \in U : rank[i] = Cardinality(A[i]) + 1 /\ rank[i] \in U
      BY <1>1, <1>2
    <2>2. rank \in [U -> U]
      BY <2>1
    <2>3. \A i, j \in U : rank[i] = rank[j] => Cardinality(A[i]) = Cardinality(A[j])
      BY <1>1, <1>2
    <2> QED  BY <1>4, <2>2, <2>3
  <1>6. rank \in Surjection(U, U)
    <2>1. rank \in Injection(U, U)
      BY <1>5 DEF Injection, IsInjective
    <2> HIDE DEF rank, U
    <2> QED  BY <1>1, <2>1, FS_Injection
  <1>7. ASSUME NEW m \in U PROVE \E i \in U : Cardinality(A[i]) = m - 1
    <2>1. PICK i \in U : rank[i] = m
      BY <1>6 DEF Surjection
    <2> QED  BY <1>1, <1>2, <2>1
  <1> QED  BY <1>2, <1>4, <1>7

\* One for each of the first k.
Served(A, n, k) == [i \in 1 .. n |-> IF Cardinality(A[i]) < k THEN 1 ELSE 0]

LEMMA ServedSum ==
    ASSUME NEW A, NEW n, Ranked(A, n)
    PROVE  \A k \in 0 .. n : Sum(Served(A, n, k), 1 .. n) = k
  <1> DEFINE U == 1 .. n
             f(k) == Served(A, n, k)
             T == {k \in Nat : k =< n => Sum(f(k), U) = k}
  <1>0. n \in Nat
    BY DEF Ranked
  <1>1. n \in Nat /\ IsFiniteSet(U)
    BY <1>0, FS_Interval
  <1>2. \A i \in U : Cardinality(A[i]) \in Nat
    BY <1>1, RanksFill
  <1>3. \A k, i : i \in U => f(k)[i] = IF Cardinality(A[i]) < k THEN 1 ELSE 0
    BY DEF Served
  <1>4. \A k : Summable(f(k), U)
    BY <1>1, <1>3 DEF Summable
  <1>5. 0 \in T
    <2>1. \A i \in U : f(0)[i] = 0
      BY <1>2, <1>3
    <2>2. Combined(f(0), 0, f(0), 0, f(0), U)
      BY <1>1, <2>1 DEF Combined
    <2> HIDE DEF f, U
    <2>3. Sum(f(0), U) \in Int /\ Sum(f(0), U) = 0 * Sum(f(0), U) + 0 * Sum(f(0), U)
      BY <1>4, <2>2, SumTakes, SumLinear
    <2> QED  BY <2>3
  <1>6. ASSUME NEW k \in Nat, k \in T PROVE k + 1 \in T
    <2> SUFFICES ASSUME k + 1 =< n PROVE Sum(f(k + 1), U) = k + 1
      OBVIOUS
    <2>1. PICK i \in U : Cardinality(A[i]) = k
      <3>1. k + 1 \in 1 .. n /\ (k + 1) - 1 = k
        BY <1>1
      <3> QED  BY <3>1, RanksFill
    <2> DEFINE R == U \ {i}
    <2>2. IsFiniteSet(R)
      BY <1>1, FS_Subset
    <2>3. \A j \in R : f(k + 1)[j] = f(k)[j] /\ f(k)[j] \in Int
      <3>1. \A j \in R : Cardinality(A[j]) # k
        BY <2>1, RanksFill
      <3> QED  BY <1>2, <1>3, <3>1
    <2>4. f(k + 1)[i] = 1 /\ f(k)[i] = 0
      BY <1>3, <2>1
    <2> HIDE DEF f
    <2>5. Sum(f(k + 1), R) = Sum(f(k), R)
      <3> HIDE DEF R
      <3> QED  BY <2>2, <2>3, SumsEqual
    <2>6. Sum(f(k + 1), U) = 1 + Sum(f(k + 1), R) /\ Sum(f(k), U) = 0 + Sum(f(k), R)
      <3>1. i \in U /\ Summable(f(k + 1), U) /\ Summable(f(k), U)
        BY <1>4
      <3> HIDE DEF U
      <3>2. Sum(f(k + 1), U) = f(k + 1)[i] + Sum(f(k + 1), U \ {i})
        BY <3>1, SumTakes
      <3>3. Sum(f(k), U) = f(k)[i] + Sum(f(k), U \ {i})
        BY <3>1, SumTakes
      <3> QED  BY <2>4, <3>2, <3>3
    <2>7. Summable(f(k), R)
      BY <2>2, <2>3 DEF Summable
    <2>8. Sum(f(k), R) \in Int
      <3> HIDE DEF R
      <3> QED  BY <2>7, SumTakes
    <2>9. Sum(f(k), U) = k
      BY <1>1, <1>6
    <2> HIDE DEF R, U
    <2> QED  BY <2>5, <2>6, <2>8, <2>9
  <1>7. Nat \subseteq T
    <2> HIDE DEF T
    <2> QED  BY <1>5, <1>6, Induct
  <1> QED  BY <1>1, <1>7

-----------------------------------------------------------------------------
(* Largest remainder.                                                      *)

\* n entries, of which one at least has a weight.
Weighted(s, n) ==
    /\ n \in Nat /\ DOMAIN s = 1 .. n
    /\ \A i \in 1 .. n : s[i].key \in Int /\ s[i].weight \in Nat
    /\ WeightTotal(s) > 0

\* The digits of a division are enough for the units and the weights: each
\* dividend leaves a digit to spare, and no weight is lost beside the others.
EnoughDigits(units, s) ==
    /\ WeightTotal(s) < One
    /\ \A i \in DOMAIN s : 10 * (units * s[i].weight) < Limit

WeightOf(s, n) == [i \in 1 .. n |-> s[i].weight]

LEMMA WeightTotalIs ==
    ASSUME NEW s, NEW n, Weighted(s, n)
    PROVE  /\ WeightTotal(s) \in Nat \ {0} /\ WeightTotal(s) = Sum(WeightOf(s, n), 1 .. n)
           /\ n \in Nat \ {0}
  <1>1. WeightTotal(s) = Sum(WeightOf(s, n), 1 .. n)
    BY TotalIsSum DEF WeightTotal, Weighted, WeightOf
  <1>2. n \in Nat /\ WeightTotal(s) > 0
    BY DEF Weighted
  <1>3. Summable(WeightOf(s, n), 1 .. n)
    <2>1. \A i \in 1 .. n : WeightOf(s, n)[i] \in Int
      BY DEF Weighted, WeightOf
    <2>2. IsFiniteSet(1 .. n)
      BY <1>2, FS_Interval
    <2> QED  BY <2>1, <2>2 DEF Summable
  <1>4. WeightTotal(s) \in Int
    BY <1>1, <1>3, SumTakes
  <1>5. n # 0
    <2>1. n = 0 => 1 .. n = {}
      OBVIOUS
    <2> QED  BY <1>1, <1>2, <2>1, SumEmpty
  <1> QED  BY <1>1, <1>2, <1>4, <1>5

\* The share of i before the units left over: the integer part of its exact
\* share, and a remainder if the exact share has one.
LEMMA BaseIs ==
    ASSUME NEW s, NEW n, Weighted(s, n), NEW units \in Nat, EnoughDigits(units, s),
           NEW i \in 1 .. n
    PROVE  /\ Base(Raw(units, s))[i] = (units * s[i].weight) \div WeightTotal(s)
           /\ Base(Raw(units, s))[i] \in Nat
           /\ Remainder(Raw(units, s), i) \in Nat
           /\ Remainder(Raw(units, s), i) = 0 <=> (units * s[i].weight) % WeightTotal(s) = 0
  <1>1. PICK w \in Nat \ {0} : w = WeightTotal(s) /\ w < One
    BY WeightTotalIs DEF EnoughDigits
  <1>2. PICK x \in Nat : x = units * s[i].weight /\ 10 * x < Limit
    <2>1. s[i].weight \in Nat /\ i \in DOMAIN s
      BY DEF Weighted
    <2>2. 10 * (units * s[i].weight) < Limit
      BY <2>1 DEF EnoughDigits
    <2>3. units * s[i].weight \in Nat
      BY <2>1
    <2> QED  BY <2>2, <2>3
  <1>3. /\ DOMAIN Raw(units, s) = 1 .. n
        /\ Raw(units, s)[i] = Quotient(x, w)
    BY <1>1, <1>2 DEF Raw, Weighted
  <1>4. /\ Base(Raw(units, s))[i] = Quotient(x, w) \div One
        /\ Remainder(Raw(units, s), i) = Quotient(x, w) % One
    BY <1>3 DEF Base, Remainder
  <1>5. x \div w \in Nat
    BY Division
  <1>6. /\ Quotient(x, w) \div One = x \div w
        /\ Quotient(x, w) % One \in Nat
        /\ Quotient(x, w) % One = 0 <=> x % w = 0
    BY <1>1, <1>2, QuotientIs
  <1> QED  BY <1>1, <1>2, <1>4, <1>5, <1>6

\* What the integer parts of the shares leave of them, over the total weight.
Rests(units, s, n) ==
    [i \in 1 .. n |-> units * s[i].weight - WeightTotal(s) * Base(Raw(units, s))[i]]

\* The integer parts leave fewer units over than there are entries.
LEMMA LeftOver ==
    ASSUME NEW s, NEW n, Weighted(s, n), NEW units \in Nat, EnoughDigits(units, s)
    PROVE  /\ Total(Base(Raw(units, s))) = Sum(Base(Raw(units, s)), 1 .. n)
           /\ Total(Base(Raw(units, s))) \in Int
           /\ units - Total(Base(Raw(units, s))) \in 0 .. n - 1
           /\ \A i \in 1 .. n : Rests(units, s, n)[i] \in 0 .. WeightTotal(s) - 1
           /\ Sum(Rests(units, s, n), 1 .. n)
                = WeightTotal(s) * (units - Total(Base(Raw(units, s))))
  <1> DEFINE U == 1 .. n
             base == Base(Raw(units, s))
             exact == [i \in U |-> units * s[i].weight]
             whole == [i \in U |-> WeightTotal(s) * base[i]]
  <1>1. PICK w \in Nat \ {0} : w = WeightTotal(s) /\ w = Sum(WeightOf(s, n), U)
    BY WeightTotalIs
  <1>2. n \in Nat \ {0} /\ IsFiniteSet(U) /\ Cardinality(U) = n
    BY WeightTotalIs, FS_Interval
  <1>3. \A i \in U : s[i].weight \in Nat /\ WeightOf(s, n)[i] = s[i].weight
    BY DEF Weighted, WeightOf
  <1>4. \A i \in U : base[i] \in Nat /\ base[i] = exact[i] \div w
    BY <1>1, BaseIs
  <1>5. DOMAIN base = U
    BY DEF Base, Raw, Weighted
  <1>6. Total(base) = Sum(base, U)
    BY <1>5, TotalIsSum
  <1>7. PICK b \in Int : b = Sum(base, U)
    <2>1. Summable(base, U)
      BY <1>2, <1>4 DEF Summable
    <2> HIDE DEF base, U
    <2> QED  BY <2>1, SumTakes
  <1>8. \A i \in U : exact[i] \in Nat /\ whole[i] \in Nat
    BY <1>1, <1>3, <1>4
  <1>9. \A i \in U : whole[i] =< exact[i] /\ exact[i] < whole[i] + w
    <2> TAKE i \in U
    <2>1. PICK x \in Nat : x = exact[i]
      BY <1>8
    <2>2. base[i] = x \div w
      BY <1>4, <2>1
    <2>3. (x \div w) * w =< x /\ x < (x \div w) * w + w
      BY Division
    <2>4. whole[i] = (x \div w) * w
      <3>1. \A q \in Nat : w * q = q * w
        OBVIOUS
      <3> HIDE DEF base
      <3> QED  BY <1>1, <1>4, <2>2, <3>1
    <2> HIDE DEF exact, whole
    <2> QED  BY <2>1, <2>3, <2>4
  <1>10. Sum(exact, U) = units * w
    <2>1. Combined(exact, units, WeightOf(s, n), 0, WeightOf(s, n), U)
      BY <1>2, <1>3 DEF Combined
    <2> HIDE DEF exact, U
    <2>2. Sum(exact, U) = units * Sum(WeightOf(s, n), U) + 0 * Sum(WeightOf(s, n), U)
      BY <2>1, SumLinear
    <2> QED  BY <1>1, <2>2
  <1>11. Sum(whole, U) = w * b
    <2>1. Combined(whole, w, base, 0, base, U)
      BY <1>1, <1>2, <1>4 DEF Combined
    <2> HIDE DEF whole, base, U
    <2>2. Sum(whole, U) = w * Sum(base, U) + 0 * Sum(base, U)
      BY <2>1, SumLinear
    <2> QED  BY <1>7, <2>2
  <1>12. w * b =< units * w
    <2>1. \A i \in U : exact[i] \in Int /\ whole[i] \in Int /\ whole[i] =< exact[i]
      BY <1>8, <1>9
    <2>2. U \in SUBSET U /\ U \ U = {}
      OBVIOUS
    <2> HIDE DEF exact, whole, U
    <2>3. Sum(whole, U) =< Sum(exact, U)
      BY <1>2, <2>1, <2>2, SumsOrdered
    <2> QED  BY <1>10, <1>11, <2>3
  <1>13. units * w =< w * b + n * (w - 1)
    <2>1. \A i \in U : exact[i] \in Int /\ whole[i] \in Int
      BY <1>8
    <2>2. \A i \in U : 2 * exact[i] =< 2 * whole[i] + 2 * (w - 1)
      <3> TAKE i \in U
      <3>1. PICK x \in Nat, y \in Nat : x = exact[i] /\ y = whole[i] /\ x < y + w
        BY <1>8, <1>9
      <3> HIDE DEF exact, whole
      <3> QED  BY <3>1
    <2>3. PICK doubt \in Nat : doubt = 2 * (w - 1)
      OBVIOUS
    <2> HIDE DEF exact, whole, U
    <2>4. 2 * Sum(exact, U) =< 2 * Sum(whole, U) + Cardinality(U) * doubt
      BY <1>2, <2>1, <2>2, <2>3, SumsClose
    <2>5. n * doubt = 2 * (n * (w - 1))
      BY <1>2, <2>3
    <2>6. PICK p \in Int, q \in Int, r \in Int : p = units * w /\ q = w * b /\ r = n * (w - 1)
      BY <1>2
    <2>7. 2 * p =< 2 * q + 2 * r
      BY <1>2, <1>10, <1>11, <2>4, <2>5, <2>6
    <2> QED  BY <2>6, <2>7
  <1>14. units - b \in 0 .. n - 1
    <2>1. PICK l \in Int : l = units - b
      OBVIOUS
    <2>2. PICK p \in Int : p = l * w
      OBVIOUS
    <2>3. units * w - w * b = l * w
      BY <2>1
    <2>4. 0 =< p /\ p =< n * (w - 1)
      BY <1>2, <1>12, <1>13, <2>2, <2>3
    <2>5. 0 =< l
      <3>1. l =< -1 => l * w =< -w
        OBVIOUS
      <3> QED  BY <2>2, <2>4, <3>1
    <2>6. l < n
      <3>1. n =< l => n * w =< l * w
        BY <1>2
      <3>2. n * (w - 1) = n * w - n
        BY <1>2
      <3>3. PICK q \in Int : q = n * w
        BY <1>2
      <3> QED  BY <1>2, <2>2, <2>4, <3>1, <3>2, <3>3
    <2> QED  BY <1>2, <2>1, <2>5, <2>6
  <1>15. \A i \in U : Rests(units, s, n)[i] \in 0 .. w - 1
    <2> TAKE i \in U
    <2>1. PICK x \in Nat, y \in Nat : x = exact[i] /\ y = whole[i] /\ y =< x /\ x < y + w
      BY <1>8, <1>9
    <2>2. Rests(units, s, n)[i] = x - y
      BY <2>1 DEF Rests
    <2> QED  BY <2>1, <2>2
  <1>16. Sum(Rests(units, s, n), U) = w * (units - b)
    <2>1. \A i \in U : Rests(units, s, n)[i] = exact[i] - whole[i]
      BY DEF Rests
    <2> HIDE DEF exact, whole
    <2>2. \A i \in U : Rests(units, s, n)[i] = 1 * exact[i] + (-1) * whole[i]
      BY <1>8, <2>1
    <2> HIDE DEF U
    <2>3. Combined(Rests(units, s, n), 1, exact, -1, whole, U)
      BY <1>2, <1>8, <2>2 DEF Combined
    <2>4. Sum(Rests(units, s, n), U) = 1 * Sum(exact, U) + (-1) * Sum(whole, U)
      BY <2>3, SumLinear
    <2>5. PICK p \in Int, q \in Int : p = units * w /\ q = w * b
      OBVIOUS
    <2>6. w * (units - b) = units * w - w * b
      OBVIOUS
    <2> QED  BY <1>10, <1>11, <2>4, <2>5, <2>6
  <1> QED  BY <1>1, <1>6, <1>7, <1>14, <1>15, <1>16

LEMMA AheadRanked ==
    ASSUME NEW s, NEW n, Weighted(s, n), NEW raw,
           \A i \in 1 .. n : Remainder(raw, i) \in Int
    PROVE  Ranked([i \in 1 .. n |-> Ahead(s, raw, i)], n)
  <1> DEFINE A == [i \in 1 .. n |-> Ahead(s, raw, i)]
             rest(i) == Remainder(raw, i)
             key(i) == s[i].key
             before(j, i) == \/ rest(j) > rest(i)
                             \/ rest(j) = rest(i) /\ key(j) < key(i)
                             \/ rest(j) = rest(i) /\ key(j) = key(i) /\ j < i
  <1>1. n \in Nat /\ DOMAIN s = 1 .. n
    BY DEF Weighted
  <1>2. \A i \in 1 .. n : i \in Int /\ rest(i) \in Int /\ key(i) \in Int
    BY DEF Weighted
  <1>3. \A i \in 1 .. n : A[i] = {j \in 1 .. n : before(j, i)}
    BY <1>1 DEF Ahead, KeyOrder
  <1> HIDE DEF A, rest, key
  <1>4. \A i \in 1 .. n : ~before(i, i)
    BY <1>2
  <1>5. \A i, j, k \in 1 .. n : before(k, i) /\ before(i, j) => before(k, j)
    BY <1>2
  <1>6. \A i, j \in 1 .. n : i = j \/ before(i, j) \/ before(j, i)
    BY <1>2
  <1> HIDE DEF before
  <1>7. \A i \in 1 .. n : A[i] \in SUBSET (1 .. n) /\ i \notin A[i]
    BY <1>3, <1>4
  <1>8. \A i, j \in 1 .. n : i \in A[j] => A[i] \subseteq A[j]
    BY <1>3, <1>5
  <1>9. \A i, j \in 1 .. n : i = j \/ i \in A[j] \/ j \in A[i]
    BY <1>3, <1>6
  <1>10. Ranked(A, n)
    BY <1>1, <1>7, <1>8, <1>9 DEF Ranked
  <1> QED  BY <1>10 DEF A

\* The shares of an amount without sign are counts, and add up to it.
LEMMA SignlessAddsUp ==
    ASSUME NEW s, NEW n, Weighted(s, n), NEW units \in Nat, EnoughDigits(units, s)
    PROVE  /\ Signless(units, s) \in [1 .. n -> Nat]
           /\ Sum(Signless(units, s), 1 .. n) = units
  <1> DEFINE U == 1 .. n
             raw == Raw(units, s)
             base == Base(raw)
             A == [i \in U |-> Ahead(s, raw, i)]
             served == Served(A, n, units - Total(base))
             shares == Signless(units, s)
  <1>0. n \in Nat /\ DOMAIN s = U
    BY DEF Weighted
  <1>1. DOMAIN s = U /\ IsFiniteSet(U)
    BY <1>0, FS_Interval
  <1>2. \A i \in U : base[i] \in Nat /\ Remainder(raw, i) \in Nat
    BY BaseIs
  <1>3. Total(base) = Sum(base, U) /\ units - Total(base) \in 0 .. n
    <2>1. n \in Nat
      BY DEF Weighted
    <2> QED  BY <2>1, LeftOver
  <1>4. Sum(served, U) = units - Total(base)
    <2>1. Ranked(A, n)
      <3>1. \A i \in U : Remainder(raw, i) \in Int
        BY <1>2
      <3> HIDE DEF raw
      <3> QED  BY <3>1, AheadRanked
    <2> HIDE DEF A, raw, base
    <2> QED  BY <1>3, <2>1, ServedSum
  <1>5. \A i \in U : served[i] \in {0, 1} /\ shares[i] = base[i] + served[i]
    <2> TAKE i \in U
    <2>1. served[i] = IF Cardinality(Ahead(s, raw, i)) < units - Total(base) THEN 1 ELSE 0
      BY DEF Served
    <2>2. shares[i] = base[i] + (IF Cardinality(Ahead(s, raw, i)) < units - Total(base)
                                 THEN 1 ELSE 0)
      BY <1>1 DEF Signless
    <2> HIDE DEF served, shares, base, raw
    <2> QED  BY <2>1, <2>2
  <1>6. shares \in [U -> Nat]
    <2>1. DOMAIN shares = U /\ shares = [i \in U |-> shares[i]]
      BY <1>1 DEF Signless
    <2>2. \A i \in U : shares[i] \in Nat
      <3> HIDE DEF shares, served, base
      <3> QED  BY <1>2, <1>5
    <2> HIDE DEF shares
    <2> QED  BY <2>1, <2>2
  <1>7. Combined(shares, 1, base, 1, served, U)
    <2> HIDE DEF shares, served, base, U
    <2>1. \A i \in U : /\ base[i] \in Int /\ served[i] \in Int
                       /\ shares[i] = 1 * base[i] + 1 * served[i]
      BY <1>2, <1>5
    <2> QED  BY <1>1, <2>1 DEF Combined
  <1>8. Sum(shares, U) = units
    <2> HIDE DEF shares, served, U
    <2>1. Sum(shares, U) = 1 * Sum(base, U) + 1 * Sum(served, U)
      BY <1>7, SumLinear
    <2>2. PICK b \in Int : b = Total(base)
      BY LeftOver
    <2> HIDE DEF base
    <2> QED  BY <1>3, <1>4, <2>1, <2>2
  <1> QED  BY <1>6, <1>8

\* The shares of any amount are integers, of its sign, and add up to it.
LEMMA AllocatedAddsUp ==
    ASSUME NEW s, NEW n, Weighted(s, n), NEW amount \in Int, EnoughDigits(Abs(amount), s)
    PROVE  /\ Allocated(amount, s) \in [1 .. n -> Int]
           /\ amount >= 0 => \A i \in 1 .. n : Allocated(amount, s)[i] >= 0
           /\ Total(Allocated(amount, s)) = amount
  <1> DEFINE U == 1 .. n
             signless == Signless(Abs(amount), s)
             shares == Allocated(amount, s)
             sign == IF amount < 0 THEN -1 ELSE 1
  <1>1. Abs(amount) \in Nat /\ amount = sign * Abs(amount) /\ sign \in Int
    BY DEF Abs
  <1>2. signless \in [U -> Nat] /\ Sum(signless, U) = Abs(amount)
    BY <1>1, SignlessAddsUp
  <1>3. DOMAIN s = U /\ IsFiniteSet(U)
    <2>1. n \in Nat /\ DOMAIN s = U
      BY DEF Weighted
    <2>2. IsFiniteSet(U)
      BY <2>1, FS_Interval
    <2> QED  BY <2>1, <2>2
  <1>4. shares = [i \in U |-> IF amount < 0 THEN -signless[i] ELSE signless[i]]
    BY <1>3 DEF Allocated
  <1> HIDE DEF signless, shares
  <1>5. \A i \in U : signless[i] \in Nat /\ shares[i] \in Int /\ shares[i] = sign * signless[i]
    BY <1>2, <1>4
  <1>6. Combined(shares, sign, signless, 0, signless, U)
    <2>1. \A i \in U : shares[i] = sign * signless[i] + 0 * signless[i]
      BY <1>1, <1>5
    <2> HIDE DEF sign, U
    <2> QED  BY <1>1, <1>3, <1>5, <2>1 DEF Combined
  <1>7. Sum(shares, U) = amount
    <2> HIDE DEF sign, U
    <2>1. Sum(shares, U) = sign * Sum(signless, U) + 0 * Sum(signless, U)
      BY <1>6, SumLinear
    <2>2. PICK a \in Nat : a = Abs(amount) /\ sign * a \in Int
      BY <1>1
    <2> QED  BY <1>1, <1>2, <2>1, <2>2
  <1>8. DOMAIN shares = U
    BY <1>4
  <1>9. Total(shares) = amount
    BY <1>7, <1>8, TotalIsSum
  <1>10. shares \in [U -> Int]
    BY <1>4, <1>5
  <1>11. amount >= 0 => \A i \in U : shares[i] >= 0
    BY <1>2, <1>4
  <1> QED  BY <1>9, <1>10, <1>11 DEF shares

\* No share is larger than the amount.
LEMMA ShareBounded ==
    ASSUME NEW s, NEW n, Weighted(s, n), NEW amount \in Nat, EnoughDigits(amount, s),
           NEW i \in 1 .. n
    PROVE  Allocated(amount, s)[i] \in 0 .. amount
  <1> DEFINE U == 1 .. n
             shares == Allocated(amount, s)
  <1>1. /\ shares \in [U -> Int] /\ \A j \in U : shares[j] >= 0
        /\ Total(shares) = amount
    <2>1. Abs(amount) = amount /\ amount >= 0 /\ amount \in Int
      BY DEF Abs
    <2> QED  BY <2>1, AllocatedAddsUp
  <1>2. n \in Nat
    BY DEF Weighted
  <1>3. IsFiniteSet(U)
    BY <1>2, FS_Interval
  <1> HIDE DEF shares
  <1>4. Sum(shares, U) = amount
    <2>1. DOMAIN shares = U
      BY <1>1
    <2> QED  BY <1>1, <2>1, TotalIsSum
  <1>5. Sum(shares, {i}) = shares[i] /\ shares[i] \in Int
    BY <1>1, SumOfOne
  <1>6. Sum(shares, {i}) =< Sum(shares, U)
    <2>1. {i} \in SUBSET U /\ \A j \in U : shares[j] \in Int /\ 0 =< shares[j]
      BY <1>1
    <2>2. /\ \A j \in {i} : shares[j] \in Int /\ shares[j] =< shares[j]
          /\ \A j \in U \ {i} : 0 =< shares[j]
      BY <2>1
    <2> HIDE DEF U
    <2> QED  BY <1>3, <2>1, <2>2, SumsOrdered
  <1> QED  BY <1>1, <1>4, <1>5, <1>6 DEF shares

\* g is f under other names.
Renamed(g, f, p, S) ==
    /\ IsFiniteSet(S)
    /\ \A x \in S : f[p[x]] \in Int /\ g[x] = f[p[x]]
    /\ \A x, y \in S : p[x] = p[y] => x = y

LEMMA SumRenamed ==
    ASSUME NEW g, NEW f, NEW p, NEW S, Renamed(g, f, p, S)
    PROVE  Sum(g, S) = Sum(f, {p[x] : x \in S})
  <1> DEFINE image(s) == {p[x] : x \in s}
             Good(s) == Sum(g, s) = Sum(f, image(s))
             F == {s \in SUBSET S : ~Good(s)}
  <1>1. SUFFICES ASSUME F # {} PROVE FALSE
    OBVIOUS
  <1>2. Family(F, S)
    BY <1>1, FS_Subset DEF Family, Renamed
  <1>3. \E s : Minimal(s, F)
    <2> HIDE DEF F
    <2> QED  BY <1>2, LeastSet
  <1>4. PICK s \in SUBSET S : ~Good(s) /\ \A t \in SUBSET s : t # s => Good(t)
    BY <1>3 DEF Minimal
  <1>5. PICK y \in s : TRUE
    <2>1. image({}) = {}
      OBVIOUS
    <2>2. Good({})
      BY <2>1, SumEmpty
    <2> QED  BY <1>4, <2>2
  <1>6. IsFiniteSet(s) /\ IsFiniteSet(image(s))
    <2>1. IsFiniteSet(s)
      BY FS_Subset DEF Renamed
    <2> DEFINE q == [x \in s |-> p[x]]
    <2>2. q \in Surjection(s, image(s))
      BY DEF Surjection
    <2> HIDE DEF q, image
    <2> QED  BY <2>1, <2>2, FS_Surjection
  <1>7. image(s \ {y}) = image(s) \ {p[y]} /\ p[y] \in image(s)
    BY DEF Renamed
  <1>8. Summable(g, s) /\ Summable(f, image(s))
    BY <1>6 DEF Renamed, Summable
  <1>9. Sum(g, s) = g[y] + Sum(g, s \ {y})
    BY <1>8, SumTakes
  <1>10. Sum(f, image(s)) = f[p[y]] + Sum(f, image(s) \ {p[y]})
    <2> HIDE DEF image
    <2> QED  BY <1>7, <1>8, SumTakes
  <1>11. Sum(g, s \ {y}) = Sum(f, image(s \ {y}))
    BY <1>4
  <1>12. g[y] = f[p[y]]
    BY DEF Renamed
  <1> HIDE DEF image
  <1>13. Good(s)
    BY <1>7, <1>9, <1>10, <1>11, <1>12
  <1> QED  BY <1>4, <1>13

\* A specification has the weights that its caller listed.
LEMMA SortedWeighted ==
    ASSUME NEW s, NEW n, Weighted(s, n), Listed(s, n)
    PROVE  /\ Weighted(Sorted(s), n)
           /\ \A units \in Nat : EnoughDigits(units, s) => EnoughDigits(units, Sorted(s))
  <1> DEFINE U == 1 .. n
             t == Sorted(s)
  <1>0. n \in Nat /\ DOMAIN s = U
    BY DEF Weighted
  <1>1. n \in Nat /\ DOMAIN s = U /\ IsFiniteSet(U) /\ DOMAIN t = U
    BY <1>0, FS_Interval DEF Sorted
  <1>2. PICK rank \in [U -> U] :
          /\ \A m \in U : \E i \in U : rank[i] = m
          /\ \A i, j \in U : rank[i] = rank[j] => i = j
          /\ \A i \in U : t[rank[i]] = s[i]
    BY SortedRanks
  <1>3. \A i \in U : s[i].key \in Int /\ s[i].weight \in Nat
    BY DEF Weighted
  <1> HIDE DEF t
  <1>4. \A m \in U : t[m].key \in Int /\ t[m].weight \in Nat
    BY <1>2, <1>3
  <1>5. Sum(WeightOf(s, n), U) = Sum(WeightOf(t, n), U)
    <2>1. Renamed(WeightOf(s, n), WeightOf(t, n), rank, U)
      <3>1. \A i \in U : /\ WeightOf(t, n)[rank[i]] \in Int
                         /\ WeightOf(s, n)[i] = WeightOf(t, n)[rank[i]]
        BY <1>2, <1>4 DEF WeightOf
      <3> QED  BY <1>1, <1>2, <3>1 DEF Renamed
    <2>2. {rank[i] : i \in U} = U
      <3>1. \A i \in U : rank[i] \in U
        OBVIOUS
      <3>2. \A m \in U : \E i \in U : rank[i] = m
        BY <1>2
      <3> HIDE DEF U
      <3> QED  BY <3>1, <3>2
    <2> HIDE DEF U
    <2> QED  BY <2>1, <2>2, SumRenamed
  <1>6. WeightTotal(t) = WeightTotal(s)
    <2>1. WeightTotal(t) = Sum(WeightOf(t, n), U)
      BY <1>1, TotalIsSum DEF WeightTotal, WeightOf
    <2> QED  BY <1>5, <2>1, WeightTotalIs
  <1>7. Weighted(t, n)
    BY <1>1, <1>4, <1>6 DEF Weighted
  <1>8. ASSUME NEW units \in Nat, EnoughDigits(units, s) PROVE EnoughDigits(units, t)
    <2>1. \A i \in U : 10 * (units * s[i].weight) < Limit
      BY <1>1, <1>8 DEF EnoughDigits
    <2>2. ASSUME NEW m \in U PROVE 10 * (units * t[m].weight) < Limit
      <3>1. PICK i \in U : rank[i] = m
        BY <1>2
      <3>2. t[m] = s[i]
        BY <1>2, <3>1
      <3> QED  BY <2>1, <3>2
    <2>3. WeightTotal(t) < One
      BY <1>6, <1>8 DEF EnoughDigits
    <2> QED  BY <1>1, <2>2, <2>3 DEF EnoughDigits
  <1> QED  BY <1>7, <1>8 DEF t

\* What comes before i has the smaller ranks.
LEMMA RanksOrder ==
    ASSUME NEW A, NEW n, Ranked(A, n), NEW i \in 1 .. n, NEW j \in 1 .. n
    PROVE  j \in A[i] <=> Cardinality(A[j]) < Cardinality(A[i])
  <1>1. \A l \in 1 .. n : Cardinality(A[l]) \in Nat
    <2>1. n \in Nat /\ \A l \in 1 .. n : Cardinality(A[l]) \in 0 .. n - 1
      BY RanksFill DEF Ranked
    <2> QED  BY <2>1
  <1>2. \A l, m \in 1 .. n : l \in A[m] => Cardinality(A[l]) < Cardinality(A[m])
    <2> SUFFICES ASSUME NEW l \in 1 .. n, NEW m \in 1 .. n, l \in A[m]
                 PROVE  Cardinality(A[l]) < Cardinality(A[m])
      OBVIOUS
    <2>0. n \in Nat
      BY DEF Ranked
    <2>1. A[m] \in SUBSET (1 .. n) /\ IsFiniteSet(1 .. n)
      BY <2>0, FS_Interval DEF Ranked
    <2>2. IsFiniteSet(A[m])
      BY <2>1, FS_Subset
    <2>3. A[l] \in SUBSET A[m] /\ A[l] # A[m]
      BY DEF Ranked
    <2>4. Cardinality(A[l]) =< Cardinality(A[m]) /\ Cardinality(A[l]) # Cardinality(A[m])
      BY <2>2, <2>3, FS_Subset
    <2> QED  BY <1>1, <2>4
  <1>3. i = j \/ i \in A[j] \/ j \in A[i]
    BY DEF Ranked
  <1>4. Cardinality(A[i]) \in Nat /\ Cardinality(A[j]) \in Nat
    BY <1>1
  <1>5. i \in A[j] => Cardinality(A[i]) < Cardinality(A[j])
    BY <1>2
  <1>6. j \in A[i] => Cardinality(A[j]) < Cardinality(A[i])
    BY <1>2
  <1> QED  BY <1>3, <1>4, <1>5, <1>6

\* A unit left over never goes to an entry whose exact share is whole: those
\* with a remainder come before it, and are enough.
LEMMA WholeUnserved ==
    ASSUME NEW s, NEW n, Weighted(s, n), NEW units \in Nat, EnoughDigits(units, s),
           NEW i \in 1 .. n, Rests(units, s, n)[i] = 0
    PROVE  ~(Cardinality(Ahead(s, Raw(units, s), i)) < units - Total(Base(Raw(units, s))))
  <1> DEFINE U == 1 .. n
             raw == Raw(units, s)
             A == [j \in U |-> Ahead(s, raw, j)]
             k == Cardinality(A[i])
             rests == Rests(units, s, n)
             served == Served(A, n, k)
  <1>1. PICK w \in Nat \ {0} : w = WeightTotal(s)
    BY WeightTotalIs
  <1>2. PICK left \in Int : /\ left = units - Total(Base(raw)) /\ Sum(rests, U) = w * left
                            /\ \A j \in U : rests[j] \in 0 .. w - 1
    BY <1>1, LeftOver
  <1>3. Ranked(A, n)
    <2>1. \A j \in U : Remainder(raw, j) \in Int
      BY BaseIs
    <2> HIDE DEF raw
    <2> QED  BY <2>1, AheadRanked
  <1>4. k \in 0 .. n /\ n \in Nat /\ IsFiniteSet(U)
    <2>1. n \in Nat
      BY DEF Weighted
    <2>2. k \in 0 .. n - 1
      <3> HIDE DEF A
      <3> QED  BY <1>3, RanksFill
    <2> QED  BY <2>1, <2>2, FS_Interval
  <1>5. Sum(served, U) = k
    <2> HIDE DEF A
    <2> QED  BY <1>3, <1>4, ServedSum
  <1>6. \A j \in U : Remainder(raw, j) \in Nat /\ (Remainder(raw, j) = 0 <=> rests[j] = 0)
    <2> TAKE j \in U
    <2>1. PICK x \in Nat : x = units * s[j].weight
      BY DEF Weighted
    <2>2. PICK d \in Nat, r \in Nat : d = x \div w /\ r = x % w /\ x = w * d + r
      <3>1. x \div w \in Nat /\ x % w \in Nat /\ x = w * (x \div w) + (x % w)
        OBVIOUS
      <3> QED  BY <3>1
    <2>3. /\ Base(raw)[j] = d /\ Remainder(raw, j) \in Nat
          /\ Remainder(raw, j) = 0 <=> r = 0
      BY <1>1, <2>1, <2>2, BaseIs
    <2>4. rests[j] = x - w * d
      BY <1>1, <2>1, <2>3 DEF Rests
    <2>5. PICK y \in Nat : y = w * d
      OBVIOUS
    <2>6. rests[j] = r
      BY <2>2, <2>4, <2>5
    <2> QED  BY <2>3, <2>6
  <1>7. \A j \in U : rests[j] = 0 \/ j \in A[i]
    <2> TAKE j \in U
    <2>1. DOMAIN s = U
      BY DEF Weighted
    <2>2. Remainder(raw, i) = 0
      BY <1>6
    <2>3. rests[j] = 0 \/ Remainder(raw, j) > Remainder(raw, i)
      BY <1>6, <2>2
    <2> HIDE DEF rests, raw
    <2> QED  BY <2>1, <2>3 DEF Ahead
  <1>8. \A j \in U : /\ served[j] \in Int /\ rests[j] \in Int
                     /\ rests[j] =< (w - 1) * served[j]
    <2> TAKE j \in U
    <2>1. j \in A[i] <=> Cardinality(A[j]) < k
      <3> HIDE DEF A
      <3> QED  BY <1>3, RanksOrder
    <2>2. served[j] = IF j \in A[i] THEN 1 ELSE 0
      BY <2>1 DEF Served
    <2> HIDE DEF rests, served, A, k
    <2>3. rests[j] \in 0 .. w - 1 /\ (rests[j] = 0 \/ j \in A[i])
      BY <1>2, <1>7
    <2>4. CASE j \in A[i]
      BY <2>2, <2>3, <2>4
    <2>5. CASE j \notin A[i]
      BY <2>2, <2>3, <2>5
    <2> QED  BY <2>4, <2>5
  <1> DEFINE most == [j \in U |-> (w - 1) * served[j]]
  <1>9. Sum(most, U) = (w - 1) * k
    <2>1. \A j \in U : most[j] = (w - 1) * served[j] + 0 * served[j]
      BY <1>8
    <2> HIDE DEF most, served, U
    <2>2. Combined(most, w - 1, served, 0, served, U)
      BY <1>4, <1>8, <2>1 DEF Combined
    <2>3. Sum(most, U) = (w - 1) * Sum(served, U) + 0 * Sum(served, U)
      BY <2>2, SumLinear
    <2> HIDE DEF k
    <2> QED  BY <1>4, <1>5, <2>3
  <1>10. Sum(rests, U) =< Sum(most, U)
    <2>1. \A j \in U : rests[j] \in Int /\ most[j] \in Int /\ rests[j] =< most[j]
      BY <1>8
    <2>2. U \in SUBSET U /\ U \ U = {}
      OBVIOUS
    <2> HIDE DEF most, rests, U
    <2> QED  BY <1>4, <2>1, <2>2, SumsOrdered
  <1>11. w * left =< (w - 1) * k
    BY <1>2, <1>9, <1>10
  <1>12. PICK c \in Nat : c = k
    BY <1>4
  <1> HIDE DEF k
  <1>13. ~(c < left)
    <2> SUFFICES ASSUME c < left PROVE FALSE
      OBVIOUS
    <2>1. w * (c + 1) =< w * left
      OBVIOUS
    <2>2. w * (c + 1) = (w - 1) * c + c + w
      OBVIOUS
    <2>3. PICK x \in Int, y \in Int : x = w * left /\ y = (w - 1) * c
      OBVIOUS
    <2> QED  BY <1>11, <1>12, <2>1, <2>2, <2>3
  <1> QED  BY <1>2, <1>12, <1>13 DEF k

\* A share is within a unit of the exact one, and nothing for no weight.
LEMMA ShareNear ==
    ASSUME NEW s, NEW n, Weighted(s, n), NEW units \in Nat, EnoughDigits(units, s),
           NEW i \in 1 .. n
    PROVE  /\ Signless(units, s)[i] * WeightTotal(s) - units * s[i].weight =< WeightTotal(s)
           /\ units * s[i].weight - Signless(units, s)[i] * WeightTotal(s) < WeightTotal(s)
           /\ s[i].weight = 0 => Signless(units, s)[i] = 0
  <1>1. PICK w \in Nat \ {0} : w = WeightTotal(s)
    BY WeightTotalIs
  <1>2. PICK x \in Nat, b \in Nat : x = units * s[i].weight /\ b = Base(Raw(units, s))[i]
    <2>1. s[i].weight \in Nat
      BY DEF Weighted
    <2>2. units * s[i].weight \in Nat
      BY <2>1
    <2>3. Base(Raw(units, s))[i] \in Nat
      BY BaseIs
    <2> QED  BY <2>2, <2>3
  <1>3. PICK y \in Int : /\ y = w * b /\ x - y \in 0 .. w - 1
                         /\ Rests(units, s, n)[i] = x - y
    <2>1. Rests(units, s, n)[i] \in 0 .. w - 1
      BY <1>1, LeftOver
    <2>2. Rests(units, s, n)[i] = x - w * b
      BY <1>1, <1>2 DEF Rests
    <2>3. w * b \in Int
      OBVIOUS
    <2> QED  BY <2>1, <2>2, <2>3
  <1>4. PICK c \in {0, 1} :
          /\ Signless(units, s)[i] = b + c
          /\ c = 1 => Cardinality(Ahead(s, Raw(units, s), i)) < units - Total(Base(Raw(units, s)))
    BY <1>2 DEF Signless, Weighted
  <1>5. (b + c) * w = y + c * w /\ c * w \in {0, w}
    BY <1>3
  <1>6. s[i].weight = 0 => b = 0 /\ c = 0
    <2> SUFFICES ASSUME s[i].weight = 0 PROVE b = 0 /\ c = 0
      OBVIOUS
    <2>1. x = 0
      BY <1>2
    <2>2. y = 0
      <3>1. y >= 0
        BY <1>3
      <3> QED  BY <1>3, <2>1, <3>1
    <2>3. b = 0
      BY <1>3, <2>2
    <2>4. Rests(units, s, n)[i] = 0
      BY <1>3, <2>1, <2>2
    <2>5. c # 1
      BY <1>4, <2>4, WholeUnserved
    <2> QED  BY <2>3, <2>5
  <1>7. PICK z \in Int : z = (b + c) * w /\ z - x =< w /\ x - z < w
    <2>1. PICK z \in Int : z = (b + c) * w
      OBVIOUS
    <2> QED  BY <1>3, <1>5, <2>1
  <1> QED  BY <1>1, <1>2, <1>4, <1>6, <1>7

-----------------------------------------------------------------------------
(* No division is closer to the exact shares.                              *)

\* A remainder is close to what the integer part leaves of the exact share.
RestClose(units, s, n, i) ==
    \E w, o, r, y \in Nat :
        /\ w = WeightTotal(s) /\ o = One
        /\ r = Rests(units, s, n)[i] /\ y = Remainder(Raw(units, s), i)
        /\ 2 * (w * y) < 2 * (r * o) + o /\ 2 * (r * o) < 2 * (w * y) + o

LEMMA RemainderClose ==
    ASSUME NEW s, NEW n, Weighted(s, n), NEW units \in Nat, EnoughDigits(units, s),
           NEW i \in 1 .. n
    PROVE  RestClose(units, s, n, i)
  <1>1. PICK w \in Nat \ {0} : w = WeightTotal(s) /\ w < One
    BY WeightTotalIs DEF EnoughDigits
  <1>2. PICK x \in Nat : x = units * s[i].weight /\ 10 * x < Limit
    <2>1. s[i].weight \in Nat /\ i \in DOMAIN s
      BY DEF Weighted
    <2>2. 10 * (units * s[i].weight) < Limit
      BY <2>1 DEF EnoughDigits
    <2>3. units * s[i].weight \in Nat
      BY <2>1
    <2> QED  BY <2>2, <2>3
  <1>3. PICK o \in Nat \ {0} : o = One
    BY DigitsAssumption, TensValues DEF One
  <1>4. PICK q \in Nat : /\ q = Quotient(x, w)
                         /\ 2 * (w * q) < 2 * (x * o) + o /\ 2 * (x * o) < 2 * (w * q) + o
    BY <1>1, <1>2, <1>3, QuotientIs, QuotientClose
  <1>5. /\ Base(Raw(units, s))[i] = q \div o
        /\ Remainder(Raw(units, s), i) = q % o
    <2>1. DOMAIN Raw(units, s) = 1 .. n /\ Raw(units, s)[i] = Quotient(x, w)
      BY <1>1, <1>2 DEF Raw, Weighted
    <2> QED  BY <1>3, <1>4, <2>1 DEF Base, Remainder
  <1>6. PICK b \in Nat, y \in Nat : b = q \div o /\ y = q % o /\ q = b * o + y
    OBVIOUS
  <1>7. PICK r \in Nat : r = x - w * b /\ r = Rests(units, s, n)[i]
    <2>1. Rests(units, s, n)[i] \in 0 .. w - 1
      BY <1>1, LeftOver
    <2>2. Rests(units, s, n)[i] = x - w * b
      BY <1>1, <1>2, <1>5, <1>6 DEF Rests
    <2> QED  BY <2>1, <2>2
  <1>8. PICK wb \in Nat, wy \in Nat, ro \in Nat : wb = w * b /\ wy = w * y /\ ro = r * o
    OBVIOUS
  <1>9. x = r + wb
    BY <1>7, <1>8
  <1>10. PICK z \in Nat : z = wb * o
    OBVIOUS
  <1>11. w * q = z + wy
    <2>1. w * (b * o + y) = (w * b) * o + w * y
      OBVIOUS
    <2> QED  BY <1>6, <1>8, <1>10, <2>1
  <1>12. x * o = z + ro
    <2>1. (r + wb) * o = r * o + wb * o
      OBVIOUS
    <2> QED  BY <1>8, <1>9, <1>10, <2>1
  <1>13. 2 * wy < 2 * ro + o /\ 2 * ro < 2 * wy + o
    BY <1>4, <1>11, <1>12
  <1> QED  BY <1>1, <1>3, <1>5, <1>6, <1>7, <1>8, <1>13 DEF RestClose

\* Remainders are ordered as what is left of the exact shares.
LEMMA RemaindersOrdered ==
    ASSUME NEW s, NEW n, Weighted(s, n), NEW units \in Nat, EnoughDigits(units, s),
           NEW i \in 1 .. n, NEW j \in 1 .. n,
           Rests(units, s, n)[i] < Rests(units, s, n)[j]
    PROVE  Remainder(Raw(units, s), i) < Remainder(Raw(units, s), j)
  <1>1. PICK w \in Nat, o \in Nat, r \in Nat, y \in Nat :
          /\ w = WeightTotal(s) /\ o = One
          /\ r = Rests(units, s, n)[i] /\ y = Remainder(Raw(units, s), i)
          /\ 2 * (w * y) < 2 * (r * o) + o
    BY RemainderClose DEF RestClose
  <1>2. PICK t \in Nat, z \in Nat :
          /\ t = Rests(units, s, n)[j] /\ z = Remainder(Raw(units, s), j)
          /\ 2 * (t * o) < 2 * (w * z) + o
    <2>1. RestClose(units, s, n, j)
      BY RemainderClose
    <2> QED  BY <1>1, <2>1 DEF RestClose
  <1>3. PICK wy \in Nat, wz \in Nat, ro \in Nat, to \in Nat :
          wy = w * y /\ wz = w * z /\ ro = r * o /\ to = t * o
    OBVIOUS
  <1>4. ro + o =< to
    <2>1. r + 1 =< t
      BY <1>1, <1>2
    <2>2. (r + 1) * o =< t * o /\ (r + 1) * o = r * o + o
      BY <2>1
    <2> QED  BY <1>3, <2>2
  <1>5. wy < wz
    BY <1>1, <1>2, <1>3, <1>4
  <1>6. z =< y => w * z =< w * y
    OBVIOUS
  <1> QED  BY <1>1, <1>2, <1>3, <1>5, <1>6

\* The units left over go to the entries with most of a unit left: some
\* threshold parts those that are served from those that are not.
LEMMA Threshold ==
    ASSUME NEW s, NEW n, Weighted(s, n), NEW units \in Nat, EnoughDigits(units, s),
           NEW Gets, \A i \in 1 .. n :
              Gets[i] <=> Cardinality(Ahead(s, Raw(units, s), i))
                             < units - Total(Base(Raw(units, s)))
    PROVE  \E least \in 0 .. WeightTotal(s) : \A i \in 1 .. n :
              IF Gets[i] THEN least =< Rests(units, s, n)[i]
              ELSE Rests(units, s, n)[i] =< least
  <1> DEFINE U == 1 .. n
             raw == Raw(units, s)
             rests == Rests(units, s, n)
             A == [i \in U |-> Ahead(s, raw, i)]
             T == {rests[i] : i \in {j \in U : Gets[j]}}
  <1>1. PICK w \in Nat \ {0} : w = WeightTotal(s)
    BY WeightTotalIs
  <1>2. PICK left \in Int : left = units - Total(Base(raw))
    BY LeftOver
  <1>3. \A i \in U : rests[i] \in 0 .. w - 1
    BY <1>1, LeftOver
  <1>4. Ranked(A, n)
    <2>1. \A i \in U : Remainder(raw, i) \in Int
      BY BaseIs
    <2> HIDE DEF raw
    <2> QED  BY <2>1, AheadRanked
  <1>5. \A i \in U : Cardinality(A[i]) \in Nat /\ (Gets[i] <=> Cardinality(A[i]) < left)
    <2>1. n \in Nat
      BY DEF Weighted
    <2>2. \A i \in U : Cardinality(A[i]) \in 0 .. n - 1
      <3> HIDE DEF A
      <3> QED  BY <1>4, RanksFill
    <2> QED  BY <1>2, <2>1, <2>2
  <1>6. \A i, j \in U : Gets[i] /\ ~Gets[j] => rests[j] =< rests[i]
    <2> SUFFICES ASSUME NEW i \in U, NEW j \in U, Gets[i], ~Gets[j], ~(rests[j] =< rests[i])
                 PROVE  FALSE
      OBVIOUS
    <2>1. rests[i] < rests[j]
      BY <1>3
    <2>2. Remainder(raw, i) < Remainder(raw, j)
      BY <2>1, RemaindersOrdered
    <2>3. Remainder(raw, i) \in Nat /\ Remainder(raw, j) \in Nat
      BY BaseIs
    <2>4. j \in A[i]
      <3>1. DOMAIN s = U
        BY DEF Weighted
      <3> HIDE DEF raw
      <3> QED  BY <2>2, <2>3, <3>1 DEF Ahead
    <2>5. Cardinality(A[j]) < Cardinality(A[i])
      <3> HIDE DEF A
      <3> QED  BY <1>4, <2>4, RanksOrder
    <2> QED  BY <1>5, <2>5
  <1>7. CASE T = {}
    <2>1. \A i \in U : ~Gets[i]
      BY <1>7
    <2>2. w \in 0 .. w /\ \A i \in U : rests[i] =< w
      BY <1>3
    <2> QED  BY <1>1, <2>1, <2>2
  <1>8. CASE T # {}
    <2>1. T \subseteq Nat
      BY <1>3
    <2>2. PICK least \in T : \A t \in T : least =< t
      <3> HIDE DEF T
      <3> QED  BY <1>8, <2>1, Least
    <2>3. PICK i \in U : Gets[i] /\ least = rests[i]
      BY <2>2
    <2>4. least \in 0 .. w
      BY <1>3, <2>3
    <2>5. \A j \in U : Gets[j] => least =< rests[j]
      BY <2>2
    <2>6. \A j \in U : ~Gets[j] => rests[j] =< least
      BY <1>6, <2>3
    <2> HIDE DEF rests
    <2> QED  BY <1>1, <2>4, <2>5, <2>6 DEF rests
  <1> QED  BY <1>7, <1>8

\* One unit more or less of an entry changes its distance from its exact share
\* by no less than the threshold says.  The share is b, and one more if it is
\* served; rest is what b leaves of the exact share, in parts of a unit.
Parted(w, b, rest, share, least) ==
    /\ w \in Nat \ {0} /\ b \in Nat /\ rest \in 0 .. w - 1 /\ least \in 0 .. w
    /\ (share = b /\ rest =< least) \/ (share = b + 1 /\ least =< rest)

LEMMA Tangent ==
    ASSUME NEW w, NEW b, NEW rest, NEW share, NEW least, Parted(w, b, rest, share, least),
           NEW x \in Int
    PROVE  Abs(share * w - (w * b + rest)) + (w - 2 * least) * (x - share)
             =< Abs(x * w - (w * b + rest))
  <1> USE DEF Parted
  <1>1. PICK c \in {0, 1} : share = b + c /\ (c = 0 => rest =< least) /\ (c = 1 => least =< rest)
    OBVIOUS
  <1>2. PICK d \in Int : d = x - share
    BY <1>1
  <1>3. PICK wb \in Int, dw \in Int, dl \in Int : wb = w * b /\ dw = d * w /\ dl = d * least
    OBVIOUS
  <1>4. share * w = wb + c * w /\ (c = 0 => c * w = 0) /\ (c = 1 => c * w = w)
    BY <1>1, <1>3
  <1>5. x * w = share * w + dw
    <2>1. x = share + d /\ share \in Int
      BY <1>1, <1>2
    <2>2. (share + d) * w = share * w + d * w
      BY <2>1
    <2> QED  BY <1>3, <2>1, <2>2
  <1>6. (w - 2 * least) * (x - share) = dw - 2 * dl
    <2>1. (w - 2 * least) * d = d * w - 2 * (d * least)
      OBVIOUS
    <2> QED  BY <1>2, <1>3, <2>1
  <1>7. /\ d = 0 => dw = 0 /\ dl = 0
        /\ d >= 1 => dl >= least /\ dw - dl >= w - least
        /\ d =< -1 => dl =< -least /\ dw - dl =< least - w
    <2>1. dw - dl = d * (w - least)
      BY <1>3
    <2>2. d >= 1 => d * least >= least /\ d * (w - least) >= w - least
      OBVIOUS
    <2>3. d =< -1 => d * least =< -least /\ d * (w - least) =< -(w - least)
      OBVIOUS
    <2> QED  BY <1>3, <2>1, <2>2, <2>3
  <1>8. PICK e \in Int : e = share * w - (wb + rest)
    BY <1>4
  <1>9. Abs(e) + (dw - 2 * dl) =< Abs(e + dw)
    <2>1. CASE c = 0
      <3>1. e = -rest
        BY <1>4, <1>8, <2>1
      <3> QED  BY <1>1, <1>7, <2>1, <3>1 DEF Abs
    <2>2. CASE c = 1
      <3>1. e = w - rest
        BY <1>4, <1>8, <2>2
      <3> QED  BY <1>1, <1>7, <2>2, <3>1 DEF Abs
    <2> QED  BY <2>1, <2>2
  <1>10. x * w - (wb + rest) = e + dw
    BY <1>4, <1>5, <1>8
  <1> QED  BY <1>3, <1>6, <1>8, <1>9, <1>10

\* How far shares are from the exact ones, entry by entry, in parts of a unit.
Distances(f, s, n, units) ==
    [i \in 1 .. n |-> Abs(f[i] * WeightTotal(s) - units * s[i].weight)]

\* No division of the units is closer to the exact shares: what it gives the
\* entries more it takes from others, and the threshold outweighs both.
LEMMA SignlessFairest ==
    ASSUME NEW s, NEW n, Weighted(s, n), NEW units \in Nat, EnoughDigits(units, s),
           NEW f, \A i \in 1 .. n : f[i] \in Int, Sum(f, 1 .. n) = units
    PROVE  Sum(Distances(Signless(units, s), s, n, units), 1 .. n)
             =< Sum(Distances(f, s, n, units), 1 .. n)
  <1> DEFINE U == 1 .. n
             raw == Raw(units, s)
             rests == Rests(units, s, n)
             shares == Signless(units, s)
             near == Distances(shares, s, n, units)
             far == Distances(f, s, n, units)
             Gets == [i \in U |-> Cardinality(Ahead(s, raw, i)) < units - Total(Base(raw))]
  <1>1. PICK w \in Nat \ {0} : w = WeightTotal(s)
    BY WeightTotalIs
  <1>2. n \in Nat /\ DOMAIN s = U
    BY DEF Weighted
  <1>3. IsFiniteSet(U)
    BY <1>2, FS_Interval
  <1>4. PICK least \in 0 .. w : \A i \in U :
          IF Gets[i] THEN least =< rests[i] ELSE rests[i] =< least
    <2>1. \A i \in U : Gets[i] <=> Cardinality(Ahead(s, raw, i)) < units - Total(Base(raw))
      OBVIOUS
    <2> HIDE DEF Gets, raw, rests
    <2>2. \E least \in 0 .. WeightTotal(s) : \A i \in U :
             IF Gets[i] THEN least =< rests[i] ELSE rests[i] =< least
      BY <2>1, Threshold DEF raw, rests
    <2> QED  BY <1>1, <2>2
  <1>5. shares \in [U -> Nat] /\ Sum(shares, U) = units
    BY SignlessAddsUp
  <1>6. ASSUME NEW i \in U
        PROVE  /\ near[i] \in Int /\ far[i] \in Int
               /\ near[i] + (w - 2 * least) * (f[i] - shares[i]) =< far[i]
    <2>1. PICK b \in Nat : b = Base(raw)[i]
      BY <1>6, BaseIs
    <2>2. PICK rest \in 0 .. w - 1 : rest = rests[i]
      BY <1>1, <1>6, LeftOver
    <2>3. PICK x \in Nat : x = units * s[i].weight
      <3>1. s[i].weight \in Nat
        BY <1>6 DEF Weighted
      <3> QED  BY <3>1
    <2>4. x = w * b + rest
      <3>1. rest = x - w * b
        BY <1>1, <1>6, <2>1, <2>2, <2>3 DEF Rests
      <3>2. PICK y \in Int : y = w * b
        OBVIOUS
      <3> QED  BY <3>1, <3>2
    <2>5. PICK share \in Nat : share = shares[i]
      BY <1>5, <1>6
    <2>6. share = b + (IF Gets[i] THEN 1 ELSE 0)
      BY <1>2, <1>6, <2>1, <2>5 DEF Signless
    <2>7. Parted(w, b, rest, share, least)
      <3>1. CASE Gets[i]
        BY <1>4, <1>6, <2>2, <2>6, <3>1 DEF Parted
      <3>2. CASE ~Gets[i]
        BY <1>4, <1>6, <2>2, <2>6, <3>2 DEF Parted
      <3> QED  BY <3>1, <3>2
    <2>8. PICK g \in Int : g = f[i]
      BY <1>6
    <2>9. Abs(share * w - x) + (w - 2 * least) * (g - share) =< Abs(g * w - x)
      BY <2>4, <2>7, <2>8, Tangent
    <2>10. near[i] = Abs(share * w - x) /\ far[i] = Abs(g * w - x)
      BY <1>1, <1>6, <2>3, <2>5, <2>8 DEF Distances
    <2>11. Abs(share * w - x) \in Int /\ Abs(g * w - x) \in Int
      BY DEF Abs
    <2> HIDE DEF near, far, shares
    <2> QED  BY <2>5, <2>8, <2>9, <2>10, <2>11
  <1> DEFINE more == [i \in U |-> 1 * f[i] + (-1) * shares[i]]
             bound == [i \in U |-> 1 * near[i] + (w - 2 * least) * more[i]]
  <1>7. \A i \in U : f[i] \in Int /\ shares[i] \in Int /\ more[i] \in Int
                     /\ more[i] = f[i] - shares[i]
    BY <1>5
  <1>8. Sum(more, U) = 0
    <2>1. \A i \in U : more[i] = 1 * f[i] + (-1) * shares[i]
      OBVIOUS
    <2> HIDE DEF more, shares, U
    <2>2. Combined(more, 1, f, -1, shares, U)
      BY <1>3, <1>7, <2>1 DEF Combined
    <2>3. Sum(more, U) = 1 * Sum(f, U) + (-1) * Sum(shares, U)
      BY <2>2, SumLinear
    <2>4. Sum(f, U) = units
      BY DEF U
    <2> QED  BY <1>5, <2>3, <2>4
  <1>9. Sum(bound, U) = Sum(near, U)
    <2>1. \A i \in U : near[i] \in Int /\ bound[i] = 1 * near[i] + (w - 2 * least) * more[i]
      BY <1>6
    <2> HIDE DEF bound, near, more, U
    <2>2. Combined(bound, 1, near, w - 2 * least, more, U)
      BY <1>3, <1>7, <2>1 DEF Combined
    <2>3. Sum(bound, U) = 1 * Sum(near, U) + (w - 2 * least) * Sum(more, U)
      BY <2>2, SumLinear
    <2>4. Summable(near, U)
      BY <1>3, <2>1 DEF Summable
    <2>5. Sum(near, U) \in Int
      BY <2>4, SumTakes
    <2>6. (w - 2 * least) * 0 = 0
      OBVIOUS
    <2> QED  BY <1>8, <2>3, <2>5, <2>6
  <1>10. Sum(bound, U) =< Sum(far, U)
    <2>1. \A i \in U : bound[i] = near[i] + (w - 2 * least) * (f[i] - shares[i])
      BY <1>6, <1>7
    <2>2. \A i \in U : near[i] \in Int /\ far[i] \in Int /\ bound[i] =< far[i]
      <3> HIDE DEF bound, near, far, shares
      <3> QED  BY <1>6, <2>1
    <2>3. \A i \in U : bound[i] \in Int
      <3> HIDE DEF near, shares, more
      <3> QED  BY <1>6, <1>7
    <2>4. U \in SUBSET U /\ U \ U = {}
      OBVIOUS
    <2> HIDE DEF bound, far, near, U
    <2> QED  BY <1>3, <2>2, <2>3, <2>4, SumsOrdered
  <1> QED  BY <1>9, <1>10

\* The same of amounts of either sign: credits divide as charges do.
LEMMA AllocatedFairest ==
    ASSUME NEW s, NEW n, Weighted(s, n), NEW amount \in Int, EnoughDigits(Abs(amount), s),
           NEW f, \A i \in 1 .. n : f[i] \in Int, Sum(f, 1 .. n) = amount
    PROVE  Sum(Distances(Allocated(amount, s), s, n, amount), 1 .. n)
             =< Sum(Distances(f, s, n, amount), 1 .. n)
  <1> DEFINE U == 1 .. n
             units == Abs(amount)
             sign == IF amount < 0 THEN -1 ELSE 1
             signless == Signless(units, s)
             shares == Allocated(amount, s)
             g == [i \in U |-> sign * f[i]]
  <1>1. /\ units \in Nat /\ sign \in {-1, 1}
        /\ units = sign * amount /\ amount = sign * units
    BY DEF Abs
  <1>2. n \in Nat /\ DOMAIN s = U
    BY DEF Weighted
  <1>3. IsFiniteSet(U)
    BY <1>2, FS_Interval
  <1>4. PICK w \in Nat \ {0} : w = WeightTotal(s)
    BY WeightTotalIs
  <1>5. \A i \in U : g[i] \in Int /\ g[i] = sign * f[i]
    BY <1>1
  <1>6. Sum(g, U) = units
    <2>1. \A i \in U : g[i] = sign * f[i] + 0 * f[i]
      BY <1>5
    <2> HIDE DEF g, sign, U, units
    <2>2. Combined(g, sign, f, 0, f, U)
      BY <1>1, <1>3, <1>5, <2>1 DEF Combined, U
    <2>3. Sum(g, U) = sign * Sum(f, U) + 0 * Sum(f, U)
      BY <2>2, SumLinear
    <2>4. Sum(f, U) = amount
      BY DEF U
    <2> QED  BY <1>1, <2>3, <2>4
  <1>7. Sum(Distances(signless, s, n, units), U) =< Sum(Distances(g, s, n, units), U)
    <2> HIDE DEF g, units
    <2> QED  BY <1>1, <1>5, <1>6, SignlessFairest DEF units
  <1>8. \A x \in Int, y \in Int, z \in Int :
          Abs((sign * x) * w - (sign * y) * z) = Abs(x * w - y * z)
    <2> TAKE x \in Int, y \in Int, z \in Int
    <2>1. PICK a \in Int, b \in Int : a = x * w /\ b = y * z
      OBVIOUS
    <2>2. (sign * x) * w = sign * (x * w) /\ (sign * y) * z = sign * (y * z)
      BY <1>1
    <2>3. Abs(sign * a - sign * b) = Abs(a - b)
      BY <1>1 DEF Abs
    <2> QED  BY <2>1, <2>2, <2>3
  <1>9. \A i \in U : s[i].weight \in Int /\ signless[i] \in Int /\ shares[i] = sign * signless[i]
    <2> TAKE i \in U
    <2>1. s[i].weight \in Int
      BY DEF Weighted
    <2>2. signless[i] \in Nat
      <3>1. EnoughDigits(units, s)
        OBVIOUS
      <3> HIDE DEF units
      <3>2. Signless(units, s) \in [1 .. n -> Nat]
        BY <1>1, <3>1, SignlessAddsUp
      <3> QED  BY <3>2
    <2>3. shares[i] = IF amount < 0 THEN -signless[i] ELSE signless[i]
      BY <1>2 DEF Allocated
    <2>4. PICK x \in Nat : x = signless[i]
      BY <2>2
    <2> HIDE DEF signless, shares
    <2>5. shares[i] = sign * x
      <3>1. CASE amount < 0
        BY <2>3, <2>4, <3>1
      <3>2. CASE ~(amount < 0)
        BY <2>3, <2>4, <3>2
      <3> QED  BY <3>1, <3>2
    <2> QED  BY <2>1, <2>4, <2>5
  <1>10. Distances(shares, s, n, amount) = Distances(signless, s, n, units)
    <2> SUFFICES ASSUME NEW i \in U
                 PROVE  Abs(shares[i] * w - amount * s[i].weight)
                          = Abs(signless[i] * w - units * s[i].weight)
      BY <1>4 DEF Distances
    <2> HIDE DEF signless, shares, units, sign
    <2>1. PICK x \in Int : x = signless[i] /\ shares[i] = sign * x
      BY <1>9
    <2>2. PICK y \in Int : y = units /\ amount = sign * y
      BY <1>1
    <2>3. PICK z \in Int : z = s[i].weight
      BY <1>9
    <2>4. Abs((sign * x) * w - (sign * y) * z) = Abs(x * w - y * z)
      BY <1>8
    <2> QED  BY <2>1, <2>2, <2>3, <2>4
  <1>11. Distances(f, s, n, amount) = Distances(g, s, n, units)
    <2> SUFFICES ASSUME NEW i \in U
                 PROVE  Abs(f[i] * w - amount * s[i].weight)
                          = Abs(g[i] * w - units * s[i].weight)
      BY <1>4 DEF Distances
    <2> HIDE DEF g, units, sign
    <2>1. PICK x \in Int : x = f[i] /\ g[i] = sign * x
      BY <1>5
    <2>2. PICK z \in Int : z = s[i].weight
      BY <1>9
    <2>3. Abs((sign * x) * w - (sign * amount) * z) = Abs(x * w - amount * z)
      BY <1>8
    <2>4. units = sign * amount
      BY <1>1
    <2> QED  BY <2>1, <2>2, <2>3, <2>4
  <1> QED  BY <1>7, <1>10, <1>11
-----------------------------------------------------------------------------
(* The sum of the shares in the default context.                           *)

LEMMA HeldExactly == \A n \in Int : Fits(n) => InContext(n) = n
  BY DEF InContext

\* The running sum is a function of how many shares it has taken.
Running(sum, f, n) ==
    sum = [k \in 0 .. n |-> IF k = 0 THEN 0 ELSE InContext(sum[k - 1] + f[k])]

LEMMA RunningExists ==
    ASSUME NEW f, NEW n \in Nat
    PROVE  \E sum : Running(sum, f, n)
  <1> DEFINE T == {k \in Nat : \E sum : Running(sum, f, k)}
  <1>1. 0 \in T
    <2>1. Running([k \in 0 .. 0 |-> 0], f, 0)
      BY DEF Running
    <2> QED  BY <2>1
  <1>2. ASSUME NEW k \in Nat, k \in T PROVE k + 1 \in T
    <2>1. PICK sum : Running(sum, f, k)
      BY <1>2
    <2> DEFINE g == [p \in 0 .. k + 1 |-> IF p = 0 THEN 0 ELSE InContext(sum[p - 1] + f[p])]
               h == [p \in 0 .. k + 1 |-> IF p = 0 THEN 0 ELSE InContext(g[p - 1] + f[p])]
    <2>2. \A p \in 0 .. k : sum[p] = IF p = 0 THEN 0 ELSE InContext(sum[p - 1] + f[p])
      BY <2>1 DEF Running
    <2>3. \A p \in 0 .. k : p \in 0 .. k + 1 /\ g[p] = sum[p]
      BY <2>2
    <2>4. \A p \in 0 .. k + 1 : p # 0 => p - 1 \in 0 .. k
      OBVIOUS
    <2>5. \A p \in 0 .. k + 1 : g[p] = h[p]
      BY <2>3, <2>4
    <2>6. g = h
      BY <2>5
    <2>7. Running(g, f, k + 1)
      BY <2>6 DEF Running
    <2> HIDE DEF g
    <2>8. \E e : Running(e, f, k + 1)
      BY <2>7
    <2> QED  BY <2>8
  <1>3. Nat \subseteq T
    <2> HIDE DEF T
    <2> QED  BY <1>1, <1>2, Induct
  <1> QED  BY <1>3

LEMMA SummedRuns ==
    ASSUME NEW f, NEW n \in Nat, DOMAIN f = 1 .. n
    PROVE  \E sum : Running(sum, f, n) /\ Summed(f) = sum[n]
  <1>1. Cardinality(DOMAIN f) = n
    BY FS_Interval
  <1> DEFINE chosen == CHOOSE sum : Running(sum, f, n)
  <1>2. Running(chosen, f, n)
    BY RunningExists
  <1>3. Summed(f) = chosen[n]
    BY <1>1 DEF Summed, Running
  <1> QED  BY <1>2, <1>3

\* While no partial sum outgrows the context, none is rounded.
LEMMA SummedExact ==
    ASSUME NEW f, NEW n \in Nat, f \in [1 .. n -> Int], \A k \in 0 .. n : Fits(Sum(f, 1 .. k))
    PROVE  Summed(f) = Sum(f, 1 .. n)
  <1>1. PICK sum : Running(sum, f, n) /\ Summed(f) = sum[n]
    BY SummedRuns
  <1>2. \A k \in 0 .. n : sum[k] = IF k = 0 THEN 0 ELSE InContext(sum[k - 1] + f[k])
    BY <1>1 DEF Running
  <1> DEFINE T == {k \in Nat : k =< n => sum[k] = Sum(f, 1 .. k)}
  <1>3. 0 \in T
    <2>1. 1 .. 0 = {} /\ 0 \in 0 .. n
      OBVIOUS
    <2> QED  BY <1>2, <2>1, SumEmpty
  <1>4. ASSUME NEW k \in Nat, k \in T PROVE k + 1 \in T
    <2> SUFFICES ASSUME k + 1 =< n PROVE sum[k + 1] = Sum(f, 1 .. k + 1)
      OBVIOUS
    <2>1. /\ k + 1 \in 0 .. n /\ k + 1 # 0 /\ (k + 1) - 1 = k /\ k + 1 \in 1 .. n
          /\ k + 1 \in 1 .. k + 1 /\ (1 .. k + 1) \ {k + 1} = 1 .. k
          /\ 1 .. k + 1 \subseteq 1 .. n
      OBVIOUS
    <2>2. sum[k] = Sum(f, 1 .. k)
      BY <1>4
    <2>3. sum[k + 1] = InContext(sum[k] + f[k + 1])
      BY <1>2, <2>1
    <2>4. /\ Sum(f, 1 .. k + 1) \in Int
          /\ Sum(f, 1 .. k + 1) = f[k + 1] + Sum(f, 1 .. k)
      <3>1. IsFiniteSet(1 .. k + 1) /\ \A i \in 1 .. k + 1 : f[i] \in Int
        BY <2>1, FS_Interval
      <3>2. /\ Sum(f, 1 .. k + 1) \in Int
            /\ \A x \in 1 .. k + 1 :
                  Sum(f, 1 .. k + 1) = f[x] + Sum(f, (1 .. k + 1) \ {x})
        <4> DEFINE I == 1 .. k + 1
        <4>1. IsFiniteSet(I) /\ \A i \in I : f[i] \in Int
          BY <3>1
        <4> HIDE DEF I
        <4>2. Sum(f, I) \in Int /\ \A x \in I : Sum(f, I) = f[x] + Sum(f, I \ {x})
          BY <4>1, SumAdds
        <4> QED  BY <4>2 DEF I
      <3>3. Sum(f, 1 .. k + 1) = f[k + 1] + Sum(f, (1 .. k + 1) \ {k + 1})
        BY <2>1, <3>2
      <3> QED  BY <2>1, <3>2, <3>3
    <2>5. Sum(f, 1 .. k) \in Int /\ f[k + 1] \in Int
      <3>1. IsFiniteSet(1 .. k) /\ \A i \in 1 .. k : f[i] \in Int
        BY <2>1, FS_Interval
      <3> QED  BY <2>1, <3>1, SumAdds
    <2>6. sum[k] + f[k + 1] = Sum(f, 1 .. k + 1)
      BY <2>2, <2>4, <2>5
    <2>7. Fits(Sum(f, 1 .. k + 1))
      BY <2>1
    <2> QED  BY <2>3, <2>4, <2>6, <2>7, HeldExactly
  <1>5. n \in T
    <2>1. Nat \subseteq T
      <3> HIDE DEF T
      <3> QED  BY <1>3, <1>4, Induct
    <2> QED  BY <2>1
  <1> QED  BY <1>1, <1>5

\* A sum of counts has no larger part.
LEMMA PartialSums ==
    ASSUME NEW f, NEW n \in Nat, \A i \in 1 .. n : f[i] \in Nat, NEW k \in 0 .. n
    PROVE  Sum(f, 1 .. k) \in Nat /\ Sum(f, 1 .. k) =< Sum(f, 1 .. n)
  <1>1. /\ IsFiniteSet(1 .. n) /\ IsFiniteSet(1 .. k) /\ 1 .. k \in SUBSET (1 .. n)
        /\ {} \in SUBSET (1 .. k)
    <2>1. k \in Nat
      OBVIOUS
    <2> QED  BY <2>1, FS_Interval
  <1>2. \A i \in 1 .. n : f[i] \in Int /\ f[i] =< f[i] /\ 0 =< f[i]
    OBVIOUS
  <1>3. Sum(f, 1 .. k) =< Sum(f, 1 .. n)
    BY <1>1, <1>2, SumsOrdered
  <1>4. Sum(f, {}) =< Sum(f, 1 .. k)
    <2>1. \A i \in {} : f[i] \in Int /\ f[i] =< f[i]
      OBVIOUS
    <2>2. \A i \in (1 .. k) \ {} : 0 =< f[i]
      BY <1>1, <1>2
    <2>3. \A i \in 1 .. k : f[i] \in Int
      BY <1>1, <1>2
    <2> QED  BY <1>1, <2>1, <2>2, <2>3, SumsOrdered
  <1>5. Sum(f, 1 .. k) \in Int
    BY <1>1, <1>2, SumAdds
  <1>6. 0 =< Sum(f, 1 .. k)
    BY <1>4, SumEmpty
  <1> QED  BY <1>3, <1>5, <1>6

\* The shares of an amount that fits the default context sum to it in that
\* context: they have one sign, and no partial sum outgrows the amount.
LEMMA AllocatedSummed ==
    ASSUME NEW s, NEW n, Weighted(s, n), NEW amount \in Int, EnoughDigits(Abs(amount), s),
           Fits(amount)
    PROVE  AddsUp(amount, s)
  <1> DEFINE U == 1 .. n
             signless == Signless(Abs(amount), s)
             shares == Allocated(amount, s)
             sign == IF amount < 0 THEN -1 ELSE 1
  <1>1. n \in Nat /\ Abs(amount) \in Nat /\ sign \in Int
    BY DEF Abs, Weighted
  <1>2. signless \in [U -> Nat] /\ Sum(signless, U) = Abs(amount)
    BY <1>1, SignlessAddsUp
  <1>3. shares = [i \in U |-> IF amount < 0 THEN -signless[i] ELSE signless[i]]
    BY DEF Allocated, Weighted
  <1>4. shares \in [U -> Int] /\ Sum(shares, U) = amount
    <2>1. shares \in [U -> Int] /\ Total(shares) = amount
      BY AllocatedAddsUp
    <2>2. DOMAIN shares = U
      BY <2>1
    <2> QED  BY <2>1, <2>2, TotalIsSum
  <1> HIDE DEF signless, shares
  <1>5. \A i \in U : signless[i] \in Nat /\ shares[i] \in Int
                     /\ shares[i] = sign * signless[i] + 0 * signless[i]
    BY <1>2, <1>3
  <1>6. ASSUME NEW k \in 0 .. n PROVE Fits(Sum(shares, 1 .. k))
    <2>1. PICK part \in Nat : part = Sum(signless, 1 .. k) /\ part =< Abs(amount)
      BY <1>1, <1>2, <1>5, PartialSums
    <2>2. Sum(shares, 1 .. k) = sign * part + 0 * part
      <3>1. IsFiniteSet(1 .. k) /\ \A i \in 1 .. k : i \in U
        <4>1. k \in Nat /\ \A i \in 1 .. k : i \in U
          BY <1>1
        <4> QED  BY <4>1, FS_Interval
      <3>2. Combined(shares, sign, signless, 0, signless, 1 .. k)
        <4> HIDE DEF sign, U
        <4> QED  BY <1>1, <1>5, <3>1 DEF Combined
      <3> HIDE DEF sign
      <3> QED  BY <2>1, <3>2, SumLinear
    <2>3. Sum(shares, 1 .. k) = part \/ Sum(shares, 1 .. k) = -part
      BY <2>1, <2>2
    <2>4. Abs(Sum(shares, 1 .. k)) = part
      BY <2>1, <2>3 DEF Abs
    <2>5. Tens[SumDigits] \in Nat
      BY DigitsAssumption, TensValues
    <2> QED  BY <1>1, <2>1, <2>4, <2>5 DEF Fits
  <1>7. Summed(shares) = Sum(shares, U)
    BY <1>1, <1>4, <1>6, SummedExact
  <1> QED  BY <1>4, <1>7 DEF AddsUp, shares
=============================================================================
