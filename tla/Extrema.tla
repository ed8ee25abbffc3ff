------------------------------ MODULE Extrema ------------------------------
(***************************************************************************)
(* The least and the greatest of some naturals, as the library defines     *)
(* them, are among them; and what its sums are.                            *)
(***************************************************************************)
EXTENDS Integers, FiniteSetsExt, FiniteSetTheorems, TLAPS

\* Some naturals have a least: their initial segments are finite sets, and one
\* of those contains no other.
LEMMA LeastNatural ==
    ASSUME NEW S \in SUBSET Nat, S # {}
    PROVE  \E m \in S : \A k \in S : m <= k
<1> DEFINE T == {0 .. x : x \in S}
<1>1. T \subseteq FiniteSubsetsOf(Nat) /\ T # {}
  <2>1. ASSUME NEW x \in S PROVE 0 .. x \in SUBSET Nat /\ IsFiniteSet(0 .. x)
    BY FS_Interval
  <2>2. QED
    BY <2>1 DEF FiniteSubsetsOf
<1>2. PICK t \in T : \A u \in T : ~(<<u, t>> \in StrictSubsetOrdering(Nat))
  <2> HIDE DEF T
  <2>1. QED
    BY <1>1, WFMin, FS_StrictSubsetOrderingWellFounded
<1>3. PICK m \in S : t = 0 .. m
  OBVIOUS
<1>4. ASSUME NEW k \in S PROVE m <= k
  <2>1. ~(<<0 .. k, 0 .. m>> \in StrictSubsetOrdering(Nat))
    BY <1>2, <1>3
  <2>2. ~(0 .. k \subseteq 0 .. m /\ 0 .. k # 0 .. m)
    BY <2>1 DEF StrictSubsetOrdering
  <2>3. SUFFICES ASSUME k < m PROVE FALSE
    OBVIOUS
  <2>4. m \in 0 .. m /\ m \notin 0 .. k /\ 0 .. k \subseteq 0 .. m
    BY <2>3
  <2>5. QED
    BY <2>2, <2>4
<1>5. QED
  BY <1>4

LEMMA GreatestNatural ==
    ASSUME NEW n \in Nat, NEW S, S \subseteq 0 .. n, S # {}
    PROVE  \E m \in S : \A k \in S : k <= m
<1> DEFINE T == {n - x : x \in S}
<1>1. T \in SUBSET Nat /\ T # {}
  <2>1. ASSUME NEW x \in S PROVE n - x \in Nat
    OBVIOUS
  <2>2. QED
    BY <2>1
<1>2. PICK t \in T : \A k \in T : t <= k
  <2> HIDE DEF T
  <2>1. QED
    BY <1>1, LeastNatural
<1>3. PICK x \in S : \A y \in S : n - x <= n - y
  BY <1>2
<1>4. \A y \in S : y <= x
  BY <1>3
<1>5. QED
  BY <1>4

LEMMA MinIsIn ==
    ASSUME NEW S \in SUBSET Nat, S # {}
    PROVE  Min(S) \in S
BY LeastNatural DEF Min

LEMMA MaxIsIn ==
    ASSUME NEW S, NEW n \in Nat, S \subseteq 0 .. n, S # {}
    PROVE  Max(S) \in S
<1>1. PICK x \in S : \A y \in S : x >= y
  <2>1. \A x, y \in S : y <= x => x >= y
    OBVIOUS
  <2>2. QED
    BY <2>1, GreatestNatural
<1>2. QED
  BY <1>1 DEF Max

LEMMA GreatestIsMax ==
    ASSUME NEW S, NEW n \in S, S \subseteq 1 .. n, n \in Nat
    PROVE  Max(S) = n
<1>1. \A y \in S : n >= y
  OBVIOUS
<1>2. \A x \in S : (\A y \in S : x >= y) => x = n
  OBVIOUS
<1>3. QED
  BY <1>1, <1>2 DEF Max

-----------------------------------------------------------------------------
\* SUMS

\* The sum of the values of a function with a finite domain, as the library computes it:
\* one element after the other is picked.
SumOf(f) == MapThenSumSet(LAMBDA x : f[x], DOMAIN f)
Pick(s) == CHOOSE x \in s : TRUE
AreSums(g, f, S) == g = [s \in SUBSET S |-> IF s = {} THEN 0 ELSE f[Pick(s)] + g[s \ {Pick(s)}]]

LEMMA PickIsIn == ASSUME NEW s, s # {} PROVE Pick(s) \in s
BY DEF Pick

\* What holds of the empty set, and of a set when it does without the element picked,
\* holds of a finite set: by the least of those it would not hold of.
LEMMA SubsetInduction ==
    ASSUME NEW S, IsFiniteSet(S), NEW Good, {} \in Good,
           \A s \in SUBSET S : s # {} /\ s \ {Pick(s)} \in Good => s \in Good
    PROVE  S \in Good
<1> DEFINE Bad == (SUBSET S) \ Good
           sizes == {Cardinality(s) : s \in Bad}
<1>1. \A s \in SUBSET S : IsFiniteSet(s) /\ Cardinality(s) \in Nat
  BY FS_Subset, FS_CardinalityType
<1>2. ASSUME Bad # {} PROVE FALSE
  <2>1. sizes \in SUBSET Nat /\ sizes # {}
    BY <1>1, <1>2
  <2> HIDE DEF sizes
  <2>2. PICK least \in sizes : \A k \in sizes : least <= k
    BY <2>1, LeastNatural
  <2>3. PICK s \in Bad : Cardinality(s) = least
    BY DEF sizes
  <2>4. s # {} /\ s \in SUBSET S
    OBVIOUS
  <2>5. Pick(s) \in s
    BY <2>4, PickIsIn
  <2> DEFINE r == s \ {Pick(s)}
  <2>6. Cardinality(r) = Cardinality(s) - 1
    BY <1>1, <2>4, <2>5, FS_RemoveElement
  <2>7. r \in SUBSET S
    BY <2>4
  <2>8. ~(least <= Cardinality(r))
    BY <1>1, <2>3, <2>4, <2>6
  <2>9. r \notin Bad
    BY <2>2, <2>8 DEF sizes
  <2> QED
    BY <2>4, <2>7, <2>9
<1> QED
  BY <1>2

LEMMA SumsExist ==
    ASSUME NEW S, IsFiniteSet(S), NEW f PROVE \E g : AreSums(g, f, S)
<1> DEFINE Small(n) == {s \in SUBSET S : Cardinality(s) <= n}
           Is(g, n) == g = [s \in Small(n) |-> IF s = {} THEN 0 ELSE f[Pick(s)] + g[s \ {Pick(s)}]]
           Bad == {n \in Nat : ~\E g : Is(g, n)}
<1>1. \A s \in SUBSET S : IsFiniteSet(s) /\ Cardinality(s) \in Nat
  BY FS_Subset, FS_CardinalityType
<1>2. \A s \in SUBSET S : s # {} => /\ s \ {Pick(s)} \in SUBSET S
                                    /\ Cardinality(s \ {Pick(s)}) = Cardinality(s) - 1
  BY <1>1, PickIsIn, FS_RemoveElement
<1>3. ASSUME Bad # {} PROVE FALSE
  <2>1. PICK n \in Bad : \A j \in Bad : n <= j
    <3>1. Bad \in SUBSET Nat
      OBVIOUS
    <3> HIDE DEF Bad
    <3> QED
      BY <1>3, <3>1, LeastNatural
  <2>2. n \in Nat /\ ~\E g : Is(g, n)
    BY <2>1
  <2>3. CASE n = 0
    <3> DEFINE g == [s \in Small(0) |-> 0]
    <3>1. ASSUME NEW s \in Small(0), s # {} PROVE FALSE
      <4>1. s \in SUBSET S /\ Cardinality(s) <= 0
        OBVIOUS
      <4>2. Cardinality(s) - 1 \in Nat
        BY <1>1, <1>2, <3>1, <4>1
      <4> QED
        BY <1>1, <4>1, <4>2
    <3>2. Is(g, 0)
      BY <3>1
    <3> QED
      BY <2>2, <2>3, <3>2
  <2>4. CASE n # 0
    <3>1. n - 1 \in Nat /\ ~(n <= n - 1)
      BY <2>2, <2>4
    <3>1b. n - 1 \notin Bad
      BY <2>1, <3>1
    <3>2. PICK g : Is(g, n - 1)
      BY <3>1, <3>1b
    <3> DEFINE D == Small(n)
               E == Small(n - 1)
    <3>3. \A s \in D : s # {} => s \ {Pick(s)} \in E
      BY <1>1, <1>2, <2>2
    <3>4. E \subseteq D
      BY <1>1, <2>2
    <3>5. \A s \in E : g[s] = IF s = {} THEN 0 ELSE f[Pick(s)] + g[s \ {Pick(s)}]
      BY <3>2
    <3> HIDE DEF D, E
    <3> DEFINE h == [s \in D |-> IF s = {} THEN 0 ELSE f[Pick(s)] + g[s \ {Pick(s)}]]
    <3>6. \A s \in E : h[s] = g[s]
      BY <3>4, <3>5
    <3>7. \A s \in D : h[s] = IF s = {} THEN 0 ELSE f[Pick(s)] + h[s \ {Pick(s)}]
      BY <3>3, <3>6
    <3>8. h = [s \in D |-> IF s = {} THEN 0 ELSE f[Pick(s)] + h[s \ {Pick(s)}]]
      BY <3>7
    <3>9. Is(h, n)
      BY <3>8 DEF D
    <3> QED
      BY <2>2, <3>9
  <2> QED
    BY <2>3, <2>4
<1>4. Cardinality(S) \in Nat /\ Small(Cardinality(S)) = SUBSET S
  BY <1>1, FS_Subset
<1>5. PICK g : Is(g, Cardinality(S))
  BY <1>3, <1>4
<1>6. AreSums(g, f, S)
  BY <1>4, <1>5 DEF AreSums
<1> QED
  BY <1>6

\* The sum is the last of the sums of the parts.
LEMMA SumIsOfParts ==
    ASSUME NEW f, IsFiniteSet(DOMAIN f)
    PROVE  \E g : /\ SumOf(f) = g[DOMAIN f] /\ g[{}] = 0
                  /\ \A s \in SUBSET DOMAIN f : s # {} => g[s] = f[Pick(s)] + g[s \ {Pick(s)}]
<1> DEFINE S == DOMAIN f
           g == CHOOSE h : AreSums(h, f, S)
<1>1. SumOf(f) = g[S]
  BY DEF SumOf, MapThenSumSet, MapThenFoldSet, AreSums, Pick
<1>2. AreSums(g, f, S)
  <2>1. \E h : AreSums(h, f, S)
    BY SumsExist
  <2> QED
    BY <2>1
<1> HIDE DEF g
<1>3. \A s \in SUBSET S : g[s] = IF s = {} THEN 0 ELSE f[Pick(s)] + g[s \ {Pick(s)}]
  BY <1>2 DEF AreSums
<1> QED
  BY <1>1, <1>3

\* A sum of naturals is one, and not less than any of them.
LEMMA SumIsNatural ==
    ASSUME NEW f, IsFiniteSet(DOMAIN f), \A x \in DOMAIN f : f[x] \in Nat
    PROVE  SumOf(f) \in Nat /\ \A x \in DOMAIN f : f[x] <= SumOf(f)
<1> DEFINE S == DOMAIN f
<1>1. PICK g : /\ SumOf(f) = g[S] /\ g[{}] = 0
               /\ \A s \in SUBSET S : s # {} => g[s] = f[Pick(s)] + g[s \ {Pick(s)}]
  BY SumIsOfParts
<1> DEFINE Good == {s \in SUBSET S : g[s] \in Nat /\ \A x \in s : f[x] <= g[s]}
<1>2. {} \in Good
  BY <1>1
<1>3. ASSUME NEW s \in SUBSET S, s # {}, s \ {Pick(s)} \in Good PROVE s \in Good
  <2> DEFINE r == s \ {Pick(s)}
             p == Pick(s)
  <2>1. p \in s /\ g[s] = f[p] + g[r] /\ f[p] \in Nat /\ g[r] \in Nat
    BY <1>1, <1>3, PickIsIn
  <2>2. g[s] \in Nat /\ f[p] <= g[s] /\ \A x \in r : f[x] <= g[r]
    BY <1>3, <2>1
  <2>3. ASSUME NEW x \in r PROVE f[x] <= g[s]
    <3>1. f[x] \in Nat /\ f[x] <= g[r]
      BY <2>2
    <3> HIDE DEF r, p
    <3> QED
      BY <2>1, <3>1
  <2> QED
    BY <2>2, <2>3
<1> HIDE DEF Good
<1>4. S \in Good
  BY <1>2, <1>3, SubsetInduction
<1> QED
  BY <1>1, <1>4 DEF Good

LEMMA Distributes ==
    ASSUME NEW a \in Nat, NEW b \in Nat, NEW x \in Nat, NEW y \in Nat, NEW u \in Nat, NEW v \in Nat,
           a * x <= b * y, a * u <= b * v
    PROVE  a * (x + u) <= b * (y + v)
<1>1. a * (x + u) = a * x + a * u /\ b * (y + v) = b * y + b * v
  OBVIOUS
<1>2. a * x \in Nat /\ a * u \in Nat /\ b * y \in Nat /\ b * v \in Nat
  OBVIOUS
<1> QED
  BY <1>1, <1>2

\* Sums compare as their terms do.
LEMMA SumsCompare ==
    ASSUME NEW f, NEW h, IsFiniteSet(DOMAIN f), DOMAIN h = DOMAIN f, NEW a \in Nat, NEW b \in Nat,
           \A x \in DOMAIN f : f[x] \in Nat /\ h[x] \in Nat /\ a * f[x] <= b * h[x]
    PROVE  a * SumOf(f) <= b * SumOf(h)
<1> DEFINE S == DOMAIN f
<1>1. PICK g : /\ SumOf(f) = g[S] /\ g[{}] = 0
               /\ \A s \in SUBSET S : s # {} => g[s] = f[Pick(s)] + g[s \ {Pick(s)}]
  BY SumIsOfParts
<1>2. PICK k : /\ SumOf(h) = k[S] /\ k[{}] = 0
               /\ \A s \in SUBSET S : s # {} => k[s] = h[Pick(s)] + k[s \ {Pick(s)}]
  <2>1. IsFiniteSet(DOMAIN h)
    OBVIOUS
  <2>2. \E k : /\ SumOf(h) = k[DOMAIN h] /\ k[{}] = 0
               /\ \A s \in SUBSET DOMAIN h : s # {} => k[s] = h[Pick(s)] + k[s \ {Pick(s)}]
    BY <2>1, SumIsOfParts
  <2> QED
    BY <2>2
<1> DEFINE Good == {s \in SUBSET S : g[s] \in Nat /\ k[s] \in Nat /\ a * g[s] <= b * k[s]}
<1>3. {} \in Good
  BY <1>1, <1>2
<1>4. ASSUME NEW s \in SUBSET S, s # {}, s \ {Pick(s)} \in Good PROVE s \in Good
  <2> DEFINE r == s \ {Pick(s)}
             p == Pick(s)
  <2>1. p \in S /\ g[s] = f[p] + g[r] /\ k[s] = h[p] + k[r]
    BY <1>1, <1>2, <1>4, PickIsIn
  <2>2. f[p] \in Nat /\ h[p] \in Nat /\ a * f[p] <= b * h[p]
    BY <2>1
  <2>3. g[r] \in Nat /\ k[r] \in Nat /\ a * g[r] <= b * k[r]
    BY <1>4
  <2> HIDE DEF r, p
  <2>4. a * g[s] <= b * k[s] /\ g[s] \in Nat /\ k[s] \in Nat
    BY <2>1, <2>2, <2>3, Distributes
  <2> QED
    BY <2>4
<1> HIDE DEF Good
<1>5. S \in Good
  BY <1>3, <1>4, SubsetInduction
<1> QED
  BY <1>1, <1>2, <1>5 DEF Good

\* One more in one place is one more in all.
LEMMA SumTakesOne ==
    ASSUME NEW f, NEW h, IsFiniteSet(DOMAIN f), DOMAIN h = DOMAIN f, NEW q \in DOMAIN f,
           \A x \in DOMAIN f : f[x] \in Nat /\ (x # q => h[x] = f[x]), h[q] = f[q] + 1
    PROVE  SumOf(h) = SumOf(f) + 1
<1> DEFINE S == DOMAIN f
<1>1. PICK g : /\ SumOf(f) = g[S] /\ g[{}] = 0
               /\ \A s \in SUBSET S : s # {} => g[s] = f[Pick(s)] + g[s \ {Pick(s)}]
  BY SumIsOfParts
<1>2. PICK k : /\ SumOf(h) = k[S] /\ k[{}] = 0
               /\ \A s \in SUBSET S : s # {} => k[s] = h[Pick(s)] + k[s \ {Pick(s)}]
  <2>1. IsFiniteSet(DOMAIN h)
    OBVIOUS
  <2>2. \E k : /\ SumOf(h) = k[DOMAIN h] /\ k[{}] = 0
               /\ \A s \in SUBSET DOMAIN h : s # {} => k[s] = h[Pick(s)] + k[s \ {Pick(s)}]
    BY <2>1, SumIsOfParts
  <2> QED
    BY <2>2
<1> DEFINE Good == {s \in SUBSET S : g[s] \in Nat /\ k[s] = IF q \in s THEN g[s] + 1 ELSE g[s]}
<1>3. {} \in Good
  BY <1>1, <1>2
<1>4. ASSUME NEW s \in SUBSET S, s # {}, s \ {Pick(s)} \in Good PROVE s \in Good
  <2> DEFINE r == s \ {Pick(s)}
             p == Pick(s)
  <2>1. p \in s /\ p \in S /\ g[s] = f[p] + g[r] /\ k[s] = h[p] + k[r] /\ p \notin r
    BY <1>1, <1>2, <1>4, PickIsIn
  <2>2. g[r] \in Nat /\ k[r] = IF q \in r THEN g[r] + 1 ELSE g[r]
    BY <1>4
  <2>3. f[p] \in Nat /\ h[p] = IF p = q THEN f[p] + 1 ELSE f[p]
    BY <2>1
  <2>4. q \in r <=> q \in s /\ q # p
    OBVIOUS
  <2> HIDE DEF r, p
  <2>5. g[s] \in Nat /\ k[s] = IF q \in s THEN g[s] + 1 ELSE g[s]
    BY <2>1, <2>2, <2>3, <2>4
  <2> QED
    BY <2>5
<1> HIDE DEF Good
<1>5. S \in Good
  BY <1>3, <1>4, SubsetInduction
<1> QED
  BY <1>1, <1>2, <1>5 DEF Good

-----------------------------------------------------------------------------
\* SUMS OF INTEGERS OVER ONE SET AND ANOTHER

\* The sum of the values of f at the elements of S.
SumOver(f, S) == SumOf([x \in S |-> f[x]])

\* What holds of a set when it does of all smaller parts of it holds of a finite set.
LEMMA PartsInduction ==
    ASSUME NEW S, IsFiniteSet(S), NEW Good,
           \A s \in SUBSET S : (\A r \in SUBSET s : r # s => r \in Good) => s \in Good
    PROVE  S \in Good
<1> DEFINE Bad == (SUBSET S) \ Good
           sizes == {Cardinality(s) : s \in Bad}
<1>1. \A s \in SUBSET S : IsFiniteSet(s) /\ Cardinality(s) \in Nat
  BY FS_Subset, FS_CardinalityType
<1>2. ASSUME Bad # {} PROVE FALSE
  <2>1. sizes \in SUBSET Nat /\ sizes # {}
    BY <1>1, <1>2
  <2> HIDE DEF sizes
  <2>2. PICK least \in sizes : \A k \in sizes : least <= k
    BY <2>1, LeastNatural
  <2>3. PICK s \in Bad : Cardinality(s) = least
    BY DEF sizes
  <2>4. ASSUME NEW r \in SUBSET s, r # s PROVE r \in Good
    <3>1. r \in SUBSET S /\ IsFiniteSet(s)
      BY <1>1
    <3>2. Cardinality(r) <= Cardinality(s) /\ Cardinality(r) # Cardinality(s)
      BY <2>4, <3>1, FS_Subset
    <3>3. ~(least <= Cardinality(r))
      BY <1>1, <2>3, <3>1, <3>2
    <3>4. r \notin Bad
      BY <2>2, <3>3 DEF sizes
    <3> QED
      BY <3>1, <3>4
  <2> QED
    BY <2>4
<1> QED
  BY <1>2

LEMMA SumOfNothing == ASSUME NEW f PROVE SumOver(f, {}) = 0
<1> DEFINE h == [x \in {} |-> f[x]]
<1>1. IsFiniteSet(DOMAIN h)
  BY FS_EmptySet
<1>2. \E g : SumOf(h) = g[DOMAIN h] /\ g[{}] = 0
  BY <1>1, SumIsOfParts
<1> QED
  BY <1>2 DEF SumOver

\* Sums of the parts of a set are sums over them.
LEMMA PartSums ==
    ASSUME NEW f, NEW S, IsFiniteSet(S), NEW g, g[{}] = 0,
           \A s \in SUBSET S : s # {} => g[s] = f[Pick(s)] + g[s \ {Pick(s)}]
    PROVE  SumOver(f, S) = g[S]
<1> DEFINE h == [x \in S |-> f[x]]
<1>1. PICK k : /\ SumOf(h) = k[S] /\ k[{}] = 0
               /\ \A s \in SUBSET S : s # {} => k[s] = h[Pick(s)] + k[s \ {Pick(s)}]
  <2>1. DOMAIN h = S /\ IsFiniteSet(DOMAIN h)
    OBVIOUS
  <2> HIDE DEF h
  <2>2. \E k : /\ SumOf(h) = k[DOMAIN h] /\ k[{}] = 0
               /\ \A s \in SUBSET DOMAIN h : s # {} => k[s] = h[Pick(s)] + k[s \ {Pick(s)}]
    BY <2>1, SumIsOfParts
  <2> QED
    BY <2>1, <2>2
<1> DEFINE Good == {s \in SUBSET S : k[s] = g[s]}
<1>2. {} \in Good
  BY <1>1
<1>3. ASSUME NEW s \in SUBSET S, s # {}, s \ {Pick(s)} \in Good PROVE s \in Good
  <2>1. Pick(s) \in S
    BY <1>3, PickIsIn
  <2>2. h[Pick(s)] = f[Pick(s)]
    BY <2>1
  <2> QED
    BY <1>1, <1>3, <2>2
<1> HIDE DEF Good
<1>4. S \in Good
  BY <1>2, <1>3, SubsetInduction
<1> QED
  BY <1>1, <1>4 DEF Good, SumOver

LEMMA SumTakesPicked ==
    ASSUME NEW f, NEW S, IsFiniteSet(S), S # {}
    PROVE  SumOver(f, S) = f[Pick(S)] + SumOver(f, S \ {Pick(S)})
<1> DEFINE h == [x \in S |-> f[x]]
           r == S \ {Pick(S)}
<1>1. PICK g : /\ SumOf(h) = g[S] /\ g[{}] = 0
               /\ \A s \in SUBSET S : s # {} => g[s] = h[Pick(s)] + g[s \ {Pick(s)}]
  <2>1. DOMAIN h = S /\ IsFiniteSet(DOMAIN h)
    OBVIOUS
  <2> HIDE DEF h
  <2>2. \E g : /\ SumOf(h) = g[DOMAIN h] /\ g[{}] = 0
               /\ \A s \in SUBSET DOMAIN h : s # {} => g[s] = h[Pick(s)] + g[s \ {Pick(s)}]
    BY <2>1, SumIsOfParts
  <2> QED
    BY <2>1, <2>2
<1>2. \A s \in SUBSET S : s # {} => g[s] = f[Pick(s)] + g[s \ {Pick(s)}]
  BY <1>1, PickIsIn
<1>3. r \in SUBSET S /\ IsFiniteSet(r)
  BY FS_Subset
<1>4. SumOver(f, S) = g[S]
  BY <1>1 DEF SumOver
<1>5. SumOver(f, r) = g[r]
  <2>1. \A s \in SUBSET r : s # {} => g[s] = f[Pick(s)] + g[s \ {Pick(s)}]
    BY <1>2
  <2> HIDE DEF r
  <2> QED
    BY <1>1, <1>3, <2>1, PartSums
<1> QED
  BY <1>2, <1>4, <1>5

LEMMA SumIsInteger ==
    ASSUME NEW f, NEW S, IsFiniteSet(S), \A x \in S : f[x] \in Int
    PROVE  SumOver(f, S) \in Int
<1> DEFINE Good == {s \in SUBSET S : SumOver(f, s) \in Int}
<1>1. {} \in Good
  BY SumOfNothing
<1>2. ASSUME NEW s \in SUBSET S, s # {}, s \ {Pick(s)} \in Good PROVE s \in Good
  <2>1. Pick(s) \in S /\ f[Pick(s)] \in Int
    BY <1>2, PickIsIn
  <2>2. IsFiniteSet(s)
    BY FS_Subset
  <2> QED
    BY <1>2, <2>1, <2>2, SumTakesPicked
<1> HIDE DEF Good
<1>3. S \in Good
  BY <1>1, <1>2, SubsetInduction
<1> QED
  BY <1>3 DEF Good

\* The order in which the elements are picked does not matter.
LEMMA SumTakesAny ==
    ASSUME NEW f, NEW S, IsFiniteSet(S), \A x \in S : f[x] \in Int, NEW y \in S
    PROVE  SumOver(f, S) = f[y] + SumOver(f, S \ {y})
<1> DEFINE Good == {s \in SUBSET S : \A z \in s : SumOver(f, s) = f[z] + SumOver(f, s \ {z})}
<1>1. ASSUME NEW s \in SUBSET S, \A r \in SUBSET s : r # s => r \in Good PROVE s \in Good
  <2>1. ASSUME NEW z \in s PROVE SumOver(f, s) = f[z] + SumOver(f, s \ {z})
    <3> DEFINE p == Pick(s)
               r == s \ {p}
               q == (s \ {z}) \ {p}
    <3>1. p \in s /\ IsFiniteSet(s) /\ IsFiniteSet(r) /\ IsFiniteSet(s \ {z}) /\ IsFiniteSet(q)
      <4>1. p \in s
        BY PickIsIn
      <4>2. IsFiniteSet(s)
        BY FS_Subset
      <4> QED
        BY <4>1, <4>2, FS_Subset
    <3>2. SumOver(f, s) = f[p] + SumOver(f, r)
      BY <3>1, SumTakesPicked
    <3>3. CASE z = p
      BY <3>2, <3>3
    <3>4. CASE z # p
      <4>1. z \in r /\ r \in SUBSET s /\ r # s /\ r \ {z} = q
        BY <3>1, <3>4
      <4>2. SumOver(f, r) = f[z] + SumOver(f, q)
        BY <1>1, <4>1
      <4>3. p \in s \ {z} /\ s \ {z} \in SUBSET s /\ s \ {z} # s
        BY <3>1, <3>4
      <4>4. SumOver(f, s \ {z}) = f[p] + SumOver(f, q)
        BY <1>1, <4>3
      <4>5. f[z] \in Int /\ f[p] \in Int
        BY <3>1
      <4>6. SumOver(f, q) \in Int
        <5>1. \A x \in q : f[x] \in Int
          OBVIOUS
        <5> HIDE DEF q
        <5> QED
          BY <3>1, <5>1, SumIsInteger
      <4> HIDE DEF p, r, q
      <4> QED
        BY <3>2, <4>2, <4>4, <4>5, <4>6
    <3> QED
      BY <3>3, <3>4
  <2> QED
    BY <2>1
<1> HIDE DEF Good
<1>2. S \in Good
  BY <1>1, PartsInduction
<1> QED
  BY <1>2 DEF Good

LEMMA SumOfBoth ==
    ASSUME NEW f, NEW A, NEW B, IsFiniteSet(A), IsFiniteSet(B), A \cap B = {},
           \A x \in A \cup B : f[x] \in Int
    PROVE  SumOver(f, A \cup B) = SumOver(f, A) + SumOver(f, B)
<1> DEFINE Good == {b \in SUBSET B : SumOver(f, A \cup b) = SumOver(f, A) + SumOver(f, b)}
<1>1. SumOver(f, A) \in Int
  BY SumIsInteger
<1>2. {} \in Good
  <2>1. A \cup {} = A
    OBVIOUS
  <2> QED
    BY <1>1, <2>1, SumOfNothing
<1>3. ASSUME NEW b \in SUBSET B, b # {}, b \ {Pick(b)} \in Good PROVE b \in Good
  <2> DEFINE p == Pick(b)
             r == b \ {p}
  <2>1. p \in b /\ IsFiniteSet(b) /\ IsFiniteSet(r) /\ IsFiniteSet(A \cup b) /\ r \in SUBSET B
    <3>1. p \in b
      BY <1>3, PickIsIn
    <3>2. IsFiniteSet(b)
      BY FS_Subset
    <3> QED
      BY <3>1, <3>2, FS_Subset, FS_Union
  <2>2. p \in A \cup b /\ (A \cup b) \ {p} = A \cup r /\ f[p] \in Int
    BY <2>1
  <2>3. \A x \in A \cup b : f[x] \in Int
    OBVIOUS
  <2>4. SumOver(f, A \cup b) = f[p] + SumOver(f, A \cup r)
    <3> HIDE DEF p, r
    <3>1. SumOver(f, A \cup b) = f[p] + SumOver(f, (A \cup b) \ {p})
      BY <2>1, <2>2, <2>3, SumTakesAny
    <3> QED
      BY <2>2, <3>1
  <2>5. SumOver(f, b) = f[p] + SumOver(f, r)
    BY <1>3, <2>1, SumTakesPicked
  <2>6. SumOver(f, r) \in Int
    <3>1. \A x \in r : f[x] \in Int
      OBVIOUS
    <3> HIDE DEF r
    <3> QED
      BY <2>1, <3>1, SumIsInteger
  <2>7. SumOver(f, A \cup r) = SumOver(f, A) + SumOver(f, r)
    BY <1>3
  <2> HIDE DEF p, r
  <2> QED
    BY <1>1, <2>2, <2>4, <2>5, <2>6, <2>7
<1> HIDE DEF Good
<1>4. B \in Good
  BY <1>2, <1>3, SubsetInduction
<1> QED
  BY <1>4 DEF Good

LEMMA SumsAreSame ==
    ASSUME NEW f, NEW h, NEW S, \A x \in S : f[x] = h[x]
    PROVE  SumOver(f, S) = SumOver(h, S)
<1>1. [x \in S |-> f[x]] = [x \in S |-> h[x]]
  OBVIOUS
<1> QED
  BY <1>1 DEF SumOver

LEMMA SumsAreOrdered ==
    ASSUME NEW f, NEW h, NEW S, IsFiniteSet(S),
           \A x \in S : f[x] \in Int /\ h[x] \in Int /\ f[x] <= h[x]
    PROVE  SumOver(f, S) <= SumOver(h, S)
<1> DEFINE Good == {s \in SUBSET S : /\ SumOver(f, s) \in Int /\ SumOver(h, s) \in Int
                                     /\ SumOver(f, s) <= SumOver(h, s)}
<1>1. {} \in Good
  BY SumOfNothing
<1>2. ASSUME NEW s \in SUBSET S, s # {}, s \ {Pick(s)} \in Good PROVE s \in Good
  <2> DEFINE p == Pick(s)
             r == s \ {p}
  <2>1. p \in S
    BY <1>2, PickIsIn
  <2>2. IsFiniteSet(s)
    BY FS_Subset
  <2>3. SumOver(f, s) = f[p] + SumOver(f, r) /\ SumOver(h, s) = h[p] + SumOver(h, r)
    BY <1>2, <2>2, SumTakesPicked
  <2>4. f[p] \in Int /\ h[p] \in Int /\ f[p] <= h[p]
    BY <2>1
  <2>5. SumOver(f, r) \in Int /\ SumOver(h, r) \in Int /\ SumOver(f, r) <= SumOver(h, r)
    BY <1>2
  <2> HIDE DEF p, r
  <2> QED
    BY <2>3, <2>4, <2>5
<1> HIDE DEF Good
<1>3. S \in Good
  BY <1>1, <1>2, SubsetInduction
<1> QED
  BY <1>3 DEF Good

\* The sum of c everywhere.
LEMMA SumOfConstant ==
    ASSUME NEW f, NEW S, IsFiniteSet(S), NEW c \in Int, \A x \in S : f[x] = c
    PROVE  SumOver(f, S) = c * Cardinality(S)
<1> DEFINE Good == {s \in SUBSET S : SumOver(f, s) = c * Cardinality(s)}
<1>1. {} \in Good
  <2>1. c * 0 = 0 /\ Cardinality({}) = 0
    BY FS_EmptySet
  <2> QED
    BY <2>1, SumOfNothing
<1>2. ASSUME NEW s \in SUBSET S, s # {}, s \ {Pick(s)} \in Good PROVE s \in Good
  <2> DEFINE p == Pick(s)
             r == s \ {p}
  <2>1. p \in s /\ IsFiniteSet(s) /\ f[p] = c
    <3>1. p \in s
      BY <1>2, PickIsIn
    <3> QED
      BY <3>1, FS_Subset
  <2>2. SumOver(f, s) = f[p] + SumOver(f, r)
    BY <1>2, <2>1, SumTakesPicked
  <2>3. Cardinality(r) = Cardinality(s) - 1 /\ Cardinality(s) \in Nat
    BY <2>1, FS_RemoveElement, FS_CardinalityType
  <2>4. SumOver(f, r) = c * Cardinality(r)
    BY <1>2
  <2> DEFINE n == Cardinality(s)
             m == Cardinality(r)
             u == SumOver(f, r)
             v == SumOver(f, s)
  <2>5. n \in Nat /\ m = n - 1 /\ u = c * m /\ v = c + u
    BY <2>1, <2>2, <2>3, <2>4
  <2> HIDE DEF n, m, u, v
  <2>6. c * n = c * (n - 1) + c
    BY <2>5
  <2>7. v = c * n
    <3>1. c * (n - 1) \in Int
      BY <2>5
    <3> QED
      BY <2>5, <2>6, <3>1
  <2> QED
    BY <2>7 DEF n, v
<1> HIDE DEF Good
<1>3. S \in Good
  BY <1>1, <1>2, SubsetInduction
<1> QED
  BY <1>3 DEF Good

\* h has the sums over the members of a family, none of which shares an element with another.
AddsUp(h, f, I, fam) ==
    /\ IsFiniteSet(I)
    /\ \A i \in I : /\ IsFiniteSet(fam[i]) /\ \A x \in fam[i] : f[x] \in Int
                    /\ h[i] = SumOver(f, fam[i])
    /\ \A i, j \in I : i # j => fam[i] \cap fam[j] = {}

\* They add up to the sum over all of them.
LEMMA SumOfFamily ==
    ASSUME NEW f, NEW I, NEW fam, NEW h, AddsUp(h, f, I, fam)
    PROVE  /\ IsFiniteSet(UNION {fam[i] : i \in I})
           /\ SumOver(h, I) = SumOver(f, UNION {fam[i] : i \in I})
<1> USE DEF AddsUp
<1> DEFINE All(s) == UNION {fam[i] : i \in s}
           Good == {s \in SUBSET I : IsFiniteSet(All(s)) /\ SumOver(h, s) = SumOver(f, All(s))}
<1>1. {} \in Good
  <2>1. All({}) = {}
    OBVIOUS
  <2> QED
    BY <2>1, SumOfNothing, FS_EmptySet
<1>2. ASSUME NEW s \in SUBSET I, s # {}, s \ {Pick(s)} \in Good PROVE s \in Good
  <2> DEFINE p == Pick(s)
             r == s \ {p}
  <2>1. p \in s /\ p \in I /\ IsFiniteSet(s)
    <3>1. p \in s
      BY <1>2, PickIsIn
    <3> QED
      BY <3>1, FS_Subset
  <2>2. All(s) = All(r) \cup fam[p] /\ All(r) \cap fam[p] = {}
    BY <2>1
  <2>3. IsFiniteSet(All(r)) /\ SumOver(h, r) = SumOver(f, All(r))
    BY <1>2
  <2>4. IsFiniteSet(fam[p]) /\ h[p] = SumOver(f, fam[p])
    BY <2>1
  <2>5. \A x \in All(r) \cup fam[p] : f[x] \in Int
    BY <2>1
  <2>6. SumOver(h, s) = h[p] + SumOver(h, r)
    BY <1>2, <2>1, SumTakesPicked
  <2> DEFINE Rest == All(r)
  <2>7. All(s) = Rest \cup fam[p] /\ Rest \cap fam[p] = {} /\ IsFiniteSet(Rest)
        /\ SumOver(h, r) = SumOver(f, Rest) /\ \A x \in Rest \cup fam[p] : f[x] \in Int
    BY <2>2, <2>3, <2>5
  <2> HIDE DEF Rest, All
  <2>8. SumOver(f, Rest \cup fam[p]) = SumOver(f, Rest) + SumOver(f, fam[p])
    BY <2>4, <2>7, SumOfBoth
  <2>9. SumOver(f, Rest) \in Int /\ SumOver(f, fam[p]) \in Int
    BY <2>4, <2>7, SumIsInteger
  <2>10. IsFiniteSet(Rest \cup fam[p])
    BY <2>4, <2>7, FS_Union
  <2>11. SumOver(h, s) = SumOver(f, All(s))
    BY <2>4, <2>6, <2>7, <2>8, <2>9
  <2>12. IsFiniteSet(All(s))
    BY <2>7, <2>10
  <2> QED
    BY <2>11, <2>12
<1> HIDE DEF Good
<1>3. I \in Good
  BY <1>1, <1>2, SubsetInduction
<1> QED
  BY <1>3 DEF Good

\* Cardinality is a sum of ones.
LEMMA SumOfOnes ==
    ASSUME NEW f, NEW S, IsFiniteSet(S), \A x \in S : f[x] = 1
    PROVE  SumOver(f, S) = Cardinality(S)
<1>1. Cardinality(S) \in Nat
  BY FS_CardinalityType
<1>2. SumOver(f, S) = 1 * Cardinality(S)
  BY SumOfConstant
<1> QED
  BY <1>1, <1>2

Combines(h, a, f, b, g, c, S) ==
    \A x \in S : f[x] \in Int /\ g[x] \in Int /\ h[x] = a * f[x] + b * g[x] + c

\* The sum of a combination is the combination of the sums.
LEMMA SumOfCombination ==
    ASSUME NEW f, NEW g, NEW h, NEW S, IsFiniteSet(S), NEW a \in Int, NEW b \in Int, NEW c \in Int,
           Combines(h, a, f, b, g, c, S)
    PROVE  SumOver(h, S) = a * SumOver(f, S) + b * SumOver(g, S) + c * Cardinality(S)
<1> USE DEF Combines
<1> DEFINE Good == {s \in SUBSET S : /\ SumOver(f, s) \in Int /\ SumOver(g, s) \in Int
                                     /\ SumOver(h, s) = a * SumOver(f, s) + b * SumOver(g, s)
                                                        + c * Cardinality(s)}
<1>1. {} \in Good
  <2>1. a * 0 + b * 0 + c * 0 = 0 /\ Cardinality({}) = 0
    BY FS_EmptySet
  <2> QED
    BY <2>1, SumOfNothing
<1>2. ASSUME NEW s \in SUBSET S, s # {}, s \ {Pick(s)} \in Good PROVE s \in Good
  <2> DEFINE p == Pick(s)
             r == s \ {p}
             n == Cardinality(r)
             u == SumOver(f, r)
             v == SumOver(g, r)
             w == SumOver(h, r)
  <2>1. p \in s /\ p \in S /\ IsFiniteSet(s)
    <3>1. p \in s
      BY <1>2, PickIsIn
    <3> QED
      BY <3>1, FS_Subset
  <2>2. /\ SumOver(f, s) = f[p] + u /\ SumOver(g, s) = g[p] + v /\ SumOver(h, s) = h[p] + w
    BY <1>2, <2>1, SumTakesPicked
  <2>3. n \in Nat /\ Cardinality(s) = n + 1
    <3>1. IsFiniteSet(r) /\ n = Cardinality(s) - 1
      BY <2>1, FS_RemoveElement
    <3>2. n \in Nat /\ Cardinality(s) \in Nat
      BY <2>1, <3>1, FS_CardinalityType
    <3> QED
      BY <3>1, <3>2
  <2>4. u \in Int /\ v \in Int /\ w = a * u + b * v + c * n
    BY <1>2
  <2>5. f[p] \in Int /\ g[p] \in Int /\ h[p] = a * f[p] + b * g[p] + c
    BY <2>1
  <2> HIDE DEF p, n, u, v, w
  <2>6. a * (f[p] + u) = a * f[p] + a * u /\ b * (g[p] + v) = b * g[p] + b * v /\ c * (n + 1) = c * n + c
    BY <2>3, <2>4, <2>5
  <2>7. a * f[p] \in Int /\ a * u \in Int /\ b * g[p] \in Int /\ b * v \in Int /\ c * n \in Int
    BY <2>3, <2>4, <2>5
  <2>8. h[p] + w = a * (f[p] + u) + b * (g[p] + v) + c * (n + 1)
    BY <2>4, <2>5, <2>6, <2>7
  <2> QED
    BY <2>2, <2>3, <2>4, <2>5, <2>8
<1> HIDE DEF Good
<1>3. S \in Good
  BY <1>1, <1>2, SubsetInduction
<1> QED
  BY <1>3 DEF Good

\* The sum of as many values, one for one the same.
LEMMA SumOfImage ==
    ASSUME NEW f, NEW g, NEW S, NEW T, IsFiniteSet(S), NEW phi \in Bijection(S, T),
           \A x \in S : f[x] \in Int /\ g[phi[x]] = f[x]
    PROVE  SumOver(g, T) = SumOver(f, S) /\ IsFiniteSet(T) /\ Cardinality(T) = Cardinality(S)
<1> DEFINE fam == [x \in S |-> {phi[x]}]
<1>1. phi \in [S -> T] /\ (\A x, y \in S : phi[x] = phi[y] => x = y) /\ \A y \in T : \E x \in S : phi[x] = y
  BY DEF Bijection, Injection, Surjection, IsInjective
<1>2. UNION {fam[x] : x \in S} = T
  BY <1>1
<1>3. ASSUME NEW x \in S PROVE IsFiniteSet({phi[x]}) /\ SumOver(g, {phi[x]}) = f[x]
  <2>1. IsFiniteSet({phi[x]}) /\ Cardinality({phi[x]}) = 1
    BY FS_Singleton
  <2>2. f[x] \in Int /\ \A y \in {phi[x]} : g[y] = f[x]
    OBVIOUS
  <2>3. SumOver(g, {phi[x]}) = f[x] * 1
    BY <2>1, <2>2, SumOfConstant
  <2> QED
    BY <2>1, <2>2, <2>3
<1>4. AddsUp(f, g, S, fam)
  BY <1>1, <1>3 DEF AddsUp
<1>5. SumOver(g, T) = SumOver(f, S)
  <2> HIDE DEF fam
  <2> QED
    BY <1>2, <1>4, SumOfFamily
<1>6. IsFiniteSet(T) /\ Cardinality(T) = Cardinality(S)
  <2>1. ExistsBijection(S, T)
    BY DEF ExistsBijection
  <2> QED
    BY <2>1, FS_Bijection
<1> QED
  BY <1>5, <1>6

-----------------------------------------------------------------------------
\* THE LEAST AND THE GREATEST OF SOME INTEGERS

LEMMA LeastInteger ==
    ASSUME NEW S \in SUBSET Int, IsFiniteSet(S), S # {}
    PROVE  \E m \in S : \A k \in S : m <= k
<1> DEFINE Good == {s \in SUBSET S : s # {} => \E m \in s : \A k \in s : m <= k}
<1>1. {} \in Good
  OBVIOUS
<1>2. ASSUME NEW s \in SUBSET S, s # {}, s \ {Pick(s)} \in Good PROVE s \in Good
  <2> DEFINE p == Pick(s)
             r == s \ {p}
  <2>1. p \in s /\ p \in Int
    BY <1>2, PickIsIn
  <2>2. r # {} => \E m \in r : \A k \in r : m <= k
    BY <1>2
  <2>3. CASE r = {}
    BY <2>1, <2>3
  <2>4. CASE r # {}
    <3>1. PICK m \in r : \A k \in r : m <= k
      BY <2>2, <2>4
    <3>2. \A k \in s : k = p \/ k \in r
      OBVIOUS
    <3>3. CASE m <= p
      BY <3>1, <3>2, <3>3
    <3>4. CASE p <= m
      <4>1. \A k \in r : k \in Int /\ m \in Int
        BY <3>1
      <4>2. \A k \in s : p <= k
        BY <2>1, <3>1, <3>2, <3>4, <4>1
      <4> QED
        BY <2>1, <4>2
    <3>5. m \in Int
      OBVIOUS
    <3> QED
      BY <2>1, <3>3, <3>4, <3>5
  <2> QED
    BY <2>3, <2>4
<1> HIDE DEF Good
<1>3. S \in Good
  BY <1>1, <1>2, SubsetInduction
<1> QED
  BY <1>3 DEF Good

LEMMA GreatestInteger ==
    ASSUME NEW S \in SUBSET Int, IsFiniteSet(S), S # {}
    PROVE  \E m \in S : \A k \in S : k <= m
<1> DEFINE T == {-x : x \in S}
           neg == [x \in S |-> -x]
<1>1. T \in SUBSET Int /\ T # {}
  <2>1. \A x \in S : -x \in Int
    OBVIOUS
  <2> QED
    BY <2>1
<1>2. IsFiniteSet(T)
  <2>1. neg \in Surjection(S, T)
    BY DEF Surjection
  <2> HIDE DEF neg, T
  <2> QED
    BY <2>1, FS_Surjection
<1>3. PICK m \in T : \A k \in T : m <= k
  <2> HIDE DEF T
  <2> QED
    BY <1>1, <1>2, LeastInteger
<1>4. PICK x \in S : m = -x
  OBVIOUS
<1>5. ASSUME NEW k \in S PROVE k <= x
  <2>1. m <= -k
    BY <1>3
  <2> QED
    BY <1>4, <2>1
<1> QED
  BY <1>5

LEMMA MinOfIntegers ==
    ASSUME NEW S \in SUBSET Int, IsFiniteSet(S), S # {}
    PROVE  Min(S) \in S /\ \A k \in S : Min(S) <= k
BY LeastInteger DEF Min

LEMMA MaxOfIntegers ==
    ASSUME NEW S \in SUBSET Int, IsFiniteSet(S), S # {}
    PROVE  Max(S) \in S /\ \A k \in S : k <= Max(S)
<1>1. PICK x \in S : \A y \in S : x >= y
  <2>1. \A x, y \in S : y <= x => x >= y
    OBVIOUS
  <2> QED
    BY <2>1, GreatestInteger
<1>2. Max(S) \in S /\ \A y \in S : Max(S) >= y
  BY <1>1 DEF Max
<1> QED
  BY <1>2

LEMMA MinIsLeast ==
    ASSUME NEW S \in SUBSET Int, NEW m \in S, \A k \in S : m <= k
    PROVE  Min(S) = m
<1> DEFINE n == Min(S)
<1>1. n \in S /\ \A k \in S : n <= k
  BY DEF Min
<1> HIDE DEF n
<1>2. n \in Int /\ m \in Int /\ n <= m /\ m <= n
  BY <1>1
<1>3. n = m
  BY <1>2
<1> QED
  BY <1>3 DEF n

LEMMA MaxIsGreatest ==
    ASSUME NEW S \in SUBSET Int, NEW m \in S, \A k \in S : k <= m
    PROVE  Max(S) = m
<1>1. \A k \in S : m >= k
  OBVIOUS
<1> DEFINE n == Max(S)
<1>2. n \in S /\ \A k \in S : n >= k
  BY <1>1 DEF Max
<1> HIDE DEF n
<1>3. n \in Int /\ m \in Int /\ n >= m /\ m >= n
  BY <1>1, <1>2
<1>4. n = m
  BY <1>3
<1> QED
  BY <1>4 DEF n
=============================================================================
