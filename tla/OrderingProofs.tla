---------------------------- MODULE OrderingProofs ----------------------------
(***************************************************************************)
(* Facts that the proofs about several components share: least elements,  *)
(* functions given by recursion over numbers, and the places of elements   *)
(* in an order.                                                            *)
(***************************************************************************)
EXTENDS Ordering, FiniteSetTheorems, SequenceTheorems, WellFoundedInduction, TLAPS

LEMMA LeastNat ==
    ASSUME NEW T \in SUBSET Nat, T # {} PROVE \E m \in T : \A n \in T : m <= n
  <1>1. PICK m \in T : \A n \in T : ~ (<<n, m>> \in OpToRel(<, Nat))
    BY NatLessThanWellFounded, WFMin
  <1>2. ASSUME NEW n \in T PROVE m <= n
    <2>1. ~ (n < m)
      BY <1>1 DEF OpToRel
    <2> QED BY <2>1
  <1> QED BY <1>2

LEMMA GreatestNat ==
    ASSUME NEW n \in Nat, NEW T \in SUBSET (1..n), T # {} PROVE \E m \in T : \A k \in T : k <= m
  <1> DEFINE S == {x \in Nat : \E t \in T : x = n - t}
  <1>1. \A t \in T : t \in 1..n /\ n - t \in S
    OBVIOUS
  <1>2. PICK x \in S : \A y \in S : x <= y
    <2>1. S \in SUBSET Nat /\ S # {}
      BY <1>1
    <2> HIDE DEF S
    <2> QED BY <2>1, LeastNat
  <1>3. PICK m \in T : x = n - m
    BY <1>2
  <1>4. ASSUME NEW k \in T PROVE k <= m
    <2>1. x <= n - k
      BY <1>1, <1>2
    <2> QED BY <1>1, <1>3, <2>1
  <1> QED BY <1>4

LEMMA LeastIs ==
    ASSUME NEW T \in SUBSET Nat, T # {} PROVE Least(T) \in T /\ \A n \in T : Least(T) <= n
  BY LeastNat DEF Least

LEMMA GreatestIs ==
    ASSUME NEW n \in Nat, NEW T \in SUBSET (0..n), T # {}
    PROVE  Greatest(T) \in T /\ \A k \in T : k <= Greatest(T)
  <1>1. \E m \in T : \A k \in T : k <= m
    <2> DEFINE P == T \cap (1..n)
    <2>1. CASE P = {}
      <3>1. \A k \in T : k = 0
        BY <2>1
      <3>2. PICK m \in T : TRUE
        OBVIOUS
      <3>3. \A k \in T : k <= m
        BY <3>1, <3>2
      <3> QED BY <3>2, <3>3
    <2>2. CASE P # {}
      <3>1. P \in SUBSET (1..n) /\ P # {}
        BY <2>2
      <3> HIDE DEF P
      <3>2. PICK m \in P : \A k \in P : k <= m
        BY <3>1, GreatestNat
      <3>3. m \in T /\ m \in 1..n
        BY <3>2 DEF P
      <3>4. ASSUME NEW k \in T PROVE k <= m
        <4>1. CASE k = 0
          BY <3>3, <4>1
        <4>2. CASE k # 0
          <5>1. k \in P
            BY <4>2 DEF P
          <5> QED BY <3>2, <5>1
        <4> QED BY <4>1, <4>2
      <3> QED BY <3>3, <3>4
    <2> QED BY <2>1, <2>2
  <1> QED BY <1>1 DEF Greatest

\* g is given at each number by its value at a smaller one.
ByParent(g, n, p, V, b, F) ==
    g \in [0..n -> V] /\ g[0] = b /\ \A i \in 1..n : g[i] = F[<<g[p[i]], i>>]

LEMMA RecursionByParent ==
    ASSUME NEW n \in Nat, NEW p \in [1..n -> Nat], \A i \in 1..n : p[i] < i,
           NEW V, NEW b \in V, NEW F \in [V \X (1..n) -> V]
    PROVE  \E g : ByParent(g, n, p, V, b, F)
  <1> DEFINE Given(k) == \E g \in [0..k -> V] : g[0] = b /\ \A i \in 1..k : g[i] = F[<<g[p[i]], i>>]
             Bad == {k \in 0..n : ~Given(k)}
  <1>1. Bad = {}
    <2> SUFFICES ASSUME Bad # {} PROVE FALSE
      OBVIOUS
    <2>1. PICK k \in Bad : \A j \in Bad : k <= j
      <3>1. Bad \in SUBSET Nat
        OBVIOUS
      <3> HIDE DEF Bad
      <3> QED BY <3>1, LeastNat
    <2>2. k \in 0..n /\ ~Given(k)
      BY <2>1
    <2>3. CASE k = 0
      <3> DEFINE g == [i \in 0..0 |-> b]
      <3>1. g \in [0..0 -> V] /\ g[0] = b /\ \A i \in 1..0 : g[i] = F[<<g[p[i]], i>>]
        OBVIOUS
      <3> HIDE DEF g
      <3>2. Given(0)
        BY <3>1
      <3> QED BY <2>2, <2>3, <3>2
    <2>4. CASE k # 0
      <3>1. k - 1 \in 0..n /\ ~(k <= k - 1) /\ k \in 1..n
        BY <2>2, <2>4
      <3>2. Given(k - 1)
        <4>1. k - 1 \notin Bad
          BY <2>1, <3>1
        <4> HIDE DEF Given
        <4> QED BY <3>1, <4>1
      <3>3. PICK g \in [0..(k - 1) -> V] :
                g[0] = b /\ \A i \in 1..(k - 1) : g[i] = F[<<g[p[i]], i>>]
        BY <3>2
      <3>4. p[k] \in 0..(k - 1) /\ F[<<g[p[k]], k>>] \in V
        <4>1. p[k] \in 0..(k - 1)
          BY <3>1
        <4>2. g[p[k]] \in V
          BY <4>1, <3>3
        <4> QED BY <4>1, <4>2, <3>1
      <3> DEFINE h == [i \in 0..k |-> IF i = k THEN F[<<g[p[k]], k>>] ELSE g[i]]
      <3>5. h \in [0..k -> V] /\ h[k] = F[<<g[p[k]], k>>] /\ \A i \in 0..(k - 1) : h[i] = g[i]
        <4>1. \A i \in 0..k : i # k => i \in 0..(k - 1)
          BY <3>1
        <4>2. k \in 0..k /\ \A i \in 0..(k - 1) : i \in 0..k /\ i # k
          BY <3>1
        <4> QED BY <4>1, <4>2, <3>3, <3>4
      <3> HIDE DEF h
      <3>6. h[0] = b
        <4>1. 0 \in 0..(k - 1)
          BY <3>1
        <4> QED BY <4>1, <3>3, <3>5
      <3>7. ASSUME NEW i \in 1..k PROVE h[i] = F[<<h[p[i]], i>>]
        <4>1. CASE i = k
          BY <4>1, <3>4, <3>5
        <4>2. CASE i # k
          <5>1. i \in 1..(k - 1) /\ i \in 0..(k - 1) /\ p[i] \in 0..(k - 1)
            BY <4>2, <3>1
          <5> QED BY <5>1, <3>3, <3>5
        <4> QED BY <4>1, <4>2
      <3>8. Given(k)
        BY <3>5, <3>6, <3>7
      <3> QED BY <2>2, <3>8
    <2> QED BY <2>3, <2>4
  <1>2. n \in 0..n
    OBVIOUS
  <1> HIDE DEF Given
  <1>3. Given(n)
    BY <1>1, <1>2
  <1> QED BY <1>3 DEF Given, ByParent

\* A loop of n steps, each of which makes a value of V out of one.
IsLoop(g, n, V, b, F) == g \in [0..n -> V] /\ g[0] = b /\ \A k \in 1..n : g[k] = F[<<g[k - 1], k>>]

LEMMA Loops ==
    ASSUME NEW n \in Nat, NEW V, NEW b \in V, NEW F \in [V \X (1..n) -> V]
    PROVE  \E g : IsLoop(g, n, V, b, F)
  <1> DEFINE p == [k \in 1..n |-> k - 1]
  <1>1. p \in [1..n -> Nat] /\ \A k \in 1..n : p[k] < k /\ p[k] = k - 1
    OBVIOUS
  <1> HIDE DEF p
  <1>2. PICK g : ByParent(g, n, p, V, b, F)
    BY <1>1, RecursionByParent
  <1>3. IsLoop(g, n, V, b, F)
    BY <1>1, <1>2 DEF ByParent, IsLoop
  <1> QED BY <1>3

\* Induction over numbers, for a set of them.
LEMMA NumbersFromZero ==
    ASSUME NEW n \in Nat, NEW T, 0 \in T, \A k \in 1..n : k - 1 \in T => k \in T
    PROVE  \A k \in 0..n : k \in T
  <1> DEFINE Bad == {k \in 0..n : k \notin T}
  <1> SUFFICES ASSUME Bad # {} PROVE FALSE
    OBVIOUS
  <1>1. PICK k \in Bad : \A j \in Bad : k <= j
    <2>1. Bad \in SUBSET Nat
      OBVIOUS
    <2> HIDE DEF Bad
    <2> QED BY <2>1, LeastNat
  <1>2. k \in 1..n /\ k - 1 \in 0..n /\ ~(k <= k - 1) /\ k \notin T
    BY <1>1
  <1>3. k - 1 \in T
    BY <1>1, <1>2
  <1> QED BY <1>2, <1>3

-----------------------------------------------------------------------------

TotalOn(S, order) ==
    /\ \A x \in S : <<x, x>> \notin order
    /\ \A x, y, z \in S : <<x, y>> \in order /\ <<y, z>> \in order => <<x, z>> \in order
    /\ \A x, y \in S : x # y => <<x, y>> \in order \/ <<y, x>> \in order

\* Each element has a place of its own, and each place its element.
LEMMA Places ==
    ASSUME NEW S, IsFiniteSet(S), NEW order, TotalOn(S, order)
    PROVE  /\ Cardinality(S) \in Nat
           /\ \A x \in S : Place(x, S, order) \in 1..Cardinality(S)
           /\ \A x, y \in S : <<y, x>> \in order <=> Place(y, S, order) < Place(x, S, order)
           /\ \A x, y \in S : Place(x, S, order) = Place(y, S, order) => x = y
           /\ \A k \in 1..Cardinality(S) : \E x \in S : Place(x, S, order) = k
  <1> DEFINE N == Cardinality(S)
             Before(x) == {y \in S : <<y, x>> \in order}
             place == [x \in S |-> Place(x, S, order)]
  <1>1. N \in Nat /\ \A x : Place(x, S, order) = Cardinality(Before(x)) + 1
    BY FS_CardinalityType DEF Place
  <1>2. ASSUME NEW x \in S
        PROVE IsFiniteSet(Before(x)) /\ Cardinality(Before(x)) \in 0..(N - 1)
    <2>1. Before(x) \subseteq S \ {x}
      BY DEF TotalOn
    <2>2. IsFiniteSet(S \ {x}) /\ Cardinality(S \ {x}) = N - 1
      BY <1>1, FS_RemoveElement
    <2> HIDE DEF Before, N
    <2>3. IsFiniteSet(Before(x)) /\ Cardinality(Before(x)) <= Cardinality(S \ {x})
      BY <2>1, <2>2, FS_Subset
    <2>4. Cardinality(Before(x)) \in Nat
      BY <2>3, FS_CardinalityType
    <2> QED BY <1>1, <2>2, <2>3, <2>4
  <1>3. ASSUME NEW x \in S, NEW y \in S, <<y, x>> \in order
        PROVE  Cardinality(Before(y)) < Cardinality(Before(x))
    <2>1. Before(y) \subseteq Before(x) /\ y \in Before(x) /\ y \notin Before(y)
      BY <1>3 DEF TotalOn
    <2> HIDE DEF Before
    <2>2. Cardinality(Before(y)) <= Cardinality(Before(x))
          /\ Cardinality(Before(y)) # Cardinality(Before(x))
      BY <1>2, <2>1, FS_Subset
    <2>3. Cardinality(Before(y)) \in Nat /\ Cardinality(Before(x)) \in Nat
      BY <1>2, FS_CardinalityType
    <2> QED BY <2>2, <2>3
  <1>4. \A x \in S : place[x] = Place(x, S, order) /\ place[x] \in 1..N
    <2>1. ASSUME NEW x \in S PROVE Cardinality(Before(x)) + 1 \in 1..N
      <3>1. Cardinality(Before(x)) \in 0..(N - 1)
        BY <1>2
      <3> HIDE DEF Before, N
      <3> QED BY <1>1, <3>1
    <2>2. \A x \in S : place[x] = Cardinality(Before(x)) + 1
      BY <1>1
    <2> HIDE DEF Before, N
    <2> QED BY <1>1, <2>1, <2>2
  <1>5. \A x, y \in S : <<y, x>> \in order => place[y] < place[x]
    <2>1. ASSUME NEW x \in S, NEW y \in S, <<y, x>> \in order PROVE place[y] < place[x]
      <3>1. Cardinality(Before(y)) < Cardinality(Before(x))
        BY <1>3, <2>1
      <3>2. Cardinality(Before(y)) \in Int /\ Cardinality(Before(x)) \in Int
        <4>1. Cardinality(Before(y)) \in 0..(N - 1) /\ Cardinality(Before(x)) \in 0..(N - 1)
          BY <1>2
        <4> HIDE DEF Before, N
        <4> QED BY <1>1, <4>1
      <3>3. place[y] = Cardinality(Before(y)) + 1 /\ place[x] = Cardinality(Before(x)) + 1
        BY <1>1
      <3> HIDE DEF Before, place
      <3> QED BY <3>1, <3>2, <3>3
    <2> HIDE DEF place
    <2> QED BY <2>1
  <1> HIDE DEF place, Before
  <1> HIDE DEF N
  <1>10. \A x \in S : place[x] \in Int
    BY <1>1, <1>4
  <1>11. \A x, y \in S : x # y => <<x, y>> \in order \/ <<y, x>> \in order
    BY DEF TotalOn
  <1>6. ASSUME NEW x \in S, NEW y \in S, place[x] = place[y] PROVE x = y
    <2>1. place[x] \in Int /\ place[y] \in Int /\ ~ (place[x] < place[y]) /\ ~ (place[y] < place[x])
      BY <1>6, <1>10
    <2> QED BY <1>5, <1>11, <2>1
  <1>7. ASSUME NEW x \in S, NEW y \in S, place[y] < place[x] PROVE <<y, x>> \in order
    <2>1. place[x] \in Int /\ place[y] \in Int /\ x # y /\ ~ (place[x] < place[y])
      BY <1>7, <1>10
    <2> QED BY <1>5, <1>11, <2>1
  <1>8. place \in Surjection(S, 1..N)
    <2>1. place \in [S -> 1..N]
      BY <1>4 DEF place
    <2>2. place \in Injection(S, 1..N)
      BY <1>6, <2>1 DEF Injection, IsInjective
    <2>3. IsFiniteSet(1..N) /\ Cardinality(1..N) = N
      BY <1>1, FS_Interval
    <2> QED BY <2>2, <2>3, FS_Injection DEF N
  <1>9. \A k \in 1..N : \E x \in S : place[x] = k
    BY <1>8 DEF Surjection
  <1> QED
    <2>1. \A x, y \in S : <<y, x>> \in order <=> place[y] < place[x]
      BY <1>5, <1>7
    <2>2. \A x, y \in S : place[x] = place[y] => x = y
      BY <1>6
    <2> QED BY <1>1, <1>4, <1>9, <2>1, <2>2 DEF N

LEMMA InItsPlace ==
    ASSUME NEW S, IsFiniteSet(S), NEW order, TotalOn(S, order)
    PROVE  /\ InOrder(S, order) \in [1..Cardinality(S) -> S] /\ InOrder(S, order) \in Seq(S)
           /\ Len(InOrder(S, order)) = Cardinality(S)
           /\ \A k \in 1..Cardinality(S) : Place(InOrder(S, order)[k], S, order) = k
           /\ \A x \in S : InOrder(S, order)[Place(x, S, order)] = x
  <1> DEFINE N == Cardinality(S)
             s == InOrder(S, order)
  <1>1. ASSUME NEW k \in 1..N PROVE s[k] \in S /\ Place(s[k], S, order) = k
    <2>1. \E x \in S : Place(x, S, order) = k
      BY Places
    <2>2. s[k] = CHOOSE x \in S : Place(x, S, order) = k
      BY DEF InOrder
    <2> HIDE DEF s
    <2> QED BY <2>1, <2>2
  <1>2. s \in [1..N -> S]
    <2>1. s = [k \in 1..N |-> s[k]]
      BY DEF InOrder
    <2> HIDE DEF s, N
    <2> QED BY <1>1, <2>1
  <1>3. N \in Nat
    BY FS_CardinalityType
  <1> HIDE DEF s, N
  <1>4. s \in Seq(S)
    BY <1>2, <1>3, SeqDef
  <1>5. Len(s) = N
    BY <1>2, <1>3, <1>4, LenProperties
  <1>6. ASSUME NEW x \in S PROVE s[Place(x, S, order)] = x
    <2>1. Place(x, S, order) \in 1..N
      BY Places DEF N
    <2>2. s[Place(x, S, order)] \in S /\ Place(s[Place(x, S, order)], S, order) = Place(x, S, order)
      BY <1>1, <2>1
    <2> QED BY <2>2, Places
  <1> QED BY <1>1, <1>2, <1>4, <1>5, <1>6 DEF s, N

LEMMA TheFirst ==
    ASSUME NEW S, IsFiniteSet(S), NEW order, TotalOn(S, order), NEW n \in Nat
    PROVE  /\ Leading(n, S, order) \subseteq S /\ IsFiniteSet(Leading(n, S, order))
           /\ Cardinality(Leading(n, S, order)) = IF n <= Cardinality(S) THEN n ELSE Cardinality(S)
           /\ \A x \in S \ Leading(n, S, order) : \A y \in Leading(n, S, order) : <<y, x>> \in order
           /\ S \ Leading(n, S, order) # {} => Cardinality(Leading(n, S, order)) = n
  <1> DEFINE N == Cardinality(S)
             F == Leading(n, S, order)
             m == IF n <= N THEN n ELSE N
             s == InOrder(S, order)
             r == [k \in 1..m |-> s[k]]
  <1>1. N \in Nat /\ F \subseteq S /\ \A x \in S : x \in F <=> Place(x, S, order) <= n
    BY FS_CardinalityType DEF Leading
  <1>2. IsFiniteSet(F)
    BY <1>1, FS_Subset
  <1>3. /\ \A x \in S : Place(x, S, order) \in 1..N
        /\ \A x, y \in S : <<y, x>> \in order <=> Place(y, S, order) < Place(x, S, order)
    BY Places
  <1>4. /\ \A k \in 1..N : s[k] \in S /\ Place(s[k], S, order) = k
        /\ \A x \in S : s[Place(x, S, order)] = x
    BY InItsPlace
  <1> HIDE DEF F, s, N
  <1>5. m \in Nat /\ \A k \in 1..m : k \in 1..N /\ k <= n
    BY <1>1
  <1>6. r \in Bijection(1..m, F)
    <2>1. \A k \in 1..m : s[k] \in F
      BY <1>1, <1>4, <1>5
    <2>2. r \in [1..m -> F]
      BY <2>1
    <2>3. \A j, k \in 1..m : s[j] = s[k] => j = k
      BY <1>4, <1>5
    <2>4. ASSUME NEW x \in F PROVE \E k \in 1..m : s[k] = x
      <3>1. Place(x, S, order) \in 1..N /\ Place(x, S, order) <= n /\ s[Place(x, S, order)] = x
        BY <1>1, <1>3, <1>4
      <3>2. Place(x, S, order) \in 1..m
        BY <1>1, <3>1
      <3> QED BY <3>1, <3>2
    <2>5. \A k \in 1..m : r[k] = s[k]
      OBVIOUS
    <2> HIDE DEF r, m
    <2> QED BY <2>2, <2>3, <2>4, <2>5 DEF Bijection, Injection, Surjection, IsInjective
  <1>7. Cardinality(F) = m
    <2>1. IsFiniteSet(1..m) /\ Cardinality(1..m) = m
      BY <1>5, FS_Interval
    <2>2. ExistsBijection(1..m, F)
      BY <1>6 DEF ExistsBijection
    <2> HIDE DEF m
    <2> QED BY <2>1, <2>2, FS_Bijection
  <1>8. ASSUME NEW x \in S \ F
        PROVE  m = n /\ \A y \in F : <<y, x>> \in order
    <2>1. Place(x, S, order) \in 1..N /\ ~ (Place(x, S, order) <= n)
      BY <1>1, <1>3
    <2>2. \A y \in F : Place(y, S, order) \in 1..N /\ Place(y, S, order) <= n
      BY <1>1, <1>3
    <2>3. m = n
      BY <1>1, <2>1
    <2>4. ASSUME NEW y \in F PROVE <<y, x>> \in order
      <3>1. Place(y, S, order) < Place(x, S, order)
        BY <1>1, <2>1, <2>2
      <3> QED BY <1>1, <1>3, <3>1
    <2> QED BY <2>3, <2>4
  <1> QED BY <1>1, <1>2, <1>7, <1>8 DEF F, N

\* The elements of D that are in E have, among those kept of the list of D,
\* the ranks that are their places in E.
KeepsE(kept, D, E, order) == kept = {k \in 1..Cardinality(D) : InOrder(D, order)[k] \in E}

LEMMA RanksOfTheKept ==
    ASSUME NEW D, IsFiniteSet(D), NEW order, TotalOn(D, order), NEW E, E \subseteq D,
           NEW kept, KeepsE(kept, D, E, order)
    PROVE  /\ IsFiniteSet(kept) /\ IsFiniteSet(E) /\ Cardinality(kept) = Cardinality(E)
           /\ \A l \in kept : /\ InOrder(D, order)[l] \in E
                              /\ Cardinality(kept \cap (1..l)) = Place(InOrder(D, order)[l], E, order)
           /\ \A x \in E : \E l \in kept : InOrder(D, order)[l] = x
  <1> DEFINE s == InOrder(D, order)
             N == Cardinality(D)
             L(l) == kept \cap (1..(l - 1))
             B(l) == {y \in E : <<y, s[l]>> \in order}
             map(l) == [k \in L(l) |-> s[k]]
  <1>1. /\ N \in Nat /\ s \in [1..N -> D]
        /\ \A k \in 1..N : Place(s[k], D, order) = k
        /\ \A x \in D : s[Place(x, D, order)] = x /\ Place(x, D, order) \in 1..N
        /\ \A x, y \in D : <<y, x>> \in order <=> Place(y, D, order) < Place(x, D, order)
    BY InItsPlace, Places
  <1>2. kept = {k \in 1..N : s[k] \in E}
    BY DEF KeepsE
  <1> HIDE DEF s, N
  <1>3. IsFiniteSet(kept) /\ kept \subseteq 1..N
    BY <1>1, <1>2, FS_Interval, FS_Subset
  <1>4. ASSUME NEW l \in kept PROVE Cardinality(kept \cap (1..l)) = Place(s[l], E, order)
    <2>1. l \in 1..N /\ s[l] \in E /\ s[l] \in D
      BY <1>1, <1>2
    <2>2. map(l) \in Bijection(L(l), B(l))
      <3>1. ASSUME NEW k \in L(l) PROVE s[k] \in B(l)
        <4>1. k \in 1..N /\ k < l /\ s[k] \in E /\ s[k] \in D
          BY <1>1, <1>2, <2>1
        <4> QED BY <1>1, <2>1, <4>1
      <3>2. ASSUME NEW j \in L(l), NEW k \in L(l), s[j] = s[k] PROVE j = k
        BY <1>1, <1>2, <3>2
      <3>3. ASSUME NEW y \in B(l) PROVE \E k \in L(l) : s[k] = y
        <4> DEFINE k == Place(y, D, order)
        <4>1. y \in D /\ <<y, s[l]>> \in order /\ y \in E
          OBVIOUS
        <4>2. k \in 1..N /\ s[k] = y /\ k < l
          BY <1>1, <2>1, <4>1
        <4> HIDE DEF k
        <4>3. k \in L(l)
          BY <1>2, <2>1, <4>1, <4>2
        <4> QED BY <4>2, <4>3
      <3>4. \A k \in L(l) : map(l)[k] = s[k]
        OBVIOUS
      <3>5. map(l) \in [L(l) -> B(l)]
        BY <3>1
      <3> HIDE DEF map, L, B
      <3> QED BY <3>2, <3>3, <3>4, <3>5 DEF Bijection, Injection, Surjection, IsInjective
    <2>3. IsFiniteSet(L(l))
      BY <1>3, FS_Subset
    <2> HIDE DEF map
    <2>4. Cardinality(L(l)) = Cardinality(B(l))
      <3>1. ExistsBijection(L(l), B(l))
        BY <2>2 DEF ExistsBijection
      <3> HIDE DEF L, B
      <3> QED BY <2>3, <3>1, FS_Bijection
    <2>5. kept \cap (1..l) = L(l) \cup {l} /\ l \notin L(l)
      BY <1>3, <2>1
    <2> HIDE DEF L
    <2>6. Cardinality(kept \cap (1..l)) = Cardinality(L(l)) + 1
      BY <2>3, <2>5, FS_AddElement
    <2> QED BY <2>4, <2>6 DEF Place
  <1>5. \A x \in E : \E l \in kept : s[l] = x
    BY <1>1, <1>2
  <1>6. IsFiniteSet(E) /\ \A l \in kept : s[l] \in E
    BY <1>2, FS_Subset
  <1>7. Cardinality(kept) = Cardinality(E)
    <2> DEFINE of == [l \in kept |-> s[l]]
    <2>1. \A j, k \in kept : s[j] = s[k] => j = k
      BY <1>1, <1>3
    <2>2. of \in Bijection(kept, E)
      BY <1>5, <1>6, <2>1 DEF Bijection, Injection, Surjection, IsInjective
    <2>3. ExistsBijection(kept, E)
      BY <2>2 DEF ExistsBijection
    <2> QED BY <1>3, <2>3, FS_Bijection
  <1> QED BY <1>3, <1>4, <1>5, <1>6, <1>7 DEF s

\* The element of a list that has rank r among those kept.
Nth(list, kept, r) == list[CHOOSE k \in kept : Cardinality(kept \cap (1..k)) = r]

\* It is in place r of E.
LEMMA KeptInOrder ==
    ASSUME NEW D, IsFiniteSet(D), NEW order, TotalOn(D, order), NEW E, E \subseteq D,
           NEW kept, KeepsE(kept, D, E, order), NEW r \in 1..Cardinality(E)
    PROVE  Nth(InOrder(D, order), kept, r) = InOrder(E, order)[r]
  <1> DEFINE s == InOrder(D, order)
             rank(k) == Cardinality(kept \cap (1..k))
             k == CHOOSE l \in kept : rank(l) = r
  <1>1. /\ IsFiniteSet(E)
        /\ \A l \in kept : s[l] \in E /\ rank(l) = Place(s[l], E, order)
        /\ \A x \in E : \E l \in kept : s[l] = x
    BY RanksOfTheKept
  <1>2. TotalOn(E, order)
    BY DEF TotalOn
  <1> HIDE DEF s, rank
  <1>3. PICK x \in E : Place(x, E, order) = r
    BY <1>1, <1>2, Places
  <1>4. \E l \in kept : rank(l) = r
    BY <1>1, <1>3
  <1>5. k \in kept /\ rank(k) = r
    BY <1>4
  <1> HIDE DEF k
  <1>6. s[k] \in E /\ Place(s[k], E, order) = r
    BY <1>1, <1>5
  <1>7. InOrder(E, order)[Place(s[k], E, order)] = s[k]
    BY <1>1, <1>2, <1>6, InItsPlace
  <1>8. s[k] = InOrder(E, order)[r]
    BY <1>6, <1>7
  <1> QED BY <1>8 DEF s, k, rank, Nth

\* The first n of a list that are kept.
FirstKept(list, kept, n) == {list[k] : k \in {l \in kept : Cardinality(kept \cap (1..l)) <= n}}

\* The first so many of an order that satisfy a condition are the first so
\* many of those that do.
LEMMA FirstOfTheKept ==
    ASSUME NEW D, IsFiniteSet(D), NEW order, TotalOn(D, order), NEW E, E \subseteq D, NEW n \in Nat,
           NEW kept, KeepsE(kept, D, E, order)
    PROVE  FirstKept(InOrder(D, order), kept, n) = Leading(n, E, order)
  <1> DEFINE s == InOrder(D, order)
  <1>1. /\ \A l \in kept : s[l] \in E /\ Cardinality(kept \cap (1..l)) = Place(s[l], E, order)
        /\ \A x \in E : \E l \in kept : s[l] = x
    BY RanksOfTheKept
  <1>2. Leading(n, E, order) = {x \in E : Place(x, E, order) <= n}
    BY DEF Leading
  <1> HIDE DEF s
  <1>3. {s[k] : k \in {l \in kept : Cardinality(kept \cap (1..l)) <= n}} = Leading(n, E, order)
    <2>1. ASSUME NEW l \in kept
          PROVE  Cardinality(kept \cap (1..l)) <= n <=> s[l] \in Leading(n, E, order)
      BY <1>1, <1>2
    <2>2. \A x \in Leading(n, E, order) : \E l \in kept : s[l] = x
      BY <1>1, <1>2
    <2> QED BY <2>1, <2>2
  <1> QED BY <1>3 DEF s, FirstKept

-----------------------------------------------------------------------------
(* Tuples *)

LEMMA ExceedsIsAnOrder ==
    ASSUME NEW n \in Nat, NEW x \in [1..n -> Int], NEW y \in [1..n -> Int]
    PROVE  /\ ~ Exceeds(x, x)
           /\ x # y => Exceeds(x, y) \/ Exceeds(y, x)
           /\ ~ (Exceeds(x, y) /\ Exceeds(y, x))
           /\ \A z \in [1..n -> Int] : Exceeds(x, y) /\ Exceeds(y, z) => Exceeds(x, z)
  <1>1. ~ Exceeds(x, x)
    BY DEF Exceeds
  <1>2. ASSUME x # y PROVE Exceeds(x, y) \/ Exceeds(y, x)
    <2> DEFINE D == {k \in 1..n : x[k] # y[k]}
    <2>1. D \in SUBSET Nat /\ D # {}
      <3>1. \E k \in 1..n : x[k] # y[k]
        BY <1>2
      <3> QED BY <3>1
    <2>2. PICK k \in D : \A j \in D : k <= j
      <3> HIDE DEF D
      <3> QED BY <2>1, LeastNat
    <2>3. k \in 1..n /\ x[k] # y[k] /\ x[k] \in Int /\ y[k] \in Int
      BY <2>2
    <2>4. \A l \in 1..(k - 1) : x[l] = y[l]
      <3>1. \A l \in 1..(k - 1) : l \in 1..n /\ ~ (k <= l)
        BY <2>3
      <3> QED BY <2>2, <3>1
    <2>5. \A l \in 1..(k - 1) : y[l] = x[l]
      BY <2>4
    <2>6. x[k] > y[k] \/ y[k] > x[k]
      BY <2>3
    <2> QED BY <2>3, <2>4, <2>5, <2>6 DEF Exceeds
  <1>3. ASSUME NEW z \in [1..n -> Int], Exceeds(x, y), Exceeds(y, z) PROVE Exceeds(x, z)
    <2>1. PICK j \in 1..n : x[j] > y[j] /\ \A l \in 1..(j - 1) : x[l] = y[l]
      BY <1>3 DEF Exceeds
    <2>2. PICK k \in 1..n : y[k] > z[k] /\ \A l \in 1..(k - 1) : y[l] = z[l]
      BY <1>3 DEF Exceeds
    <2>3. CASE j < k
      <3>1. j \in 1..(k - 1) /\ \A l \in 1..(j - 1) : l \in 1..(k - 1)
        BY <2>3
      <3>2. x[j] > z[j] /\ \A l \in 1..(j - 1) : x[l] = z[l]
        BY <2>1, <2>2, <3>1
      <3> QED BY <3>2 DEF Exceeds
    <2>4. CASE k < j
      <3>1. k \in 1..(j - 1) /\ \A l \in 1..(k - 1) : l \in 1..(j - 1)
        BY <2>4
      <3>2. x[k] > z[k] /\ \A l \in 1..(k - 1) : x[l] = z[l]
        BY <2>1, <2>2, <3>1
      <3> QED BY <3>2 DEF Exceeds
    <2>5. CASE j = k
      <3>1. x[j] \in Int /\ y[j] \in Int /\ z[j] \in Int
        OBVIOUS
      <3>2. x[j] > z[j] /\ \A l \in 1..(j - 1) : x[l] = z[l]
        BY <2>1, <2>2, <2>5, <3>1
      <3> QED BY <3>2 DEF Exceeds
    <2> QED BY <2>3, <2>4, <2>5
  <1>4. ASSUME Exceeds(x, y), Exceeds(y, x) PROVE FALSE
    <2>1. PICK j \in 1..n : x[j] > y[j] /\ \A l \in 1..(j - 1) : x[l] = y[l]
      BY <1>4 DEF Exceeds
    <2>2. PICK k \in 1..n : y[k] > x[k] /\ \A l \in 1..(k - 1) : y[l] = x[l]
      BY <1>4 DEF Exceeds
    <2>3. x[j] \in Int /\ y[j] \in Int /\ x[k] \in Int /\ y[k] \in Int
      OBVIOUS
    <2>4. ~ (j \in 1..(k - 1)) /\ ~ (k \in 1..(j - 1))
      BY <2>1, <2>2, <2>3
    <2>5. j = k
      BY <2>4
    <2> QED BY <2>1, <2>2, <2>3, <2>5
  <1> QED BY <1>1, <1>2, <1>3, <1>4

-----------------------------------------------------------------------------
(* Totals *)

LEMMA UnitsFacts ==
    ASSUME NEW S, IsFiniteSet(S), NEW f \in [S -> Nat]
    PROVE  /\ \A x \in S : \A k \in 1..f[x] : <<x, k>> \in Units(f)
           /\ \A e \in Units(f) : e = <<e[1], e[2]>> /\ e[1] \in S /\ e[2] \in 1..f[e[1]]
           /\ IsFiniteSet(Units(f)) /\ Total(f) \in Nat
  <1> DEFINE Of(x) == {x} \X (1..f[x])
             parts == {Of(x) : x \in S}
  <1>1. Units(f) = UNION parts
    BY DEF Units
  <1>2. \A x \in S : IsFiniteSet(Of(x))
    <2> TAKE x \in S
    <2>1. IsFiniteSet({x})
      BY FS_Singleton
    <2>2. 1 \in Int /\ f[x] \in Int
      OBVIOUS
    <2>3. IsFiniteSet(1..f[x])
      BY <2>2, FS_Interval
    <2> QED BY <2>1, <2>3, FS_Product
  <1>3. IsFiniteSet(parts)
    <2> DEFINE of == [x \in S |-> Of(x)]
    <2>1. of \in Surjection(S, parts)
      BY DEF Surjection
    <2> HIDE DEF of, parts
    <2> QED BY <2>1, FS_Surjection
  <1>4. IsFiniteSet(Units(f))
    <2>1. \A T \in parts : IsFiniteSet(T)
      BY <1>2
    <2> HIDE DEF parts
    <2> QED BY <1>1, <1>3, <2>1, FS_UNION
  <1>5. Total(f) \in Nat
    BY <1>4, FS_CardinalityType DEF Total
  <1>6. \A x \in S : \A k \in 1..f[x] : <<x, k>> \in Units(f)
    BY DEF Units
  <1>7. \A e \in Units(f) : e = <<e[1], e[2]>> /\ e[1] \in S /\ e[2] \in 1..f[e[1]]
    BY DEF Units
  <1> QED BY <1>4, <1>5, <1>6, <1>7

\* g adds up f by groups: the units of x in g are those that h puts into x.
AddsUp(S, T, f, g, h) ==
    \A x \in S : g[x] = Cardinality({e \in Units(f) : h[e[1]] = x})

LEMMA TotalByGroups ==
    ASSUME NEW S, IsFiniteSet(S), NEW T, IsFiniteSet(T), NEW f \in [T -> Nat], NEW g \in [S -> Nat],
           NEW h \in [T -> S], AddsUp(S, T, f, g, h)
    PROVE  Total(g) = Total(f)
  <1> DEFINE Part(x) == {e \in Units(f) : h[e[1]] = x}
             Listing(x) == CHOOSE b : b \in Bijection(1..g[x], Part(x))
             H == [u \in Units(g) |-> Listing(u[1])[u[2]]]
  <1>1. /\ \A x \in T : \A k \in 1..f[x] : <<x, k>> \in Units(f)
        /\ \A e \in Units(f) : e = <<e[1], e[2]>> /\ e[1] \in T /\ e[2] \in 1..f[e[1]]
        /\ IsFiniteSet(Units(f))
    BY UnitsFacts
  <1>2. /\ \A x \in S : \A k \in 1..g[x] : <<x, k>> \in Units(g)
        /\ \A e \in Units(g) : e = <<e[1], e[2]>> /\ e[1] \in S /\ e[2] \in 1..g[e[1]]
        /\ IsFiniteSet(Units(g))
    BY UnitsFacts
  <1>3. ASSUME NEW x \in S PROVE Listing(x) \in Bijection(1..g[x], Part(x))
    <2>1. g[x] = Cardinality(Part(x))
      BY DEF AddsUp
    <2>2. IsFiniteSet(Part(x))
      BY <1>1, FS_Subset
    <2> HIDE DEF Part
    <2>3. ExistsBijection(1..g[x], Part(x))
      BY <2>1, <2>2, FS_CardinalityType
    <2> QED BY <2>3 DEF ExistsBijection
  <1> HIDE DEF Listing
  <1>4. ASSUME NEW x \in S
        PROVE  /\ \A k \in 1..g[x] : Listing(x)[k] \in Units(f) /\ h[Listing(x)[k][1]] = x
               /\ \A j, k \in 1..g[x] : Listing(x)[j] = Listing(x)[k] => j = k
               /\ \A e \in Units(f) : h[e[1]] = x => \E k \in 1..g[x] : Listing(x)[k] = e
    BY <1>3 DEF Bijection, Injection, Surjection, IsInjective
  <1>5. \A u \in Units(g) : H[u] = Listing(u[1])[u[2]]
    OBVIOUS
  <1>6. H \in [Units(g) -> Units(f)]
    BY <1>2, <1>4
  <1> HIDE DEF H, Part
  <1>7. ASSUME NEW u \in Units(g), NEW v \in Units(g), H[u] = H[v] PROVE u = v
    <2>1. u[1] = v[1]
      BY <1>2, <1>4, <1>5, <1>7
    <2>2. u[2] = v[2]
      BY <1>2, <1>4, <1>5, <1>7, <2>1
    <2> QED BY <1>2, <2>1, <2>2
  <1>8. ASSUME NEW e \in Units(f) PROVE \E u \in Units(g) : H[u] = e
    <2> DEFINE x == h[e[1]]
    <2>1. x \in S
      BY <1>1
    <2>2. PICK k \in 1..g[x] : Listing(x)[k] = e
      BY <1>4, <2>1
    <2>3. <<x, k>> \in Units(g) /\ <<x, k>>[1] = x /\ <<x, k>>[2] = k
      BY <1>2, <2>1, <2>2
    <2>4. H[<<x, k>>] = e
      BY <1>5, <2>2, <2>3
    <2> QED BY <2>3, <2>4
  <1>9. H \in Bijection(Units(g), Units(f))
    BY <1>6, <1>7, <1>8 DEF Bijection, Injection, Surjection, IsInjective
  <1>10. ExistsBijection(Units(g), Units(f))
    BY <1>9 DEF ExistsBijection
  <1> QED BY <1>2, <1>10, FS_Bijection DEF Total
=============================================================================
