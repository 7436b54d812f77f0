------------------------------ MODULE DiffProofs ------------------------------
(***************************************************************************)
(* Theorems about Diff and the migration it plans (SchemaDiff), for every  *)
(* pair of schemas: no table or column that both declare is ever lost, and *)
(* nothing is stated that need not be.  And about the systems of MCCopies  *)
(* side by side: whichever is at work, each keeps its types and its        *)
(* inductive invariant.                                                    *)
(***************************************************************************)
EXTENDS MCCopies, CacheProofs, CopiesProofs

-------------------------------------------------------------------------------
(***************************************************************************)
(* Lists of objects.                                                       *)
(***************************************************************************)

\* No two objects of S have the same table and name, as no two of a kind in a schema.
Apart(S) == \A o1, o2 \in S : o1.table = o2.table /\ o1.name = o2.name => o1 = o2

LEMMA ObjectFacts ==
    ASSUME NEW S, S \subseteq UNION Families
    PROVE  /\ IsFiniteSet(S) /\ Cardinality(S) \in Nat
           /\ \A o \in S : o.table \in Nat /\ o.name \in Nat
<1>1. IsFiniteSet(UNION Families) /\ \A o \in UNION Families : o.table \in Nat /\ o.name \in Nat
  BY DiffAssumption, Zenon
<1>2. IsFiniteSet(S)
  BY <1>1, FS_Subset, Zenon
<1> QED
  BY <1>1, <1>2, FS_CardinalityType, Zenon

\* Sorting lists a set: the ranks of its members are the numbers below its size.
LEMMA SortedFacts ==
    ASSUME NEW S, S \subseteq UNION Families, Apart(S)
    PROVE  Sorted(S) \in Seq(S) /\ Len(Sorted(S)) = Cardinality(S)
<1> DEFINE n == Cardinality(S)
           Below(o) == {q \in S : Before(q, o)}
           rank == [o \in S |-> Cardinality(Below(o))]
<1>1. IsFiniteSet(S) /\ n \in Nat /\ \A o \in S : o.table \in Nat /\ o.name \in Nat
  BY ObjectFacts, Zenon
<1>2. \A o \in S : IsFiniteSet(Below(o)) /\ Cardinality(Below(o)) \in Nat
  BY <1>1, FS_Subset, FS_CardinalityType
<1>3. \A o \in S : ~Before(o, o)
  BY <1>1 DEF Before
<1>4. rank \in [S -> 0..(n - 1)]
  <2> SUFFICES ASSUME NEW o \in S PROVE Cardinality(Below(o)) \in 0..(n - 1)
    OBVIOUS
  <2>1. Below(o) \subseteq S /\ Below(o) # S
    BY <1>3
  <2>2. Cardinality(Below(o)) <= n /\ Cardinality(Below(o)) # n
    BY <1>1, <2>1, FS_Subset
  <2>3. Cardinality(Below(o)) \in Nat
    BY <1>2
  <2> HIDE DEF n, Below
  <2> QED
    BY <1>1, <2>2, <2>3
<1>5. ASSUME NEW o1 \in S, NEW o2 \in S, Before(o1, o2)
      PROVE  rank[o1] # rank[o2]
  <2>1. \A q \in S : Before(q, o1) => Before(q, o2)
    BY <1>1, <1>5 DEF Before
  <2>2. Below(o1) \subseteq Below(o2) /\ Below(o1) # Below(o2)
    BY <1>3, <1>5, <2>1
  <2>3. Cardinality(Below(o1)) # Cardinality(Below(o2))
    BY <1>2, <2>2, FS_Subset
  <2> QED
    BY <2>3
<1>6. ASSUME NEW o1 \in S, NEW o2 \in S, rank[o1] = rank[o2] PROVE o1 = o2
  <2>1. ~Before(o1, o2) /\ ~Before(o2, o1)
    BY <1>5, <1>6
  <2>2. o1.table = o2.table /\ o1.name = o2.name
    BY <1>1, <2>1 DEF Before
  <2> QED
    BY <2>2 DEF Apart
<1>7. \A i \in 0..(n - 1) : \E o \in S : rank[o] = i
  <2> DEFINE I == 0..(n - 1)
  <2>1. IsFiniteSet(I) /\ Cardinality(I) = n
    BY <1>1, FS_Interval
  <2>2. rank \in Injection(S, I)
    <3> HIDE DEF rank
    <3> QED
      BY <1>4, <1>6 DEF Injection, IsInjective
  <2> HIDE DEF rank
  <2>3. rank \in Surjection(S, I)
    BY <2>1, <2>2, FS_Injection
  <2> QED
    BY <2>3 DEF Surjection
<1>8. \A i \in 1..n : (CHOOSE o \in S : Cardinality(Below(o)) = i - 1) \in S
  <2> TAKE i \in 1..n
  <2>1. i - 1 \in 0..(n - 1)
    BY <1>1
  <2>2. \E o \in S : Cardinality(Below(o)) = i - 1
    BY <1>7, <2>1
  <2> QED
    BY <2>2
<1>9. Sorted(S) = [i \in 1..n |-> CHOOSE o \in S : Cardinality(Below(o)) = i - 1]
  BY DEF Sorted
<1> DEFINE nth(i) == CHOOSE o \in S : Cardinality(Below(o)) = i - 1
<1>10. \A i \in 1..n : nth(i) \in S
  BY <1>8
<1>11. Sorted(S) = [i \in 1..n |-> nth(i)]
  BY <1>9
<1> HIDE DEF nth, n
<1>12. Sorted(S) \in Seq(S) /\ Len(Sorted(S)) = n
  BY <1>1, <1>10, <1>11
<1> QED
  BY <1>12 DEF n

LEMMA EachFacts ==
    ASSUME NEW S, NEW verb, NEW s \in Seq(S)
    PROVE  Each(verb, s) \in Seq([do : {verb}, obj : S])
<1>1. Len(s) \in Nat /\ \A i \in 1..Len(s) : s[i] \in S
  BY ElementOfSeq, LenProperties
<1>2. \A i \in 1..Len(s) : [do |-> verb, obj |-> s[i]] \in [do : {verb}, obj : S]
  BY <1>1
<1> QED
  BY <1>1, <1>2 DEF Each

Views == Of(UNION Families, "view")

LEMMA NextViewFacts ==
    ASSUME NEW V \in SUBSET Views, NEW at \in Nat, Ready(V) # {}
    PROVE  NextView(V, at) \in Ready(V) /\ NextView(V, at) \in V /\ NextView(V, at).name \in Nat
<1> DEFINE ahead == {v \in Ready(V) : v.name > at}
           among == IF ahead # {} THEN ahead ELSE Ready(V)
           names == {v.name : v \in among}
<1>1. among \subseteq Ready(V) /\ among \subseteq V /\ among # {}
  BY DEF Ready
<1>2. \A v \in V : v.name \in Nat
  BY ObjectFacts DEF Views, Of
<1> HIDE DEF among
<1>3. names \subseteq Nat /\ names # {}
  BY <1>1, <1>2
<1>4. PICK least \in names : \A m \in names : least <= m
  <2> HIDE DEF names
  <2> QED
    BY <1>3, LeastNatural
<1>5. \E v \in among : \A w \in among : v.name <= w.name
  BY <1>4
<1> DEFINE v1 == CHOOSE v \in among : \A w \in among : v.name <= w.name
<1>6. v1 \in among
  BY <1>5
<1>7. NextView(V, at) = v1
  BY DEF NextView, among
<1> HIDE DEF v1
<1> QED
  BY <1>1, <1>2, <1>6, <1>7

\* viewOrder is the function its equation describes.
LEMMA ViewOrderEquation ==
    \A V \in SUBSET Views : \A at \in Nat :
        viewOrder[V][at] = IF Ready(V) = {} THEN Sorted(V)
                           ELSE <<NextView(V, at)>> \o viewOrder[V \ {NextView(V, at)}][NextView(V, at).name]
<1> DEFINE Below(n) == {V \in SUBSET Views : Cardinality(V) <= n}
           OrderAt(g, V, at) == IF Ready(V) = {} THEN Sorted(V)
                           ELSE <<NextView(V, at)>> \o g[V \ {NextView(V, at)}][NextView(V, at).name]
           Body(g, V) == [at \in Nat |-> OrderAt(g, V, at)]
           Solves(g, n) == \A V \in Below(n) : g[V] = Body(g, V)
           T == {n \in Nat : ~\E g : Solves(g, n)}
<1>1. \A V \in SUBSET Views : IsFiniteSet(V) /\ Cardinality(V) \in Nat
  BY ObjectFacts DEF Views, Of
<1>2. ASSUME NEW V \in SUBSET Views, NEW at \in Nat, Ready(V) # {}
      PROVE  /\ V \ {NextView(V, at)} \in SUBSET Views
             /\ Cardinality(V \ {NextView(V, at)}) = Cardinality(V) - 1
             /\ NextView(V, at).name \in Nat
  <2>1. NextView(V, at) \in V /\ NextView(V, at).name \in Nat
    BY <1>2, NextViewFacts
  <2>2. IsFiniteSet(V)
    BY <1>1
  <2> QED
    BY <2>1, <2>2, FS_RemoveElement
<1>3. T = {}
  <2> SUFFICES ASSUME T # {} PROVE FALSE
    OBVIOUS
  <2>1. T \subseteq Nat
    OBVIOUS
  <2>2. PICK n \in T : \A k \in T : n <= k
    <3> HIDE DEF T
    <3> QED
      BY <2>1, LeastNatural
  <2>3. n # 0
    <3> SUFFICES ASSUME n = 0 PROVE FALSE
      OBVIOUS
    <3>1. \A V \in Below(0) : Ready(V) = {}
      <4> TAKE V \in Below(0)
      <4>1. Cardinality(V) = 0
        BY <1>1
      <4>2. V = {}
        BY <1>1, <4>1, FS_EmptySet
      <4> QED
        BY <4>2 DEF Ready
    <3> DEFINE g0 == [V \in SUBSET Views |-> [at \in Nat |-> Sorted(V)]]
    <3>2. Solves(g0, 0)
      <4> TAKE V \in Below(0)
      <4>1. Ready(V) = {}
        BY <3>1
      <4>2. g0[V] = [at \in Nat |-> Sorted(V)]
        OBVIOUS
      <4>3. \A at \in Nat : OrderAt(g0, V, at) = Sorted(V)
        BY <4>1
      <4> HIDE DEF g0, OrderAt
      <4> QED
        BY <4>2, <4>3
    <3> HIDE DEF Solves, g0
    <3>3. ~\E g : Solves(g, 0)
      BY <2>2
    <3> QED
      BY <3>2, <3>3
  <2>4. n - 1 \in Nat /\ n - 1 \notin T
    <3>1. n \in Nat
      BY <2>1, <2>2
    <3>2. n - 1 \in Nat /\ ~(n <= n - 1)
      BY <2>3, <3>1
    <3> HIDE DEF T
    <3> QED
      BY <2>2, <3>2
  <2>5. PICK g : Solves(g, n - 1)
    BY <2>4
  <2> DEFINE h == [V \in SUBSET Views |-> Body(g, V)]
  <2>6. ASSUME NEW V \in Below(n), NEW at \in Nat PROVE h[V][at] = OrderAt(h, V, at)
    <3>1. h[V] = Body(g, V)
      <4> HIDE DEF Body
      <4> QED
        OBVIOUS
    <3>2. h[V][at] = OrderAt(g, V, at)
      <4> HIDE DEF OrderAt, h
      <4> QED
        BY <3>1
    <3>3. CASE Ready(V) = {}
      <4> HIDE DEF h
      <4> QED
        BY <3>2, <3>3
    <3>4. CASE Ready(V) # {}
      <4> DEFINE v == NextView(V, at)
                 R == V \ {v}
      <4>1. R \in SUBSET Views /\ Cardinality(R) = Cardinality(V) - 1
        BY <1>2, <3>4
      <4>2. R \in Below(n - 1)
        BY <1>1, <4>1
      <4>3. g[R] = Body(g, R)
        BY <2>5, <4>2
      <4>4. h[R] = Body(g, R)
        <5> HIDE DEF Body, R
        <5> QED
          BY <4>1
      <4>5. OrderAt(h, V, at) = <<v>> \o h[R][v.name] /\ OrderAt(g, V, at) = <<v>> \o g[R][v.name]
        <5> HIDE DEF h
        <5> QED
          BY <3>4
      <4> QED
        <5> HIDE DEF Body, h, R, v, OrderAt
        <5> QED
          BY <3>2, <4>3, <4>4, <4>5
    <3> QED
      BY <3>3, <3>4
  <2>7. Solves(h, n)
    <3>1. ASSUME NEW V \in Below(n) PROVE h[V] = Body(h, V)
      <4>1. h[V] = Body(g, V)
        <5> HIDE DEF Body
        <5> QED
          OBVIOUS
      <4>2. h[V] = [at \in Nat |-> h[V][at]]
        <5> HIDE DEF h, OrderAt
        <5> QED
          BY <4>1
      <4>3. \A at \in Nat : h[V][at] = OrderAt(h, V, at)
        BY <2>6
      <4> HIDE DEF h, OrderAt
      <4> QED
        BY <4>2, <4>3
    <3> HIDE DEF h, Body
    <3> QED
      BY <3>1
  <2> QED
    <3> HIDE DEF h, Body
    <3> QED
      BY <2>2, <2>7
<1> DEFINE N == Cardinality(Views)
<1>4. N \in Nat
  BY <1>1
<1>5. PICK g : Solves(g, N)
  <2> HIDE DEF Solves, N
  <2>1. \E g : Solves(g, N)
    BY <1>3, <1>4
  <2> QED
    BY <2>1
<1>6. \A V \in SUBSET Views : V \in Below(N)
  BY <1>1, FS_Subset
<1> DEFINE f == [V \in SUBSET Views |-> g[V]]
<1>7. ASSUME NEW V \in SUBSET Views PROVE f[V] = Body(f, V)
  <2>1. g[V] = Body(g, V)
    BY <1>5, <1>6
  <2>2. f[V] = g[V]
    OBVIOUS
  <2>3. ASSUME NEW at \in Nat PROVE OrderAt(f, V, at) = OrderAt(g, V, at)
    <3>1. Ready(V) # {} => V \ {NextView(V, at)} \in SUBSET Views
      OBVIOUS
    <3> QED
      BY <3>1
  <2> HIDE DEF f, OrderAt
  <2> QED
    BY <2>1, <2>2, <2>3
<1>8. f = [V \in SUBSET Views |-> Body(f, V)]
  <2>1. f = [V \in SUBSET Views |-> f[V]]
    OBVIOUS
  <2> HIDE DEF f, Body
  <2> QED
    BY <1>7, <2>1
<1>9. viewOrder = [V \in SUBSET Views |-> Body(viewOrder, V)]
  <2> HIDE DEF f
  <2> QED
    BY <1>8, Zenon DEF viewOrder, Views
<1>10. ASSUME NEW V \in SUBSET Views, NEW at \in Nat PROVE viewOrder[V][at] = OrderAt(viewOrder, V, at)
  <2>1. viewOrder[V] = Body(viewOrder, V)
    <3> HIDE DEF Body
    <3> QED
      BY <1>9, Zenon
  <2> HIDE DEF OrderAt
  <2> QED
    BY <2>1
<1> QED
  BY <1>10, Zenon

\* The order lists views of V.
LEMMA ViewOrderFacts ==
    ASSUME NEW V \in SUBSET Views, Apart(V), NEW at \in Nat
    PROVE  viewOrder[V][at] \in Seq(V)
<1> DEFINE Good(U) == \A x \in Nat : viewOrder[U][x] \in Seq(U)
           T == {n \in Nat : \E U \in SUBSET Views : Apart(U) /\ Cardinality(U) = n /\ ~Good(U)}
<1>1. \A U \in SUBSET Views : IsFiniteSet(U) /\ Cardinality(U) \in Nat
  BY ObjectFacts DEF Views, Of
<1>2. T = {}
  <2> SUFFICES ASSUME T # {} PROVE FALSE
    OBVIOUS
  <2>1. T \subseteq Nat
    OBVIOUS
  <2>2. PICK n \in T : \A k \in T : n <= k
    <3> HIDE DEF T
    <3> QED
      BY <2>1, LeastNatural
  <2>3. PICK U \in SUBSET Views : Apart(U) /\ Cardinality(U) = n /\ ~Good(U)
    BY <2>2
  <2>4. ASSUME NEW x \in Nat PROVE viewOrder[U][x] \in Seq(U)
    <3>1. CASE Ready(U) = {}
      <4>1. viewOrder[U][x] = Sorted(U)
        BY <3>1, ViewOrderEquation
      <4>2. U \subseteq UNION Families
        BY DEF Views, Of
      <4> QED
        BY <2>3, <4>1, <4>2, SortedFacts
    <3>2. CASE Ready(U) # {}
      <4> DEFINE v == NextView(U, x)
                 R == U \ {v}
                 r == viewOrder[R][v.name]
      <4>1. v \in U /\ v.name \in Nat
        BY <3>2, NextViewFacts
      <4>2. R \in SUBSET Views /\ Cardinality(R) = n - 1 /\ Apart(R)
        <5>1. IsFiniteSet(U) /\ Cardinality(U) = n
          BY <1>1, <2>3
        <5>2. R \in SUBSET Views /\ Apart(R)
          BY <2>3 DEF Apart
        <5>3. Cardinality(R) = Cardinality(U) - 1
          <6> HIDE DEF v
          <6> QED
            BY <4>1, <5>1, FS_RemoveElement
        <5> QED
          BY <5>1, <5>2, <5>3
      <4>3. Cardinality(R) \notin T
        <5>1. n \in Nat /\ ~(n <= Cardinality(R))
          BY <1>1, <2>3, <4>2
        <5> HIDE DEF T
        <5> QED
          BY <2>2, <5>1
      <4>4. Good(R)
        <5>1. Cardinality(R) \in Nat
          BY <1>1, <4>2
        <5> HIDE DEF Good, R
        <5> QED
          BY <4>2, <4>3, <5>1
      <4>5. r \in Seq(R)
        BY <4>1, <4>4
      <4>6. viewOrder[U][x] = <<v>> \o r
        BY <3>2, ViewOrderEquation
      <4> HIDE DEF r, v
      <4>7. r \in Seq(U) /\ <<v>> \in Seq(U)
        BY <4>1, <4>5, SeqMonotonic
      <4> QED
        BY <4>6, <4>7, ConcatProperties
    <3> QED
      BY <3>1, <3>2
  <2>5. Good(U)
    BY <2>4
  <2> QED
    BY <2>3, <2>5
<1> QED
  BY <1>1, <1>2

\* No cycle among the views of V ("A genuine cycle cannot exist in the catalogue").
Layered(V) == \A U \in SUBSET V : U # {} => Ready(U) # {}

\* The order names every view once and after all those that it mentions, in whatever
\* sweep each of them is placed.
THEOREM ViewOrderCorrect ==
    ASSUME NEW V \in SUBSET Views, Layered(V)
    PROVE  LET s == viewOrder[V][0]
           IN  /\ s \in Seq(V) /\ Len(s) = Cardinality(V)
               /\ \A v \in V : \E i \in 1..Len(s) : s[i] = v
               /\ \A i, k \in 1..Len(s) : s[k] # s[i] /\ Id(s[k]) \in s[i].needs => k < i
<1> DEFINE Lists(s, U) == /\ s \in Seq(U) /\ Len(s) = Cardinality(U)
                          /\ \A v \in U : \E i \in 1..Len(s) : s[i] = v
                          /\ \A i, k \in 1..Len(s) : s[k] # s[i] /\ Id(s[k]) \in s[i].needs => k < i
           Good(U) == \A at \in Nat : Lists(viewOrder[U][at], U)
           T == {n \in Nat : \E U \in SUBSET V : Cardinality(U) = n /\ ~Good(U)}
<1>1. \A U \in SUBSET V : IsFiniteSet(U) /\ Cardinality(U) \in Nat
  BY ObjectFacts DEF Views, Of
<1>2. T = {}
  <2> SUFFICES ASSUME T # {} PROVE FALSE
    OBVIOUS
  <2>1. T \subseteq Nat
    OBVIOUS
  <2>2. PICK n \in T : \A k \in T : n <= k
    <3> HIDE DEF T
    <3> QED
      BY <2>1, LeastNatural
  <2>3. PICK U \in SUBSET V : Cardinality(U) = n /\ ~Good(U)
    BY <2>2
  <2>4. ASSUME NEW at \in Nat PROVE Lists(viewOrder[U][at], U)
    <3>1. CASE U = {}
      <4>1. Ready(U) = {}
        BY <3>1 DEF Ready
      <4>2. viewOrder[U][at] = Sorted(U)
        BY <4>1, ViewOrderEquation
      <4>3. Sorted(U) \in Seq(U) /\ Len(Sorted(U)) = Cardinality(U)
        BY <3>1, SortedFacts DEF Apart
      <4>4. Cardinality(U) = 0
        BY <3>1, FS_EmptySet
      <4>5. Lists(Sorted(U), U)
        <5> DEFINE s == Sorted(U)
        <5>1. s \in Seq(U) /\ Len(s) = Cardinality(U)
          BY <4>3
        <5>2. 1..Len(s) = {}
          BY <4>4, <5>1
        <5> HIDE DEF s
        <5>3. \A v \in U : \E i \in 1..Len(s) : s[i] = v
          BY <3>1
        <5>4. \A i, k \in 1..Len(s) : s[k] # s[i] /\ Id(s[k]) \in s[i].needs => k < i
          BY <5>2
        <5>5. Lists(s, U)
          BY <5>1, <5>3, <5>4
        <5> QED
          BY <5>5 DEF s
      <4> HIDE DEF Lists
      <4> QED
        BY <4>2, <4>5
    <3>2. CASE U # {}
      <4> DEFINE v == NextView(U, at)
                 R == U \ {v}
                 r == viewOrder[R][v.name]
                 u == <<v>> \o r
      <4>1. Ready(U) # {} /\ U \in SUBSET Views
        BY <3>2 DEF Layered
      <4>2. v \in U /\ v.name \in Nat /\ v \in Ready(U)
        BY <4>1, NextViewFacts
      <4>3. R \in SUBSET V /\ Cardinality(R) = n - 1
        <5>1. IsFiniteSet(U) /\ Cardinality(U) = n
          BY <1>1, <2>3
        <5>2. Cardinality(R) = Cardinality(U) - 1
          <6> HIDE DEF v
          <6> QED
            BY <4>2, <5>1, FS_RemoveElement
        <5> QED
          BY <5>1, <5>2
      <4>4. Cardinality(R) \notin T
        <5>1. n \in Nat /\ ~(n <= Cardinality(R))
          BY <1>1, <2>3, <4>3
        <5> HIDE DEF T
        <5> QED
          BY <2>2, <5>1
      <4>5. Good(R)
        <5>1. Cardinality(R) \in Nat
          BY <1>1, <4>3
        <5> HIDE DEF Good, R
        <5> QED
          BY <4>3, <4>4, <5>1
      <4>6. Lists(r, R)
        <5> HIDE DEF Lists
        <5> QED
          BY <4>2, <4>5
      <4>7. viewOrder[U][at] = u
        BY <4>1, ViewOrderEquation
      <4>8. \A w \in R : Id(w) \notin v.needs
        BY <4>2 DEF Ready, Ids
      <4>9. n \in Nat /\ Cardinality(U) = n
        BY <2>1, <2>2, <2>3
      <4> HIDE DEF r, v
      <4>10. r \in Seq(U) /\ Len(r) = n - 1 /\ \A i \in 1..Len(r) : r[i] \in R
        BY <4>3, <4>6, ElementOfSeq, SeqMonotonic
      <4>11. /\ u \in Seq(U) /\ Len(u) = n
             /\ u[1] = v /\ \A i \in 2..n : u[i] = r[i - 1]
        <5>1. <<v>> \in Seq(U) /\ Len(<<v>>) = 1 /\ <<v>>[1] = v
          BY <4>2
        <5>2. /\ u \in Seq(U) /\ Len(u) = Len(<<v>>) + Len(r)
              /\ \A i \in 1..(Len(<<v>>) + Len(r)) :
                    u[i] = IF i <= Len(<<v>>) THEN <<v>>[i] ELSE r[i - Len(<<v>>)]
          BY <4>10, <5>1, ConcatProperties
        <5>3. Len(<<v>>) + Len(r) = n
          BY <4>9, <4>10, <5>1
        <5>4. n >= 1
          BY <1>1, <4>3, <4>9
        <5>5. /\ u \in Seq(U) /\ Len(u) = n
              /\ \A i \in 1..n : u[i] = IF i <= 1 THEN <<v>>[i] ELSE r[i - 1]
          BY <5>1, <5>2, <5>3
        <5>6. 1 \in 1..n /\ \A i \in 2..n : i \in 1..n /\ ~(i <= 1)
          BY <4>9, <5>4
        <5> DEFINE one == <<v>>
        <5>7. one[1] = v
          BY <5>1
        <5>8. \A i \in 1..n : u[i] = IF i <= 1 THEN one[i] ELSE r[i - 1]
          BY <5>5
        <5> HIDE DEF u, one
        <5>9. u[1] = v /\ \A i \in 2..n : u[i] = r[i - 1]
          BY <5>6, <5>7, <5>8
        <5> QED
          BY <5>5, <5>9
      <4> HIDE DEF u
      <4>12. ASSUME NEW w \in U PROVE \E i \in 1..n : u[i] = w
        <5>1. CASE w = v
          <6>1. 1 \in 1..n
            BY <1>1, <4>3, <4>9
          <6> QED
            BY <4>11, <5>1, <6>1
        <5>2. CASE w # v
          <6>1. PICK i \in 1..Len(r) : r[i] = w
            BY <4>6, <5>2
          <6>2. i + 1 \in 2..n /\ i + 1 \in 1..n /\ (i + 1) - 1 = i
            BY <4>9, <4>10
          <6> QED
            BY <4>11, <6>1, <6>2
        <5> QED
          BY <5>1, <5>2
      <4>13. ASSUME NEW i \in 1..n, NEW k \in 1..n, u[k] # u[i], Id(u[k]) \in u[i].needs
             PROVE  k < i
        <5>1. CASE i = 1 /\ k # 1
          <6>1. k \in 2..n /\ k - 1 \in 1..Len(r)
            BY <4>9, <4>10, <5>1
          <6>2. u[k] \in R
            BY <4>10, <4>11, <6>1
          <6> QED
            BY <4>8, <4>11, <4>13, <5>1, <6>2
        <5>2. CASE i # 1 /\ k = 1
          BY <4>9, <5>2
        <5>3. CASE i # 1 /\ k # 1
          <6>1. i \in 2..n /\ k \in 2..n /\ i - 1 \in 1..Len(r) /\ k - 1 \in 1..Len(r)
            BY <4>9, <4>10, <5>3
          <6>2. r[k - 1] # r[i - 1] /\ Id(r[k - 1]) \in r[i - 1].needs
            BY <4>11, <4>13, <6>1
          <6>3. k - 1 < i - 1
            BY <4>6, <6>1, <6>2
          <6> QED
            BY <4>9, <6>3
        <5> QED
          BY <4>13, <5>1, <5>2, <5>3
      <4>14. Lists(u, U)
        BY <4>9, <4>11, <4>12, <4>13
      <4> HIDE DEF Lists
      <4> QED
        BY <4>7, <4>14
    <3> QED
      BY <3>1, <3>2
  <2>5. Good(U)
    BY <2>4
  <2> QED
    BY <2>3, <2>5
<1>3. Good(V)
  <2>1. Cardinality(V) \in Nat /\ Cardinality(V) \notin T
    BY <1>1, <1>2
  <2> HIDE DEF Good
  <2> QED
    BY <2>1
<1>4. Lists(viewOrder[V][0], V)
  <2> HIDE DEF Lists
  <2> QED
    BY <1>3
<1> QED
  BY <1>4

LEMMA ReverseFacts ==
    ASSUME NEW S, NEW s \in Seq(S)
    PROVE  Reverse(s) \in Seq(S) /\ Len(Reverse(s)) = Len(s)
<1>1. Len(s) \in Nat /\ \A i \in 1..Len(s) : s[i] \in S
  BY ElementOfSeq, LenProperties
<1>2. \A i \in 1..Len(s) : (Len(s) - i) + 1 \in 1..Len(s)
  BY <1>1
<1> QED
  BY <1>1, <1>2 DEF Reverse

\* Flattening is the end of a concatenation from the left.
LEMMA FlattenEquation ==
    ASSUME NEW ss, Len(ss) \in Nat \ {0}
    PROVE  \E flat : /\ FlattenSeq(ss) = flat[Len(ss)] /\ flat[1] = ss[1]
                     /\ \A i \in 2..Len(ss) : flat[i] = flat[i - 1] \o ss[i]
<1> DEFINE I == 1..Len(ss)
           Body(g, i) == IF i = 1 THEN ss[i] ELSE g[i - 1] \o ss[i]
           Solves(g, n) == \A i \in I : i <= n => g[i] = Body(g, i)
           T == {n \in Nat : ~\E g : Solves(g, n)}
<1>1. T = {}
  <2> SUFFICES ASSUME T # {} PROVE FALSE
    OBVIOUS
  <2>1. T \subseteq Nat
    OBVIOUS
  <2>2. PICK n \in T : \A k \in T : n <= k
    <3> HIDE DEF T
    <3> QED
      BY <2>1, LeastNatural
  <2>3. n # 0
    <3> SUFFICES ASSUME n = 0 PROVE FALSE
      OBVIOUS
    <3>1. Solves(<<>>, 0)
      OBVIOUS
    <3> QED
      BY <3>1
  <2>4. n \in Nat /\ n - 1 \in Nat /\ n - 1 \notin T
    <3>1. n \in Nat
      BY <2>1, <2>2
    <3>2. n - 1 \in Nat /\ ~(n <= n - 1)
      BY <2>3, <3>1
    <3> HIDE DEF T
    <3> QED
      BY <2>2, <3>1, <3>2
  <2>5. PICK g : Solves(g, n - 1)
    BY <2>4
  <2> DEFINE h == [i \in I |-> Body(g, i)]
  <2>6. ASSUME NEW i \in I, i <= n PROVE h[i] = Body(h, i)
    <3>1. CASE i = 1
      BY <3>1
    <3>2. CASE i # 1
      <4>1. i - 1 \in I /\ i - 1 <= n - 1
        BY <2>4, <2>6, <3>2
      <4>2. h[i - 1] = Body(g, i - 1) /\ h[i] = Body(g, i)
        <5> HIDE DEF Body
        <5> QED
          BY <4>1
      <4>3. g[i - 1] = Body(g, i - 1)
        <5> HIDE DEF Body
        <5> QED
          BY <2>5, <4>1
      <4>4. h[i - 1] = g[i - 1]
        BY <4>2, <4>3
      <4> HIDE DEF h
      <4> QED
        BY <3>2, <4>2, <4>4
    <3> QED
      BY <3>1, <3>2
  <2>7. Solves(h, n)
    <3> HIDE DEF h, Body
    <3> QED
      BY <2>6
  <2> QED
    <3> HIDE DEF h, Body
    <3> QED
      BY <2>2, <2>7
<1>2. PICK g : Solves(g, Len(ss))
  <2> HIDE DEF Solves
  <2>1. \E g : Solves(g, Len(ss))
    BY <1>1
  <2> QED
    BY <2>1
<1> DEFINE f == [i \in I |-> g[i]]
<1>3. ASSUME NEW i \in I PROVE f[i] = Body(f, i)
  <2>1. g[i] = Body(g, i)
    BY <1>2
  <2>2. i # 1 => i - 1 \in I
    OBVIOUS
  <2> QED
    BY <2>1, <2>2
<1>4. f = [i \in I |-> Body(f, i)]
  <2>1. f = [i \in I |-> f[i]]
    OBVIOUS
  <2> HIDE DEF f, Body
  <2> QED
    BY <1>3, <2>1
<1> HIDE DEF f
<1> DEFINE flat == CHOOSE k : k = [i \in I |-> Body(k, i)]
<1>5. flat = [i \in I |-> Body(flat, i)]
  BY <1>4, Zenon
<1>6. FlattenSeq(ss) = flat[Len(ss)]
  <2>1. Len(ss) # 0
    OBVIOUS
  <2> QED
    BY <2>1, Zenon DEF FlattenSeq
<1> HIDE DEF flat
<1>7. \A i \in I : flat[i] = Body(flat, i)
  <2> HIDE DEF Body
  <2> QED
    BY <1>5
<1>8. flat[1] = ss[1] /\ \A i \in 2..Len(ss) : flat[i] = flat[i - 1] \o ss[i]
  <2>1. 1 \in I /\ \A i \in 2..Len(ss) : i \in I /\ i # 1
    OBVIOUS
  <2> HIDE DEF I
  <2> QED
    BY <1>7, <2>1
<1> QED
  BY <1>6, <1>8

\* What holds of the parts, each a sequence of elements of S, holds of the whole; and
\* the whole is empty if every part is.
LEMMA FlattenFacts ==
    ASSUME NEW S, NEW ss, Len(ss) \in Nat, ss = [i \in 1..Len(ss) |-> ss[i]],
           \A i \in 1..Len(ss) : ss[i] \in Seq(S)
    PROVE  FlattenSeq(ss) \in Seq(S)
<1>1. CASE Len(ss) = 0
  <2>1. FlattenSeq(ss) = ss
    BY <1>1 DEF FlattenSeq
  <2>2. ss = <<>>
    BY <1>1
  <2> QED
    BY <2>1, <2>2, EmptySeq
<1>2. CASE Len(ss) # 0
  <2>1. PICK flat : /\ FlattenSeq(ss) = flat[Len(ss)] /\ flat[1] = ss[1]
                    /\ \A i \in 2..Len(ss) : flat[i] = flat[i - 1] \o ss[i]
    BY <1>2, FlattenEquation
  <2> DEFINE T == {n \in 1..Len(ss) : flat[n] \notin Seq(S)}
  <2>2. T = {}
    <3> SUFFICES ASSUME T # {} PROVE FALSE
      OBVIOUS
    <3>1. T \subseteq Nat
      OBVIOUS
    <3>2. PICK n \in T : \A k \in T : n <= k
      <4> HIDE DEF T
      <4> QED
        BY <3>1, LeastNatural
    <3>3. n \in 1..Len(ss) /\ flat[n] \notin Seq(S)
      BY <3>2
    <3>4. n # 1
      BY <2>1, <3>3
    <3>5. n \in 2..Len(ss) /\ n - 1 \in 1..Len(ss) /\ ~(n <= n - 1)
      BY <3>3, <3>4
    <3>6. n - 1 \notin T
      <4> HIDE DEF T
      <4> QED
        BY <3>2, <3>5
    <3>7. flat[n - 1] \in Seq(S) /\ ss[n] \in Seq(S)
      BY <3>3, <3>5, <3>6
    <3>8. flat[n] = flat[n - 1] \o ss[n]
      BY <2>1, <3>5
    <3> QED
      BY <3>3, <3>7, <3>8, ConcatProperties
  <2> QED
    BY <1>2, <2>1, <2>2
<1> QED
  BY <1>1, <1>2

LEMMA FlattenNothing ==
    ASSUME NEW ss, Len(ss) \in Nat, ss = [i \in 1..Len(ss) |-> ss[i]],
           \A i \in 1..Len(ss) : ss[i] = <<>>
    PROVE  FlattenSeq(ss) = <<>>
<1>1. \A i \in 1..Len(ss) : ss[i] \in Seq({})
  BY EmptySeq
<1>2. FlattenSeq(ss) \in Seq({})
  BY <1>1, FlattenFacts
<1>3. Len(FlattenSeq(ss)) = 0
  <2>1. Len(FlattenSeq(ss)) \in Nat
    BY <1>2, LenProperties
  <2>2. ASSUME Len(FlattenSeq(ss)) # 0 PROVE FALSE
    <3>1. 1 \in 1..Len(FlattenSeq(ss))
      BY <2>1, <2>2
    <3>2. FlattenSeq(ss)[1] \in {}
      BY <1>2, <3>1, ElementOfSeq
    <3> QED
      BY <3>2
  <2> QED
    BY <2>2
<1> QED
  BY <1>2, <1>3, EmptySeq

\* Both snapshots are schemas of one family.
Schemas == \E F \in Families : prev \in Snapshots(F) /\ cur \in Snapshots(F)

\* The statements that Diff may state: it drops what prev has, never a table or a
\* column that cur has too, it creates, alters or replaces what cur has, and nothing of
\* it is there alike on the other side, but for views under column work.
Legit ==
    {s \in [do : {"create", "drop", "alter", "replace"}, obj : UNION Families] :
        /\ s.do = "drop" => /\ s.obj \in prev
                            /\ s.obj.kind \in {"table", "column"} => Id(s.obj) \notin Ids(cur)
        /\ s.do # "drop" => s.obj \in cur
        /\ \/ s.obj.kind = "view" /\ columnWorkAViewCanBlock
           \/ ~\E q \in (IF s.do = "drop" THEN cur ELSE prev) : Alike(s.obj, q)}

LEMMA SchemaFacts ==
    ASSUME Schemas
    PROVE  /\ prev \subseteq UNION Families /\ cur \subseteq UNION Families
           /\ \A o \in cur : o.needs \subseteq Ids(cur)
           /\ \A o1, o2 \in prev : Id(o1) = Id(o2) => o1 = o2
           /\ \A o1, o2 \in cur : Id(o1) = Id(o2) => o1 = o2
<1>1. PICK F \in Families : prev \in Snapshots(F) /\ cur \in Snapshots(F)
  BY DEF Schemas
<1>2. F \subseteq UNION Families
  OBVIOUS
<1>3. /\ prev \subseteq F /\ \A o1, o2 \in prev : Id(o1) = Id(o2) => o1 = o2
      /\ cur \subseteq F /\ \A o1, o2 \in cur : Id(o1) = Id(o2) => o1 = o2
      /\ \A o \in cur : o.needs \subseteq Ids(cur)
  <2> HIDE DEF Id
  <2> QED
    BY <1>1 DEF Snapshots
<1> QED
  BY <1>2, <1>3

LEMMA KindApart ==
    ASSUME Schemas, NEW kind, NEW S, S \subseteq Of(prev, kind) \/ S \subseteq Of(cur, kind)
    PROVE  S \subseteq UNION Families /\ Apart(S)
<1>1. S \subseteq UNION Families
  BY SchemaFacts DEF Of
<1>2. ASSUME NEW o1 \in S, NEW o2 \in S, o1.table = o2.table, o1.name = o2.name PROVE o1 = o2
  <2>1. /\ o1.kind = kind /\ o2.kind = kind
        /\ (o1 \in prev /\ o2 \in prev) \/ (o1 \in cur /\ o2 \in cur)
    <3>1. \A k : /\ Of(prev, k) \subseteq prev /\ \A o \in Of(prev, k) : o.kind = k
                 /\ Of(cur, k) \subseteq cur /\ \A o \in Of(cur, k) : o.kind = k
      BY DEF Of
    <3>2. CASE S \subseteq Of(prev, kind)
      BY <3>1, <3>2
    <3>3. CASE S \subseteq Of(cur, kind)
      BY <3>1, <3>3
    <3> QED
      BY <3>2, <3>3
  <2>2. Id(o1) = Id(o2)
    BY <1>2, <2>1 DEF Id
  <2> QED
    BY <2>1, <2>2, SchemaFacts
<1> QED
  BY <1>1, <1>2 DEF Apart

\* The statements about a set of objects of one kind, one for each.
LEMMA ListFacts ==
    ASSUME Schemas, NEW kind, NEW S, S \subseteq Of(prev, kind) \/ S \subseteq Of(cur, kind), NEW verb,
           [do : {verb}, obj : S] \subseteq Legit
    PROVE  Each(verb, Sorted(S)) \in Seq(Legit)
<1>1. Sorted(S) \in Seq(S)
  BY KindApart, SortedFacts
<1>2. Each(verb, Sorted(S)) \in Seq([do : {verb}, obj : S])
  BY <1>1, EachFacts
<1> QED
  BY <1>2, SeqMonotonic

\* Which sets of objects may be dropped, and which created or altered.
LEMMA Droppable ==
    ASSUME Schemas, NEW S, S \subseteq prev,
           \A o \in S : /\ o.kind \in {"table", "column"} => Id(o) \notin Ids(cur)
                        /\ ~\E q \in cur : Alike(o, q)
    PROVE  [do : {"drop"}, obj : S] \subseteq Legit
<1>1. prev \subseteq UNION Families
  BY SchemaFacts
<1> SUFFICES ASSUME NEW o \in S PROVE [do |-> "drop", obj |-> o] \in Legit
  OBVIOUS
<1>2. /\ o \in prev
      /\ o.kind \in {"table", "column"} => Id(o) \notin Ids(cur)
      /\ ~\E q \in cur : Alike(o, q)
  OBVIOUS
<1> QED
  BY <1>1, <1>2 DEF Legit

LEMMA Makeable ==
    ASSUME Schemas, NEW S, S \subseteq cur, NEW verb \in {"create", "alter", "replace"},
           \A o \in S : ~\E q \in prev : Alike(o, q)
    PROVE  [do : {verb}, obj : S] \subseteq Legit
<1>1. cur \subseteq UNION Families
  BY SchemaFacts
<1> SUFFICES ASSUME NEW o \in S PROVE [do |-> verb, obj |-> o] \in Legit
  OBVIOUS
<1>2. o \in cur /\ ~\E q \in prev : Alike(o, q)
  OBVIOUS
<1> QED
  BY <1>1, <1>2 DEF Legit

\* What is alike on two sides has one identity.
LEMMA AlikeFacts ==
    /\ \A o : Id(o) \notin Ids(cur) => ~\E q \in cur : Alike(o, q)
    /\ \A o : Id(o) \notin Ids(prev) => ~\E q \in prev : Alike(o, q)
BY DEF Alike, Ids

LEMMA PartFacts ==
    ASSUME Schemas
    PROVE  /\ \A k \in {"policy", "unique", "pk", "check", "index", "fk"} :
                 Drops(k) \in Seq(Legit) /\ Adds(k) \in Seq(Legit)
           /\ \A k \in {"table", "enum"} : Removed(k) \in Seq(Legit) /\ Created(k) \in Seq(Legit)
           /\ dropColumns \in Seq(Legit) /\ addColumns \in Seq(Legit) /\ alterColumns \in Seq(Legit)
<1>1. ASSUME NEW k \in {"policy", "unique", "pk", "check", "index", "fk"}
      PROVE  Drops(k) \in Seq(Legit) /\ Adds(k) \in Seq(Legit)
  <2> DEFINE D == {o \in Of(prev, k) : o.table \in Tables(cur) /\ ~\E q \in cur : Alike(o, q)}
             A == {o \in Missing(k) : ~OnExpression(o)}
  <2>1. /\ D \subseteq Of(prev, k) /\ A \subseteq Of(cur, k)
        /\ \A o \in D : ~\E q \in cur : Alike(o, q)
        /\ \A o \in A : ~\E q \in prev : Alike(o, q)
    BY DEF Missing
  <2>2. Drops(k) = Each("drop", Sorted(D)) /\ Adds(k) = Each("create", Sorted(A))
    BY DEF Drops, Adds
  <2> HIDE DEF D, A
  <2>3. D \subseteq prev /\ (\A o \in D : o.kind \notin {"table", "column"}) /\ A \subseteq cur
    BY <2>1 DEF Of
  <2>4. [do : {"drop"}, obj : D] \subseteq Legit /\ [do : {"create"}, obj : A] \subseteq Legit
    BY <2>1, <2>3, Droppable, Makeable
  <2> QED
    BY <2>1, <2>2, <2>4, ListFacts
<1>2. ASSUME NEW k \in {"table", "enum"} PROVE Removed(k) \in Seq(Legit) /\ Created(k) \in Seq(Legit)
  <2> DEFINE D == {o \in Of(prev, k) : Id(o) \notin Ids(cur)}
             A == {o \in Of(cur, k) : Id(o) \notin Ids(prev)}
  <2>1. /\ D \subseteq Of(prev, k) /\ A \subseteq Of(cur, k)
        /\ \A o \in D : Id(o) \notin Ids(cur) /\ ~\E q \in cur : Alike(o, q)
        /\ \A o \in A : ~\E q \in prev : Alike(o, q)
    BY AlikeFacts
  <2>2. Removed(k) = Each("drop", Sorted(D)) /\ Created(k) = Each("create", Sorted(A))
    BY DEF Removed, Created
  <2> HIDE DEF D, A
  <2>3. D \subseteq prev /\ A \subseteq cur
    BY <2>1 DEF Of
  <2>4. [do : {"drop"}, obj : D] \subseteq Legit /\ [do : {"create"}, obj : A] \subseteq Legit
    BY <2>1, <2>3, Droppable, Makeable
  <2> QED
    BY <2>1, <2>2, <2>4, ListFacts
<1>3. dropColumns \in Seq(Legit) /\ addColumns \in Seq(Legit) /\ alterColumns \in Seq(Legit)
  <2> DEFINE D == {o \in Of(prev, "column") : o.table \in survivingTables /\ Id(o) \notin Ids(cur)}
             A == {o \in Of(cur, "column") : o.table \in survivingTables /\ Id(o) \notin Ids(prev)}
             R == {o \in Of(cur, "column") : \E q \in prev : Id(o) = Id(q) /\ o.def # q.def}
  <2>1. /\ D \subseteq Of(prev, "column") /\ A \subseteq Of(cur, "column") /\ R \subseteq Of(cur, "column")
        /\ \A o \in D : Id(o) \notin Ids(cur) /\ ~\E q \in cur : Alike(o, q)
        /\ \A o \in A : ~\E q \in prev : Alike(o, q)
        /\ \A o \in R : ~\E q \in prev : Alike(o, q)
    <3>1. ASSUME NEW o \in R, NEW q \in prev, Alike(o, q) PROVE FALSE
      <4>1. PICK q1 \in prev : Id(o) = Id(q1) /\ o.def # q1.def
        OBVIOUS
      <4>2. Id(q1) = Id(q) /\ o.def = q.def
        BY <3>1, <4>1 DEF Alike
      <4> QED
        BY <4>1, <4>2, SchemaFacts
    <3> QED
      BY <3>1, AlikeFacts
  <2>2. /\ dropColumns = Each("drop", Sorted(D)) /\ addColumns = Each("create", Sorted(A))
        /\ alterColumns = Each("alter", Sorted(R))
    BY DEF dropColumns, addColumns, alterColumns
  <2> HIDE DEF D, A, R
  <2>3. D \subseteq prev /\ A \subseteq cur /\ R \subseteq cur
    BY <2>1 DEF Of
  <2>4. /\ [do : {"drop"}, obj : D] \subseteq Legit /\ [do : {"create"}, obj : A] \subseteq Legit
        /\ [do : {"alter"}, obj : R] \subseteq Legit
    BY <2>1, <2>3, Droppable, Makeable
  <2> QED
    BY <2>1, <2>2, <2>4, ListFacts
<1> QED
  BY <1>1, <1>2, <1>3

LEMMA ViewPartFacts ==
    ASSUME Schemas
    PROVE  diffViewsDrop \in Seq(Legit) /\ diffViewsCreate \in Seq(Legit)
<1> DEFINE old == Of(prev, "view")
           new == Of(cur, "view")
<1>1. old \in SUBSET Views /\ Apart(old) /\ new \in SUBSET Views /\ Apart(new)
  <2>1. Apart(old) /\ Apart(new)
    BY KindApart
  <2> QED
    BY <2>1, SchemaFacts DEF Views, Of
<1>2. \A v \in old : v \in prev /\ v.kind = "view"
  BY DEF Of
<1>3. \A v \in new : v \in cur /\ v.kind = "view"
  BY DEF Of
<1> HIDE DEF old, new
<1>4. ASSUME NEW v \in old, columnWorkAViewCanBlock \/ ~\E q \in cur : Alike(v, q)
      PROVE  [do |-> "drop", obj |-> v] \in Legit
  BY <1>2, <1>4, SchemaFacts DEF Legit
<1>5. ASSUME NEW v \in new, NEW verb \in {"create", "replace"},
             columnWorkAViewCanBlock \/ ~\E q \in prev : Alike(v, q)
      PROVE  [do |-> verb, obj |-> v] \in Legit
  BY <1>3, <1>5, SchemaFacts DEF Legit
<1>6. diffViewsDrop \in Seq(Legit)
  <2> DEFINE r == Reverse(viewOrder[old][0])
             goes(v) == Id(v) \notin Ids(cur) \/ columnWorkAViewCanBlock
             parts == [i \in 1..Len(r) |-> IF goes(r[i]) THEN <<[do |-> "drop", obj |-> r[i]]>> ELSE <<>>]
  <2>1. viewOrder[old][0] \in Seq(old)
    BY <1>1, ViewOrderFacts
  <2>2. r \in Seq(old)
    BY <2>1, ReverseFacts
  <2>3. diffViewsDrop = FlattenSeq(parts)
    BY DEF diffViewsDrop, ForEach, old
  <2> HIDE DEF r, goes
  <2>4. Len(r) \in Nat /\ \A i \in 1..Len(r) : r[i] \in old
    BY <2>2, ElementOfSeq, LenProperties
  <2>5. Len(parts) = Len(r) /\ parts = [i \in 1..Len(parts) |-> parts[i]]
    BY <2>4
  <2>6. \A i \in 1..Len(parts) : parts[i] \in Seq(Legit)
    <3> TAKE i \in 1..Len(parts)
    <3>1. i \in 1..Len(r)
      BY <2>5
    <3>2. goes(r[i]) => [do |-> "drop", obj |-> r[i]] \in Legit
      BY <1>4, <2>4, <3>1, AlikeFacts DEF goes
    <3> HIDE DEF Legit
    <3>3. parts[i] = IF goes(r[i]) THEN <<[do |-> "drop", obj |-> r[i]]>> ELSE <<>>
      BY <3>1
    <3> HIDE DEF parts
    <3> QED
      BY <3>2, <3>3
  <2> HIDE DEF parts
  <2> QED
    BY <2>3, <2>4, <2>5, <2>6, FlattenFacts
<1>7. diffViewsCreate \in Seq(Legit)
  <2> DEFINE r == viewOrder[new][0]
             was(v) == CHOOSE o \in prev : Id(o) = Id(v)
             stmts(v) == IF Id(v) \notin Ids(prev) \/ columnWorkAViewCanBlock THEN <<[do |-> "create", obj |-> v]>>
                         ELSE ViewChanged(was(v), v)
             parts == [i \in 1..Len(r) |-> stmts(r[i])]
  <2>1. r \in Seq(new)
    BY <1>1, ViewOrderFacts
  <2>2. diffViewsCreate = FlattenSeq(parts)
    BY DEF diffViewsCreate, ForEach, new
  <2>3. ASSUME NEW v \in new PROVE stmts(v) \in Seq(Legit)
    <3>2. CASE Id(v) \notin Ids(prev) \/ columnWorkAViewCanBlock
      <4>1. [do |-> "create", obj |-> v] \in Legit
        BY <1>5, <3>2, AlikeFacts
      <4>2. stmts(v) = <<[do |-> "create", obj |-> v]>>
        BY <3>2
      <4> HIDE DEF Legit, stmts
      <4> QED
        BY <4>1, <4>2
    <3>3. CASE ~(Id(v) \notin Ids(prev) \/ columnWorkAViewCanBlock)
      <4>1. stmts(v) = ViewChanged(was(v), v)
        BY <3>3
      <4>2. was(v) \in prev /\ Id(was(v)) = Id(v)
        BY <3>3 DEF Ids
      <4>3. was(v) \in old
        <5>1. v.kind = "view"
          BY DEF new, Of
        <5>2. was(v).kind = "view"
          BY <4>2, <5>1 DEF Id
        <5> QED
          BY <4>2, <5>2 DEF old, Of
      <4> HIDE DEF was, stmts
      <4>4. CASE was(v).def = v.def
        <5>1. ViewChanged(was(v), v) = <<>>
          BY <4>4 DEF ViewChanged
        <5> QED
          BY <4>1, <5>1
      <4>5. CASE was(v).def # v.def
        <5>1. ASSUME NEW q \in prev, Alike(v, q) PROVE FALSE
          <6>1. Id(q) = Id(was(v)) /\ q.def = v.def
            BY <4>2, <5>1 DEF Alike
          <6> QED
            BY <4>2, <4>5, <6>1, SchemaFacts
        <5>2. ASSUME NEW q \in cur, Alike(was(v), q) PROVE FALSE
          <6>1. Id(q) = Id(v) /\ q.def = was(v).def
            BY <4>2, <5>2 DEF Alike
          <6> QED
            BY <1>3, <4>5, <6>1, SchemaFacts
        <5>3. [do |-> "drop", obj |-> was(v)] \in Legit
          BY <1>4, <4>3, <5>2
        <5>4. [do |-> "create", obj |-> v] \in Legit /\ [do |-> "replace", obj |-> v] \in Legit
          BY <1>5, <5>1
        <5> HIDE DEF Legit
        <5>5. ViewChanged(was(v), v) \in Seq(Legit)
          BY <5>3, <5>4 DEF ViewChanged
        <5> QED
          BY <4>1, <5>5
      <4> QED
        BY <4>4, <4>5
    <3> QED
      BY <3>2, <3>3
  <2> HIDE DEF r, stmts
  <2>4. Len(r) \in Nat /\ \A i \in 1..Len(r) : r[i] \in new
    BY <2>1, ElementOfSeq, LenProperties
  <2>5. Len(parts) = Len(r) /\ parts = [i \in 1..Len(parts) |-> parts[i]]
    BY <2>4
  <2>6. \A i \in 1..Len(parts) : parts[i] \in Seq(Legit)
    BY <2>3, <2>4, <2>5
  <2> HIDE DEF parts
  <2> QED
    BY <2>2, <2>4, <2>5, <2>6, FlattenFacts
<1> QED
  BY <1>6, <1>7

LEMMA DiffFacts ==
    ASSUME Schemas
    PROVE  Diff \in Seq(Legit)
<1> DEFINE L == Seq(Legit)
<1>1. \A s1, s2 \in L : s1 \o s2 \in L
  BY ConcatProperties
<1>2. diffViewsDrop \in L /\ diffViewsCreate \in L
  BY ViewPartFacts
<1>3. /\ Drops("fk") \in L /\ Drops("policy") \in L /\ Drops("unique") \in L /\ Drops("pk") \in L
      /\ Drops("check") \in L /\ Drops("index") \in L
      /\ Adds("fk") \in L /\ Adds("policy") \in L /\ Adds("unique") \in L /\ Adds("pk") \in L
      /\ Adds("check") \in L /\ Adds("index") \in L
  BY PartFacts
<1>4. /\ Removed("table") \in L /\ Created("table") \in L /\ Removed("enum") \in L /\ Created("enum") \in L
      /\ dropColumns \in L /\ addColumns \in L /\ alterColumns \in L
  BY PartFacts
<1> HIDE DEF L
<1> DEFINE d1 == diffViewsDrop \o Created("enum") \o Drops("fk") \o Removed("table") \o Created("table")
           d2 == d1 \o Drops("policy") \o Drops("unique") \o Drops("pk") \o Drops("check") \o Drops("index")
           d3 == d2 \o dropColumns \o addColumns \o alterColumns
           d4 == d3 \o Adds("unique") \o Adds("pk") \o Adds("check") \o Adds("fk") \o Adds("index")
<1>5. d1 \in L
  BY <1>1, <1>2, <1>3, <1>4, Zenon
<1>6. d2 \in L
  <2> HIDE DEF d1
  <2> QED
    BY <1>1, <1>3, <1>5, Zenon
<1>7. d3 \in L
  <2> HIDE DEF d2
  <2> QED
    BY <1>1, <1>4, <1>6, Zenon
<1>8. d4 \in L
  <2> HIDE DEF d3
  <2> QED
    BY <1>1, <1>3, <1>7, Zenon
<1>9. Diff = d4 \o Removed("enum") \o diffViewsCreate \o Adds("policy")
  BY Zenon DEF Diff
<1> HIDE DEF d4
<1>10. Diff \in L
  BY <1>1, <1>2, <1>3, <1>4, <1>8, <1>9, Zenon
<1> QED
  BY <1>10 DEF L

-------------------------------------------------------------------------------
(***************************************************************************)
(* The migration.                                                          *)
(***************************************************************************)

DiffInv ==
    /\ Schemas
    /\ db \subseteq prev \cup cur
    /\ todo \in Seq(Legit)
    /\ DataStays

\* What an object is and needs.
LEMMA NeedFacts ==
    ASSUME NEW o \in UNION Families
    PROVE  /\ o.kind = "table" => o.name = o.table
           /\ o.kind \in {"table", "enum"} => o.needs = {}
           /\ o.kind = "column" => /\ <<"table", o.table, o.table>> \in o.needs
                                   /\ \A n \in o.needs : n = <<"table", o.table, o.table>> \/ n[1] = "enum"
BY DiffAssumption, Zenon

\* The CASCADE of a table takes no other table, and the columns of no other table.
OfTable(o, S) ==
    /\ S \subseteq db
    /\ \A d \in S : /\ d.kind # "enum"
                    /\ d.kind = "table" => Id(d) = Id(o)
                    /\ d.kind = "column" => d.table = o.table

LEMMA CascadeFacts ==
    ASSUME db \subseteq UNION Families, NEW o \in db, o.kind = "table", NEW S, OfTable(o, S)
    PROVE  OfTable(o, Cascade(S))
<1>1. ASSUME NEW d \in Dependents(S)
      PROVE  /\ d \in db /\ d.kind # "enum" /\ d.kind # "table"
             /\ d.kind = "column" => d.table = o.table
  <2>1. d \in db /\ d \in UNION Families /\ d.needs \cap Ids(S) # {}
    BY DEF Dependents
  <2>2. PICK e \in S : Id(e) \in d.needs
    BY <2>1 DEF Ids
  <2>3. d.kind \notin {"table", "enum"}
    BY <2>1, <2>2, NeedFacts
  <2>4. ASSUME d.kind = "column" PROVE d.table = o.table
    <3>1. Id(e) = <<"table", d.table, d.table>> \/ Id(e)[1] = "enum"
      BY <2>1, <2>2, <2>4, NeedFacts
    <3>2. e.kind # "enum" /\ (e.kind = "table" => Id(e) = Id(o))
      BY DEF OfTable
    <3>3. Id(e)[1] = e.kind
      BY DEF Id
    <3>4. Id(e) = <<"table", d.table, d.table>>
      BY <3>1, <3>2, <3>3
    <3>5. e.kind = "table"
      BY <3>3, <3>4
    <3>6. Id(o) = <<"table", d.table, d.table>>
      BY <3>2, <3>4, <3>5
    <3> QED
      BY <3>6 DEF Id
  <2> QED
    BY <2>1, <2>3, <2>4
<1> QED
  BY <1>1 DEF Cascade, OfTable

\* A drop that Diff states leaves the tables and columns that cur has.
LEMMA TakenFacts ==
    ASSUME DiffInv, NEW s \in Legit, s.do = "drop", NEW o \in There(s), NEW d \in Taken(o),
           d.kind \in {"table", "column"}
    PROVE  Id(d) \notin Ids(cur)
<1>1. /\ prev \subseteq UNION Families /\ cur \subseteq UNION Families
      /\ \A o1 \in cur : o1.needs \subseteq Ids(cur)
  BY SchemaFacts DEF DiffInv
<1>2. db \subseteq UNION Families
  BY <1>1 DEF DiffInv
<1>3. o \in db /\ Id(o) = Id(s.obj)
  BY DEF There
<1>4. o.kind = s.obj.kind
  BY <1>3 DEF Id
<1>5. o.kind \in {"table", "column"} => Id(o) \notin Ids(cur)
  BY <1>3, <1>4 DEF Legit
<1>6. CASE o.kind = "table"
  <2>1. Taken(o) = Cascade(Cascade(Cascade(Cascade({o}))))
    BY <1>6 DEF Taken
  <2>2. OfTable(o, {o})
    BY <1>3, <1>6 DEF OfTable
  <2>3. OfTable(o, Taken(o))
    BY <1>2, <1>3, <1>6, <2>1, <2>2, CascadeFacts
  <2>4. CASE d.kind = "table"
    BY <1>5, <1>6, <2>3, <2>4 DEF OfTable
  <2>5. CASE d.kind = "column"
    <3> SUFFICES ASSUME Id(d) \in Ids(cur) PROVE FALSE
      OBVIOUS
    <3>1. d.table = o.table
      BY <2>3, <2>5 DEF OfTable
    <3>2. PICK c1 \in cur : Id(c1) = Id(d)
      BY DEF Ids
    <3>3. c1.kind = "column" /\ c1.table = o.table
      BY <2>5, <3>1, <3>2 DEF Id
    <3>4. <<"table", o.table, o.table>> \in Ids(cur)
      BY <1>1, <3>3, NeedFacts
    <3>5. Id(o) = <<"table", o.table, o.table>>
      BY <1>2, <1>3, <1>6, NeedFacts DEF Id
    <3> QED
      BY <1>5, <1>6, <3>4, <3>5
  <2> QED
    BY <2>4, <2>5
<1>7. CASE o.kind = "column"
  <2>1. d = o
    BY <1>7 DEF Taken
  <2> QED
    BY <1>5, <2>1
<1>8. CASE o.kind \notin {"table", "column"}
  <2>1. d = o
    BY <1>8 DEF Taken
  <2> QED
    BY <1>8, <2>1
<1> QED
  BY <1>6, <1>7, <1>8

\* One statement keeps the database within the two schemas, and the data in it.
LEMMA AfterFacts ==
    ASSUME DiffInv, NEW s \in Legit, db' = After(s), UNCHANGED <<prev, cur>>
    PROVE  db' \subseteq prev \cup cur /\ DataStays'
<1>1. db \subseteq prev \cup cur /\ s.do \in {"create", "drop", "alter", "replace"}
  BY DEF DiffInv, Legit
<1>2. \A o \in prev : o.kind \in {"table", "column"} /\ Id(o) \in Ids(cur) => \E d \in db : Id(d) = Id(o)
  BY DEF DiffInv, DataStays, Ids
<1>3. ASSUME \A d \in db : d.kind \in {"table", "column"} /\ Id(d) \in Ids(cur) => \E e \in db' : Id(e) = Id(d)
      PROVE  DataStays'
  <2>1. ASSUME NEW o \in prev, o.kind \in {"table", "column"}, Id(o) \in Ids(cur)
        PROVE  \E e \in db' : Id(e) = Id(o)
    <3>1. PICK d \in db : Id(d) = Id(o)
      BY <1>2, <2>1
    <3>2. d.kind = o.kind
      BY <3>1 DEF Id
    <3> QED
      BY <1>3, <2>1, <3>1, <3>2
  <2> QED
    BY <2>1 DEF DataStays, Ids
<1>4. CASE s.do = "create"
  <2>1. db \subseteq db' /\ db' \subseteq db \cup {s.obj} \cup ColumnsOf(s.obj.table)
    BY <1>4 DEF After
  <2>2. s.obj \in cur /\ ColumnsOf(s.obj.table) \subseteq cur
    BY <1>4 DEF Legit, ColumnsOf, Of
  <2> QED
    BY <1>1, <1>3, <2>1, <2>2
<1>5. CASE s.do = "drop"
  <2>1. db' = db \ UNION {Taken(o) : o \in There(s)}
    BY <1>5 DEF After
  <2>2. \A d \in db : d.kind \in {"table", "column"} /\ Id(d) \in Ids(cur) => d \in db'
    BY <1>5, <2>1, TakenFacts
  <2> QED
    BY <1>1, <1>3, <2>1, <2>2
<1>6. CASE s.do \in {"alter", "replace"}
  <2>1. db' = (db \ There(s)) \cup {s.obj}
    BY <1>6 DEF After
  <2>2. s.obj \in cur
    BY <1>6 DEF Legit
  <2>3. \A d \in db : d \in db' \/ Id(s.obj) = Id(d)
    BY <2>1 DEF There
  <2> QED
    BY <1>1, <1>3, <2>1, <2>2, <2>3
<1> QED
  BY <1>1, <1>4, <1>5, <1>6

LEMMA DiffStarts == DiffInit => DiffTypeOK /\ DiffInv
<1> SUFFICES ASSUME DiffInit PROVE DiffTypeOK /\ DiffInv
  OBVIOUS
<1>1. Schemas
  BY DEF DiffInit, Schemas
<1>2. Diff \in Seq(Legit) /\ prev \subseteq UNION Families /\ cur \subseteq UNION Families
  BY <1>1, DiffFacts, SchemaFacts
<1>3. db = prev /\ todo = Diff /\ safe \in BOOLEAN /\ outcome = "running" /\ reruns = 0
  BY DEF DiffInit
<1>4. DiffInv
  BY <1>1, <1>2, <1>3 DEF DiffInv, DataStays, Ids
<1>5. MaxReruns \in Nat
  BY DiffAssumption, Zenon
<1>6. \A i \in DOMAIN todo : todo[i] \in [do : {"create", "drop", "alter", "replace"}, obj : UNION Families]
  BY <1>2, <1>3, ElementOfSeq, LenProperties DEF Legit
<1> QED
  BY <1>2, <1>3, <1>4, <1>5, <1>6 DEF DiffTypeOK

LEMMA DiffStep == DiffTypeOK /\ DiffInv /\ [DiffNext]_diffVars => DiffTypeOK' /\ DiffInv'
<1> SUFFICES ASSUME DiffTypeOK, DiffInv, [DiffNext]_diffVars PROVE DiffTypeOK' /\ DiffInv'
  OBVIOUS
<1>1. prev' = prev /\ cur' = cur /\ safe' = safe
  BY DEF DiffNext, RunStatement, StatementRefused, Rerun, Migrated, diffVars
<1>2. Legit' = Legit /\ (Schemas' <=> Schemas)
  BY <1>1 DEF Legit, Schemas, columnWorkAViewCanBlock, survivingTables
<1>3. todo' \in Seq(Legit)
  <2>1. CASE todo' = todo
    BY <2>1 DEF DiffInv
  <2>2. CASE RunStatement
    BY <2>2, HeadTailProperties DEF RunStatement, DiffInv
  <2>3. CASE Rerun
    <3>1. todo' = Diff
      BY <2>3 DEF Rerun
    <3> QED
      BY <3>1, DiffFacts DEF DiffInv
  <2> QED
    BY <2>1, <2>2, <2>3 DEF DiffNext, StatementRefused, Migrated, diffVars
<1>4. db' \subseteq prev \cup cur /\ DataStays'
  <2>1. CASE db' = db
    BY <1>1, <2>1 DEF DiffInv, DataStays
  <2>2. CASE RunStatement
    <3>1. todo # <<>> /\ db' = After(Head(todo))
      BY <2>2 DEF RunStatement
    <3>2. Head(todo) \in Legit
      BY <3>1, HeadTailProperties DEF DiffInv
    <3> QED
      BY <1>1, <3>1, <3>2, AfterFacts
  <2> QED
    BY <2>1, <2>2 DEF DiffNext, StatementRefused, Rerun, Migrated, diffVars
<1>5. DiffInv'
  <2>1. Schemas' /\ todo' \in Seq(Legit')
    BY <1>2, <1>3 DEF DiffInv
  <2>2. db' \subseteq prev' \cup cur'
    BY <1>1, <1>4
  <2> QED
    BY <1>4, <2>1, <2>2 DEF DiffInv
<1>6. outcome' \in {"running", "done", "refused"} /\ reruns' \in 0..MaxReruns
  <2>1. MaxReruns \in Nat
    BY DiffAssumption, Zenon
  <2> QED
    BY <2>1 DEF DiffTypeOK, DiffNext, RunStatement, StatementRefused, Rerun, Migrated, diffVars
<1>7. \A i \in DOMAIN todo' : todo'[i] \in [do : {"create", "drop", "alter", "replace"}, obj : UNION Families]
  BY <1>3, ElementOfSeq, LenProperties DEF Legit
<1>8. prev' \cup cur' \cup db' \subseteq UNION Families
  BY <1>1, <1>4, SchemaFacts DEF DiffInv
<1> QED
  BY <1>1, <1>5, <1>6, <1>7, <1>8 DEF DiffTypeOK

\* Whatever is refused or run again, the statements are Diff's, and the database holds
\* nothing but objects of the two schemas and every table and column of both.
THEOREM DiffInvCorrect == DiffSpec => [](DiffTypeOK /\ DiffInv)
BY DiffStarts, DiffStep, PTL DEF DiffSpec

\* No migration drops a table or a column that both schemas declare (DROP TABLE ...
\* CASCADE, dropColumns), whatever the schemas, where it stops and how often it is
\* run again.
THEOREM DataStaysCorrect == DiffSpec => []DataStays
<1>1. DiffInv => DataStays
  BY DEF DiffInv
<1> QED
  BY <1>1, DiffInvCorrect, PTL

\* What both sides declare alike is in no statement, but for views under column work.
THEOREM NothingNeedlessCorrect == DiffSpec => []NothingNeedless
<1>1. ASSUME DiffInv PROVE NothingNeedless
  <2> SUFFICES ASSUME NEW i \in 1..Len(todo)
               PROVE  \/ todo[i].obj.kind = "view" /\ columnWorkAViewCanBlock
                      \/ ~\E q \in (IF todo[i].do = "drop" THEN cur ELSE prev) : Alike(todo[i].obj, q)
    BY DEF NothingNeedless
  <2>1. todo[i] \in Legit
    BY <1>1, ElementOfSeq DEF DiffInv
  <2> QED
    BY <2>1 DEF Legit
<1> QED
  BY <1>1, DiffInvCorrect, PTL

\* The migration of a schema to itself.
SameSchema == prev = cur => todo = <<>> /\ db = cur /\ outcome # "refused"

\* Nothing may be stated of it.
LEMMA SameSchemaFacts ==
    ASSUME Schemas, prev = cur, NEW s \in Seq(Legit)
    PROVE  s = <<>>
<1>1. ~columnWorkAViewCanBlock
  BY DEF columnWorkAViewCanBlock, Of, Alike
<1>2. ASSUME NEW x \in Legit PROVE FALSE
  <2>1. x.obj \in cur /\ Alike(x.obj, x.obj)
    BY <1>2 DEF Legit, Alike
  <2> QED
    BY <1>1, <1>2, <2>1 DEF Legit
<1>3. Len(s) \in Nat /\ \A i \in 1..Len(s) : s[i] \in Legit
  BY ElementOfSeq, LenProperties
<1>4. Len(s) = 0
  <2> SUFFICES ASSUME Len(s) # 0 PROVE FALSE
    OBVIOUS
  <2>1. 1 \in 1..Len(s)
    BY <1>3
  <2> QED
    BY <1>2, <1>3, <2>1
<1> QED
  BY <1>4, EmptySeq

\* A schema that has not changed is left as it is: there is no statement to run, and
\* none that could be refused.
THEOREM SameSchemaCorrect == DiffSpec => []SameSchema
<1>1. DiffInit => SameSchema
  <2> SUFFICES ASSUME DiffInit, prev = cur PROVE todo = <<>> /\ db = cur /\ outcome # "refused"
    BY DEF SameSchema
  <2>1. todo \in Seq(Legit) /\ Schemas
    BY DiffStarts DEF DiffInv
  <2>2. todo = <<>>
    BY <2>1, SameSchemaFacts
  <2> QED
    BY <2>2 DEF DiffInit
<1>2. DiffInv /\ SameSchema /\ [DiffNext]_diffVars => SameSchema'
  <2> SUFFICES ASSUME DiffInv, SameSchema, [DiffNext]_diffVars, prev' = cur'
               PROVE  todo' = <<>> /\ db' = cur' /\ outcome' # "refused"
    BY DEF SameSchema
  <2>1. prev' = prev /\ cur' = cur
    BY DEF DiffNext, RunStatement, StatementRefused, Rerun, Migrated, diffVars
  <2>2. todo = <<>> /\ db = cur /\ outcome # "refused"
    BY <2>1 DEF SameSchema
  <2>3. Diff = <<>>
    BY <2>1, DiffFacts, SameSchemaFacts DEF DiffInv
  <2> QED
    BY <2>1, <2>2, <2>3 DEF DiffNext, RunStatement, StatementRefused, Rerun, Migrated, diffVars
<1> QED
  BY <1>1, <1>2, DiffInvCorrect, PTL DEF DiffSpec

-------------------------------------------------------------------------------
(***************************************************************************)
(* The copies together.                                                    *)
(***************************************************************************)

\* The invariant of every system, whichever is at work.
CopiesInv ==
    /\ TieredTypeOK /\ TieredInv /\ MemoryTypeOK /\ MemoryInv /\ EntityTypeOK /\ EntityInv
    /\ TopicsTypeOK /\ TopicsInv /\ VerifyTypeOK /\ VerifyInv
    /\ DiffTypeOK /\ (system = "diff" => DiffInv) /\ MySQLTypeOK /\ MySQLInv
    /\ system \in {"tiered", "memory", "entity", "topics", "verify", "diff", "mysql"}

LEMMA CopiesInit == Init => CopiesInv
<1> SUFFICES ASSUME Init PROVE CopiesInv
  OBVIOUS
<1>1. TieredTypeOK /\ TieredInv /\ EntityTypeOK /\ EntityInv /\ TopicsTypeOK /\ TopicsInv
  BY TieredInitInv, EntityInitInv, TopicsInitInv, Zenon DEF Init
<1>2. MemoryTypeOK /\ MemoryInv
  BY MemoryInitInv, Zenon DEF Init
<1>3. VerifyTypeOK /\ VerifyInv /\ MySQLTypeOK /\ MySQLInv
  BY VerifyInitially, MySQLStarts, Zenon DEF Init
<1>4. DiffTypeOK /\ (system = "diff" => DiffInv)
  <2>1. CASE system = "diff"
    BY <2>1, DiffStarts, Zenon DEF Init
  <2>2. CASE system # "diff"
    <3>1. /\ prev = {} /\ cur = {} /\ safe = FALSE
          /\ db = {} /\ todo = <<>> /\ outcome = "running" /\ reruns = 0
      BY <2>2, Zenon DEF Init
    <3>2. MaxReruns \in Nat
      BY DiffAssumption, Zenon
    <3>3. \A i \in DOMAIN todo : todo[i] \in [do : {"create", "drop", "alter", "replace"}, obj : UNION Families]
      <4>1. DOMAIN todo = {}
        BY <3>1
      <4> QED
        BY <4>1
    <3>4. prev \cup cur \cup db \subseteq UNION Families /\ safe \in BOOLEAN
      BY <3>1
    <3>5. outcome \in {"running", "done", "refused"} /\ reruns \in 0..MaxReruns
      BY <3>1, <3>2
    <3> QED
      BY <2>2, <3>3, <3>4, <3>5, Zenon DEF DiffTypeOK
  <2> QED
    BY <2>1, <2>2
<1> QED
  BY <1>1, <1>2, <1>3, <1>4, Zenon DEF Init, CopiesInv

\* A step of the composition is a step of each system or leaves that system alone.
LEMMA CopiesStep == CopiesInv /\ [Next]_vars => CopiesInv'
<1> SUFFICES ASSUME CopiesInv, [Next]_vars PROVE CopiesInv'
  OBVIOUS
<1>1. /\ [TieredNext]_tieredVars /\ [MemoryNext]_memoryVars /\ [EntityNext]_entityVars
      /\ [TopicsNext]_topicVars /\ [VerifyNext]_verifyVars /\ [MySQLNext]_myVars
      /\ UNCHANGED diffVars \/ (system = "diff" /\ DiffNext)
      /\ system' = system
  <2>1. CASE Next
    BY <2>1, Zenon DEF Next, others
  <2>2. CASE UNCHANGED vars
    BY <2>2, Zenon DEF vars
  <2> QED
    BY <2>1, <2>2
<1>2. TieredTypeOK' /\ TieredInv' /\ EntityTypeOK' /\ EntityInv'
  BY <1>1, TieredStepInv, EntityStepInv, Zenon DEF CopiesInv
<1>3. TopicsTypeOK' /\ TopicsInv'
  BY <1>1, TopicsStepInv, Zenon DEF CopiesInv
<1>4. MemoryTypeOK' /\ MemoryInv'
  BY <1>1, MemoryStepInv, Zenon DEF CopiesInv
<1>5. VerifyTypeOK' /\ VerifyInv' /\ MySQLTypeOK' /\ MySQLInv'
  BY <1>1, VerifyStep, MySQLStep, Zenon DEF CopiesInv
<1>6. DiffTypeOK' /\ (system' = "diff" => DiffInv')
  <2>1. CASE system = "diff"
    BY <1>1, <2>1, DiffStep, Zenon DEF CopiesInv
  <2>2. CASE system # "diff"
    <3>1. UNCHANGED <<prev, cur, safe, db, todo, outcome, reruns>>
      BY <1>1, <2>2 DEF diffVars
    <3> QED
      BY <1>1, <2>2, <3>1 DEF CopiesInv, DiffTypeOK
  <2> QED
    BY <2>1, <2>2
<1> QED
  BY <1>1, <1>2, <1>3, <1>4, <1>5, <1>6, Zenon DEF CopiesInv

\* The systems of MCCopies keep their types and their invariants side by side.
THEOREM CopiesInvCorrect == Spec => []CopiesInv
BY CopiesInit, CopiesStep, PTL DEF Spec

\* Whichever system is at work keeps to its types: no lifetime handed to a tier is
\* negative, the cache's order names keys it knows, every statement of a migration is
\* about an object of the two schemas, and no id of the MySQL outbox is given to two
\* rows at a time.
THEOREM CopiesTypeCorrect == Spec => []CopiesTypeOK
<1>1. CopiesInv => CopiesTypeOK
  BY Zenon DEF CopiesInv, CopiesTypeOK
<1> QED
  BY <1>1, CopiesInvCorrect, PTL
===============================================================================
