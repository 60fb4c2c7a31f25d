------------------------- MODULE DependencyGraphProofs -------------------------
(***************************************************************************)
(* Theorems about DependencyGraph for every finite set of nodes, all       *)
(* inputs, limits and page sizes.                                          *)
(***************************************************************************)
EXTENDS DependencyGraph, FiniteSetTheorems, SequenceTheorems, WellFoundedInduction, TLAPS

-----------------------------------------------------------------------------
(* Numbers *)

\* A nonempty set of natural numbers has a least element.
LEMMA LeastNatural ==
    ASSUME NEW S \in SUBSET Nat, S # {}
    PROVE  \E k \in S : \A m \in S : k <= m
  <1>1. PICK R : R = OpToRel(<, Nat)
    OBVIOUS
  <1>2. IsWellFoundedOn(R, Nat)
    BY <1>1, NatLessThanWellFounded
  <1>3. PICK k \in S : \A m \in S : ~(<<m, k>> \in R)
    BY <1>2, WFMin
  <1>4. \A m \in S : ~(m < k)
    BY <1>1, <1>3 DEF OpToRel
  <1> QED
    BY <1>4

\* A set of numbers that has 0 and, with every number below n, the next one,
\* has all numbers up to n.
LEMMA UpTo ==
    ASSUME NEW n \in Nat, NEW S, 0 \in S, \A k \in 0..(n - 1) : k \in S => k + 1 \in S
    PROVE  \A k \in 0..n : k \in S
  <1> SUFFICES ASSUME NEW l \in 0..n, l \notin S PROVE FALSE
    OBVIOUS
  <1>1. PICK T : T = {k \in 0..n : k \notin S}
    OBVIOUS
  <1>2. T \in SUBSET Nat /\ T # {}
    BY <1>1
  <1>3. PICK k \in T : \A m \in T : k <= m
    BY <1>2, LeastNatural
  <1>4. k \in 0..n /\ k \notin S /\ k # 0
    BY <1>1, <1>3
  <1>5. k - 1 \in 0..(n - 1) /\ k - 1 + 1 = k
    BY <1>4
  <1>6. k - 1 \notin T
    BY <1>3, <1>4
  <1>7. k - 1 \in S
    BY <1>1, <1>5, <1>6
  <1> QED
    BY <1>4, <1>5, <1>7

-----------------------------------------------------------------------------
(* Sets in order *)

\* R orders the elements of S.
Orders(R, S) ==
    /\ \A x \in S : <<x, x>> \notin R
    /\ \A x, y, z \in S : <<x, y>> \in R /\ <<y, z>> \in R => <<x, z>> \in R
    /\ \A x, y \in S : x # y => <<x, y>> \in R \/ <<y, x>> \in R

Earlier(R, S, x) == {y \in S : <<y, x>> \in R}
Place(R, S, x) == Cardinality(Earlier(R, S, x))
Placed(R, S) == [i \in 1..Cardinality(S) |-> CHOOSE x \in S : Place(R, S, x) = i - 1]

\* An element that comes later has more before it.
LEMMA PlacesGrow ==
    ASSUME NEW S, IsFiniteSet(S), NEW R, Orders(R, S)
    PROVE  /\ \A x \in S : Place(R, S, x) \in 0..(Cardinality(S) - 1)
           /\ \A x, y \in S : <<x, y>> \in R => Place(R, S, x) < Place(R, S, y)
  <1>1. ASSUME NEW x \in S
        PROVE  /\ IsFiniteSet(Earlier(R, S, x)) /\ Place(R, S, x) \in Nat
               /\ Place(R, S, x) < Cardinality(S)
    <2>1. Earlier(R, S, x) \in SUBSET S /\ x \notin Earlier(R, S, x)
      BY DEF Earlier, Orders
    <2>2. /\ IsFiniteSet(Earlier(R, S, x)) /\ Cardinality(Earlier(R, S, x)) <= Cardinality(S)
          /\ Cardinality(S) = Cardinality(Earlier(R, S, x)) => S = Earlier(R, S, x)
      BY <2>1, FS_Subset
    <2>3. Cardinality(Earlier(R, S, x)) \in Nat /\ Cardinality(S) \in Nat
      BY <2>2, FS_CardinalityType
    <2> QED
      BY <2>1, <2>2, <2>3 DEF Place
  <1>2. ASSUME NEW x \in S, NEW y \in S, <<x, y>> \in R
        PROVE  Place(R, S, x) < Place(R, S, y)
    <2>1. Earlier(R, S, x) \in SUBSET Earlier(R, S, y)
      BY <1>2 DEF Earlier, Orders
    <2>2. x \in Earlier(R, S, y) /\ x \notin Earlier(R, S, x)
      BY <1>2 DEF Earlier, Orders
    <2>3. /\ Cardinality(Earlier(R, S, x)) <= Cardinality(Earlier(R, S, y))
          /\ Cardinality(Earlier(R, S, y)) = Cardinality(Earlier(R, S, x)) =>
               Earlier(R, S, y) = Earlier(R, S, x)
      BY <1>1, <2>1, FS_Subset
    <2> QED
      BY <1>1, <2>2, <2>3 DEF Place
  <1>3. Cardinality(S) \in Nat
    BY FS_CardinalityType
  <1> QED
    BY <1>1, <1>2, <1>3

\* Every element has a place of its own, and every place its element.
LEMMA PlacedInOrder ==
    ASSUME NEW S, IsFiniteSet(S), NEW R, Orders(R, S), NEW s, s = Placed(R, S)
    PROVE  /\ s \in Seq(S) /\ Len(s) = Cardinality(S) /\ ToSet(s) = S
           /\ \A i, j \in 1..Len(s) : i < j => <<s[i], s[j]>> \in R
  <1>1. PICK n \in Nat : n = Cardinality(S)
    BY FS_CardinalityType
  <1>2. PICK f : f = [x \in S |-> Place(R, S, x) + 1]
    OBVIOUS
  <1>3. f \in [S -> 1..n]
    <2>1. \A x \in S : Place(R, S, x) + 1 \in 1..n
      BY <1>1, PlacesGrow
    <2> QED
      BY <1>2, <2>1
  <1>4. ASSUME NEW x \in S, NEW y \in S, f[x] = f[y] PROVE x = y
    <2>1. Place(R, S, x) \in Nat /\ Place(R, S, y) \in Nat
      BY <1>1, PlacesGrow
    <2>2. Place(R, S, x) = Place(R, S, y)
      BY <1>2, <1>4, <2>1
    <2>3. <<x, y>> \notin R /\ <<y, x>> \notin R
      BY <2>1, <2>2, PlacesGrow
    <2> QED
      BY <2>3 DEF Orders
  <1>5. f \in Surjection(S, 1..n)
    <2>1. f \in Injection(S, 1..n)
      BY <1>3, <1>4 DEF Injection, IsInjective
    <2>2. IsFiniteSet(1..n) /\ Cardinality(1..n) = n
      BY FS_Interval
    <2> QED
      BY <1>1, <2>1, <2>2, FS_Injection
  <1>6. ASSUME NEW i \in 1..n PROVE s[i] \in S /\ f[s[i]] = i
    <2>1. PICK x \in S : f[x] = i
      BY <1>5 DEF Surjection
    <2>2. Place(R, S, x) = i - 1
      BY <1>1, <1>2, <2>1, PlacesGrow
    <2>3. s[i] \in S /\ Place(R, S, s[i]) = i - 1
      BY <1>1, <2>2 DEF Placed
    <2> QED
      BY <1>2, <2>3
  <1>7. s \in Seq(S) /\ Len(s) = n
    <2>1. s = [i \in 1..n |-> s[i]]
      BY <1>1 DEF Placed
    <2> QED
      BY <1>6, <2>1
  <1>8. ToSet(s) = S
    <2>1. DOMAIN s = 1..n
      BY <1>7
    <2>2. ASSUME NEW x \in S PROVE \E i \in 1..n : s[i] = x
      <3>1. f[x] \in 1..n
        BY <1>3
      <3>2. s[f[x]] \in S /\ f[s[f[x]]] = f[x]
        BY <1>6, <3>1
      <3> QED
        BY <1>4, <3>1, <3>2
    <2> QED
      BY <1>6, <2>1, <2>2 DEF ToSet
  <1>9. ASSUME NEW i \in 1..n, NEW j \in 1..n, i < j PROVE <<s[i], s[j]>> \in R
    <2>1. s[i] \in S /\ s[j] \in S
      BY <1>6
    <2>2. Place(R, S, s[i]) \in Nat /\ Place(R, S, s[j]) \in Nat
      BY <1>1, <2>1, PlacesGrow
    <2>3. Place(R, S, s[i]) < Place(R, S, s[j])
      BY <1>2, <1>6, <1>9, <2>1, <2>2
    <2>4. s[i] # s[j] /\ <<s[j], s[i]>> \notin R
      BY <2>1, <2>2, <2>3, PlacesGrow
    <2> QED
      BY <2>1, <2>4 DEF Orders
  <1> QED
    BY <1>1, <1>7, <1>8, <1>9

\* Tuples of numbers are ordered by the first place where they differ.
LEMMA LexicographicOrders ==
    ASSUME NEW n \in Nat
    PROVE  /\ \A a \in [1..n -> Int] : ~Lexicographic(a, a)
           /\ \A a, b, c \in [1..n -> Int] :
                Lexicographic(a, b) /\ Lexicographic(b, c) => Lexicographic(a, c)
           /\ \A a, b \in [1..n -> Int] : a # b => Lexicographic(a, b) \/ Lexicographic(b, a)
  <1>1. ASSUME NEW a \in [1..n -> Int] PROVE ~Lexicographic(a, a)
    BY DEF Lexicographic
  <1>2. ASSUME NEW a \in [1..n -> Int], NEW b \in [1..n -> Int], NEW c \in [1..n -> Int],
               Lexicographic(a, b), Lexicographic(b, c)
        PROVE  Lexicographic(a, c)
    <2>1. PICK i \in 1..n : a[i] < b[i] /\ \A k \in 1..(i - 1) : a[k] = b[k]
      BY <1>2 DEF Lexicographic
    <2>2. PICK j \in 1..n : b[j] < c[j] /\ \A k \in 1..(j - 1) : b[k] = c[k]
      BY <1>2 DEF Lexicographic
    <2>3. ASSUME NEW k \in 1..n, k <= i, k <= j,
                 k = i \/ k = j
          PROVE  a[k] < c[k] /\ \A m \in 1..(k - 1) : a[m] = c[m]
      <3>1. \A m \in 1..(k - 1) : m \in 1..(i - 1) /\ m \in 1..(j - 1)
        BY <2>3
      <3>2. a[k] \in Int /\ b[k] \in Int /\ c[k] \in Int
        OBVIOUS
      <3>3. k < i => k \in 1..(i - 1)
        OBVIOUS
      <3>4. k < j => k \in 1..(j - 1)
        OBVIOUS
      <3>5. a[k] <= b[k] /\ b[k] <= c[k] /\ (a[k] < b[k] \/ b[k] < c[k])
        BY <2>1, <2>2, <2>3, <3>2, <3>3, <3>4
      <3>6. a[k] < c[k]
        BY <3>2, <3>5
      <3>7. ASSUME NEW m \in 1..(k - 1) PROVE a[m] = c[m]
        <4>1. a[m] = b[m]
          BY <2>1, <3>1
        <4>2. b[m] = c[m]
          BY <2>2, <3>1
        <4> QED
          BY <4>1, <4>2
      <3> QED
        BY <3>6, <3>7
    <2>4. \E k \in 1..n : k <= i /\ k <= j /\ (k = i \/ k = j)
      <3>1. ASSUME i <= j PROVE i \in 1..n /\ i <= i /\ i <= j /\ (i = i \/ i = j)
        BY <3>1
      <3>2. ASSUME j <= i PROVE j \in 1..n /\ j <= i /\ j <= j /\ (j = i \/ j = j)
        BY <3>2
      <3>3. i <= j \/ j <= i
        OBVIOUS
      <3> QED
        BY <3>1, <3>2, <3>3, Zenon
    <2> QED
      BY <2>3, <2>4 DEF Lexicographic
  <1>3. ASSUME NEW a \in [1..n -> Int], NEW b \in [1..n -> Int], a # b
        PROVE  Lexicographic(a, b) \/ Lexicographic(b, a)
    <2>1. PICK D : D = {i \in 1..n : a[i] # b[i]}
      OBVIOUS
    <2>2. D \in SUBSET Nat /\ D # {}
      <3>1. (\A i \in 1..n : a[i] = b[i]) => a = b
        OBVIOUS
      <3>2. \E i \in 1..n : a[i] # b[i]
        BY <1>3, <3>1
      <3>3. D # {}
        BY <2>1, <3>2
      <3>4. D \in SUBSET Nat
        BY <2>1
      <3> QED
        BY <3>3, <3>4
    <2>3. PICK i \in D : \A m \in D : i <= m
      BY <2>2, LeastNatural
    <2>4. i \in 1..n /\ a[i] # b[i]
      BY <2>1, <2>3
    <2>5. \A m \in 1..(i - 1) : a[m] = b[m]
      <3> TAKE m \in 1..(i - 1)
      <3>1. m \in 1..n /\ ~(i <= m)
        BY <2>4
      <3> QED
        BY <2>1, <2>3, <3>1
    <2>6. a[i] \in Int /\ b[i] \in Int
      BY <2>4
    <2>7. a[i] < b[i] \/ b[i] < a[i]
      BY <2>4, <2>6
    <2> QED
      BY <2>4, <2>5, <2>7 DEF Lexicographic
  <1> QED
    BY <1>1, <1>2, <1>3

\* What InOrder returns for each of the orders it is used with.
Listed(s, S) == s \in Seq(S) /\ Len(s) = Cardinality(S) /\ ToSet(s) = S

LEMMA NumbersInOrder ==
    ASSUME NEW S \in SUBSET Nat, IsFiniteSet(S), NEW s, s = Ascending(S)
    PROVE  Listed(s, S) /\ \A i, j \in 1..Len(s) : i < j => s[i] < s[j]
  <1> DEFINE At(i) == CHOOSE x \in S : Cardinality({y \in S : y < x}) = i - 1
             Put(R, i) == CHOOSE x \in S : Place(R, S, x) = i - 1
  <1>1. PICK R : R = {p \in S \X S : p[1] < p[2]}
    OBVIOUS
  <1>2. \A x, y \in S : <<x, y>> \in R <=> x < y
    BY <1>1
  <1>3. Orders(R, S)
    <2>1. \A x \in S : x \in Int
      OBVIOUS
    <2>2. \A x, y, z \in S : x < y /\ y < z => x < z
      BY <2>1
    <2>3. \A x, y \in S : x # y => x < y \/ y < x
      BY <2>1
    <2>4. \A x \in S : ~(x < x)
      BY <2>1
    <2> QED
      BY <1>2, <2>2, <2>3, <2>4 DEF Orders
  <1>4. \A x \in S : {y \in S : y < x} = Earlier(R, S, x)
    BY <1>2 DEF Earlier
  <1>5. \A x \in S : Cardinality({y \in S : y < x}) = Place(R, S, x)
    BY <1>4 DEF Place
  <1>6. ASSUME NEW i \in 1..Cardinality(S)
        PROVE  At(i) = Put(R, i)
    BY <1>5
  <1>7. s = Placed(R, S)
    <2>1. s = [i \in 1..Cardinality(S) |-> At(i)] /\ Placed(R, S) = [i \in 1..Cardinality(S) |-> Put(R, i)]
      BY DEF Ascending, InOrder, Placed
    <2> HIDE DEF At, Put
    <2> QED
      BY <1>6, <2>1, Zenon
  <1>8. /\ s \in Seq(S) /\ Len(s) = Cardinality(S) /\ ToSet(s) = S
        /\ \A i, j \in 1..Len(s) : i < j => <<s[i], s[j]>> \in R
    BY <1>3, <1>7, PlacedInOrder
  <1>9. \A i \in 1..Len(s) : s[i] \in S
    BY <1>8, ElementOfSeq
  <1> QED
    BY <1>2, <1>8, <1>9 DEF Listed

EdgeKey(e) == <<Rank[e.kind], e.from, e.to, Rank[e.resolution]>>

LEMMA EdgeFields ==
    ASSUME NEW e \in EdgeSpace(Nodes)
    PROVE  /\ e.from \in Nodes /\ e.to \in Nodes /\ e.from \in Int /\ e.to \in Int
           /\ e.kind \in {"imports", "references"}
           /\ e.resolution \in {"resolved_local", "ambiguous"}
           /\ e = [kind |-> e.kind, from |-> e.from, to |-> e.to, resolution |-> e.resolution]
           /\ Rank[e.kind] \in Int /\ Rank[e.resolution] \in Int
  <1>1. /\ e.from \in Nodes /\ e.to \in Nodes
        /\ e.kind \in {"imports", "references"}
        /\ e.resolution \in {"resolved_local", "ambiguous"}
        /\ e = [kind |-> e.kind, from |-> e.from, to |-> e.to, resolution |-> e.resolution]
    BY DEF EdgeSpace
  <1>2. e.from \in Int /\ e.to \in Int
    BY <1>1, NodesAssumption
  <1>3. Rank[e.kind] \in Int /\ Rank[e.resolution] \in Int
    BY <1>1 DEF Rank
  <1> QED
    BY <1>1, <1>2, <1>3

LEMMA SameKind ==
    ASSUME NEW e \in EdgeSpace(Nodes), NEW f \in EdgeSpace(Nodes),
           Rank[e.kind] = Rank[f.kind], e.from = f.from, e.to = f.to,
           Rank[e.resolution] = Rank[f.resolution]
    PROVE  e = f
  <1>1. e.kind = f.kind
    BY EdgeFields DEF Rank
  <1>2. e.resolution = f.resolution
    BY EdgeFields DEF Rank
  <1> QED
    BY <1>1, <1>2, EdgeFields

\* Edges are ordered by their keys.
LEMMA EdgesOrdered ==
    ASSUME NEW S \in SUBSET EdgeSpace(Nodes), NEW n \in Nat, NEW key \in [S -> [1..n -> Int]],
           \A e, f \in S : key[e] = key[f] => e = f,
           NEW R, \A e, f \in S : <<e, f>> \in R <=> Lexicographic(key[e], key[f])
    PROVE  Orders(R, S)
  <1>1. ASSUME NEW e \in S PROVE <<e, e>> \notin R
    BY LexicographicOrders
  <1>2. ASSUME NEW e \in S, NEW f \in S, NEW g \in S, <<e, f>> \in R, <<f, g>> \in R
        PROVE  <<e, g>> \in R
    <2>1. Lexicographic(key[e], key[f]) /\ Lexicographic(key[f], key[g])
      BY <1>2
    <2>2. key[e] \in [1..n -> Int] /\ key[f] \in [1..n -> Int] /\ key[g] \in [1..n -> Int]
      OBVIOUS
    <2>3. Lexicographic(key[e], key[g])
      BY <2>1, <2>2, LexicographicOrders
    <2> QED
      BY <2>3
  <1>3. ASSUME NEW e \in S, NEW f \in S, e # f PROVE <<e, f>> \in R \/ <<f, e>> \in R
    <2>1. key[e] # key[f] /\ key[e] \in [1..n -> Int] /\ key[f] \in [1..n -> Int]
      BY <1>3
    <2>2. Lexicographic(key[e], key[f]) \/ Lexicographic(key[f], key[e])
      BY <2>1, LexicographicOrders
    <2> QED
      BY <2>2
  <1> QED
    BY <1>1, <1>2, <1>3 DEF Orders

LEMMA CandidatesInOrder ==
    ASSUME NEW S \in SUBSET EdgeSpace(Nodes), IsFiniteSet(S), NEW s, s = CanonicalOrder(S)
    PROVE  Listed(s, S)
  <1> DEFINE At(i) == CHOOSE x \in S : Cardinality({y \in S : Canonical(y, x)}) = i - 1
             Put(R, i) == CHOOSE x \in S : Place(R, S, x) = i - 1
  <1>1. PICK R : R = {p \in S \X S : Canonical(p[1], p[2])}
    OBVIOUS
  <1>2. \A x, y \in S : <<x, y>> \in R <=> Canonical(x, y)
    BY <1>1
  <1>3. Orders(R, S)
    <2>1. PICK key : key = [e \in S |-> EdgeKey(e)]
      OBVIOUS
    <2>2. \A e \in S : key[e] = EdgeKey(e) /\ EdgeKey(e) \in [1..4 -> Int]
      <3> TAKE e \in S
      <3>1. Rank[e.kind] \in Int /\ e.from \in Int /\ e.to \in Int /\ Rank[e.resolution] \in Int
        BY EdgeFields
      <3> QED
        BY <2>1, <3>1 DEF EdgeKey
    <2>3. key \in [S -> [1..4 -> Int]]
      BY <2>1, <2>2
    <2>4. ASSUME NEW e \in S, NEW f \in S, key[e] = key[f] PROVE e = f
      <3>1. EdgeKey(e) = EdgeKey(f)
        BY <2>2, <2>4
      <3>2. /\ Rank[e.kind] = Rank[f.kind] /\ e.from = f.from /\ e.to = f.to
            /\ Rank[e.resolution] = Rank[f.resolution]
        BY <3>1 DEF EdgeKey
      <3> QED
        BY <3>2, SameKind
    <2>5. \A e, f \in S : <<e, f>> \in R <=> Lexicographic(key[e], key[f])
      BY <1>2, <2>2 DEF Canonical, EdgeKey
    <2> QED
      BY <2>3, <2>4, <2>5, EdgesOrdered
  <1>4. \A x \in S : {y \in S : Canonical(y, x)} = Earlier(R, S, x)
    BY <1>2 DEF Earlier
  <1>5. \A x \in S : Cardinality({y \in S : Canonical(y, x)}) = Place(R, S, x)
    BY <1>4 DEF Place
  <1>6. ASSUME NEW i \in 1..Cardinality(S)
        PROVE  At(i) = Put(R, i)
    BY <1>5
  <1>7. s = Placed(R, S)
    <2>1. s = [i \in 1..Cardinality(S) |-> At(i)] /\ Placed(R, S) = [i \in 1..Cardinality(S) |-> Put(R, i)]
      BY DEF CanonicalOrder, InOrder, Placed
    <2> HIDE DEF At, Put
    <2> QED
      BY <1>6, <2>1, Zenon
  <1> QED
    BY <1>3, <1>7, PlacedInOrder DEF Listed

LEMMA AdjacentInOrder ==
    ASSUME view.edges \in SUBSET EdgeSpace(Nodes), IsFiniteSet(view.edges),
           NEW direction, NEW n, NEW s, s = Adjacent(direction, n)
    PROVE  Listed(s, {e \in view.edges : Near(direction, e) = n})
  <1> DEFINE Key(e) == <<Far(direction, e), Rank[e.kind], Rank[e.resolution]>>
             Before(e, f) == Lexicographic(Key(e), Key(f))
  <1>1. PICK S : S = {e \in view.edges : Near(direction, e) = n}
    OBVIOUS
  <1>2. S \in SUBSET EdgeSpace(Nodes) /\ IsFiniteSet(S)
    <2>1. S \in SUBSET view.edges
      BY <1>1
    <2> QED
      BY <2>1, FS_Subset
  <1>3. PICK R : R = {p \in S \X S : Before(p[1], p[2])}
    OBVIOUS
  <1>4. \A x, y \in S : <<x, y>> \in R <=> Before(x, y)
    BY <1>3
  <1>5. Orders(R, S)
    <2>1. PICK key : key = [e \in S |-> Key(e)]
      OBVIOUS
    <2>2. \A e \in S : key[e] = Key(e) /\ Key(e) \in [1..3 -> Int]
      <3> TAKE e \in S
      <3>1. Far(direction, e) \in Int /\ Rank[e.kind] \in Int /\ Rank[e.resolution] \in Int
        BY <1>2, EdgeFields DEF Far
      <3> QED
        BY <2>1, <3>1
    <2>3. key \in [S -> [1..3 -> Int]]
      BY <2>1, <2>2
    <2>4. ASSUME NEW e \in S, NEW f \in S, key[e] = key[f] PROVE e = f
      <3>1. Key(e) = Key(f)
        BY <2>2, <2>4
      <3>2. /\ Far(direction, e) = Far(direction, f) /\ Rank[e.kind] = Rank[f.kind]
            /\ Rank[e.resolution] = Rank[f.resolution]
        BY <3>1
      <3>3. Near(direction, e) = Near(direction, f)
        BY <1>1
      <3>4. e.from = f.from /\ e.to = f.to
        BY <3>2, <3>3 DEF Near, Far
      <3> QED
        BY <1>2, <3>2, <3>4, SameKind
    <2>5. \A e, f \in S : <<e, f>> \in R <=> Lexicographic(key[e], key[f])
      BY <1>4, <2>2
    <2> HIDE DEF Key
    <2> QED
      BY <1>2, <2>3, <2>4, <2>5, EdgesOrdered
  <1>6. \A x \in S : {y \in S : Before(y, x)} = Earlier(R, S, x)
    BY <1>4 DEF Earlier
  <1>7. \A x \in S : Cardinality({y \in S : Before(y, x)}) = Place(R, S, x)
    BY <1>6 DEF Place
  <1>8. ASSUME NEW i \in 1..Cardinality(S)
        PROVE  (CHOOSE x \in S : Cardinality({y \in S : Before(y, x)}) = i - 1)
                  = (CHOOSE x \in S : Place(R, S, x) = i - 1)
    <2> HIDE DEF Before
    <2> QED
      BY <1>7
  <1>9. s = Placed(R, S)
    <2>1. InOrder(S, LAMBDA e, f : Before(e, f)) =
              [i \in 1..Cardinality(S) |->
                  CHOOSE x \in S : Cardinality({y \in S : Before(y, x)}) = i - 1]
      BY DEF InOrder
    <2>2. s = [i \in 1..Cardinality(S) |->
                  CHOOSE x \in S : Cardinality({y \in S : Before(y, x)}) = i - 1]
      BY <1>1, <2>1 DEF Adjacent
    <2> HIDE DEF Before
    <2> QED
      BY <1>8, <2>2 DEF Placed
  <1> HIDE DEF Before
  <1> QED
    BY <1>1, <1>2, <1>5, <1>9, PlacedInOrder DEF Listed

-----------------------------------------------------------------------------
(* Reachability *)

Size == Cardinality(Nodes)
Over(arcs, from) == {a[2] : a \in {b \in arcs : b[1] \in from}}

Closed(arcs, A) == Over(arcs, A) \in SUBSET A

LEMMA SizeIsNatural == Size \in Nat
  BY NodesAssumption, FS_CardinalityType DEF Size

\* Within is defined at every number of steps.
WithinTo(W, n, arcs, from) ==
    W = [k \in 0..n |-> IF k = 0 THEN from ELSE W[k - 1] \cup Over(arcs, W[k - 1])]

LEMMA WithinExists ==
    ASSUME NEW arcs, NEW from
    PROVE  \E W : WithinTo(W, Size, arcs, from)
  <1>1. PICK S : S = {n \in 0..Size : \E W : WithinTo(W, n, arcs, from)}
    OBVIOUS
  <1>2. 0 \in S
    <2>1. PICK W : W = [k \in 0..0 |-> from]
      OBVIOUS
    <2>2. WithinTo(W, 0, arcs, from)
      BY <2>1 DEF WithinTo
    <2>3. 0 \in 0..Size
      BY SizeIsNatural
    <2> QED
      BY <1>1, <2>2, <2>3
  <1>3. ASSUME NEW n \in 0..(Size - 1), n \in S PROVE n + 1 \in S
    <2>1. PICK W : WithinTo(W, n, arcs, from)
      BY <1>1, <1>3
    <2>2. \A k \in 0..n : W[k] = IF k = 0 THEN from ELSE W[k - 1] \cup Over(arcs, W[k - 1])
      BY <2>1 DEF WithinTo
    <2>3. PICK V : V = [k \in 0..(n + 1) |->
                          IF k <= n THEN W[k] ELSE W[n] \cup Over(arcs, W[n])]
      OBVIOUS
    <2>4. ASSUME NEW k \in 0..(n + 1)
          PROVE  V[k] = IF k = 0 THEN from ELSE V[k - 1] \cup Over(arcs, V[k - 1])
      <3>1. CASE k = 0
        <4>1. k \in 0..n /\ k <= n
          BY <3>1, SizeIsNatural
        <4>2. V[k] = W[k]
          BY <2>3, <4>1
        <4> QED
          BY <2>2, <3>1, <4>1, <4>2
      <3>2. CASE k # 0 /\ k <= n
        <4>1. k \in 0..n /\ k - 1 \in 0..(n + 1) /\ k - 1 <= n
          BY <3>2
        <4>2. V[k] = W[k] /\ V[k - 1] = W[k - 1]
          BY <2>3, <4>1, <3>2
        <4> QED
          BY <2>2, <3>2, <4>1, <4>2
      <3>3. CASE k = n + 1
        <4>1. k - 1 = n /\ n \in 0..(n + 1) /\ ~(k <= n) /\ k # 0
          BY <3>3
        <4>2. V[k] = W[n] \cup Over(arcs, W[n]) /\ V[k - 1] = W[n]
          BY <2>3, <4>1
        <4> QED
          BY <4>1, <4>2
      <3>4. k = 0 \/ (k # 0 /\ k <= n) \/ k = n + 1
        BY SizeIsNatural
      <3> QED
        BY <3>1, <3>2, <3>3, <3>4, Zenon
    <2>5. V = [k \in 0..(n + 1) |-> V[k]]
      BY <2>3
    <2>6. WithinTo(V, n + 1, arcs, from)
      BY <2>4, <2>5 DEF WithinTo
    <2>7. n + 1 \in 0..Size
      BY SizeIsNatural
    <2> QED
      BY <1>1, <2>6, <2>7
  <1>4. Size \in S
    BY <1>2, <1>3, UpTo, SizeIsNatural
  <1> QED
    BY <1>1, <1>4

LEMMA ReachableSteps ==
    ASSUME NEW arcs, NEW from, NEW W, W = Reachable(arcs, from)
    PROVE  /\ W[0] = from
           /\ \A k \in 1..Size : W[k] = W[k - 1] \cup Over(arcs, W[k - 1])
  <1> DEFINE Steps(f) == [k \in 0..Size |-> IF k = 0 THEN from ELSE f[k - 1] \cup Over(arcs, f[k - 1])]
  <1>1. W = CHOOSE f : f = Steps(f)
    BY DEF Reachable, Size, Over
  <1>2. \E f : f = Steps(f)
    <2>1. PICK f : WithinTo(f, Size, arcs, from)
      BY WithinExists
    <2>2. f = Steps(f)
      BY <2>1 DEF WithinTo
    <2> HIDE DEF Steps
    <2> QED
      BY <2>2
  <1>3. W = Steps(W)
    <2> HIDE DEF Steps
    <2> QED
      BY <1>1, <1>2
  <1>4. \A k \in 0..Size : W[k] = IF k = 0 THEN from ELSE W[k - 1] \cup Over(arcs, W[k - 1])
    BY <1>3
  <1>5. W[0] = from
    <2>1. 0 \in 0..Size
      BY SizeIsNatural
    <2> QED
      BY <1>4, <2>1
  <1>6. ASSUME NEW k \in 1..Size PROVE W[k] = W[k - 1] \cup Over(arcs, W[k - 1])
    <2>1. k \in 0..Size /\ k # 0
      BY SizeIsNatural
    <2> QED
      BY <1>4, <2>1
  <1> QED
    BY <1>5, <1>6

\* What is reached in at most so many steps grows with the steps, up to the
\* number of nodes, where it is closed.
LEMMA ReachableGrows ==
    ASSUME NEW arcs, NEW from, NEW W, W = Reachable(arcs, from)
    PROVE  \A i, j \in 0..Size : i <= j => W[i] \in SUBSET W[j]
  <1> SUFFICES ASSUME NEW i \in 0..Size, NEW j \in 0..Size, i <= j PROVE W[i] \in SUBSET W[j]
    OBVIOUS
  <1>1. PICK S : S = {m \in 0..(Size - i) : W[i] \in SUBSET W[i + m]}
    OBVIOUS
  <1>2. Size - i \in Nat /\ j - i \in 0..(Size - i) /\ i + (j - i) = j
    BY SizeIsNatural
  <1>3. 0 \in S
    BY <1>1, <1>2
  <1>4. ASSUME NEW m \in 0..(Size - i - 1), m \in S PROVE m + 1 \in S
    <2>1. i + (m + 1) \in 1..Size /\ i + (m + 1) - 1 = i + m /\ m + 1 \in 0..(Size - i)
      BY <1>2, SizeIsNatural
    <2>2. W[i + (m + 1)] = W[i + m] \cup Over(arcs, W[i + m])
      BY <2>1, ReachableSteps
    <2> QED
      BY <1>1, <1>4, <2>1, <2>2
  <1>5. j - i \in S
    BY <1>2, <1>3, <1>4, UpTo
  <1> QED
    BY <1>1, <1>2, <1>5

LEMMA ReachableNodes ==
    ASSUME NEW arcs \in SUBSET (Nodes \X Nodes), NEW from \in SUBSET Nodes,
           NEW W, W = Reachable(arcs, from)
    PROVE  \A k \in 0..Size : W[k] \in SUBSET Nodes
  <1>1. PICK S : S = {k \in 0..Size : W[k] \in SUBSET Nodes}
    OBVIOUS
  <1>2. 0 \in S
    BY <1>1, ReachableSteps, SizeIsNatural
  <1>3. ASSUME NEW k \in 0..(Size - 1), k \in S PROVE k + 1 \in S
    <2>1. k + 1 \in 1..Size /\ k + 1 - 1 = k /\ k + 1 \in 0..Size
      BY SizeIsNatural
    <2>2. W[k + 1] = W[k] \cup Over(arcs, W[k])
      BY <2>1, ReachableSteps
    <2>3. Over(arcs, W[k]) \in SUBSET Nodes
      BY DEF Over
    <2> QED
      BY <1>1, <1>3, <2>1, <2>2, <2>3
  <1>4. \A k \in 0..Size : k \in S
    BY <1>2, <1>3, UpTo, SizeIsNatural
  <1> QED
    BY <1>1, <1>4

Inside(A, T) == A \in SUBSET T

\* What is closed and has the start has all that is reached.
LEMMA ReachableLeast ==
    ASSUME NEW arcs, NEW from, NEW W, W = Reachable(arcs, from)
    PROVE  \A T : Closed(arcs, T) /\ Inside(from, T) => Inside(W[Size], T)
  <1> SUFFICES ASSUME NEW T, Inside(from, T), Closed(arcs, T)
               PROVE  \A k \in 0..Size : W[k] \in SUBSET T
    BY SizeIsNatural DEF Inside
  <1>1. PICK S : S = {k \in 0..Size : W[k] \in SUBSET T}
    OBVIOUS
  <1>2. 0 \in S
    BY <1>1, ReachableSteps, SizeIsNatural DEF Inside
  <1>3. ASSUME NEW k \in 0..(Size - 1), k \in S PROVE k + 1 \in S
    <2>1. k + 1 \in 1..Size /\ k + 1 - 1 = k /\ k + 1 \in 0..Size
      BY SizeIsNatural
    <2>2. W[k + 1] = W[k] \cup Over(arcs, W[k])
      BY <2>1, ReachableSteps
    <2>3. Over(arcs, W[k]) \in SUBSET Over(arcs, T)
      BY <1>1, <1>3 DEF Over
    <2> QED
      BY <1>1, <1>3, <2>1, <2>2, <2>3 DEF Closed
  <1>4. \A k \in 0..Size : k \in S
    BY <1>2, <1>3, UpTo, SizeIsNatural
  <1> QED
    BY <1>1, <1>4

\* Once nothing is added, nothing will be.
LEMMA ReachableStays ==
    ASSUME NEW arcs, NEW from, NEW W, W = Reachable(arcs, from)
    PROVE  \A i, j \in 0..Size : Closed(arcs, W[i]) /\ i <= j => W[j] = W[i]
  <1> SUFFICES ASSUME NEW i \in 0..Size, Closed(arcs, W[i]),
                      NEW j \in 0..Size, i <= j
               PROVE  W[j] = W[i]
    OBVIOUS
  <1>1. PICK S : S = {m \in 0..(Size - i) : W[i + m] = W[i]}
    OBVIOUS
  <1>2. Size - i \in Nat /\ j - i \in 0..(Size - i) /\ i + (j - i) = j
    BY SizeIsNatural
  <1>3. 0 \in S
    BY <1>1, <1>2
  <1>4. ASSUME NEW m \in 0..(Size - i - 1), m \in S PROVE m + 1 \in S
    <2>1. i + (m + 1) \in 1..Size /\ i + (m + 1) - 1 = i + m /\ m + 1 \in 0..(Size - i)
      BY <1>2, SizeIsNatural
    <2>2. W[i + (m + 1)] = W[i + m] \cup Over(arcs, W[i + m])
      BY <2>1, ReachableSteps
    <2> QED
      BY <1>1, <1>4, <2>1, <2>2 DEF Closed
  <1>5. j - i \in S
    BY <1>2, <1>3, <1>4, UpTo
  <1> QED
    BY <1>1, <1>2, <1>5

\* Every step adds a node until none does, and there are no more than so many.
LEMMA ReachableClosed ==
    ASSUME NEW arcs \in SUBSET (Nodes \X Nodes), NEW from \in SUBSET Nodes,
           NEW W, W = Reachable(arcs, from)
    PROVE  Closed(arcs, W[Size])
  <1>1. ASSUME NEW A \in SUBSET Nodes PROVE IsFiniteSet(A) /\ Cardinality(A) \in Nat /\ Cardinality(A) <= Size
    BY NodesAssumption, FS_Subset, FS_CardinalityType DEF Size
  <1>2. \A k \in 0..Size : W[k] \in SUBSET Nodes
    BY ReachableNodes
  <1>3. PICK S : S = {k \in 0..Size : Cardinality(W[k]) >= k \/ Over(arcs, W[k]) \in SUBSET W[k]}
    OBVIOUS
  <1>4. 0 \in S
    <2>1. 0 \in 0..Size /\ Cardinality(W[0]) \in Nat
      BY <1>1, <1>2, SizeIsNatural
    <2>2. Cardinality(W[0]) >= 0
      BY <2>1
    <2> QED
      BY <1>3, <2>1, <2>2
  <1>5. ASSUME NEW k \in 0..(Size - 1), k \in S PROVE k + 1 \in S
    <2>1. k + 1 \in 1..Size /\ k + 1 - 1 = k /\ k + 1 \in 0..Size /\ k \in 0..Size
      BY SizeIsNatural
    <2>2. W[k + 1] = W[k] \cup Over(arcs, W[k])
      BY <2>1, ReachableSteps
    <2>3. CASE Over(arcs, W[k]) \in SUBSET W[k]
      <3>1. W[k + 1] = W[k]
        BY <2>2, <2>3
      <3> QED
        BY <1>3, <2>1, <2>3, <3>1
    <2>4. CASE ~(Over(arcs, W[k]) \in SUBSET W[k])
      <3>1. Cardinality(W[k]) >= k
        BY <1>3, <1>5, <2>4
      <3>2. W[k] \in SUBSET W[k + 1] /\ W[k] # W[k + 1]
        BY <2>2, <2>4
      <3>3. /\ IsFiniteSet(W[k + 1]) /\ Cardinality(W[k + 1]) \in Nat
            /\ IsFiniteSet(W[k]) /\ Cardinality(W[k]) \in Nat
        BY <1>1, <1>2, <2>1
      <3>4. /\ Cardinality(W[k]) <= Cardinality(W[k + 1])
            /\ Cardinality(W[k + 1]) = Cardinality(W[k]) => W[k + 1] = W[k]
        BY <3>2, <3>3, FS_Subset
      <3>5. Cardinality(W[k + 1]) >= k + 1
        BY <3>1, <3>2, <3>3, <3>4
      <3> QED
        BY <1>3, <2>1, <3>5
    <2> QED
      BY <2>3, <2>4
  <1>6. Size \in S
    BY <1>4, <1>5, UpTo, SizeIsNatural
  <1>7. ASSUME Cardinality(W[Size]) >= Size PROVE Over(arcs, W[Size]) \in SUBSET W[Size]
    <2>1. Size \in 0..Size /\ W[Size] \in SUBSET Nodes
      BY <1>2, SizeIsNatural
    <2>2. Cardinality(W[Size]) = Cardinality(Nodes)
      BY <1>1, <1>7, <2>1, SizeIsNatural DEF Size
    <2>3. W[Size] = Nodes
      BY <2>1, <2>2, NodesAssumption, FS_Subset
    <2> QED
      BY <2>3 DEF Over
  <1> QED
    BY <1>3, <1>6, <1>7 DEF Closed

\* The arcs of a set of edges, and what they lead to.
LEMMA ArcsOfEdges ==
    ASSUME NEW direction, NEW E \in SUBSET EdgeSpace(Nodes)
    PROVE  /\ Arcs(direction, E) \in SUBSET (Nodes \X Nodes)
           /\ \A A : Over(Arcs(direction, E), A) \in SUBSET Nodes
           /\ \A A, x : x \in Over(Arcs(direction, E), A) <=>
                            \E e \in E : Near(direction, e) \in A /\ Far(direction, e) = x
  <1>1. \A e \in E : Near(direction, e) \in Nodes /\ Far(direction, e) \in Nodes
    BY EdgeFields DEF Near, Far
  <1>2. Arcs(direction, E) \in SUBSET (Nodes \X Nodes)
    BY <1>1 DEF Arcs
  <1>3. ASSUME NEW A, NEW x, NEW e \in E, Near(direction, e) \in A, Far(direction, e) = x
        PROVE  x \in Over(Arcs(direction, E), A)
    <2>1. PICK b : b = <<Near(direction, e), x>>
      OBVIOUS
    <2>2. b \in Arcs(direction, E) /\ b[1] \in A /\ b[2] = x
      BY <1>3, <2>1 DEF Arcs
    <2> QED
      BY <2>2 DEF Over
  <1>4. ASSUME NEW A, NEW x \in Over(Arcs(direction, E), A)
        PROVE  \E e \in E : Near(direction, e) \in A /\ Far(direction, e) = x
    <2>1. PICK b \in Arcs(direction, E) : b[1] \in A /\ b[2] = x
      BY DEF Over
    <2>2. PICK e \in E : b = <<Near(direction, e), Far(direction, e)>>
      BY DEF Arcs
    <2> QED
      BY <2>1, <2>2
  <1>5. ASSUME NEW A PROVE Over(Arcs(direction, E), A) \in SUBSET Nodes
    BY <1>2 DEF Over
  <1> QED
    BY <1>2, <1>3, <1>4, <1>5

-----------------------------------------------------------------------------
(* Sequences *)

LEMMA ElementsOfFront ==
    ASSUME NEW S, NEW s \in Seq(S), s # <<>>
    PROVE  /\ Head(s) \in S /\ Tail(s) \in Seq(S)
           /\ ToSet(s) = ToSet(Tail(s)) \cup {Head(s)} /\ ToSet(s) \in SUBSET S
  <1>1. Len(s) \in Nat /\ Len(s) >= 1
    BY EmptySeq
  <1>2. Head(s) = s[1] /\ Tail(s) \in Seq(S) /\ Len(Tail(s)) = Len(s) - 1
    BY <1>1, HeadTailProperties
  <1>3. \A i \in 1..(Len(s) - 1) : Tail(s)[i] = s[i + 1]
    BY <1>1, HeadTailProperties
  <1>4. ASSUME NEW i \in 1..Len(s) PROVE s[i] \in S /\ s[i] \in ToSet(Tail(s)) \cup {Head(s)}
    <2>1. CASE i = 1
      BY <1>2, <2>1
    <2>2. CASE i # 1
      <3>1. i - 1 \in 1..(Len(s) - 1) /\ i - 1 + 1 = i
        BY <1>1, <2>2
      <3>2. i - 1 \in DOMAIN Tail(s) /\ Tail(s)[i - 1] = s[i]
        BY <1>1, <1>2, <1>3, <3>1
      <3>3. s[i] \in ToSet(Tail(s))
        BY <3>2 DEF ToSet
      <3> QED
        BY <3>3
    <2> QED
      BY <2>1, <2>2
  <1>5. ASSUME NEW i \in 1..(Len(s) - 1) PROVE Tail(s)[i] \in ToSet(s)
    <2>1. i + 1 \in DOMAIN s /\ Tail(s)[i] = s[i + 1]
      BY <1>1, <1>3
    <2> QED
      BY <2>1 DEF ToSet
  <1>6. s[1] \in ToSet(s) /\ s[1] \in S
    BY <1>1 DEF ToSet
  <1> QED
    BY <1>1, <1>2, <1>4, <1>5, <1>6 DEF ToSet

LEMMA ElementsFinite ==
    ASSUME NEW S, NEW s \in Seq(S)
    PROVE  IsFiniteSet(ToSet(s)) /\ ToSet(s) \in SUBSET S
  <1>1. Len(s) \in Nat /\ DOMAIN s = 1..Len(s)
    OBVIOUS
  <1>2. PICK f : f = [i \in 1..Len(s) |-> s[i]]
    OBVIOUS
  <1>3. f \in Surjection(1..Len(s), ToSet(s))
    BY <1>1, <1>2 DEF ToSet, Surjection
  <1>4. IsFiniteSet(1..Len(s))
    BY <1>1, FS_Interval
  <1>5. \A i \in 1..Len(s) : s[i] \in S
    OBVIOUS
  <1> QED
    BY <1>1, <1>3, <1>4, <1>5, FS_Surjection DEF ToSet

LEMMA StartOfSequence ==
    ASSUME NEW S, NEW s \in Seq(S), NEW n \in 0..Len(s)
    PROVE  /\ SubSeq(s, 1, n) \in Seq(S) /\ Len(SubSeq(s, 1, n)) = n
           /\ \A i \in 1..n : SubSeq(s, 1, n)[i] = s[i]
           /\ ToSet(SubSeq(s, 1, n)) \in SUBSET ToSet(s)
           /\ n = Len(s) => SubSeq(s, 1, n) = s
  <1>1. Len(s) \in Nat /\ n \in Nat /\ n <= Len(s)
    OBVIOUS
  <1>2. SubSeq(s, 1, n) \in Seq(S) /\ Len(SubSeq(s, 1, n)) = n
    BY <1>1
  <1>3. ASSUME NEW i \in 1..n PROVE SubSeq(s, 1, n)[i] = s[i] /\ i \in DOMAIN s
    BY <1>1
  <1>4. ToSet(SubSeq(s, 1, n)) \in SUBSET ToSet(s)
    BY <1>2, <1>3 DEF ToSet
  <1>5. n = Len(s) => SubSeq(s, 1, n) = s
    BY SubSeqFull
  <1> QED
    BY <1>2, <1>3, <1>4, <1>5

-----------------------------------------------------------------------------
(* The normalised inventory *)

Prepared ==
    {"ready", "analyze", "analyzed", "impact", "complete", "truncated", "pages", "served"}

\* The view has the candidates, but for what it says was omitted.
ViewSound ==
    /\ given \in GraphInputs
    /\ view.edges \in SUBSET EdgeSpace(Nodes)
    /\ IsFiniteSet(view.edges)
    /\ view.omitted \in Nat
    /\ phase \in Prepared /\ view.omitted = 0 => view.edges = ToSet(given.candidates)

LEMMA NormalizeSound ==
    ASSUME ViewSound, Normalize
    PROVE  ViewSound'
  <1>1. given' = given /\ given \in GraphInputs
    BY DEF ViewSound, Normalize
  <1>2. given.candidates \in Seq(EdgeSpace(Nodes)) /\ given.limits.edges \in Nat
    BY <1>1, InputsAssumption
  <1>3. PICK S : S = ToSet(given.candidates)
    OBVIOUS
  <1>4. S \in SUBSET EdgeSpace(Nodes) /\ IsFiniteSet(S)
    BY <1>2, <1>3, ElementsFinite
  <1>5. PICK all : Listed(all, S) /\ all = CanonicalOrder(S)
    BY <1>4, CandidatesInOrder
  <1>6. PICK n : n = IF Len(all) <= given.limits.edges THEN Len(all) ELSE given.limits.edges
    OBVIOUS
  <1>7. n \in 0..Len(all) /\ all \in Seq(S)
    BY <1>2, <1>5, <1>6 DEF Listed
  <1>8. PICK kept : kept = SubSeq(all, 1, n)
    OBVIOUS
  <1>9. /\ ToSet(kept) \in SUBSET S /\ Len(kept) = n
        /\ n = Len(all) => ToSet(kept) = S
    BY <1>5, <1>7, <1>8, StartOfSequence DEF Listed
  <1>10. CASE NormalizeOutcome(given) = "ok"
    <2>1. view'.edges = ToSet(kept) /\ view'.omitted = Len(all) - Len(kept)
      <3>1. view' = NormalizedEdges(given.candidates)
        BY <1>10 DEF Normalize
      <3>2. Kept(all) = kept
        BY <1>6, <1>8 DEF Kept
      <3> QED
        BY <1>3, <1>5, <3>1, <3>2 DEF NormalizedEdges
    <2>2. view'.omitted \in Nat /\ (view'.omitted = 0 => n = Len(all))
      BY <1>7, <1>9, <2>1
    <2>3. IsFiniteSet(ToSet(kept))
      BY <1>4, <1>9, FS_Subset
    <2> QED
      BY <1>1, <1>3, <1>4, <1>9, <2>1, <2>2, <2>3 DEF ViewSound
  <1>11. CASE NormalizeOutcome(given) # "ok"
    <2>1. view' = view /\ phase' \notin Prepared
      BY <1>11 DEF Normalize, NormalizeOutcome, Prepared
    <2> QED
      BY <1>1, <2>1 DEF ViewSound
  <1> QED
    BY <1>10, <1>11

LEMMA ViewSoundInit == GraphInit => ViewSound
  <1> SUFFICES ASSUME GraphInit PROVE ViewSound
    OBVIOUS
  <1>1. IsFiniteSet({})
    BY FS_EmptySet
  <1> QED
    BY <1>1 DEF GraphInit, ViewSound, NoView, Prepared

LEMMA ViewSoundNext == ViewSound /\ [GraphNext]_graphVars => ViewSound'
  <1> SUFFICES ASSUME ViewSound, [GraphNext]_graphVars PROVE ViewSound'
    OBVIOUS
  <1>1. CASE Normalize
    BY <1>1, NormalizeSound
  <1>2. ASSUME UNCHANGED <<given, view>>, phase' \in Prepared => phase \in Prepared
        PROVE  ViewSound'
    BY <1>2 DEF ViewSound
  <1>3. CASE GraphNext /\ ~Normalize
    <2>1. UNCHANGED <<given, view>> /\ (phase' \in Prepared => phase \in Prepared)
      BY <1>3 DEF GraphNext, BeginAnalyze, EnterRoot, FollowEdge, LeaveFrame, EndAnalyze,
                  BeginImpact, TakeNode, ScanEdge, Deepen, StopImpact, EndImpact, BeginPages,
                  NextPage, Prepared
    <2> QED
      BY <1>2, <2>1
  <1>4. CASE UNCHANGED graphVars
    BY <1>2, <1>4 DEF graphVars
  <1> QED
    BY <1>1, <1>3, <1>4

-----------------------------------------------------------------------------
(* The breadth-first search of an impact query *)

ImpactPhases == {"impact", "complete", "truncated"}
CertainEdges == {e \in view.edges : Eligible(e)}
CertainArcs == Arcs(query.direction, CertainEdges)
Within == Reachable(CertainArcs, query.seeds)
Origin(e) == Near(query.direction, e)
Target(e) == Far(query.direction, e)

Walks ==
    [seen : SUBSET Nodes, localSeen : SUBSET Nodes, boundary : SUBSET Nodes,
     edges : SUBSET EdgeSpace(Nodes), reached : SUBSET (Nodes \X Nat), depth : 0..Size,
     scanned : Nat, front : Seq(Nodes), list : Seq(EdgeSpace(Nodes)), next : SUBSET Nodes]

WalkTyped == query.seeds \in SUBSET Nodes /\ walk \in Walks

\* The nodes seen are those within the depth of the front, and of the next.
WalkSeen ==
    /\ walk.localSeen = Within[walk.depth] \cup walk.next
    /\ walk.next \cap Within[walk.depth] = {}
    /\ walk.next \in SUBSET Over(CertainArcs, Within[walk.depth])
    /\ ToSet(walk.front) \in SUBSET Within[walk.depth]
    /\ ToSet(walk.list) \in SUBSET {e \in view.edges : Origin(e) \in Within[walk.depth]}

\* An edge that leaves them is still to be scanned, or has been followed.
Followed(e) == Target(e) \in walk.localSeen \/ (e \notin CertainEdges /\ Target(e) \in walk.boundary)
WalkFollowed ==
    \A e \in view.edges : Origin(e) \in Within[walk.depth] =>
        e \in ToSet(walk.list) \/ Origin(e) \in ToSet(walk.front) \/ Followed(e)

WalkBoundary ==
    /\ walk.boundary \cap walk.localSeen = {}
    /\ \A n \in walk.boundary :
            \E e \in view.edges : e \notin CertainEdges /\ Origin(e) \in Within[walk.depth] /\ Target(e) = n

\* A node is reached with its least distance.
ReachedAt(n, k) ==
    \/ k \in 1..walk.depth /\ n \in Within[k] /\ n \notin Within[k - 1]
    \/ k = walk.depth + 1 /\ n \in walk.next
WalkReached == \A n \in Nodes, k \in Nat : <<n, k>> \in walk.reached <=> ReachedAt(n, k)

WalkEnds == phase = "complete" => walk.list = <<>> /\ walk.front = <<>> /\ walk.next = {}

WalkInv == WalkTyped /\ WalkSeen /\ WalkFollowed /\ WalkBoundary /\ WalkReached /\ WalkEnds
ImpactInv == phase \in ImpactPhases => WalkInv

LEMMA SameGraph ==
    ASSUME UNCHANGED <<given, view, query>>
    PROVE  /\ CertainEdges' = CertainEdges /\ CertainArcs' = CertainArcs /\ Within' = Within
           /\ \A e : Origin(e)' = Origin(e) /\ Target(e)' = Target(e)
  <1>1. CertainEdges' = CertainEdges
    BY DEF CertainEdges, Eligible, LocalVertex
  <1>2. CertainArcs' = CertainArcs
    BY <1>1 DEF CertainArcs, Arcs, Near, Far
  <1>3. Within' = Within
    BY <1>2 DEF Within, Reachable
  <1> QED
    BY <1>1, <1>2, <1>3 DEF Origin, Target, Near, Far

\* What the lemmas on reachability say of the certain edges of a view.
LEMMA WithinFacts ==
    ASSUME ViewSound, query.seeds \in SUBSET Nodes
    PROVE  /\ Within[0] = query.seeds
           /\ \A k \in 1..Size : Within[k] = Within[k - 1] \cup Over(CertainArcs, Within[k - 1])
           /\ \A k \in 0..Size : Within[k] \in SUBSET Nodes
           /\ \A i, j \in 0..Size : i <= j => Within[i] \in SUBSET Within[j]
           /\ Closed(CertainArcs, Within[Size])
           /\ \A i, j \in 0..Size :
                    Closed(CertainArcs, Within[i]) /\ i <= j => Within[j] = Within[i]
           /\ \A A : Over(CertainArcs, A) \in SUBSET Nodes
           /\ \A A, x : x \in Over(CertainArcs, A) <=>
                    \E e \in CertainEdges : Origin(e) \in A /\ Target(e) = x
  <1>1. CertainEdges \in SUBSET EdgeSpace(Nodes)
    BY DEF CertainEdges, ViewSound
  <1>2. /\ CertainArcs \in SUBSET (Nodes \X Nodes)
        /\ \A A : Over(CertainArcs, A) \in SUBSET Nodes
    BY <1>1, ArcsOfEdges DEF CertainArcs
  <1>3. \A A, x : x \in Over(CertainArcs, A) <=>
                    \E e \in CertainEdges : Origin(e) \in A /\ Target(e) = x
    BY <1>1, ArcsOfEdges DEF CertainArcs, Origin, Target
  <1>4. PICK W : W = Within
    OBVIOUS
  <1>5. W = Reachable(CertainArcs, query.seeds)
    BY <1>4 DEF Within
  <1>6. /\ W[0] = query.seeds
        /\ \A k \in 1..Size : W[k] = W[k - 1] \cup Over(CertainArcs, W[k - 1])
    BY <1>5, ReachableSteps
  <1>7. \A k \in 0..Size : W[k] \in SUBSET Nodes
    BY <1>2, <1>5, ReachableNodes
  <1>8. \A i, j \in 0..Size : i <= j => W[i] \in SUBSET W[j]
    BY <1>5, ReachableGrows
  <1>9. Closed(CertainArcs, W[Size])
    BY <1>2, <1>5, ReachableClosed
  <1>10. \A i, j \in 0..Size : Closed(CertainArcs, W[i]) /\ i <= j => W[j] = W[i]
    BY <1>5, ReachableStays
  <1> QED
    BY <1>2, <1>3, <1>4, <1>6, <1>7, <1>8, <1>9, <1>10

LEMMA BeginImpactWalks ==
    ASSUME ViewSound, NEW seeds \in SUBSET Nodes, NEW d, NEW l, BeginImpact(seeds, d, l)
    PROVE  WalkInv'
  <1>1. PICK front : front = Ascending(seeds)
    OBVIOUS
  <1>2. front \in Seq(Nodes) /\ ToSet(front) = seeds
    <2>1. seeds \in SUBSET Nat /\ IsFiniteSet(seeds)
      BY NodesAssumption, FS_Subset
    <2>2. Listed(front, seeds)
      BY <1>1, <2>1, NumbersInOrder
    <2> QED
      BY <2>2 DEF Listed
  <1>3. /\ query'.seeds = seeds /\ phase' = "impact"
        /\ walk' = [seen |-> seeds, localSeen |-> seeds, boundary |-> {}, edges |-> {},
                    reached |-> {}, depth |-> 0, scanned |-> 0,
                    front |-> front, list |-> <<>>, next |-> {}]
    BY <1>1 DEF BeginImpact
  <1>4. Within'[0] = seeds
    <2>1. Within' = Reachable(CertainArcs', query'.seeds)
      BY DEF Within
    <2> QED
      BY <1>3, <2>1, ReachableSteps
  <1>5. ToSet(<<>>) = {}
    BY DEF ToSet
  <1>6. WalkTyped'
    BY <1>2, <1>3, SizeIsNatural DEF WalkTyped, Walks
  <1>7. WalkSeen'
    BY <1>2, <1>3, <1>4, <1>5 DEF WalkSeen
  <1>8. WalkFollowed'
    BY <1>2, <1>3, <1>4 DEF WalkFollowed
  <1>9. WalkBoundary'
    BY <1>3 DEF WalkBoundary
  <1>10. WalkReached'
    BY <1>3 DEF WalkReached, ReachedAt
  <1>11. WalkEnds'
    BY <1>3 DEF WalkEnds
  <1> QED
    BY <1>6, <1>7, <1>8, <1>9, <1>10, <1>11 DEF WalkInv

\* A step that takes the next node to scan adds its edges to the list.
LEMMA TakeNodeWalks ==
    ASSUME ViewSound, WalkInv, TakeNode
    PROVE  WalkInv'
  <1>1. /\ walk \in Walks /\ query.seeds \in SUBSET Nodes
        /\ walk.list = <<>> /\ walk.front # <<>> /\ phase' = "impact"
        /\ walk' = [walk EXCEPT !.list = Adjacent(query.direction, Head(walk.front)),
                                !.front = Tail(@)]
        /\ UNCHANGED <<given, view, query>>
    BY DEF WalkInv, WalkTyped, TakeNode
  <1>2. PICK n, list : n = Head(walk.front) /\ list = Adjacent(query.direction, n)
    OBVIOUS
  <1>3. /\ walk'.list = list /\ walk'.front = Tail(walk.front)
        /\ walk'.seen = walk.seen /\ walk'.localSeen = walk.localSeen
        /\ walk'.boundary = walk.boundary /\ walk'.edges = walk.edges
        /\ walk'.reached = walk.reached /\ walk'.depth = walk.depth
        /\ walk'.scanned = walk.scanned /\ walk'.next = walk.next
    BY <1>1, <1>2 DEF Walks
  <1>4. /\ n \in ToSet(walk.front) /\ Tail(walk.front) \in Seq(Nodes)
        /\ ToSet(walk.front) = ToSet(Tail(walk.front)) \cup {n}
    <2>1. walk.front \in Seq(Nodes)
      BY <1>1 DEF Walks
    <2> QED
      BY <1>1, <1>2, <2>1, ElementsOfFront
  <1>5. list \in Seq(EdgeSpace(Nodes)) /\ ToSet(list) = {e \in view.edges : Origin(e) = n}
    <2>1. Listed(list, {e \in view.edges : Near(query.direction, e) = n})
      BY <1>2, AdjacentInOrder DEF ViewSound
    <2>2. /\ list \in Seq({e \in view.edges : Near(query.direction, e) = n})
          /\ ToSet(list) = {e \in view.edges : Near(query.direction, e) = n}
      BY <2>1 DEF Listed
    <2>3. {e \in view.edges : Near(query.direction, e) = n} \in SUBSET EdgeSpace(Nodes)
      BY DEF ViewSound
    <2> QED
      BY <2>2, <2>3 DEF Origin
  <1>6. /\ CertainEdges' = CertainEdges /\ CertainArcs' = CertainArcs /\ Within' = Within
        /\ \A e : Origin(e)' = Origin(e) /\ Target(e)' = Target(e)
    BY <1>1, SameGraph
  <1>7. WalkTyped'
    <2>1. walk' \in Walks
      BY <1>1, <1>2, <1>4, <1>5 DEF Walks
    <2> QED
      BY <1>1, <2>1 DEF WalkTyped
  <1>8. WalkSeen'
    <2>1. /\ walk.localSeen = Within[walk.depth] \cup walk.next
          /\ walk.next \cap Within[walk.depth] = {}
          /\ walk.next \in SUBSET Over(CertainArcs, Within[walk.depth])
          /\ ToSet(walk.front) \in SUBSET Within[walk.depth]
      BY DEF WalkInv, WalkSeen
    <2>2. ToSet(Tail(walk.front)) \in SUBSET Within[walk.depth]
      BY <1>4, <2>1
    <2>3. ToSet(list) \in SUBSET {e \in view.edges : Origin(e) \in Within[walk.depth]}
      BY <1>4, <1>5, <2>1
    <2> QED
      BY <1>1, <1>3, <1>6, <2>1, <2>2, <2>3 DEF WalkSeen
  <1>9. WalkFollowed'
    <2>1. ASSUME NEW e \in view.edges, Origin(e) \in Within[walk.depth]
          PROVE  e \in ToSet(list) \/ Origin(e) \in ToSet(Tail(walk.front)) \/ Followed(e)
      <3>1. e \in ToSet(walk.list) \/ Origin(e) \in ToSet(walk.front) \/ Followed(e)
        BY <2>1 DEF WalkInv, WalkFollowed
      <3>2. e \notin ToSet(walk.list)
        BY <1>1 DEF ToSet
      <3> QED
        BY <1>4, <1>5, <3>1, <3>2
    <2>2. \A e : Followed(e)' = Followed(e)
      BY <1>3, <1>6 DEF Followed
    <2> QED
      BY <1>1, <1>3, <1>6, <2>1, <2>2 DEF WalkFollowed
  <1>10. WalkBoundary'
    BY <1>1, <1>3, <1>6 DEF WalkInv, WalkBoundary
  <1>11. WalkReached'
    BY <1>3, <1>6 DEF WalkInv, WalkReached, ReachedAt
  <1>12. WalkEnds'
    BY <1>1 DEF WalkEnds
  <1> QED
    BY <1>7, <1>8, <1>9, <1>10, <1>11, <1>12 DEF WalkInv

\* A step that goes one level deeper: what was seen is what is within reach.
LEMMA DeepenWalks ==
    ASSUME ViewSound, WalkInv, Deepen
    PROVE  WalkInv'
  <1>1. /\ walk \in Walks /\ query.seeds \in SUBSET Nodes
        /\ walk.list = <<>> /\ walk.front = <<>> /\ walk.next # {} /\ phase' = "impact"
        /\ walk' = [walk EXCEPT !.front = Ascending(walk.next), !.next = {}, !.depth = @ + 1]
        /\ UNCHANGED <<given, view, query>>
    BY DEF WalkInv, WalkTyped, Deepen
  <1>2. PICK front, d : front = Ascending(walk.next) /\ d = walk.depth
    OBVIOUS
  <1>3. /\ walk'.list = <<>> /\ walk'.front = front
        /\ walk'.seen = walk.seen /\ walk'.localSeen = walk.localSeen
        /\ walk'.boundary = walk.boundary /\ walk'.edges = walk.edges
        /\ walk'.reached = walk.reached /\ walk'.depth = d + 1
        /\ walk'.scanned = walk.scanned /\ walk'.next = {}
        /\ d \in 0..Size /\ walk.next \in SUBSET Nodes
    BY <1>1, <1>2 DEF Walks
  <1>4. front \in Seq(Nodes) /\ ToSet(front) = walk.next
    <2>1. walk.next \in SUBSET Nat /\ IsFiniteSet(walk.next)
      BY <1>3, NodesAssumption, FS_Subset
    <2>2. Listed(front, walk.next)
      BY <1>2, <2>1, NumbersInOrder
    <2> QED
      BY <1>3, <2>2 DEF Listed
  <1>5. /\ CertainEdges' = CertainEdges /\ CertainArcs' = CertainArcs /\ Within' = Within
        /\ \A e : Origin(e)' = Origin(e) /\ Target(e)' = Target(e)
    BY <1>1, SameGraph
  <1>6. /\ walk.localSeen = Within[d] \cup walk.next
        /\ walk.next \cap Within[d] = {}
        /\ walk.next \in SUBSET Over(CertainArcs, Within[d])
    BY <1>2 DEF WalkInv, WalkSeen
  <1>7. d + 1 \in 0..Size /\ d + 1 \in 1..Size /\ d + 1 - 1 = d
    <2>1. Closed(CertainArcs, Within[Size])
      BY <1>1, WithinFacts
    <2>2. d # Size
      BY <1>1, <1>6, <2>1 DEF Closed
    <2> QED
      BY <1>3, <2>2, SizeIsNatural
  <1>8. Within[d + 1] = Within[d] \cup Over(CertainArcs, Within[d])
    <2>1. \A k \in 1..Size : Within[k] = Within[k - 1] \cup Over(CertainArcs, Within[k - 1])
      BY <1>1, WithinFacts
    <2>2. PICK k : k = d + 1
      OBVIOUS
    <2>3. k \in 1..Size /\ k - 1 = d
      BY <1>3, <1>7, <2>2, SizeIsNatural
    <2>4. Within[k] = Within[k - 1] \cup Over(CertainArcs, Within[k - 1])
      BY <2>1, <2>3
    <2> QED
      BY <2>2, <2>3, <2>4
  <1>9. \A e \in view.edges : Origin(e) \in Within[d] => Followed(e)
    BY <1>1, <1>2 DEF WalkInv, WalkFollowed, ToSet
  <1>10. Within[d + 1] = Within[d] \cup walk.next
    <2>1. ASSUME NEW n \in Over(CertainArcs, Within[d]) PROVE n \in Within[d] \cup walk.next
      <3>1. PICK e \in CertainEdges : Origin(e) \in Within[d] /\ Target(e) = n
        BY <1>1, WithinFacts
      <3>2. Followed(e)
        BY <1>9, <3>1 DEF CertainEdges
      <3> QED
        BY <1>6, <3>1, <3>2 DEF Followed
    <2> QED
      BY <1>6, <1>8, <2>1
  <1>11. WalkTyped'
    <2>1. walk' \in Walks
      BY <1>1, <1>2, <1>4, <1>7 DEF Walks
    <2> QED
      BY <1>1, <2>1 DEF WalkTyped
  <1>12. WalkSeen'
    <2>1. ToSet(<<>>) = {}
      BY DEF ToSet
    <2> QED
      BY <1>3, <1>4, <1>5, <1>6, <1>10, <2>1 DEF WalkSeen
  <1>13. WalkFollowed'
    <2>1. \A e : Followed(e)' = Followed(e)
      BY <1>3, <1>5 DEF Followed
    <2>2. ASSUME NEW e \in view.edges, Origin(e) \in Within[d + 1]
          PROVE  Origin(e) \in ToSet(front) \/ Followed(e)
      BY <1>4, <1>9, <1>10, <2>2
    <2> QED
      BY <1>1, <1>3, <1>5, <2>1, <2>2 DEF WalkFollowed
  <1>14. WalkBoundary'
    <2>1. /\ walk.boundary \cap walk.localSeen = {}
          /\ \A n \in walk.boundary :
                \E e \in view.edges : e \notin CertainEdges /\ Origin(e) \in Within[d] /\ Target(e) = n
      BY <1>2 DEF WalkInv, WalkBoundary
    <2>2. \A n \in walk.boundary :
                \E e \in view.edges : e \notin CertainEdges /\ Origin(e) \in Within[d + 1] /\ Target(e) = n
      BY <1>10, <2>1
    <2> QED
      BY <1>1, <1>3, <1>5, <2>1, <2>2 DEF WalkBoundary
  <1>15. WalkReached'
    <2>1. ASSUME NEW n \in Nodes, NEW k \in Nat
          PROVE  ReachedAt(n, k) <=> k \in 1..(d + 1) /\ n \in Within[k] /\ n \notin Within[k - 1]
      <3>1. CASE k = d + 1
        <4>1. k \notin 1..d /\ k \in 1..(d + 1) /\ k - 1 = d
          BY <1>3, <3>1
        <4>2. n \in walk.next <=> n \in Within[k] /\ n \notin Within[k - 1]
          BY <1>6, <1>10, <3>1, <4>1
        <4> QED
          BY <1>2, <3>1, <4>1, <4>2 DEF ReachedAt
      <3>2. CASE k # d + 1
        <4>1. k \in 1..d <=> k \in 1..(d + 1)
          BY <1>3, <3>2
        <4> QED
          BY <1>2, <3>2, <4>1 DEF ReachedAt
      <3> QED
        BY <3>1, <3>2
    <2>2. \A n \in Nodes, k \in Nat : <<n, k>> \in walk'.reached <=> ReachedAt(n, k)
      BY <1>3 DEF WalkInv, WalkReached
    <2>3. \A n \in Nodes, k \in Nat :
            ReachedAt(n, k)' <=> k \in 1..(d + 1) /\ n \in Within[k] /\ n \notin Within[k - 1]
      BY <1>3, <1>5 DEF ReachedAt
    <2> QED
      BY <2>1, <2>2, <2>3 DEF WalkReached
  <1>16. WalkEnds'
    BY <1>1 DEF WalkEnds
  <1> QED
    BY <1>11, <1>12, <1>13, <1>14, <1>15, <1>16 DEF WalkInv

\* A step that scans an edge follows it when it is certain, and remembers its
\* target as a boundary when it is not.
LEMMA ScanEdgeWalks ==
    ASSUME ViewSound, WalkInv, ScanEdge
    PROVE  WalkInv'
  <1>1. /\ walk \in Walks /\ query.seeds \in SUBSET Nodes
        /\ walk.list # <<>> /\ phase' = "impact"
        /\ UNCHANGED <<given, view, query>>
    BY DEF WalkInv, WalkTyped, ScanEdge
  <1>2. PICK e, n, d : e = Head(walk.list) /\ n = Target(e) /\ d = walk.depth
    OBVIOUS
  <1>3. /\ e \in ToSet(walk.list) /\ Tail(walk.list) \in Seq(EdgeSpace(Nodes))
        /\ ToSet(walk.list) = ToSet(Tail(walk.list)) \cup {e}
    <2>1. walk.list \in Seq(EdgeSpace(Nodes))
      BY <1>1 DEF Walks
    <2> QED
      BY <1>1, <1>2, <2>1, ElementsOfFront
  <1>4. /\ e \in view.edges /\ Origin(e) \in Within[d] /\ e \in EdgeSpace(Nodes) /\ n \in Nodes
        /\ d \in 0..Size
    <2>1. e \in view.edges /\ Origin(e) \in Within[d]
      BY <1>2, <1>3 DEF WalkInv, WalkSeen
    <2>2. e \in EdgeSpace(Nodes)
      BY <2>1 DEF ViewSound
    <2>3. n \in Nodes
      BY <1>2, <2>2, EdgeFields DEF Target, Far
    <2> QED
      BY <1>1, <1>2, <2>1, <2>2, <2>3 DEF Walks
  <1>5. /\ CertainEdges' = CertainEdges /\ CertainArcs' = CertainArcs /\ Within' = Within
        /\ \A f : Origin(f)' = Origin(f) /\ Target(f)' = Target(f)
    BY <1>1, SameGraph
  <1>6. PICK w : w = Reach(walk, e, n)
    OBVIOUS
  <1>7. walk' = [w EXCEPT !.scanned = @ + 1, !.list = Tail(@),
                          !.seen = @ \cup {n}, !.edges = @ \cup {e}]
    BY <1>2, <1>6 DEF ScanEdge, Target
  <1>8. e \in CertainEdges <=> Eligible(e)
    BY <1>4 DEF CertainEdges
  <1>8a. ASSUME w \in Walks, w.list = walk.list
         PROVE  /\ walk' \in Walks /\ walk'.list = Tail(walk.list) /\ walk'.front = w.front
                /\ walk'.localSeen = w.localSeen /\ walk'.boundary = w.boundary
                /\ walk'.reached = w.reached /\ walk'.depth = w.depth /\ walk'.next = w.next
    <2>1. w.scanned + 1 \in Nat /\ w.seen \cup {n} \in SUBSET Nodes
      BY <1>4, <1>8a DEF Walks
    <2>2. w.edges \cup {e} \in SUBSET EdgeSpace(Nodes)
      BY <1>4, <1>8a DEF Walks
    <2>3. walk' = [w EXCEPT !.scanned = w.scanned + 1, !.list = Tail(walk.list),
                            !.seen = w.seen \cup {n}, !.edges = w.edges \cup {e}]
      BY <1>7, <1>8a DEF Walks
    <2> QED
      BY <1>3, <1>8a, <2>1, <2>2, <2>3 DEF Walks
  <1>9. /\ walk.localSeen = Within[d] \cup walk.next
        /\ walk.next \cap Within[d] = {}
        /\ walk.next \in SUBSET Over(CertainArcs, Within[d])
        /\ ToSet(walk.front) \in SUBSET Within[d]
        /\ ToSet(walk.list) \in SUBSET {f \in view.edges : Origin(f) \in Within[d]}
    BY <1>2 DEF WalkInv, WalkSeen
  <1>10. \A f \in view.edges : Origin(f) \in Within[d] =>
            f \in ToSet(walk.list) \/ Origin(f) \in ToSet(walk.front) \/ Followed(f)
    BY <1>2 DEF WalkInv, WalkFollowed
  <1>11. /\ walk.boundary \cap walk.localSeen = {}
         /\ \A m \in walk.boundary :
              \E f \in view.edges : f \notin CertainEdges /\ Origin(f) \in Within[d] /\ Target(f) = m
    BY <1>2 DEF WalkInv, WalkBoundary
  <1>12. \A m \in Nodes, k \in Nat : <<m, k>> \in walk.reached <=> ReachedAt(m, k)
    BY DEF WalkInv, WalkReached
  <1>13. CASE e \in CertainEdges /\ n \notin walk.localSeen
    <2>1. /\ walk'.list = Tail(walk.list) /\ walk'.front = walk.front
          /\ walk'.localSeen = walk.localSeen \cup {n} /\ walk'.boundary = walk.boundary \ {n}
          /\ walk'.reached = walk.reached \cup {<<n, d + 1>>} /\ walk'.depth = d
          /\ walk'.next = walk.next \cup {n}
          /\ walk' \in Walks
      <3>1. w = [walk EXCEPT !.localSeen = @ \cup {n}, !.boundary = @ \ {n},
                             !.reached = @ \cup {<<n, d + 1>>}, !.next = @ \cup {n}]
        BY <1>2, <1>6, <1>8, <1>13 DEF Reach
      <3>2. d + 1 \in Nat
        BY <1>4, SizeIsNatural
      <3>3. /\ w \in Walks /\ w.list = walk.list /\ w.front = walk.front
            /\ w.localSeen = walk.localSeen \cup {n} /\ w.boundary = walk.boundary \ {n}
            /\ w.reached = walk.reached \cup {<<n, d + 1>>} /\ w.depth = d
            /\ w.next = walk.next \cup {n}
        <4>1. walk.localSeen \cup {n} \in SUBSET Nodes /\ walk.next \cup {n} \in SUBSET Nodes
          BY <1>1, <1>4 DEF Walks
        <4>2. walk.boundary \ {n} \in SUBSET Nodes
          BY <1>1 DEF Walks
        <4>3. walk.reached \cup {<<n, d + 1>>} \in SUBSET (Nodes \X Nat)
          BY <1>1, <1>4, <3>2 DEF Walks
        <4>4. w = [walk EXCEPT !.localSeen = walk.localSeen \cup {n}, !.boundary = walk.boundary \ {n},
                               !.reached = walk.reached \cup {<<n, d + 1>>},
                               !.next = walk.next \cup {n}]
          BY <1>1, <3>1 DEF Walks
        <4> QED
          BY <1>1, <1>2, <4>1, <4>2, <4>3, <4>4 DEF Walks
      <3> QED
        BY <1>8a, <3>3
    <2>2. WalkTyped'
      BY <1>1, <2>1 DEF WalkTyped
    <2>3. n \in Over(CertainArcs, Within[d])
      BY <1>1, <1>2, <1>4, <1>13, WithinFacts
    <2>4. WalkSeen'
      BY <1>1, <1>3, <1>5, <1>9, <1>13, <2>1, <2>3 DEF WalkSeen
    <2>5. WalkFollowed'
      <3>1. ASSUME NEW f \in view.edges, Origin(f) \in Within[d]
            PROVE  f \in ToSet(Tail(walk.list)) \/ Origin(f) \in ToSet(walk.front) \/ Followed(f)'
        <4>1. Followed(f) => Followed(f)'
          BY <1>5, <2>1 DEF Followed
        <4>2. f = e => Followed(f)'
          BY <1>2, <1>5, <2>1 DEF Followed
        <4> QED
          BY <1>3, <1>10, <3>1, <4>1, <4>2
      <3> QED
        BY <1>1, <1>5, <2>1, <3>1 DEF WalkFollowed
    <2>6. WalkBoundary'
      BY <1>1, <1>5, <1>11, <2>1 DEF WalkBoundary
    <2>7. WalkReached'
      <3>1. ASSUME NEW m \in Nodes, NEW k \in Nat
            PROVE  <<m, k>> \in walk'.reached <=> ReachedAt(m, k)'
        <4>1. <<m, k>> \in walk'.reached <=> ReachedAt(m, k) \/ (m = n /\ k = d + 1)
          BY <1>12, <2>1
        <4>2. ReachedAt(m, k)' <=> ReachedAt(m, k) \/ (m = n /\ k = d + 1)
          BY <1>2, <1>5, <2>1 DEF ReachedAt
        <4> QED
          BY <4>1, <4>2
      <3> QED
        BY <3>1 DEF WalkReached
    <2> QED
      BY <1>1, <2>2, <2>4, <2>5, <2>6, <2>7 DEF WalkInv, WalkEnds
  <1>14. CASE ~(e \in CertainEdges /\ n \notin walk.localSeen)
    <2>1. /\ walk'.list = Tail(walk.list) /\ walk'.front = walk.front
          /\ walk'.localSeen = walk.localSeen
          /\ walk'.boundary = IF n \notin walk.localSeen THEN walk.boundary \cup {n} ELSE walk.boundary
          /\ walk'.reached = walk.reached /\ walk'.depth = d /\ walk'.next = walk.next
          /\ walk' \in Walks
      <3>1. w = IF n \notin walk.localSeen THEN [walk EXCEPT !.boundary = @ \cup {n}] ELSE walk
        BY <1>6, <1>8, <1>14 DEF Reach
      <3>2. /\ w \in Walks /\ w.list = walk.list /\ w.front = walk.front
            /\ w.localSeen = walk.localSeen
            /\ w.boundary = IF n \notin walk.localSeen THEN walk.boundary \cup {n} ELSE walk.boundary
            /\ w.reached = walk.reached /\ w.depth = d /\ w.next = walk.next
        <4>1. CASE n \notin walk.localSeen
          <5>1. w = [walk EXCEPT !.boundary = @ \cup {n}]
            BY <3>1, <4>1
          <5> QED
            BY <1>1, <1>2, <1>4, <4>1, <5>1 DEF Walks
        <4>2. CASE n \in walk.localSeen
          <5>1. w = walk
            BY <3>1, <4>2
          <5> QED
            BY <1>1, <1>2, <4>2, <5>1
        <4> QED
          BY <4>1, <4>2
      <3> QED
        BY <1>8a, <3>2
    <2>2. WalkTyped'
      BY <1>1, <2>1 DEF WalkTyped
    <2>3. WalkSeen'
      BY <1>1, <1>3, <1>5, <1>9, <2>1 DEF WalkSeen
    <2>4. WalkFollowed'
      <3>1. ASSUME NEW f \in view.edges, Origin(f) \in Within[d]
            PROVE  f \in ToSet(Tail(walk.list)) \/ Origin(f) \in ToSet(walk.front) \/ Followed(f)'
        <4>1. Followed(f) => Followed(f)'
          BY <1>5, <2>1 DEF Followed
        <4>2. f = e => Followed(f)'
          BY <1>2, <1>5, <1>14, <2>1 DEF Followed
        <4> QED
          BY <1>3, <1>10, <3>1, <4>1, <4>2
      <3> QED
        BY <1>1, <1>5, <2>1, <3>1 DEF WalkFollowed
    <2>5. WalkBoundary'
      <3>1. ASSUME NEW m \in walk'.boundary
            PROVE  /\ m \notin walk.localSeen
                   /\ \E f \in view.edges : f \notin CertainEdges /\ Origin(f) \in Within[d] /\ Target(f) = m
        <4>1. CASE m \in walk.boundary
          BY <1>11, <4>1
        <4>2. CASE m = n /\ n \notin walk.localSeen
          BY <1>2, <1>4, <1>14, <4>2
        <4> QED
          BY <2>1, <3>1, <4>1, <4>2
      <3> QED
        BY <1>1, <1>5, <2>1, <3>1 DEF WalkBoundary
    <2>6. WalkReached'
      BY <1>2, <1>5, <1>12, <2>1 DEF WalkReached, ReachedAt
    <2> QED
      BY <1>1, <2>2, <2>3, <2>4, <2>5, <2>6 DEF WalkInv, WalkEnds
  <1> QED
    BY <1>13, <1>14

\* The breadth-first invariant holds in every state.
LEMMA ImpactInvInit == GraphInit => ImpactInv
  BY DEF GraphInit, ImpactInv, ImpactPhases

LEMMA ImpactInvNext == ViewSound /\ ImpactInv /\ [GraphNext]_graphVars => ImpactInv'
  <1> SUFFICES ASSUME ViewSound, ImpactInv, [GraphNext]_graphVars PROVE ImpactInv'
    OBVIOUS
  <1>1. ASSUME UNCHANGED <<given, view, query, walk>>, WalkInv,
               phase' = "complete" => phase = "complete" \/
                            (walk.list = <<>> /\ walk.front = <<>> /\ walk.next = {})
        PROVE  WalkInv'
    <2>1. /\ CertainEdges' = CertainEdges /\ CertainArcs' = CertainArcs /\ Within' = Within
          /\ \A e : Origin(e)' = Origin(e) /\ Target(e)' = Target(e)
      BY <1>1, SameGraph
    <2>2. WalkTyped'
      BY <1>1 DEF WalkInv, WalkTyped
    <2>3. WalkSeen'
      BY <1>1, <2>1 DEF WalkInv, WalkSeen
    <2>4. WalkFollowed'
      BY <1>1, <2>1 DEF WalkInv, WalkFollowed, Followed
    <2>5. WalkBoundary'
      BY <1>1, <2>1 DEF WalkInv, WalkBoundary
    <2>6. WalkReached'
      BY <1>1, <2>1 DEF WalkInv, WalkReached, ReachedAt
    <2>7. WalkEnds'
      BY <1>1 DEF WalkInv, WalkEnds
    <2> QED
      BY <2>2, <2>3, <2>4, <2>5, <2>6, <2>7 DEF WalkInv
  <1>2. CASE \E seeds \in SUBSET Nodes, d \in Directions, l \in ImpactLimits : BeginImpact(seeds, d, l)
    BY <1>2, BeginImpactWalks DEF ImpactInv
  <1>3. CASE TakeNode
    <2>1. WalkInv
      BY <1>3 DEF ImpactInv, ImpactPhases, TakeNode
    <2> QED
      BY <1>3, <2>1, TakeNodeWalks DEF ImpactInv
  <1>4. CASE ScanEdge
    <2>1. WalkInv
      BY <1>4 DEF ImpactInv, ImpactPhases, ScanEdge
    <2> QED
      BY <1>4, <2>1, ScanEdgeWalks DEF ImpactInv
  <1>5. CASE Deepen
    <2>1. WalkInv
      BY <1>5 DEF ImpactInv, ImpactPhases, Deepen
    <2> QED
      BY <1>5, <2>1, DeepenWalks DEF ImpactInv
  <1>6. CASE StopImpact \/ EndImpact
    <2>1. WalkInv
      BY <1>6 DEF ImpactInv, ImpactPhases, StopImpact, EndImpact
    <2>2. /\ UNCHANGED <<given, view, query, walk>>
          /\ phase' = "complete" => walk.list = <<>> /\ walk.front = <<>> /\ walk.next = {}
      BY <1>6 DEF StopImpact, EndImpact
    <2> QED
      BY <1>1, <2>1, <2>2 DEF ImpactInv
  <1>7. CASE \/ Normalize \/ BeginAnalyze \/ EnterRoot \/ FollowEdge \/ LeaveFrame \/ EndAnalyze
             \/ \E n \in Nodes, d \in Directions : BeginPages(n, d)
             \/ NextPage
    <2>1. phase' \notin ImpactPhases
      BY <1>7 DEF Normalize, NormalizeOutcome, BeginAnalyze, EnterRoot, FollowEdge, LeaveFrame,
                  EndAnalyze, BeginPages, NextPage, ImpactPhases
    <2> QED
      BY <2>1 DEF ImpactInv
  <1>8. CASE UNCHANGED graphVars
    <2>1. phase' = phase /\ UNCHANGED <<given, view, query, walk>>
      BY <1>8 DEF graphVars
    <2> QED
      BY <1>1, <2>1 DEF ImpactInv
  <1> QED
    BY <1>2, <1>3, <1>4, <1>5, <1>6, <1>7, <1>8 DEF GraphNext

\* What is reached is reached at its least distance, within the number of nodes.
Exact ==
    {r \in Within[Size] \X (1..Size) : r[1] \in Within[r[2]] /\ r[1] \notin Within[r[2] - 1]}

LEMMA ReachedAreExact ==
    ASSUME ViewSound, WalkInv
    PROVE  /\ walk.reached \in SUBSET Exact
           /\ walk.list = <<>> /\ walk.front = <<>> /\ walk.next = {} =>
                /\ Within[walk.depth] = Within[Size]
                /\ walk.reached = Exact
                /\ walk.localSeen = Within[Size]
                /\ \A e \in view.edges : Origin(e) \in Within[Size] => Followed(e)
  <1>1. /\ query.seeds \in SUBSET Nodes /\ walk.depth \in 0..Size
        /\ walk.reached \in SUBSET (Nodes \X Nat)
    BY DEF WalkInv, WalkTyped, Walks
  <1>2. PICK d : d = walk.depth
    OBVIOUS
  <1>3. /\ walk.localSeen = Within[d] \cup walk.next
        /\ walk.next \cap Within[d] = {}
        /\ walk.next \in SUBSET Over(CertainArcs, Within[d])
    BY <1>2 DEF WalkInv, WalkSeen
  <1>4. d \in 0..Size /\ Size \in 0..Size
    BY <1>1, <1>2, SizeIsNatural
  <1>5. ASSUME walk.next # {}
        PROVE  /\ d + 1 \in 1..Size /\ d + 1 \in 0..Size /\ d + 1 - 1 = d
               /\ walk.next \in SUBSET Within[d + 1]
    <2>1. Closed(CertainArcs, Within[Size])
      BY <1>1, WithinFacts
    <2>2. d # Size
      BY <1>3, <1>5, <2>1 DEF Closed
    <2>3. PICK k : k = d + 1
      OBVIOUS
    <2>4. k \in 1..Size /\ k \in 0..Size /\ k - 1 = d
      BY <1>4, <2>2, <2>3, SizeIsNatural
    <2>5. \A j \in 1..Size : Within[j] = Within[j - 1] \cup Over(CertainArcs, Within[j - 1])
      BY <1>1, WithinFacts
    <2>6. Within[k] = Within[k - 1] \cup Over(CertainArcs, Within[k - 1])
      BY <2>4, <2>5
    <2> QED
      BY <1>3, <2>3, <2>4, <2>6
  <1>6. \A i, j \in 0..Size : i <= j => Within[i] \in SUBSET Within[j]
    BY <1>1, WithinFacts
  <1>7. \A n \in Nodes, k \in Nat : <<n, k>> \in walk.reached <=> ReachedAt(n, k)
    BY DEF WalkInv, WalkReached
  <1>8. ASSUME NEW n \in Nodes, NEW k \in Nat, ReachedAt(n, k)
        PROVE  <<n, k>> \in Exact
    <2>1. k \in 1..Size /\ n \in Within[k] /\ n \notin Within[k - 1]
      <3>1. CASE k \in 1..d /\ n \in Within[k] /\ n \notin Within[k - 1]
        BY <1>4, <3>1, SizeIsNatural
      <3>2. CASE k = d + 1 /\ n \in walk.next
        <4>1. k \in 1..Size /\ k - 1 = d /\ n \in Within[k]
          BY <1>4, <1>5, <3>2, SizeIsNatural
        <4> QED
          BY <1>3, <3>2, <4>1
      <3> QED
        BY <1>2, <1>8, <3>1, <3>2 DEF ReachedAt
    <2>2. k \in 0..Size /\ k <= Size
      BY <2>1, SizeIsNatural
    <2>3. n \in Within[Size]
      BY <1>4, <1>6, <2>1, <2>2
    <2>4. PICK r : r = <<n, k>>
      OBVIOUS
    <2>5. r[1] = n /\ r[2] = k /\ r \in Within[Size] \X (1..Size)
      BY <2>1, <2>3, <2>4
    <2>6. r \in Exact
      BY <2>1, <2>5 DEF Exact
    <2> QED
      BY <2>4, <2>6
  <1>9. walk.reached \in SUBSET Exact
    <2> SUFFICES ASSUME NEW r \in walk.reached PROVE r \in Exact
      OBVIOUS
    <2>1. PICK n \in Nodes, k \in Nat : r = <<n, k>>
      BY <1>1
    <2>2. ReachedAt(n, k)
      BY <1>7, <2>1
    <2> QED
      BY <1>8, <2>1, <2>2
  <1>10. ASSUME walk.list = <<>>, walk.front = <<>>, walk.next = {}
         PROVE  /\ Within[d] = Within[Size]
                /\ walk.reached = Exact
                /\ walk.localSeen = Within[Size]
                /\ \A e \in view.edges : Origin(e) \in Within[Size] => Followed(e)
    <2>1. \A e \in view.edges : Origin(e) \in Within[d] => Followed(e)
      BY <1>2, <1>10 DEF WalkInv, WalkFollowed, ToSet
    <2>2. Closed(CertainArcs, Within[d])
      <3>1. ASSUME NEW n \in Over(CertainArcs, Within[d]) PROVE n \in Within[d]
        <4>1. PICK e \in CertainEdges : Origin(e) \in Within[d] /\ Target(e) = n
          BY <1>1, WithinFacts
        <4>2. Followed(e)
          BY <2>1, <4>1 DEF CertainEdges
        <4> QED
          BY <1>3, <1>10, <4>1, <4>2 DEF Followed
      <3> QED
        BY <3>1 DEF Closed
    <2>3. \A j \in 0..Size : d <= j => Within[j] = Within[d]
      BY <1>1, <1>4, <2>2, WithinFacts
    <2>4. Within[Size] = Within[d]
      BY <1>4, <2>3
    <2>5. ASSUME NEW r \in Exact PROVE r \in walk.reached
      <3>1. PICK n, k : r = <<n, k>> /\ n = r[1] /\ k = r[2]
        BY DEF Exact
      <3>2. n \in Within[Size] /\ k \in 1..Size /\ n \in Within[k] /\ n \notin Within[k - 1]
        BY <3>1 DEF Exact
      <3>3. n \in Nodes /\ k \in Nat
        <4>1. \A j \in 0..Size : Within[j] \in SUBSET Nodes
          BY <1>1, WithinFacts
        <4> QED
          BY <1>4, <3>2, <4>1
      <3>4. k <= d
        <4>1. ASSUME ~(k <= d) PROVE FALSE
          <5>1. k \in 0..Size /\ k - 1 \in 0..Size /\ d <= k /\ d <= k - 1
            BY <1>4, <3>2, <4>1, SizeIsNatural
          <5>2. Within[k] = Within[d] /\ Within[k - 1] = Within[d]
            BY <2>3, <5>1
          <5> QED
            BY <3>2, <5>2
        <4> QED
          BY <4>1
      <3>5. ReachedAt(n, k)
        BY <1>2, <1>4, <3>2, <3>4 DEF ReachedAt
      <3> QED
        BY <1>7, <3>1, <3>3, <3>5
    <2> QED
      BY <1>3, <1>9, <1>10, <2>1, <2>4, <2>5
  <1> QED
    BY <1>2, <1>9, <1>10

LEMMA ImpactIsExact ==
    ASSUME ViewSound, ImpactInv
    PROVE  ImpactExact
  <1> SUFFICES ASSUME phase \in {"complete", "truncated"} PROVE ImpactExact
    BY DEF ImpactExact
  <1>1. WalkInv
    BY DEF ImpactInv, ImpactPhases
  <1>2. PICK boundary : boundary =
            {a[2] : a \in {b \in Arcs(query.direction, {e \in view.edges : ~Eligible(e)}) :
                                b[1] \in Within[Size]}} \ Within[Size]
    OBVIOUS
  <1>3. PICK U : U = {e \in view.edges : ~Eligible(e)}
    OBVIOUS
  <1>4. U \in SUBSET EdgeSpace(Nodes) /\ \A e \in view.edges : e \in U <=> e \notin CertainEdges
    BY <1>3 DEF ViewSound, CertainEdges
  <1>5. boundary = Over(Arcs(query.direction, U), Within[Size]) \ Within[Size]
    BY <1>2, <1>3 DEF Over
  <1>6. \A n : n \in boundary <=>
            /\ n \notin Within[Size]
            /\ \E e \in U : Origin(e) \in Within[Size] /\ Target(e) = n
    BY <1>4, <1>5, ArcsOfEdges DEF Origin, Target
  <1>7. ASSUME phase = "complete" PROVE walk.reached = Exact /\ walk.boundary = boundary
    <2>1. walk.list = <<>> /\ walk.front = <<>> /\ walk.next = {}
      BY <1>1, <1>7 DEF WalkInv, WalkEnds
    <2>2. /\ Within[walk.depth] = Within[Size] /\ walk.reached = Exact
          /\ walk.localSeen = Within[Size]
          /\ \A e \in view.edges : Origin(e) \in Within[Size] => Followed(e)
      BY <1>1, <2>1, ReachedAreExact
    <2>3. /\ walk.boundary \cap walk.localSeen = {}
          /\ \A n \in walk.boundary :
                \E e \in view.edges : e \notin CertainEdges /\ Origin(e) \in Within[Size] /\ Target(e) = n
      BY <1>1, <2>2 DEF WalkInv, WalkBoundary
    <2>4. ASSUME NEW n \in walk.boundary PROVE n \in boundary
      BY <1>4, <1>6, <2>2, <2>3
    <2>5. ASSUME NEW n \in boundary PROVE n \in walk.boundary
      BY <1>3, <1>4, <1>6, <2>2 DEF Followed
    <2> QED
      BY <2>2, <2>4, <2>5
  <1>8. walk.reached \in SUBSET Exact /\ walk.boundary \cap walk.localSeen = {}
    BY <1>1, ReachedAreExact DEF WalkInv, WalkBoundary
  <1> QED
    BY <1>2, <1>7, <1>8 DEF ImpactExact, Exact, Everywhere, Within, CertainArcs, CertainEdges, Size

\* A view that omits nothing has all that was given.
LEMMA LimitsAreDeclared ==
    ASSUME ViewSound, ImpactInv
    PROVE  LimitsDeclared
  <1> SUFFICES ASSUME phase = "complete", ~TopologyLimited PROVE LimitsDeclared
    BY DEF LimitsDeclared
  <1>1. WalkInv
    BY DEF ImpactInv, ImpactPhases
  <1>2. view.omitted = 0 /\ CertainEdges = view.edges
    BY DEF ViewSound, TopologyLimited, CertainEdges
  <1>3. view.edges = ToSet(given.candidates)
    BY <1>2 DEF ViewSound, Prepared
  <1>4. Within = Reachable(Arcs(query.direction, ToSet(given.candidates)), query.seeds)
    BY <1>2, <1>3 DEF Within, CertainArcs
  <1>5. walk.list = <<>> /\ walk.front = <<>> /\ walk.next = {}
    BY <1>1 DEF WalkInv, WalkEnds
  <1>6. walk.reached = Exact
    BY <1>1, <1>5, ReachedAreExact
  <1>7. /\ query.seeds \in SUBSET Nodes /\ Within[0] = query.seeds
        /\ \A i, j \in 0..Size : i <= j => Within[i] \in SUBSET Within[j]
    BY <1>1, WithinFacts DEF WalkInv, WalkTyped
  <1>8. query.seeds \in SUBSET Within[Size]
    <2>1. 0 \in 0..Size /\ Size \in 0..Size /\ 0 <= Size
      BY SizeIsNatural
    <2>2. Within[0] \in SUBSET Within[Size]
      BY <1>7, <2>1
    <2> QED
      BY <1>7, <2>2
  <1>9. ASSUME NEW r \in walk.reached PROVE r[1] \in Within[Size]
    BY <1>6 DEF Exact
  <1>10. ASSUME NEW n \in Within[Size], n \notin query.seeds
         PROVE  \E r \in walk.reached : r[1] = n
    <2>1. PICK K : K = {k \in 0..Size : n \in Within[k]}
      OBVIOUS
    <2>2. K \in SUBSET Nat /\ Size \in K
      BY <2>1, SizeIsNatural
    <2>3. PICK k \in K : \A m \in K : k <= m
      BY <2>2, LeastNatural
    <2>4. k \in 0..Size /\ n \in Within[k] /\ k # 0
      BY <1>7, <1>10, <2>1
    <2>5. k \in 1..Size /\ k - 1 \in 0..Size /\ ~(k <= k - 1)
      BY <2>4, SizeIsNatural
    <2>6. n \notin Within[k - 1]
      BY <2>1, <2>3, <2>5
    <2>7. PICK r : r = <<n, k>>
      OBVIOUS
    <2>8. r \in Within[Size] \X (1..Size) /\ r[1] = n /\ r[2] = k
      BY <2>5, <2>7
    <2>9. r \in Exact
      BY <2>4, <2>6, <2>8 DEF Exact
    <2> QED
      BY <1>6, <2>8, <2>9
  <1>11. {r[1] : r \in walk.reached} \cup query.seeds = Within[Size]
    BY <1>8, <1>9, <1>10
  <1> QED
    BY <1>4, <1>11 DEF LimitsDeclared, Everywhere, Size

-----------------------------------------------------------------------------
(* The pages of neighbours *)

\* What was served is the start of the listing, up to the cursor.
PagesInv ==
    phase \in {"pages", "served"} =>
        \E all : /\ all = Neighbors(query.direction, query.node)
                 /\ \E p \in 0..Len(all) :
                        /\ walk.served = SubSeq(all, 1, p)
                        /\ phase = "pages" => walk.cursor = IF p = 0 THEN NoNode ELSE all[p]
                        /\ phase = "served" => p = Len(all)

LEMMA NeighborsOrdered ==
    ASSUME ViewSound, NEW direction, NEW n, NEW all, all = Neighbors(direction, n)
    PROVE  /\ all \in Seq(Nodes)
           /\ \A i \in 1..Len(all) : all[i] \in Nat /\ all[i] # NoNode
           /\ \A i, j \in 1..Len(all) : i < j => all[i] < all[j]
  <1>1. PICK S : S = {Far(direction, e) : e \in {f \in view.edges : Near(direction, f) = n}}
    OBVIOUS
  <1>2. S \in SUBSET Nodes
    BY <1>1, EdgeFields DEF Far, ViewSound
  <1>3. S \in SUBSET Nat /\ IsFiniteSet(S)
    BY <1>2, NodesAssumption, FS_Subset
  <1>4. all = Ascending(S)
    BY <1>1 DEF Neighbors
  <1>5. Listed(all, S) /\ \A i, j \in 1..Len(all) : i < j => all[i] < all[j]
    BY <1>3, <1>4, NumbersInOrder
  <1>6. all \in Seq(Nodes)
    BY <1>2, <1>5 DEF Listed
  <1>7. \A i \in 1..Len(all) : all[i] \in Nodes
    BY <1>6
  <1> QED
    BY <1>5, <1>6, <1>7, NodesAssumption DEF NoNode

\* The cursor finds the place after which the listing goes on.
LEMMA PageStarts ==
    ASSUME NEW all \in Seq(Nodes), \A i \in 1..Len(all) : all[i] \in Nat /\ all[i] # NoNode,
           \A i, j \in 1..Len(all) : i < j => all[i] < all[j],
           NEW p \in 0..Len(all), NEW cursor, cursor = IF p = 0 THEN NoNode ELSE all[p]
    PROVE  PageStart(all, cursor) = p + 1
  <1>1. CASE p = 0
    BY <1>1 DEF PageStart
  <1>2. CASE p # 0
    <2>1. p \in 1..Len(all) /\ cursor = all[p] /\ cursor # NoNode
      BY <1>2
    <2>2. PICK I : I = {i \in 1..Len(all) : all[i] >= cursor}
      OBVIOUS
    <2>3. p \in I /\ I \in SUBSET Nat
      BY <2>1, <2>2
    <2>4. ASSUME NEW i \in I PROVE p <= i
      <3>1. i \in 1..Len(all) /\ all[i] >= all[p]
        BY <2>1, <2>2
      <3>2. i < p => all[i] < all[p]
        BY <2>1, <3>1
      <3> QED
        BY <2>1, <3>1, <3>2
    <2>5. \A x \in I : (\A y \in I : x <= y) => x = p
      BY <2>3, <2>4
    <2>6. (CHOOSE x \in I : \A y \in I : x <= y) = p
      BY <2>3, <2>4, <2>5
    <2>7. SelectInSeq(all, LAMBDA m : m >= cursor) = p
      BY <2>2, <2>3, <2>6 DEF SelectInSeq, Min
    <2> QED
      BY <2>1, <2>7 DEF PageStart
  <1> QED
    BY <1>1, <1>2

LEMMA NextPageServes ==
    ASSUME ViewSound, PagesInv, NextPage
    PROVE  PagesInv'
  <1>1. PICK all : all = Neighbors(query.direction, query.node)
    OBVIOUS
  <1>2. PICK p \in 0..Len(all) :
            /\ walk.served = SubSeq(all, 1, p)
            /\ walk.cursor = IF p = 0 THEN NoNode ELSE all[p]
    BY <1>1 DEF PagesInv, NextPage
  <1>3. /\ all \in Seq(Nodes)
        /\ \A i \in 1..Len(all) : all[i] \in Nat /\ all[i] # NoNode
        /\ \A i, j \in 1..Len(all) : i < j => all[i] < all[j]
    BY <1>1, NeighborsOrdered
  <1>4. PageStart(all, walk.cursor) = p + 1
    BY <1>2, <1>3, PageStarts
  <1>5. PICK end : end = IF p + PageSize <= Len(all) THEN p + PageSize ELSE Len(all)
    OBVIOUS
  <1>6. p \in Nat /\ Len(all) \in Nat /\ PageSize \in Nat /\ PageSize >= 1 /\ p <= Len(all)
    BY <1>3, PageAssumption
  <1>7. /\ end \in 0..Len(all) /\ p <= end /\ (end < Len(all) => end \in 1..Len(all))
        /\ end = IF (p + 1) + PageSize - 1 <= Len(all) THEN (p + 1) + PageSize - 1 ELSE Len(all)
    BY <1>5, <1>6
  <1>8. /\ walk' = [cursor |-> IF end < Len(all) THEN all[end] ELSE NoNode,
                    served |-> walk.served \o SubSeq(all, p + 1, end)]
        /\ phase' = (IF end < Len(all) THEN "pages" ELSE "served")
        /\ UNCHANGED <<given, view, query>>
    BY <1>1, <1>4, <1>7 DEF NextPage
  <1>9. walk'.served = SubSeq(all, 1, end)
    <2>1. 1 \in 1..(Len(all) + 1) /\ p \in (1 - 1)..Len(all) /\ end \in p..Len(all)
      BY <1>6, <1>7
    <2>2. SubSeq(all, 1, p) \o SubSeq(all, p + 1, end) = SubSeq(all, 1, end)
      BY <1>3, <2>1, ConcatAdjacentSubSeq
    <2> QED
      BY <1>2, <1>8, <2>2
  <1>10. all = Neighbors(query.direction, query.node)'
    BY <1>1, <1>8 DEF Neighbors, Near, Far
  <1>11. /\ phase' = "pages" => walk'.cursor = IF end = 0 THEN NoNode ELSE all[end]
         /\ phase' = "served" => end = Len(all)
    BY <1>6, <1>7, <1>8
  <1>12. \E q \in 0..Len(all) :
            /\ walk'.served = SubSeq(all, 1, q)
            /\ phase' = "pages" => walk'.cursor = IF q = 0 THEN NoNode ELSE all[q]
            /\ phase' = "served" => q = Len(all)
    BY <1>7, <1>9, <1>11, Zenon
  <1> QED
    BY <1>10, <1>12, Zenon DEF PagesInv

LEMMA PagesInvInit == GraphInit => PagesInv
  BY DEF GraphInit, PagesInv

LEMMA PagesInvNext == ViewSound /\ PagesInv /\ [GraphNext]_graphVars => PagesInv'
  <1> SUFFICES ASSUME ViewSound, PagesInv, [GraphNext]_graphVars PROVE PagesInv'
    OBVIOUS
  <1>1. CASE NextPage
    BY <1>1, NextPageServes
  <1>2. ASSUME NEW n \in Nodes, NEW d \in Directions, BeginPages(n, d) PROVE PagesInv'
    <2>1. /\ phase' = "pages" /\ walk'.cursor = NoNode /\ walk'.served = <<>>
          /\ query'.direction = d /\ query'.node = n /\ UNCHANGED <<given, view>>
      BY <1>2 DEF BeginPages
    <2>2. PICK all : all = Neighbors(d, n)
      OBVIOUS
    <2>3. all = Neighbors(query.direction, query.node)'
      BY <2>1, <2>2 DEF Neighbors, Near, Far
    <2>4. all \in Seq(Nodes)
      BY <2>2, NeighborsOrdered
    <2>5. 0 \in 0..Len(all) /\ SubSeq(all, 1, 0) = <<>>
      BY <2>4, SubSeqEmpty
    <2>6. \E p \in 0..Len(all) :
            /\ walk'.served = SubSeq(all, 1, p)
            /\ phase' = "pages" => walk'.cursor = IF p = 0 THEN NoNode ELSE all[p]
            /\ phase' = "served" => p = Len(all)
      BY <2>1, <2>5
    <2> QED
      BY <2>3, <2>6, Zenon DEF PagesInv
  <1>3. CASE \/ Normalize
             \/ BeginAnalyze \/ EnterRoot \/ FollowEdge \/ LeaveFrame \/ EndAnalyze
             \/ \E seeds \in SUBSET Nodes, d \in Directions, l \in ImpactLimits : BeginImpact(seeds, d, l)
             \/ TakeNode \/ ScanEdge \/ Deepen \/ StopImpact \/ EndImpact
    <2>1. phase' \notin {"pages", "served"}
      BY <1>3 DEF Normalize, NormalizeOutcome, BeginAnalyze, EnterRoot, FollowEdge, LeaveFrame,
                  EndAnalyze, BeginImpact, TakeNode, ScanEdge, Deepen, StopImpact, EndImpact
    <2> QED
      BY <2>1 DEF PagesInv
  <1>4. CASE UNCHANGED graphVars
    <2>1. phase' = phase /\ walk' = walk /\ query' = query /\ view' = view
      BY <1>4 DEF graphVars
    <2>2. Neighbors(query.direction, query.node)' = Neighbors(query.direction, query.node)
      BY <2>1 DEF Neighbors, Near, Far
    <2> QED
      BY <2>1, <2>2 DEF PagesInv
  <1> QED
    BY <1>1, <1>2, <1>3, <1>4 DEF GraphNext

LEMMA PagesAreComplete ==
    ASSUME ViewSound, PagesInv
    PROVE  PagesComplete
  <1> SUFFICES ASSUME phase = "served" PROVE walk.served = Neighbors(query.direction, query.node)
    BY DEF PagesComplete
  <1>1. PICK all : /\ all = Neighbors(query.direction, query.node)
                   /\ \E p \in 0..Len(all) : walk.served = SubSeq(all, 1, p) /\ p = Len(all)
    BY DEF PagesInv
  <1>2. all \in Seq(Nodes)
    BY <1>1, NeighborsOrdered
  <1>3. walk.served = all
    BY <1>1, <1>2, SubSeqFull
  <1> QED
    BY <1>1, <1>3

-----------------------------------------------------------------------------
(* Every query is answered for what it asks *)

\* What the queries rest on: the view is sound, the breadth-first search has
\* seen what it should, and the pages served are the start of the listing.
QueryInv == ViewSound /\ ImpactInv /\ PagesInv

\* Whatever the graph, the limits and the order of the scan, a complete
\* impact is what is reachable at its least distance, a truncated one reports
\* no more, a result that declares no limit is right for what was given, and
\* the pages of a listing together are the listing.
THEOREM AlwaysQueriesExact == GraphSpec => []QueriesExact
  <1>1. GraphInit => QueryInv
    BY ViewSoundInit, ImpactInvInit, PagesInvInit DEF QueryInv
  <1>2. QueryInv /\ [GraphNext]_graphVars => QueryInv'
    BY ViewSoundNext, ImpactInvNext, PagesInvNext DEF QueryInv
  <1>3. QueryInv => QueriesExact
    BY ImpactIsExact, LimitsAreDeclared, PagesAreComplete DEF QueryInv, QueriesExact
  <1> QED
    BY <1>1, <1>2, <1>3, PTL DEF GraphSpec

-----------------------------------------------------------------------------
(* Mutual reachability over the certain edges *)

DependencyArcs == Arcs("dependencies", CertainEdges)
From(x) == Everywhere(Reachable(DependencyArcs, {x}))
Reaches(x, y) == y \in From(x)
Class(x) == {y \in given.local : Reaches(x, y) /\ Reaches(y, x)}

LEMMA CertainEnds ==
    ASSUME ViewSound
    PROVE  /\ given.local \in SUBSET Nodes /\ NoNode \notin Nodes
           /\ CertainEdges \in SUBSET EdgeSpace(Nodes) /\ CertainEdges \in SUBSET view.edges
           /\ \A e \in CertainEdges : /\ e.from \in given.local /\ e.to \in given.local
                                      /\ e.from \in Nodes /\ e.to \in Nodes
           /\ \A A, y : y \in Over(DependencyArcs, A) <=>
                            \E e \in CertainEdges : e.from \in A /\ e.to = y
           /\ DependencyArcs \in SUBSET (Nodes \X Nodes)
  <1>1. given.local \in SUBSET Nodes
    BY InputsAssumption DEF ViewSound
  <1>2. CertainEdges \in SUBSET EdgeSpace(Nodes) /\ CertainEdges \in SUBSET view.edges
    BY DEF CertainEdges, ViewSound
  <1>3. \A e \in CertainEdges : e.from \in given.local /\ e.to \in given.local
    BY DEF CertainEdges, Eligible, LocalVertex
  <1>4. \A A, y : y \in Over(DependencyArcs, A) <=>
            \E e \in CertainEdges : Near("dependencies", e) \in A /\ Far("dependencies", e) = y
    BY <1>2, ArcsOfEdges DEF DependencyArcs
  <1>5. DependencyArcs \in SUBSET (Nodes \X Nodes)
    BY <1>2, ArcsOfEdges DEF DependencyArcs
  <1>6. \A e : Near("dependencies", e) = e.from /\ Far("dependencies", e) = e.to
    BY DEF Near, Far
  <1>7. NoNode \notin Nodes
    BY NodesAssumption DEF NoNode
  <1> QED
    BY <1>1, <1>2, <1>3, <1>4, <1>5, <1>6, <1>7

\* What is reached from a node is the least set that has it and is closed.
LEMMA FromLeast ==
    ASSUME ViewSound, NEW x \in Nodes, NEW T, x \in T,
           \A e \in CertainEdges : e.from \in T => e.to \in T
    PROVE  From(x) \in SUBSET T
  <1>1. PICK W : W = Reachable(DependencyArcs, {x})
    OBVIOUS
  <1>2. \A y : y \in Over(DependencyArcs, T) => y \in T
    BY CertainEnds
  <1>3. Closed(DependencyArcs, T)
    BY <1>2 DEF Closed
  <1>4. Inside({x}, T)
    BY DEF Inside
  <1>5. Inside(W[Size], T)
    BY <1>1, <1>3, <1>4, ReachableLeast
  <1>6. From(x) = W[Size]
    BY <1>1 DEF From, Everywhere, Size
  <1> QED
    BY <1>5, <1>6 DEF Inside

LEMMA FromClosed ==
    ASSUME ViewSound, NEW x \in Nodes
    PROVE  /\ Reaches(x, x) /\ From(x) \in SUBSET Nodes
           /\ \A e \in CertainEdges : Reaches(x, e.from) => Reaches(x, e.to)
  <1>1. PICK W : W = Reachable(DependencyArcs, {x})
    OBVIOUS
  <1>2. From(x) = W[Size]
    BY <1>1 DEF From, Everywhere, Size
  <1>3. {x} \in SUBSET Nodes /\ DependencyArcs \in SUBSET (Nodes \X Nodes)
    BY CertainEnds
  <1>4. W[0] = {x}
    BY <1>1, ReachableSteps
  <1>5. 0 \in 0..Size /\ Size \in 0..Size /\ 0 <= Size
    BY SizeIsNatural
  <1>6. \A i, j \in 0..Size : i <= j => W[i] \in SUBSET W[j]
    BY <1>1, ReachableGrows
  <1>7. W[0] \in SUBSET W[Size]
    BY <1>5, <1>6
  <1>8. \A k \in 0..Size : W[k] \in SUBSET Nodes
    BY <1>1, <1>3, ReachableNodes
  <1>9. Closed(DependencyArcs, W[Size])
    BY <1>1, <1>3, ReachableClosed
  <1>10. ASSUME NEW e \in CertainEdges, e.from \in W[Size] PROVE e.to \in W[Size]
    <2>1. e.to \in Over(DependencyArcs, W[Size])
      BY <1>10, CertainEnds
    <2> QED
      BY <1>9, <2>1 DEF Closed
  <1> QED
    BY <1>2, <1>4, <1>5, <1>7, <1>8, <1>10 DEF Reaches

LEMMA ReachesTransitive ==
    ASSUME ViewSound
    PROVE  \A x, y, z \in Nodes : Reaches(x, y) /\ Reaches(y, z) => Reaches(x, z)
  <1> SUFFICES ASSUME NEW x \in Nodes, NEW y \in Nodes, NEW z \in Nodes, Reaches(x, y), Reaches(y, z)
               PROVE  Reaches(x, z)
    OBVIOUS
  <1>1. PICK T : T = From(x)
    OBVIOUS
  <1>2. y \in T
    BY <1>1 DEF Reaches
  <1>3. \A e \in CertainEdges : e.from \in T => e.to \in T
    BY <1>1, FromClosed DEF Reaches
  <1>4. From(y) \in SUBSET T
    BY <1>2, <1>3, FromLeast
  <1> QED
    BY <1>1, <1>4 DEF Reaches

\* Whoever reaches another node does so by a first edge.
LEMMA FirstEdge ==
    ASSUME ViewSound, NEW x \in Nodes, NEW z \in Nodes, Reaches(x, z), x # z
    PROVE  \E e \in CertainEdges : e.from = x /\ Reaches(e.to, z)
  <1>1. PICK T : T = {x} \cup {y \in Nodes : \E e \in CertainEdges : e.from = x /\ Reaches(e.to, y)}
    OBVIOUS
  <1>2. ASSUME NEW f \in CertainEdges, f.from \in T PROVE f.to \in T
    <2>1. f.to \in Nodes /\ f.from \in Nodes
      BY CertainEnds
    <2>2. CASE f.from = x
      <3>1. Reaches(f.to, f.to)
        BY <2>1, FromClosed
      <3> QED
        BY <1>1, <2>1, <2>2, <3>1
    <2>3. CASE f.from # x
      <3>1. PICK e \in CertainEdges : e.from = x /\ Reaches(e.to, f.from)
        BY <1>1, <1>2, <2>3
      <3>2. e.to \in Nodes
        BY CertainEnds
      <3>3. Reaches(e.to, f.to)
        BY <3>1, <3>2, FromClosed
      <3> QED
        BY <1>1, <2>1, <3>1, <3>3
    <2> QED
      BY <2>2, <2>3
  <1>3. x \in T
    BY <1>1
  <1>4. From(x) \in SUBSET T
    BY <1>2, <1>3, FromLeast
  <1>5. z \in T
    BY <1>4 DEF Reaches
  <1> QED
    BY <1>1, <1>5

LEMMA Classes ==
    ASSUME ViewSound
    PROVE  \A x \in given.local : x \in Class(x) /\ \A y \in Class(x) : Class(y) = Class(x)
  <1> SUFFICES ASSUME NEW x \in given.local
               PROVE  x \in Class(x) /\ \A y \in Class(x) : Class(y) = Class(x)
    OBVIOUS
  <1>1. given.local \in SUBSET Nodes
    BY CertainEnds
  <1>2. x \in Class(x)
    BY <1>1, FromClosed DEF Class
  <1>3. ASSUME NEW y \in Class(x) PROVE Class(y) = Class(x)
    <2>1. y \in given.local /\ Reaches(x, y) /\ Reaches(y, x)
      BY DEF Class
    <2>2. \A z \in given.local : Reaches(x, z) <=> Reaches(y, z)
      BY <1>1, <2>1, ReachesTransitive
    <2>3. \A z \in given.local : Reaches(z, x) <=> Reaches(z, y)
      BY <1>1, <2>1, ReachesTransitive
    <2> QED
      BY <2>2, <2>3 DEF Class
  <1> QED
    BY <1>2, <1>3

-----------------------------------------------------------------------------
(* The depth-first search *)

Frames ==
    [id : Nodes, parent : Nodes \cup {NoNode}, lastTarget : Nodes \cup {NoNode},
     rest : Seq(EdgeSpace(Nodes))]
Searches ==
    [tick : Nat, index : [Nodes -> Nat], low : [Nodes -> Nat], stack : Seq(Nodes),
     frames : Seq(Frames), components : SUBSET SUBSET Nodes, cycles : SUBSET SUBSET Nodes]

\* Nodes on the stack, nodes that were left for good, and the frames by depth.
Open(s, x) == x \in ToSet(s.stack)
Done(s, x) == s.index[x] # 0 /\ ~Open(s, x)
Deep(s) == Len(s.frames)
Grey(s, k) == s.frames[k].id
Waiting(s, e) == \E k \in 1..Deep(s) : Grey(s, k) = e.from /\ e \in ToSet(s.frames[k].rest)

\* Nodes are numbered as they are met, and pushed in that order.
Numbered(s) ==
    /\ \A x \in Nodes : s.index[x] <= s.tick /\ (s.index[x] # 0 => x \in given.local)
    /\ \A i \in 1..Len(s.stack) : s.index[s.stack[i]] # 0
    /\ \A i, j \in 1..Len(s.stack) : i < j => s.index[s.stack[i]] < s.index[s.stack[j]]

\* The frames are a path, whose nodes are on the stack in that order.
Path(s) ==
    /\ \A k \in 1..Deep(s) : /\ Open(s, Grey(s, k))
                             /\ s.frames[k].parent = IF k = 1 THEN NoNode ELSE Grey(s, k - 1)
    /\ \A k, m \in 1..Deep(s) : k < m => /\ s.index[Grey(s, k)] < s.index[Grey(s, m)]
                                         /\ Reaches(Grey(s, k), Grey(s, m))
Bottom(s) ==
    /\ s.frames = <<>> => s.stack = <<>>
    /\ s.frames # <<>> => s.stack # <<>> /\ Grey(s, 1) = s.stack[1]

\* What waits in a frame are edges of its node.
EdgesFrom(x) == {e \in view.edges : e.from = x}
RestOwn(s) ==
    \A k \in 1..Deep(s) : \A e \in ToSet(s.frames[k].rest) : e \in view.edges /\ e.from = Grey(s, k)

\* An edge that need not be followed again leads to a node that was met, and
\* no lower than its frame.
Repeated(s) ==
    \A k \in 1..Deep(s) : s.frames[k].lastTarget # NoNode =>
        /\ s.index[s.frames[k].lastTarget] # 0
        /\ Open(s, s.frames[k].lastTarget) => s.low[Grey(s, k)] <= s.index[s.frames[k].lastTarget]

\* Every edge out of the stack waits in its frame or was followed.
Met(s) ==
    \A e \in CertainEdges : Open(s, e.from) /\ ~Waiting(s, e) => s.index[e.to] # 0

\* A frame reaches what was met since, and what is on the stack an earlier
\* frame or its own.
Descends(s) ==
    \A k \in 1..Deep(s), x \in Nodes :
        Open(s, x) /\ s.index[Grey(s, k)] <= s.index[x] => Reaches(Grey(s, k), x)
Ascends(s) ==
    \A x \in Nodes : Open(s, x) =>
        \E k \in 1..Deep(s) : s.index[Grey(s, k)] <= s.index[x] /\ Reaches(x, Grey(s, k))

\* The low number is that of a node on the stack which is reached.
LowReached(s) ==
    \A x \in Nodes : Open(s, x) =>
        \E y \in Nodes : Open(s, y) /\ s.low[x] = s.index[y] /\ s.index[y] <= s.index[x] /\ Reaches(x, y)

\* What was met since a frame and before the next one leads no lower on the
\* stack than the low number of the frame.
Segment(s, k, x) ==
    s.index[Grey(s, k)] <= s.index[x] /\ (k < Deep(s) => s.index[x] < s.index[Grey(s, k + 1)])
LowBounds(s) ==
    \A k \in 1..Deep(s), e \in CertainEdges :
        Open(s, e.from) /\ Segment(s, k, e.from) /\ ~Waiting(s, e) /\ Open(s, e.to) =>
            s.low[Grey(s, k)] <= s.index[e.to]

\* What was left for good leads nowhere else, and is the components so far.
DoneClosed(s) == \A e \in CertainEdges : Done(s, e.from) => Done(s, e.to)
Components(s) ==
    /\ \A x \in Nodes : Done(s, x) <=> \E K \in s.components : x \in K
    /\ \A K \in s.components : K # {} /\ \A x \in K : K = Class(x)
    /\ s.cycles = {K \in s.components : Cyclic(K)}

SearchOk(s) ==
    /\ s \in Searches /\ Numbered(s) /\ Path(s) /\ Bottom(s) /\ RestOwn(s) /\ Repeated(s) /\ Met(s)
    /\ Descends(s) /\ Ascends(s) /\ LowReached(s) /\ LowBounds(s) /\ DoneClosed(s) /\ Components(s)

LEMMA SearchTypes ==
    ASSUME NEW s \in Searches
    PROVE  /\ s.tick \in Nat /\ s.index \in [Nodes -> Nat] /\ s.low \in [Nodes -> Nat]
           /\ s.stack \in Seq(Nodes) /\ s.frames \in Seq(Frames) /\ Deep(s) \in Nat
           /\ s.components \in SUBSET SUBSET Nodes /\ s.cycles \in SUBSET SUBSET Nodes
           /\ \A k \in 1..Deep(s) :
                /\ s.frames[k] \in Frames /\ Grey(s, k) \in Nodes
                /\ s.frames[k].parent \in Nodes \cup {NoNode}
                /\ s.frames[k].lastTarget \in Nodes \cup {NoNode}
                /\ s.frames[k].rest \in Seq(EdgeSpace(Nodes))
           /\ \A i \in 1..Len(s.stack) : s.stack[i] \in Nodes
           /\ \A x : Open(s, x) <=> \E i \in 1..Len(s.stack) : s.stack[i] = x
           /\ \A x : Open(s, x) => x \in Nodes
           /\ Len(s.stack) \in Nat
  <1>1. /\ s.tick \in Nat /\ s.index \in [Nodes -> Nat] /\ s.low \in [Nodes -> Nat]
        /\ s.stack \in Seq(Nodes) /\ s.frames \in Seq(Frames)
        /\ s.components \in SUBSET SUBSET Nodes /\ s.cycles \in SUBSET SUBSET Nodes
    BY DEF Searches
  <1>2. Deep(s) \in Nat /\ Len(s.stack) \in Nat
    BY <1>1 DEF Deep
  <1>3. ASSUME NEW k \in 1..Deep(s)
        PROVE  /\ s.frames[k] \in Frames /\ Grey(s, k) \in Nodes
               /\ s.frames[k].parent \in Nodes \cup {NoNode}
               /\ s.frames[k].lastTarget \in Nodes \cup {NoNode}
               /\ s.frames[k].rest \in Seq(EdgeSpace(Nodes))
    <2>1. s.frames[k] \in Frames
      BY <1>1 DEF Deep
    <2> QED
      BY <2>1 DEF Frames, Grey
  <1>4. \A i \in 1..Len(s.stack) : s.stack[i] \in Nodes
    BY <1>1
  <1>5. \A x : Open(s, x) <=> \E i \in 1..Len(s.stack) : s.stack[i] = x
    BY <1>1 DEF Open, ToSet
  <1>6. \A x : Open(s, x) => x \in Nodes
    BY <1>4, <1>5
  <1> QED
    BY <1>1, <1>2, <1>3, <1>4, <1>5, <1>6

\* The search starts from nothing.
LEMMA EmptySearchOk ==
    ASSUME ViewSound
    PROVE  SearchOk(NoSearch)
  <1>1. NoSearch \in Searches
    BY DEF NoSearch, Zero, Searches
  <1>2. /\ Deep(NoSearch) = 0 /\ Len(NoSearch.stack) = 0 /\ NoSearch.frames = <<>>
        /\ NoSearch.stack = <<>> /\ NoSearch.components = {} /\ NoSearch.cycles = {}
        /\ NoSearch.tick = 0 /\ \A x \in Nodes : NoSearch.index[x] = 0
    BY DEF NoSearch, Zero, Deep
  <1>3. \A x : ~Open(NoSearch, x)
    BY <1>1, <1>2, SearchTypes
  <1>4. \A x \in Nodes : ~Done(NoSearch, x)
    BY <1>2 DEF Done
  <1>5. Numbered(NoSearch)
    BY <1>2 DEF Numbered
  <1>6. Path(NoSearch) /\ Bottom(NoSearch) /\ RestOwn(NoSearch) /\ Repeated(NoSearch)
    BY <1>2 DEF Path, Bottom, RestOwn, Repeated
  <1>7. Met(NoSearch) /\ Descends(NoSearch) /\ Ascends(NoSearch) /\ LowReached(NoSearch)
    BY <1>3 DEF Met, Descends, Ascends, LowReached
  <1>8. LowBounds(NoSearch)
    BY <1>3 DEF LowBounds
  <1>9. DoneClosed(NoSearch)
    BY <1>4, CertainEnds DEF DoneClosed
  <1>10. Components(NoSearch)
    BY <1>2, <1>4 DEF Components
  <1> QED
    BY <1>1, <1>5, <1>6, <1>7, <1>8, <1>9, <1>10 DEF SearchOk

LEMMA LowNumbers ==
    ASSUME NEW s, SearchOk(s)
    PROVE  \A x \in Nodes : Open(s, x) => s.index[x] # 0 /\ s.low[x] <= s.index[x]
  <1> SUFFICES ASSUME NEW x \in Nodes, Open(s, x) PROVE s.index[x] # 0 /\ s.low[x] <= s.index[x]
    OBVIOUS
  <1>1. s \in Searches /\ Numbered(s) /\ LowReached(s)
    BY DEF SearchOk
  <1>2. PICK i \in 1..Len(s.stack) : s.stack[i] = x
    BY <1>1, SearchTypes
  <1>3. s.index[x] # 0
    BY <1>1, <1>2 DEF Numbered
  <1>4. PICK y \in Nodes : s.low[x] = s.index[y] /\ s.index[y] <= s.index[x]
    BY <1>1 DEF LowReached
  <1> QED
    BY <1>3, <1>4

\* The search enters a node: it is numbered, pushed, and has a frame in which
\* all its edges wait.  The edge that led there need not wait any more.
Entered(s, s1, n) ==
    /\ s1 \in Searches /\ n \in given.local /\ s.index[n] = 0
    /\ s1.tick = s.tick + 1
    /\ s1.index = [s.index EXCEPT ![n] = s.tick + 1]
    /\ s1.low = [s.low EXCEPT ![n] = s.tick + 1]
    /\ s1.stack = Append(s.stack, n)
    /\ Deep(s1) = Deep(s) + 1
    /\ \A k \in 1..Deep(s) :
        /\ Grey(s1, k) = Grey(s, k) /\ s1.frames[k].parent = s.frames[k].parent
        /\ s1.frames[k].lastTarget \in {s.frames[k].lastTarget, n}
        /\ ToSet(s1.frames[k].rest) \in SUBSET ToSet(s.frames[k].rest)
        /\ \A e \in ToSet(s.frames[k].rest) : e \in ToSet(s1.frames[k].rest) \/ e.to = n
    /\ Grey(s1, Deep(s1)) = n /\ s1.frames[Deep(s1)].lastTarget = NoNode
    /\ s1.frames[Deep(s1)].parent = IF Deep(s) = 0 THEN NoNode ELSE Grey(s, Deep(s))
    /\ ToSet(s1.frames[Deep(s1)].rest) = EdgesFrom(n)
    /\ Deep(s) # 0 => Reaches(Grey(s, Deep(s)), n)
    /\ s1.components = s.components /\ s1.cycles = s.cycles

LEMMA EnteredOk ==
    ASSUME ViewSound, NEW s, SearchOk(s), NEW s1, NEW n, Entered(s, s1, n)
    PROVE  SearchOk(s1)
  <1>1. /\ s \in Searches /\ Numbered(s) /\ Path(s) /\ Bottom(s) /\ RestOwn(s) /\ Repeated(s) /\ Met(s)
        /\ Descends(s) /\ Ascends(s) /\ LowReached(s) /\ LowBounds(s) /\ DoneClosed(s) /\ Components(s)
    BY DEF SearchOk
  <1>2. /\ s1 \in Searches /\ n \in given.local /\ s.index[n] = 0
        /\ s1.tick = s.tick + 1
        /\ s1.index = [s.index EXCEPT ![n] = s.tick + 1]
        /\ s1.low = [s.low EXCEPT ![n] = s.tick + 1]
        /\ s1.stack = Append(s.stack, n)
        /\ s1.components = s.components /\ s1.cycles = s.cycles
    BY DEF Entered
  <1>3. PICK d, t : d = Deep(s) /\ t = s.tick + 1
    OBVIOUS
  <1>4. /\ Deep(s1) = d + 1 /\ Grey(s1, d + 1) = n /\ s1.frames[d + 1].lastTarget = NoNode
        /\ s1.frames[d + 1].parent = IF d = 0 THEN NoNode ELSE Grey(s, d)
        /\ ToSet(s1.frames[d + 1].rest) = EdgesFrom(n)
        /\ d # 0 => Reaches(Grey(s, d), n)
        /\ \A k \in 1..d :
            /\ Grey(s1, k) = Grey(s, k) /\ s1.frames[k].parent = s.frames[k].parent
            /\ s1.frames[k].lastTarget \in {s.frames[k].lastTarget, n}
            /\ ToSet(s1.frames[k].rest) \in SUBSET ToSet(s.frames[k].rest)
            /\ \A e \in ToSet(s.frames[k].rest) : e \in ToSet(s1.frames[k].rest) \/ e.to = n
    BY <1>3 DEF Entered
  <1>5. d \in Nat /\ t \in Nat /\ n \in Nodes /\ Len(s.stack) \in Nat /\ n # NoNode
    BY <1>1, <1>2, <1>3, SearchTypes, CertainEnds
  <1>6. /\ \A x \in Nodes : x # n => s1.index[x] = s.index[x] /\ s1.low[x] = s.low[x]
        /\ s1.index[n] = t /\ s1.low[n] = t
    BY <1>1, <1>2, <1>3, <1>5, SearchTypes
  <1>7. \A x \in Nodes : s.index[x] \in Nat /\ s.low[x] \in Nat /\ s.index[x] < t
    BY <1>1, <1>3, <1>5, SearchTypes DEF Numbered
  <1>8. \A x \in Nodes : Open(s, x) => s.index[x] # 0 /\ s.low[x] <= s.index[x] /\ x # n
    BY <1>2, LowNumbers
  <1>9. \A x : Open(s1, x) <=> Open(s, x) \/ x = n
    <2>1. /\ Len(s1.stack) = Len(s.stack) + 1 /\ s1.stack[Len(s.stack) + 1] = n
          /\ \A i \in 1..Len(s.stack) : s1.stack[i] = s.stack[i]
      BY <1>1, <1>2, <1>5, SearchTypes
    <2>2. \A x : Open(s, x) <=> \E i \in 1..Len(s.stack) : s.stack[i] = x
      BY <1>1, SearchTypes
    <2>3. \A x : Open(s1, x) <=> \E i \in 1..Len(s1.stack) : s1.stack[i] = x
      BY <1>2, SearchTypes
    <2> QED
      BY <1>5, <2>1, <2>2, <2>3
  <1>10. \A k \in 1..d : Grey(s, k) \in Nodes /\ Open(s, Grey(s, k)) /\ Grey(s, k) # n
    BY <1>1, <1>3, <1>8, SearchTypes DEF Path
  <1>10a. \A k \in 1..d : /\ s1.low[Grey(s1, k)] = s.low[Grey(s, k)] /\ s.low[Grey(s, k)] < t
                         /\ s.low[Grey(s, k)] \in Nat
    <2> SUFFICES ASSUME NEW k \in 1..d
                 PROVE  /\ s1.low[Grey(s1, k)] = s.low[Grey(s, k)] /\ s.low[Grey(s, k)] < t
                        /\ s.low[Grey(s, k)] \in Nat
      OBVIOUS
    <2>1. PICK x \in Nodes : x = Grey(s, k) /\ x = Grey(s1, k) /\ x # n /\ Open(s, x)
      BY <1>4, <1>10
    <2>2. s1.low[x] = s.low[x]
      BY <1>6, <2>1
    <2>3. s.low[x] <= s.index[x] /\ s.index[x] < t /\ s.index[x] \in Nat /\ s.low[x] \in Nat
      BY <1>7, <1>8, <2>1
    <2>4. s.low[x] < t
      BY <1>5, <2>3
    <2> QED
      BY <2>1, <2>2, <2>3, <2>4
  <1>11. Numbered(s1)
    <2>1. /\ Len(s1.stack) = Len(s.stack) + 1 /\ s1.stack[Len(s.stack) + 1] = n
          /\ \A i \in 1..Len(s.stack) : s1.stack[i] = s.stack[i]
      BY <1>1, <1>2, <1>5, SearchTypes
    <2>2. \A i \in 1..Len(s.stack) : s.stack[i] \in Nodes /\ Open(s, s.stack[i])
      BY <1>1, SearchTypes
    <2>3. \A i \in 1..Len(s.stack) : s1.index[s1.stack[i]] = s.index[s.stack[i]]
      BY <1>6, <1>8, <2>1, <2>2
    <2>4. \A x \in Nodes : s1.index[x] <= s1.tick /\ (s1.index[x] # 0 => x \in given.local)
      BY <1>1, <1>2, <1>3, <1>5, <1>6, <1>7 DEF Numbered
    <2>5. ASSUME NEW i \in 1..Len(s1.stack) PROVE s1.index[s1.stack[i]] # 0
      <3>1. CASE i \in 1..Len(s.stack)
        BY <1>1, <2>3, <3>1 DEF Numbered
      <3>2. CASE i = Len(s.stack) + 1
        BY <1>3, <1>5, <1>6, <1>7, <2>1, <3>2
      <3> QED
        BY <1>5, <2>1, <2>5, <3>1, <3>2
    <2>6. ASSUME NEW i \in 1..Len(s1.stack), NEW j \in 1..Len(s1.stack), i < j
          PROVE  s1.index[s1.stack[i]] < s1.index[s1.stack[j]]
      <3>1. i \in 1..Len(s.stack)
        BY <1>5, <2>1, <2>6
      <3>2. CASE j \in 1..Len(s.stack)
        BY <1>1, <2>3, <2>6, <3>1, <3>2 DEF Numbered
      <3>3. CASE j = Len(s.stack) + 1
        BY <1>6, <1>7, <2>1, <2>2, <2>3, <3>1, <3>3
      <3> QED
        BY <1>5, <2>1, <2>6, <3>2, <3>3
    <2> QED
      BY <2>4, <2>5, <2>6 DEF Numbered
  <1>12. Path(s1)
    <2>1. ASSUME NEW k \in 1..(d + 1)
          PROVE  /\ Open(s1, Grey(s1, k))
                 /\ s1.frames[k].parent = IF k = 1 THEN NoNode ELSE Grey(s1, k - 1)
      <3>1. CASE k \in 1..d
        <4>1. k # 1 => k - 1 \in 1..d
          BY <1>5, <3>1
        <4> QED
          BY <1>1, <1>3, <1>4, <1>9, <3>1, <4>1 DEF Path
      <3>2. CASE k = d + 1
        <4>1. k = 1 <=> d = 0
          BY <1>5, <3>2
        <4>2. d # 0 => d \in 1..d /\ k - 1 = d
          BY <1>5, <3>2
        <4> QED
          BY <1>4, <1>9, <3>2, <4>1, <4>2
      <3> QED
        BY <1>5, <3>1, <3>2
    <2>2. ASSUME NEW k \in 1..(d + 1), NEW m \in 1..(d + 1), k < m
          PROVE  /\ s1.index[Grey(s1, k)] < s1.index[Grey(s1, m)]
                 /\ Reaches(Grey(s1, k), Grey(s1, m))
      <3>1. k \in 1..d
        BY <1>5, <2>2
      <3>2. CASE m \in 1..d
        BY <1>1, <1>3, <1>4, <1>6, <1>10, <2>2, <3>1, <3>2 DEF Path
      <3>3. CASE m = d + 1
        <4>1. d \in 1..d /\ (k = d \/ k < d)
          BY <1>5, <3>1
        <4>2. Reaches(Grey(s, k), n)
          <5>1. CASE k = d
            BY <1>4, <4>1, <5>1
          <5>2. CASE k < d
            <6>1. Reaches(Grey(s, k), Grey(s, d)) /\ Reaches(Grey(s, d), n)
              BY <1>1, <1>3, <1>4, <3>1, <4>1, <5>2 DEF Path
            <6> QED
              BY <1>5, <1>10, <3>1, <4>1, <6>1, ReachesTransitive
          <5> QED
            BY <4>1, <5>1, <5>2
        <4> QED
          BY <1>4, <1>6, <1>7, <1>10, <3>1, <3>3, <4>2
      <3> QED
        BY <1>5, <3>2, <3>3
    <2> QED
      BY <1>4, <2>1, <2>2 DEF Path
  <1>13. Bottom(s1)
    <2>1. s1.frames # <<>> /\ s1.stack # <<>>
      <3>1. Len(s1.frames) # 0 /\ Len(s1.stack) # 0
        <4>1. Len(s1.stack) = Len(s.stack) + 1
          BY <1>1, <1>2, <1>5, SearchTypes
        <4> QED
          BY <1>4, <1>5, <4>1 DEF Deep
      <3>2. Len(<<>>) = 0
        BY EmptySeq
      <3> QED
        BY <3>1, <3>2
    <2>2. CASE d = 0
      <3>1. s.frames = <<>>
        <4>1. s.frames \in Seq(Frames) /\ Len(s.frames) = 0
          BY <1>1, <1>3, <2>2, SearchTypes DEF Deep
        <4> QED
          BY <4>1, EmptySeq
      <3>2. s.stack = <<>>
        BY <1>1, <3>1 DEF Bottom
      <3>3. s1.stack[1] = n
        BY <1>2, <3>2
      <3> QED
        BY <1>4, <2>1, <2>2, <3>3 DEF Bottom
    <2>3. CASE d # 0
      <3>1. s.frames # <<>> /\ 1 \in 1..d
        BY <1>3, <1>5, <2>3 DEF Deep
      <3>2. s.stack # <<>> /\ Grey(s, 1) = s.stack[1]
        BY <1>1, <3>1 DEF Bottom
      <3>3. s1.stack[1] = s.stack[1]
        BY <1>1, <1>2, <1>5, <3>2, SearchTypes
      <3> QED
        BY <1>4, <2>1, <3>1, <3>2, <3>3 DEF Bottom
    <2> QED
      BY <2>2, <2>3
  <1>14. Repeated(s1)
    <2> SUFFICES ASSUME NEW k \in 1..(d + 1), s1.frames[k].lastTarget # NoNode
                 PROVE  /\ s1.index[s1.frames[k].lastTarget] # 0
                        /\ Open(s1, s1.frames[k].lastTarget) =>
                                s1.low[Grey(s1, k)] <= s1.index[s1.frames[k].lastTarget]
      BY <1>4 DEF Repeated
    <2>1. k \in 1..d
      BY <1>4, <1>5
    <2>2. s1.low[Grey(s1, k)] = s.low[Grey(s, k)] /\ s.low[Grey(s, k)] < t
      BY <1>10a, <2>1
    <2>3. CASE s1.frames[k].lastTarget = n
      <3>1. s1.index[n] = t /\ t # 0 /\ s.low[Grey(s, k)] \in Nat
        BY <1>3, <1>5, <1>6, <1>7, <1>10a, <2>1
      <3> QED
        BY <1>5, <2>2, <2>3, <3>1
    <2>4. CASE s1.frames[k].lastTarget # n
      <3>1. s1.frames[k].lastTarget = s.frames[k].lastTarget
        BY <1>4, <2>1, <2>4
      <3>2. s.frames[k].lastTarget \in Nodes
        BY <1>1, <1>3, <2>1, <3>1, SearchTypes
      <3> QED
        BY <1>1, <1>3, <1>6, <1>9, <2>1, <2>2, <2>4, <3>1, <3>2 DEF Repeated
    <2> QED
      BY <2>3, <2>4
  <1>15. \A e \in CertainEdges : Waiting(s, e) => Waiting(s1, e) \/ e.to = n
    <2> SUFFICES ASSUME NEW e \in CertainEdges, Waiting(s, e), e.to # n PROVE Waiting(s1, e)
      OBVIOUS
    <2>1. PICK k \in 1..d : Grey(s, k) = e.from /\ e \in ToSet(s.frames[k].rest)
      BY <1>3 DEF Waiting
    <2>2. k \in 1..(d + 1) /\ Grey(s1, k) = e.from /\ e \in ToSet(s1.frames[k].rest)
      BY <1>4, <1>5, <2>1
    <2> QED
      BY <1>4, <2>2 DEF Waiting
  <1>16. \A e \in CertainEdges : e.from = n => Waiting(s1, e)
    <2>1. d + 1 \in 1..(d + 1)
      BY <1>5
    <2> QED
      BY <1>4, <2>1, CertainEnds DEF Waiting, EdgesFrom
  <1>16a. RestOwn(s1)
    <2> SUFFICES ASSUME NEW k \in 1..(d + 1), NEW e \in ToSet(s1.frames[k].rest)
                 PROVE  e \in view.edges /\ e.from = Grey(s1, k)
      BY <1>4 DEF RestOwn
    <2>1. CASE k \in 1..d
      <3>1. e \in ToSet(s.frames[k].rest) /\ Grey(s1, k) = Grey(s, k)
        BY <1>4, <2>1
      <3> QED
        BY <1>1, <1>3, <2>1, <3>1 DEF RestOwn
    <2>2. CASE k = d + 1
      BY <1>4, <2>2 DEF EdgesFrom
    <2> QED
      BY <1>5, <2>1, <2>2
  <1>17. Met(s1)
    <2> SUFFICES ASSUME NEW e \in CertainEdges, Open(s1, e.from), ~Waiting(s1, e)
                 PROVE  s1.index[e.to] # 0
      BY DEF Met
    <2>1. e.from # n /\ Open(s, e.from) /\ e.to \in Nodes
      BY <1>9, <1>16, CertainEnds
    <2>2. CASE e.to = n
      BY <1>3, <1>5, <1>6, <1>7, <2>2
    <2>3. CASE e.to # n
      BY <1>1, <1>6, <1>15, <2>1, <2>3 DEF Met
    <2> QED
      BY <2>2, <2>3
  <1>18. Descends(s1)
    <2> SUFFICES ASSUME NEW k \in 1..(d + 1), NEW x \in Nodes, Open(s1, x),
                        s1.index[Grey(s1, k)] <= s1.index[x]
                 PROVE  Reaches(Grey(s1, k), x)
      BY <1>4 DEF Descends
    <2>1. CASE x = n
      <3>1. CASE k = d + 1
        BY <1>4, <1>5, <2>1, <3>1, FromClosed
      <3>2. CASE k \in 1..d
        <4>1. d + 1 \in 1..(d + 1) /\ k < d + 1
          BY <1>5, <3>2
        <4> QED
          BY <1>4, <1>12, <2>1, <4>1 DEF Path
      <3> QED
        BY <1>5, <3>1, <3>2
    <2>2. CASE x # n
      <3>1. Open(s, x) /\ s1.index[x] = s.index[x] /\ s.index[x] < t
        BY <1>6, <1>7, <1>9, <2>2
      <3>2. k # d + 1
        BY <1>4, <1>5, <1>6, <1>7, <3>1
      <3>3. k \in 1..d
        BY <1>5, <3>2
      <3> QED
        BY <1>1, <1>3, <1>4, <1>6, <1>10, <3>1, <3>3 DEF Descends
    <2> QED
      BY <2>1, <2>2
  <1>19. Ascends(s1)
    <2> SUFFICES ASSUME NEW x \in Nodes, Open(s1, x)
                 PROVE  \E k \in 1..(d + 1) : s1.index[Grey(s1, k)] <= s1.index[x] /\ Reaches(x, Grey(s1, k))
      BY <1>4 DEF Ascends
    <2>1. CASE x = n
      <3>1. d + 1 \in 1..(d + 1) /\ Grey(s1, d + 1) = x /\ Reaches(x, x)
        BY <1>4, <1>5, <2>1, FromClosed
      <3> QED
        BY <1>5, <1>6, <2>1, <3>1
    <2>2. CASE x # n
      <3>1. PICK k \in 1..d : s.index[Grey(s, k)] <= s.index[x] /\ Reaches(x, Grey(s, k))
        BY <1>1, <1>3, <1>9, <2>2 DEF Ascends
      <3>2. k \in 1..(d + 1) /\ s1.index[Grey(s1, k)] <= s1.index[x] /\ Reaches(x, Grey(s1, k))
        BY <1>4, <1>5, <1>6, <1>10, <2>2, <3>1
      <3> QED
        BY <3>2
    <2> QED
      BY <2>1, <2>2
  <1>20. LowReached(s1)
    <2> SUFFICES ASSUME NEW x \in Nodes, Open(s1, x)
                 PROVE  \E y \in Nodes : Open(s1, y) /\ s1.low[x] = s1.index[y]
                                            /\ s1.index[y] <= s1.index[x] /\ Reaches(x, y)
      BY DEF LowReached
    <2>1. CASE x = n
      <3>1. Open(s1, n) /\ s1.low[n] = s1.index[n] /\ s1.index[n] <= s1.index[n] /\ Reaches(n, n)
        BY <1>5, <1>6, <1>9, FromClosed
      <3> QED
        BY <2>1, <3>1
    <2>2. CASE x # n
      <3>1. Open(s, x)
        BY <1>9, <2>2
      <3>2. PICK y \in Nodes : /\ Open(s, y) /\ s.low[x] = s.index[y]
                               /\ s.index[y] <= s.index[x] /\ Reaches(x, y)
        BY <1>1, <3>1 DEF LowReached
      <3>3. y # n
        BY <1>8, <3>2
      <3>4. Open(s1, y) /\ s1.low[x] = s1.index[y] /\ s1.index[y] <= s1.index[x]
        BY <1>6, <1>9, <2>2, <3>2, <3>3
      <3> QED
        BY <3>2, <3>4
    <2> QED
      BY <2>1, <2>2
  <1>21. LowBounds(s1)
    <2> SUFFICES ASSUME NEW k \in 1..(d + 1), NEW e \in CertainEdges, Open(s1, e.from),
                        Segment(s1, k, e.from), ~Waiting(s1, e), Open(s1, e.to)
                 PROVE  s1.low[Grey(s1, k)] <= s1.index[e.to]
      BY <1>4 DEF LowBounds
    <2>1. e.from # n /\ Open(s, e.from) /\ e.to \in Nodes /\ e.from \in Nodes
      BY <1>9, <1>16, CertainEnds
    <2>2. s1.index[Grey(s1, k)] <= s.index[e.from] /\ s.index[e.from] < t
      BY <1>6, <1>7, <2>1 DEF Segment
    <2>3. k # d + 1
      BY <1>4, <1>5, <1>6, <1>7, <2>1, <2>2
    <2>4. k \in 1..d /\ (k < d => k + 1 \in 1..d) /\ k < d + 1
      BY <1>5, <2>3
    <2>5. s1.low[Grey(s1, k)] = s.low[Grey(s, k)] /\ s.low[Grey(s, k)] < t
      BY <1>10a, <2>4
    <2>6. CASE e.to = n
      BY <1>5, <1>6, <1>7, <1>10, <2>4, <2>5, <2>6
    <2>7. CASE e.to # n
      <3>1. ~Waiting(s, e) /\ Open(s, e.to)
        BY <1>9, <1>15, <2>7
      <3>2. Segment(s, k, e.from)
        BY <1>3, <1>4, <1>6, <1>10, <2>1, <2>4 DEF Segment
      <3> QED
        BY <1>1, <1>3, <1>6, <2>1, <2>4, <2>5, <2>7, <3>1, <3>2 DEF LowBounds
    <2> QED
      BY <2>6, <2>7
  <1>22. \A x \in Nodes : Done(s1, x) <=> Done(s, x)
    BY <1>2, <1>6, <1>9 DEF Done
  <1>23. DoneClosed(s1)
    BY <1>1, <1>22, CertainEnds DEF DoneClosed
  <1>24. Components(s1)
    BY <1>1, <1>2, <1>22 DEF Components
  <1> QED
    BY <1>2, <1>11, <1>12, <1>13, <1>14, <1>16a, <1>17, <1>18, <1>19, <1>20, <1>21, <1>23, <1>24 DEF SearchOk

\* The search follows an edge to a node that was met, or need not follow it:
\* the low number of its frame may become the number of that node.
Advanced(s, s1, e, v) ==
    /\ s1 \in Searches /\ Deep(s) # 0 /\ e \in ToSet(s.frames[Deep(s)].rest)
    /\ s1.tick = s.tick /\ s1.index = s.index /\ s1.stack = s.stack
    /\ s1.components = s.components /\ s1.cycles = s.cycles
    /\ v \in Nat /\ s1.low = [s.low EXCEPT ![Grey(s, Deep(s))] = v]
    /\ \/ v = s.low[Grey(s, Deep(s))]
       \/ /\ v < s.low[Grey(s, Deep(s))] /\ v = s.index[e.to]
          /\ e \in CertainEdges /\ Open(s, e.to)
    /\ Deep(s1) = Deep(s)
    /\ \A k \in 1..Deep(s) :
        /\ Grey(s1, k) = Grey(s, k) /\ s1.frames[k].parent = s.frames[k].parent
        /\ ToSet(s1.frames[k].rest) \in SUBSET ToSet(s.frames[k].rest)
        /\ \A f \in ToSet(s.frames[k].rest) : f \in ToSet(s1.frames[k].rest) \/ f = e
        /\ \/ s1.frames[k].lastTarget = s.frames[k].lastTarget
           \/ k = Deep(s) /\ e \in CertainEdges /\ s1.frames[k].lastTarget = e.to
    /\ e \in CertainEdges => s.index[e.to] # 0 /\ (Open(s, e.to) => v <= s.index[e.to])

LEMMA AdvancedOk ==
    ASSUME ViewSound, NEW s, SearchOk(s), NEW s1, NEW e, NEW v, Advanced(s, s1, e, v)
    PROVE  SearchOk(s1)
  <1>1. /\ s \in Searches /\ Numbered(s) /\ Path(s) /\ Bottom(s) /\ RestOwn(s) /\ Repeated(s) /\ Met(s)
        /\ Descends(s) /\ Ascends(s) /\ LowReached(s) /\ LowBounds(s) /\ DoneClosed(s) /\ Components(s)
    BY DEF SearchOk
  <1>2. PICK d, n : d = Deep(s) /\ n = Grey(s, Deep(s))
    OBVIOUS
  <1>3. /\ s1 \in Searches /\ d # 0 /\ e \in ToSet(s.frames[d].rest)
        /\ s1.tick = s.tick /\ s1.index = s.index /\ s1.stack = s.stack
        /\ s1.components = s.components /\ s1.cycles = s.cycles
        /\ v \in Nat /\ s1.low = [s.low EXCEPT ![n] = v] /\ Deep(s1) = d
        /\ v = s.low[n] \/ (v < s.low[n] /\ v = s.index[e.to] /\ e \in CertainEdges /\ Open(s, e.to))
        /\ e \in CertainEdges => s.index[e.to] # 0 /\ (Open(s, e.to) => v <= s.index[e.to])
    BY <1>2 DEF Advanced
  <1>4. \A k \in 1..d :
        /\ Grey(s1, k) = Grey(s, k) /\ s1.frames[k].parent = s.frames[k].parent
        /\ ToSet(s1.frames[k].rest) \in SUBSET ToSet(s.frames[k].rest)
        /\ \A f \in ToSet(s.frames[k].rest) : f \in ToSet(s1.frames[k].rest) \/ f = e
        /\ \/ s1.frames[k].lastTarget = s.frames[k].lastTarget
           \/ k = d /\ e \in CertainEdges /\ s1.frames[k].lastTarget = e.to
    BY <1>2 DEF Advanced
  <1>5. d \in Nat /\ d \in 1..d /\ n = Grey(s, d) /\ n \in Nodes /\ Open(s, n)
    <2>1. d \in Nat /\ d \in 1..d
      BY <1>1, <1>2, <1>3, SearchTypes
    <2> QED
      BY <1>1, <1>2, <2>1, SearchTypes DEF Path
  <1>6. e.from = n
    BY <1>1, <1>2, <1>3, <1>5 DEF RestOwn
  <1>7. \A x \in Nodes : s.index[x] \in Nat /\ s.low[x] \in Nat
    BY <1>1, SearchTypes
  <1>8. s1.low[n] = v /\ \A x \in Nodes : x # n => s1.low[x] = s.low[x]
    BY <1>1, <1>3, <1>5, SearchTypes
  <1>9. v <= s.low[n] /\ \A x \in Nodes : s1.low[x] <= s.low[x] /\ s1.low[x] \in Nat
    BY <1>3, <1>5, <1>7, <1>8
  <1>10. \A x : Open(s1, x) <=> Open(s, x)
    BY <1>3 DEF Open
  <1>11. \A k \in 1..d : Grey(s, k) \in Nodes /\ Open(s, Grey(s, k))
    BY <1>1, <1>2, SearchTypes DEF Path
  <1>12. Numbered(s1)
    BY <1>1, <1>3 DEF Numbered
  <1>13. Path(s1)
    <2>1. \A k \in 1..d : k # 1 => k - 1 \in 1..d
      BY <1>5
    <2> QED
      BY <1>1, <1>2, <1>3, <1>4, <1>10, <2>1 DEF Path
  <1>14. Bottom(s1)
    <2>1. s.frames # <<>> /\ s1.frames # <<>>
      <3>1. Len(s.frames) # 0 /\ Len(s1.frames) # 0
        BY <1>2, <1>3 DEF Deep
      <3> QED
        BY <3>1, EmptySeq
    <2>2. 1 \in 1..d
      BY <1>5
    <2> QED
      BY <1>1, <1>3, <1>4, <2>1, <2>2 DEF Bottom
  <1>15. RestOwn(s1)
    BY <1>1, <1>2, <1>3, <1>4 DEF RestOwn
  <1>16. Repeated(s1)
    <2> SUFFICES ASSUME NEW k \in 1..d, s1.frames[k].lastTarget # NoNode
                 PROVE  /\ s1.index[s1.frames[k].lastTarget] # 0
                        /\ Open(s1, s1.frames[k].lastTarget) =>
                                s1.low[Grey(s1, k)] <= s1.index[s1.frames[k].lastTarget]
      BY <1>3 DEF Repeated
    <2>1. PICK x, g : x = s1.frames[k].lastTarget /\ g = Grey(s, k)
      OBVIOUS
    <2>2. x \in Nodes /\ g \in Nodes
      BY <1>3, <1>11, <2>1, SearchTypes
    <2>3. CASE x = s.frames[k].lastTarget
      <3>1. s.index[x] # 0 /\ (Open(s, x) => s.low[g] <= s.index[x])
        BY <1>1, <1>2, <2>1, <2>3 DEF Repeated
      <3>2. s1.low[g] <= s.low[g] /\ s1.low[g] \in Nat /\ s.low[g] \in Nat /\ s.index[x] \in Nat
        BY <1>7, <1>9, <2>2
      <3>3. Open(s, x) => s1.low[g] <= s.index[x]
        BY <3>1, <3>2
      <3> QED
        BY <1>3, <1>4, <1>10, <2>1, <3>1, <3>3
    <2>4. CASE k = d /\ e \in CertainEdges /\ x = e.to
      BY <1>3, <1>4, <1>5, <1>8, <1>10, <2>1, <2>4
    <2> QED
      BY <1>4, <2>1, <2>3, <2>4
  <1>17. \A f \in CertainEdges : Waiting(s, f) => Waiting(s1, f) \/ f = e
    BY <1>2, <1>3, <1>4 DEF Waiting
  <1>18. Met(s1)
    BY <1>1, <1>3, <1>10, <1>17 DEF Met
  <1>19. Descends(s1)
    BY <1>1, <1>2, <1>3, <1>4, <1>10 DEF Descends
  <1>20. Ascends(s1)
    <2> SUFFICES ASSUME NEW x \in Nodes, Open(s, x)
                 PROVE  \E k \in 1..d : s1.index[Grey(s1, k)] <= s1.index[x] /\ Reaches(x, Grey(s1, k))
      BY <1>3, <1>10 DEF Ascends
    <2>1. PICK k \in 1..d : s.index[Grey(s, k)] <= s.index[x] /\ Reaches(x, Grey(s, k))
      BY <1>1, <1>2 DEF Ascends
    <2> QED
      BY <1>3, <1>4, <2>1
  <1>21. LowReached(s1)
    <2> SUFFICES ASSUME NEW x \in Nodes, Open(s, x)
                 PROVE  \E y \in Nodes : Open(s, y) /\ s1.low[x] = s.index[y]
                                            /\ s.index[y] <= s.index[x] /\ Reaches(x, y)
      BY <1>3, <1>10 DEF LowReached
    <2>1. CASE s1.low[x] = s.low[x]
      BY <1>1, <2>1 DEF LowReached
    <2>2. CASE s1.low[x] # s.low[x]
      <3>1. x = n /\ v # s.low[n]
        BY <1>8, <2>2
      <3>2. v < s.low[n] /\ v = s.index[e.to] /\ e \in CertainEdges /\ Open(s, e.to) /\ e.to \in Nodes
        BY <1>3, <3>1, CertainEnds
      <3>3. s.low[n] <= s.index[n]
        BY <1>5, LowNumbers
      <3>4. Reaches(n, e.to)
        BY <1>5, <1>6, <3>2, FromClosed
      <3>5. s1.low[n] = s.index[e.to] /\ s.index[e.to] <= s.index[n]
        BY <1>5, <1>7, <1>8, <3>2, <3>3
      <3> QED
        BY <3>1, <3>2, <3>4, <3>5
    <2> QED
      BY <2>1, <2>2
  <1>22. LowBounds(s1)
    <2> SUFFICES ASSUME NEW k \in 1..d, NEW f \in CertainEdges, Open(s, f.from),
                        Segment(s1, k, f.from), ~Waiting(s1, f), Open(s, f.to)
                 PROVE  s1.low[Grey(s, k)] <= s.index[f.to]
      BY <1>3, <1>4, <1>10 DEF LowBounds
    <2>1. f.from \in Nodes /\ f.to \in Nodes /\ (k < d => k + 1 \in 1..d)
      BY <1>5, CertainEnds
    <2>2. Segment(s, k, f.from)
      BY <1>2, <1>3, <1>4, <2>1 DEF Segment
    <2>3. CASE f = e
      <3>1. k = d
        <4> SUFFICES ASSUME k < d PROVE FALSE
          BY <1>5
        <4>1. s.index[n] < s.index[Grey(s, k + 1)]
          BY <1>2, <1>6, <2>2, <2>3 DEF Segment
        <4>2. k + 1 = d \/ k + 1 < d
          BY <1>5
        <4>3. s.index[Grey(s, k + 1)] <= s.index[n]
          <5>1. CASE k + 1 = d
            BY <1>5, <1>7, <5>1
          <5>2. CASE k + 1 < d
            <6>1. s.index[Grey(s, k + 1)] < s.index[Grey(s, d)]
              BY <1>1, <1>2, <1>5, <2>1, <5>2 DEF Path
            <6> QED
              BY <1>5, <1>7, <1>11, <2>1, <6>1
          <5> QED
            BY <4>2, <5>1, <5>2
        <4> QED
          BY <1>5, <1>7, <1>11, <2>1, <4>1, <4>3
      <3> QED
        BY <1>3, <1>5, <1>8, <2>3, <3>1
    <2>4. CASE f # e
      <3>1. ~Waiting(s, f)
        BY <1>17, <2>4
      <3>2. s.low[Grey(s, k)] <= s.index[f.to]
        BY <1>1, <1>2, <2>2, <3>1 DEF LowBounds
      <3>3. PICK g \in Nodes : g = Grey(s, k)
        BY <1>11
      <3>4. s1.low[g] <= s.low[g] /\ s1.low[g] \in Nat /\ s.low[g] \in Nat /\ s.index[f.to] \in Nat
        BY <1>7, <1>9, <2>1
      <3> QED
        BY <3>2, <3>3, <3>4
    <2> QED
      BY <2>3, <2>4
  <1>23. \A x \in Nodes : Done(s1, x) <=> Done(s, x)
    BY <1>3, <1>10 DEF Done
  <1>24. DoneClosed(s1) /\ Components(s1)
    BY <1>1, <1>3, <1>23, CertainEnds DEF DoneClosed, Components
  <1> QED
    BY <1>3, <1>12, <1>13, <1>14, <1>15, <1>16, <1>18, <1>19, <1>20, <1>21, <1>22, <1>24 DEF SearchOk

\* The innermost frame ends and its node is not the root of a component: the
\* low number of the frame before becomes the lower of the two.
Returned(s, s1) ==
    LET d == Deep(s) n == Grey(s, Deep(s)) p == Grey(s, Deep(s) - 1) IN
    /\ s1 \in Searches /\ d > 1 /\ ToSet(s.frames[d].rest) = {}
    /\ s.low[n] # s.index[n]
    /\ s1.tick = s.tick /\ s1.index = s.index /\ s1.stack = s.stack
    /\ s1.components = s.components /\ s1.cycles = s.cycles
    /\ s1.low = [s.low EXCEPT ![p] = IF s.low[n] < s.low[p] THEN s.low[n] ELSE s.low[p]]
    /\ Deep(s1) = d - 1
    /\ \A k \in 1..(d - 1) : s1.frames[k] = s.frames[k]

LEMMA ReturnedOk ==
    ASSUME ViewSound, NEW s, SearchOk(s), NEW s1, Returned(s, s1)
    PROVE  SearchOk(s1)
  <1>1. /\ s \in Searches /\ Numbered(s) /\ Path(s) /\ Bottom(s) /\ RestOwn(s) /\ Repeated(s) /\ Met(s)
        /\ Descends(s) /\ Ascends(s) /\ LowReached(s) /\ LowBounds(s) /\ DoneClosed(s) /\ Components(s)
    BY DEF SearchOk
  <1>2. PICK d, b, n, p, v : /\ d = Deep(s) /\ b = d - 1 /\ n = Grey(s, d) /\ p = Grey(s, b)
                             /\ v = IF s.low[n] < s.low[p] THEN s.low[n] ELSE s.low[p]
    OBVIOUS
  <1>3. /\ s1 \in Searches /\ d > 1 /\ ToSet(s.frames[d].rest) = {} /\ s.low[n] # s.index[n]
        /\ s1.tick = s.tick /\ s1.index = s.index /\ s1.stack = s.stack
        /\ s1.components = s.components /\ s1.cycles = s.cycles
        /\ s1.low = [s.low EXCEPT ![p] = v] /\ Deep(s1) = b
        /\ \A k \in 1..b : s1.frames[k] = s.frames[k]
    BY <1>2 DEF Returned
  <1>4. /\ d \in Nat /\ b \in Nat /\ b < d /\ d \in 1..d /\ b \in 1..b /\ b \in 1..d /\ b + 1 = d
        /\ \A k \in 1..b : k \in 1..d /\ (k # 1 => k - 1 \in 1..b) /\ (k < b => k + 1 \in 1..b /\ k < d)
        /\ \A k \in 1..d : k = d \/ k \in 1..b
    BY <1>1, <1>2, <1>3, SearchTypes
  <1>5. \A k \in 1..b : Grey(s1, k) = Grey(s, k)
    BY <1>3 DEF Grey
  <1>6. \A k \in 1..d : Grey(s, k) \in Nodes /\ Open(s, Grey(s, k))
    BY <1>1, <1>2, SearchTypes DEF Path
  <1>7. \A x \in Nodes : s.index[x] \in Nat /\ s.low[x] \in Nat
    BY <1>1, SearchTypes
  <1>8. n \in Nodes /\ p \in Nodes /\ Open(s, n) /\ Open(s, p) /\ s.index[p] < s.index[n] /\ Reaches(p, n)
    BY <1>1, <1>2, <1>4, <1>6 DEF Path
  <1>9. v \in Nat /\ v <= s.low[n] /\ v <= s.low[p]
    BY <1>2, <1>7, <1>8
  <1>10. s1.low[p] = v /\ \A x \in Nodes : x # p => s1.low[x] = s.low[x]
    BY <1>1, <1>3, <1>8, SearchTypes
  <1>11. \A x \in Nodes : s1.low[x] <= s.low[x] /\ s1.low[x] \in Nat
    BY <1>7, <1>9, <1>10
  <1>12. \A x : Open(s1, x) <=> Open(s, x)
    BY <1>3 DEF Open
  <1>13. Numbered(s1)
    BY <1>1, <1>3 DEF Numbered
  <1>14. Path(s1)
    BY <1>1, <1>2, <1>3, <1>4, <1>5, <1>12 DEF Path
  <1>15. Bottom(s1)
    <2>1. s.frames # <<>> /\ s1.frames # <<>>
      <3>1. Deep(s) # 0 /\ Deep(s1) # 0
        BY <1>2, <1>3, <1>4
      <3> QED
        BY <3>1, EmptySeq DEF Deep
    <2>2. 1 \in 1..b
      BY <1>4
    <2> QED
      BY <1>1, <1>3, <1>5, <2>1, <2>2 DEF Bottom
  <1>16. RestOwn(s1)
    BY <1>1, <1>2, <1>3, <1>4, <1>5 DEF RestOwn
  <1>17. Repeated(s1)
    <2> SUFFICES ASSUME NEW k \in 1..b, s.frames[k].lastTarget # NoNode
                 PROVE  /\ s.index[s.frames[k].lastTarget] # 0
                        /\ Open(s, s.frames[k].lastTarget) =>
                                s1.low[Grey(s, k)] <= s.index[s.frames[k].lastTarget]
      BY <1>3, <1>5, <1>12 DEF Repeated
    <2>1. PICK x, g : x = s.frames[k].lastTarget /\ g = Grey(s, k)
      OBVIOUS
    <2>2. x \in Nodes /\ g \in Nodes /\ k \in 1..d
      BY <1>1, <1>2, <1>4, <1>6, <2>1, SearchTypes
    <2>3. s.index[x] # 0 /\ (Open(s, x) => s.low[g] <= s.index[x])
      BY <1>1, <1>2, <2>1, <2>2 DEF Repeated
    <2>4. s1.low[g] <= s.low[g] /\ s1.low[g] \in Nat /\ s.low[g] \in Nat /\ s.index[x] \in Nat
      BY <1>7, <1>11, <2>2
    <2>5. Open(s, x) => s1.low[g] <= s.index[x]
      BY <2>3, <2>4
    <2> QED
      BY <2>1, <2>3, <2>5
  <1>18. \A e \in CertainEdges : Waiting(s, e) => Waiting(s1, e)
    <2> SUFFICES ASSUME NEW e \in CertainEdges, Waiting(s, e) PROVE Waiting(s1, e)
      OBVIOUS
    <2>1. PICK k \in 1..d : Grey(s, k) = e.from /\ e \in ToSet(s.frames[k].rest)
      BY <1>2 DEF Waiting
    <2>2. k \in 1..b
      BY <1>3, <1>4, <2>1
    <2> QED
      BY <1>3, <1>5, <2>1, <2>2 DEF Waiting
  <1>19. Met(s1)
    BY <1>1, <1>3, <1>12, <1>18 DEF Met
  <1>20. Descends(s1)
    BY <1>1, <1>2, <1>3, <1>4, <1>5, <1>12 DEF Descends
  <1>21. Ascends(s1)
    <2> SUFFICES ASSUME NEW x \in Nodes, Open(s, x)
                 PROVE  \E k \in 1..b : s.index[Grey(s, k)] <= s.index[x] /\ Reaches(x, Grey(s, k))
      BY <1>3, <1>5, <1>12 DEF Ascends
    <2>1. PICK k \in 1..d : s.index[Grey(s, k)] <= s.index[x] /\ Reaches(x, Grey(s, k))
      BY <1>1, <1>2 DEF Ascends
    <2>2. CASE k = d
      <3>1. PICK y \in Nodes : /\ Open(s, y) /\ s.low[n] = s.index[y]
                               /\ s.index[y] <= s.index[n] /\ Reaches(n, y)
        BY <1>1, <1>8 DEF LowReached
      <3>2. s.index[y] < s.index[n]
        BY <1>3, <1>7, <1>8, <3>1
      <3>3. PICK m \in 1..d : s.index[Grey(s, m)] <= s.index[y] /\ Reaches(y, Grey(s, m))
        BY <1>1, <1>2, <3>1 DEF Ascends
      <3>4. m # d
        BY <1>2, <1>7, <1>8, <3>2, <3>3
      <3>5. PICK g \in Nodes : g = Grey(s, m)
        BY <1>6
      <3>6. Reaches(x, n) /\ Reaches(n, y) /\ Reaches(y, g)
        BY <1>2, <2>1, <2>2, <3>1, <3>3, <3>5
      <3>7. Reaches(x, g)
        BY <1>8, <3>6, ReachesTransitive
      <3>8. s.index[g] <= s.index[x]
        BY <1>2, <1>7, <1>8, <2>1, <2>2, <3>2, <3>3, <3>5
      <3> QED
        BY <1>4, <3>4, <3>5, <3>7, <3>8
    <2>3. CASE k \in 1..b
      BY <2>1, <2>3
    <2> QED
      BY <1>4, <2>2, <2>3
  <1>22. LowReached(s1)
    <2> SUFFICES ASSUME NEW x \in Nodes, Open(s, x)
                 PROVE  \E y \in Nodes : Open(s, y) /\ s1.low[x] = s.index[y]
                                            /\ s.index[y] <= s.index[x] /\ Reaches(x, y)
      BY <1>3, <1>12 DEF LowReached
    <2>1. CASE s1.low[x] = s.low[x]
      BY <1>1, <2>1 DEF LowReached
    <2>2. CASE s1.low[x] # s.low[x]
      <3>1. x = p /\ v # s.low[p]
        BY <1>10, <2>2
      <3>2. v = s.low[n] /\ s.low[n] < s.low[p]
        BY <1>2, <3>1
      <3>3. PICK y \in Nodes : Open(s, y) /\ s.low[n] = s.index[y] /\ Reaches(n, y)
        BY <1>1, <1>8 DEF LowReached
      <3>4. s.low[p] <= s.index[p]
        BY <1>8, LowNumbers
      <3>5. s1.low[p] = s.index[y] /\ s.index[y] <= s.index[p]
        BY <1>7, <1>8, <1>10, <3>2, <3>3, <3>4
      <3>6. Reaches(p, y)
        BY <1>8, <3>3, ReachesTransitive
      <3> QED
        BY <3>1, <3>3, <3>5, <3>6
    <2> QED
      BY <2>1, <2>2
  <1>23. LowBounds(s1)
    <2> SUFFICES ASSUME NEW k \in 1..b, NEW e \in CertainEdges, Open(s, e.from),
                        Segment(s1, k, e.from), ~Waiting(s1, e), Open(s, e.to)
                 PROVE  s1.low[Grey(s, k)] <= s.index[e.to]
      BY <1>3, <1>5, <1>12 DEF LowBounds
    <2>1. e.from \in Nodes /\ e.to \in Nodes /\ ~Waiting(s, e)
      BY <1>18, CertainEnds
    <2>2. PICK g, i, j : g = Grey(s, k) /\ i = s.index[e.from] /\ j = s.index[e.to]
      OBVIOUS
    <2>3. /\ i \in Nat /\ j \in Nat /\ g \in Nodes /\ s.index[g] <= i
          /\ s1.low[g] <= s.low[g] /\ s1.low[g] \in Nat /\ s.low[g] \in Nat
          /\ k < b => i < s.index[Grey(s, k + 1)]
      BY <1>3, <1>4, <1>5, <1>6, <1>7, <1>11, <2>1, <2>2 DEF Segment
    <2>4. CASE k < b
      <3>1. Segment(s, k, e.from)
        BY <1>2, <2>2, <2>3, <2>4 DEF Segment
      <3>2. s.low[g] <= j
        BY <1>1, <1>2, <1>4, <2>1, <2>2, <3>1 DEF LowBounds
      <3> QED
        BY <2>2, <2>3, <3>2
    <2>5. CASE k = b /\ i < s.index[n]
      <3>1. Segment(s, k, e.from)
        BY <1>2, <1>4, <2>2, <2>3, <2>5 DEF Segment
      <3>2. s.low[g] <= j
        BY <1>1, <1>2, <1>4, <2>1, <2>2, <3>1 DEF LowBounds
      <3> QED
        BY <2>2, <2>3, <3>2
    <2>6. CASE k = b /\ ~(i < s.index[n])
      <3>1. Segment(s, d, e.from)
        <4>1. s.index[n] <= i /\ ~(d < d)
          BY <1>4, <1>7, <1>8, <2>3, <2>6
        <4> QED
          BY <1>2, <2>2, <4>1 DEF Segment
      <3>2. s.low[n] <= j
        BY <1>1, <1>2, <1>4, <2>1, <2>2, <3>1 DEF LowBounds
      <3>3. g = p /\ s1.low[g] = v
        BY <1>2, <1>10, <2>2, <2>6
      <3>4. s.low[n] \in Nat
        BY <1>7, <1>8
      <3>5. v <= j
        BY <1>9, <2>3, <3>2, <3>4
      <3> QED
        BY <2>2, <3>3, <3>5
    <2>7. k < b \/ k = b
      BY <1>4
    <2> QED
      BY <2>4, <2>5, <2>6, <2>7, Zenon
  <1>24. \A x \in Nodes : Done(s1, x) <=> Done(s, x)
    BY <1>3, <1>12 DEF Done
  <1>25. DoneClosed(s1) /\ Components(s1)
    BY <1>1, <1>3, <1>24, CertainEnds DEF DoneClosed, Components
  <1> QED
    BY <1>3, <1>13, <1>14, <1>15, <1>16, <1>17, <1>19, <1>20, <1>21, <1>22, <1>23, <1>25 DEF SearchOk

\* The innermost frame ends and its node is the root of a component: what was
\* pushed since the node, with it, is taken off the stack.
Rooted(s, s1, M) ==
    LET d == Deep(s) n == Grey(s, Deep(s)) IN
    /\ s1 \in Searches /\ d # 0 /\ ToSet(s.frames[d].rest) = {} /\ s.low[n] = s.index[n]
    /\ s1.tick = s.tick /\ s1.index = s.index /\ s1.low = s.low
    /\ M = {x \in Nodes : Open(s, x) /\ s.index[n] <= s.index[x]}
    /\ Len(s1.stack) <= Len(s.stack) /\ \A i \in 1..Len(s1.stack) : s1.stack[i] = s.stack[i]
    /\ \A x \in Nodes : Open(s1, x) <=> Open(s, x) /\ s.index[x] < s.index[n]
    /\ s1.components = s.components \cup {M}
    /\ s1.cycles = IF Cyclic(M) THEN s.cycles \cup {M} ELSE s.cycles
    /\ Deep(s1) = d - 1
    /\ \A k \in 1..(d - 1) : s1.frames[k] = s.frames[k]

\* What was met since a root is its class: it leads to nothing else that was
\* not left for good, and it is connected through the frames.
LEMMA RootedClass ==
    ASSUME ViewSound, NEW s, SearchOk(s), NEW s1, NEW M, Rooted(s, s1, M)
    PROVE  /\ Grey(s, Deep(s)) \in M /\ \A x \in M : M = Class(x)
           /\ \A e \in CertainEdges : e.from \in M => e.to \in M \/ Done(s, e.to)
  <1>1. /\ s \in Searches /\ Numbered(s) /\ Path(s) /\ Met(s)
        /\ Descends(s) /\ Ascends(s) /\ LowBounds(s) /\ DoneClosed(s)
    BY DEF SearchOk
  <1>2. PICK d, n : d = Deep(s) /\ n = Grey(s, d)
    OBVIOUS
  <1>3. /\ d # 0 /\ ToSet(s.frames[d].rest) = {} /\ s.low[n] = s.index[n]
        /\ M = {x \in Nodes : Open(s, x) /\ s.index[n] <= s.index[x]}
    BY <1>2 DEF Rooted
  <1>4. d \in Nat /\ d \in 1..d /\ \A k \in 1..d : k = d \/ k < d
    BY <1>1, <1>2, <1>3, SearchTypes
  <1>5. \A k \in 1..d : Grey(s, k) \in Nodes /\ Open(s, Grey(s, k))
    BY <1>1, <1>2, SearchTypes DEF Path
  <1>6. \A x \in Nodes : s.index[x] \in Nat /\ s.low[x] \in Nat
    BY <1>1, SearchTypes
  <1>7. n \in Nodes /\ n \in M
    BY <1>2, <1>3, <1>4, <1>5, <1>6
  <1>8. \A x \in Nodes : Open(s, x) => s.index[x] # 0 /\ x \in given.local
    BY <1>1, LowNumbers DEF Numbered
  <1>9. ASSUME NEW e \in CertainEdges, e.from \in M
        PROVE  e.to \in M \/ Done(s, e.to)
    <2>1. e.from \in Nodes /\ e.to \in Nodes /\ Open(s, e.from) /\ s.index[n] <= s.index[e.from]
      BY <1>3, <1>9, CertainEnds
    <2>2. ~Waiting(s, e)
      <3> SUFFICES ASSUME Waiting(s, e) PROVE FALSE
        OBVIOUS
      <3>1. PICK k \in 1..d : Grey(s, k) = e.from /\ e \in ToSet(s.frames[k].rest)
        BY <1>2 DEF Waiting
      <3>2. k < d
        BY <1>3, <1>4, <3>1
      <3>3. s.index[e.from] < s.index[n]
        BY <1>1, <1>2, <1>4, <3>1, <3>2 DEF Path
      <3> QED
        BY <1>6, <1>7, <2>1, <3>3
    <2>3. s.index[e.to] # 0
      BY <1>1, <2>1, <2>2 DEF Met
    <2>4. CASE Open(s, e.to)
      <3>1. Segment(s, d, e.from)
        <4>1. ~(d < d)
          BY <1>4
        <4> QED
          BY <1>2, <2>1, <4>1 DEF Segment
      <3>2. s.low[n] <= s.index[e.to]
        BY <1>1, <1>2, <1>4, <2>1, <2>2, <2>4, <3>1 DEF LowBounds
      <3> QED
        BY <1>3, <2>1, <2>4, <3>2
    <2>5. CASE ~Open(s, e.to)
      BY <2>3, <2>5 DEF Done
    <2> QED
      BY <2>4, <2>5
  <1>10. ASSUME NEW x \in M PROVE Reaches(n, x) /\ Reaches(x, n)
    <2>1. x \in Nodes /\ Open(s, x) /\ s.index[n] <= s.index[x]
      BY <1>3
    <2>2. Reaches(n, x)
      BY <1>1, <1>2, <1>4, <2>1 DEF Descends
    <2>3. PICK k \in 1..d : Reaches(x, Grey(s, k))
      BY <1>1, <1>2, <2>1 DEF Ascends
    <2>4. CASE k = d
      BY <1>2, <2>2, <2>3, <2>4
    <2>5. CASE k < d
      <3>1. PICK g \in Nodes : g = Grey(s, k)
        BY <1>5
      <3>2. Reaches(x, g) /\ Reaches(g, n)
        BY <1>1, <1>2, <1>4, <2>3, <2>5, <3>1 DEF Path
      <3> QED
        BY <1>7, <2>1, <2>2, <3>2, ReachesTransitive
    <2> QED
      BY <1>4, <2>4, <2>5
  <1>11. ASSUME NEW y \in Class(n) PROVE y \in M
    <2>1. y \in Nodes /\ Reaches(n, y) /\ Reaches(y, n)
      BY CertainEnds DEF Class
    <2>2. PICK D : D = {x \in Nodes : Done(s, x)}
      OBVIOUS
    <2>3. \A e \in CertainEdges : e.from \in D => e.to \in D
      BY <1>1, <2>2, CertainEnds DEF DoneClosed
    <2>4. PICK T : T = M \cup D
      OBVIOUS
    <2>5. \A e \in CertainEdges : e.from \in T => e.to \in T
      BY <1>9, <2>2, <2>3, <2>4, CertainEnds
    <2>6. n \in T
      BY <1>7, <2>4
    <2>7. From(n) \in SUBSET T
      BY <1>7, <2>5, <2>6, FromLeast
    <2>8. y \in M \/ y \in D
      BY <2>1, <2>4, <2>7 DEF Reaches
    <2>9. ASSUME y \in D PROVE FALSE
      <3>1. From(y) \in SUBSET D
        BY <2>1, <2>3, <2>9, FromLeast
      <3>2. Done(s, n)
        BY <2>1, <2>2, <3>1 DEF Reaches
      <3> QED
        BY <1>3, <1>7, <3>2 DEF Done
    <2> QED
      BY <2>8, <2>9
  <1>12. M = Class(n)
    <2>1. \A x \in M : x \in Class(n)
      BY <1>3, <1>8, <1>10 DEF Class
    <2> QED
      BY <1>11, <2>1
  <1>13. \A x \in M : M = Class(x)
    <2>1. n \in given.local
      BY <1>3, <1>7, <1>8
    <2> QED
      BY <1>12, <2>1, Classes
  <1> QED
    BY <1>2, <1>7, <1>9, <1>13

LEMMA RootedOk ==
    ASSUME ViewSound, NEW s, SearchOk(s), NEW s1, NEW M, Rooted(s, s1, M)
    PROVE  SearchOk(s1)
  <1>1. /\ s \in Searches /\ Numbered(s) /\ Path(s) /\ Bottom(s) /\ RestOwn(s) /\ Repeated(s) /\ Met(s)
        /\ Descends(s) /\ Ascends(s) /\ LowReached(s) /\ LowBounds(s) /\ DoneClosed(s) /\ Components(s)
    BY DEF SearchOk
  <1>2. PICK d, b, n : d = Deep(s) /\ b = d - 1 /\ n = Grey(s, d)
    OBVIOUS
  <1>3. /\ s1 \in Searches /\ d # 0 /\ ToSet(s.frames[d].rest) = {} /\ s.low[n] = s.index[n]
        /\ s1.tick = s.tick /\ s1.index = s.index /\ s1.low = s.low
        /\ M = {x \in Nodes : Open(s, x) /\ s.index[n] <= s.index[x]}
        /\ Len(s1.stack) <= Len(s.stack) /\ \A i \in 1..Len(s1.stack) : s1.stack[i] = s.stack[i]
        /\ \A x \in Nodes : Open(s1, x) <=> Open(s, x) /\ s.index[x] < s.index[n]
        /\ s1.components = s.components \cup {M}
        /\ s1.cycles = IF Cyclic(M) THEN s.cycles \cup {M} ELSE s.cycles
        /\ Deep(s1) = b /\ \A k \in 1..b : s1.frames[k] = s.frames[k]
    BY <1>2 DEF Rooted
  <1>4. /\ d \in Nat /\ b \in Nat /\ b < d /\ d \in 1..d /\ b + 1 = d
        /\ \A k \in 1..b : /\ k \in 1..d /\ k < d /\ (k # 1 => k - 1 \in 1..b)
                           /\ k + 1 \in 1..d /\ (k < b => k + 1 \in 1..b)
        /\ \A k \in 1..d : k = d \/ k \in 1..b
    BY <1>1, <1>2, <1>3, SearchTypes
  <1>5. \A k \in 1..b : Grey(s1, k) = Grey(s, k)
    BY <1>3 DEF Grey
  <1>6. \A k \in 1..d : Grey(s, k) \in Nodes /\ Open(s, Grey(s, k))
    BY <1>1, <1>2, SearchTypes DEF Path
  <1>7. \A x \in Nodes : s.index[x] \in Nat /\ s.low[x] \in Nat
    BY <1>1, SearchTypes
  <1>8. n \in Nodes /\ Open(s, n)
    BY <1>2, <1>4, <1>6
  <1>9. \A k \in 1..b : s.index[Grey(s, k)] < s.index[n] /\ Open(s1, Grey(s, k))
    BY <1>1, <1>2, <1>3, <1>4, <1>6 DEF Path
  <1>10. \A x : Open(s1, x) => x \in Nodes /\ Open(s, x) /\ s.index[x] < s.index[n]
    BY <1>3, SearchTypes
  <1>11. Len(s1.stack) \in Nat /\ Len(s.stack) \in Nat
    BY <1>1, <1>3, SearchTypes
  <1>12. Numbered(s1)
    <2>1. \A i \in 1..Len(s1.stack) : i \in 1..Len(s.stack)
      BY <1>3, <1>11
    <2> QED
      BY <1>1, <1>3, <2>1 DEF Numbered
  <1>13. Path(s1)
    <2>1. ASSUME NEW k \in 1..b
          PROVE  /\ Open(s1, Grey(s1, k))
                 /\ s1.frames[k].parent = IF k = 1 THEN NoNode ELSE Grey(s1, k - 1)
      <3>1. s.frames[k].parent = IF k = 1 THEN NoNode ELSE Grey(s, k - 1)
        BY <1>1, <1>2, <1>4 DEF Path
      <3> QED
        BY <1>3, <1>4, <1>5, <1>9, <3>1
    <2>2. \A k, m \in 1..b : k < m => /\ s1.index[Grey(s1, k)] < s1.index[Grey(s1, m)]
                                      /\ Reaches(Grey(s1, k), Grey(s1, m))
      BY <1>1, <1>2, <1>3, <1>4, <1>5 DEF Path
    <2> QED
      BY <1>3, <2>1, <2>2 DEF Path
  <1>14. Bottom(s1)
    <2>1. s.frames # <<>>
      <3>1. Deep(s) # 0
        BY <1>2, <1>3
      <3> QED
        BY <3>1, EmptySeq DEF Deep
    <2>2. s.stack # <<>> /\ Grey(s, 1) = s.stack[1]
      BY <1>1, <2>1 DEF Bottom
    <2>3. 1 \in 1..Len(s.stack)
      BY <1>1, <1>11, <2>2, EmptySeq, SearchTypes
    <2>4. CASE b = 0
      <3>1. n = s.stack[1]
        <4>1. d = 1
          BY <1>4, <2>4
        <4> QED
          BY <1>2, <2>2, <4>1
      <3>2. ASSUME NEW x, Open(s, x) PROVE s.index[n] <= s.index[x]
        <4>1. PICK i \in 1..Len(s.stack) : s.stack[i] = x
          BY <1>1, <3>2, SearchTypes
        <4>2. x \in Nodes /\ i \in Nat /\ i >= 1
          BY <1>1, <1>11, <4>1, SearchTypes
        <4>3. CASE i = 1
          BY <1>7, <1>8, <3>1, <4>1, <4>3
        <4>4. CASE 1 < i
          <5>1. s.index[n] < s.index[x]
            BY <1>1, <2>3, <3>1, <4>1, <4>4 DEF Numbered
          <5> QED
            BY <1>7, <1>8, <4>2, <5>1
        <4> QED
          BY <4>2, <4>3, <4>4
      <3>3. \A x : ~Open(s1, x)
        BY <1>7, <1>8, <1>10, <3>2
      <3>4. Len(s1.stack) = 0
        <4> SUFFICES ASSUME Len(s1.stack) # 0 PROVE FALSE
          OBVIOUS
        <4>1. 1 \in 1..Len(s1.stack)
          BY <1>11
        <4>2. Open(s1, s1.stack[1])
          BY <1>3, <4>1, SearchTypes
        <4> QED
          BY <3>3, <4>2
      <3>5. s1.stack = <<>> /\ s1.frames = <<>>
        <4>1. s1.stack \in Seq(Nodes) /\ s1.frames \in Seq(Frames) /\ Len(s1.frames) = 0
          BY <1>3, <2>4, SearchTypes DEF Deep
        <4> QED
          BY <3>4, <4>1, EmptySeq
      <3> QED
        BY <3>5 DEF Bottom
    <2>5. CASE b # 0
      <3>1. 1 \in 1..b
        BY <1>4, <2>5
      <3>2. s1.frames # <<>>
        <4>1. Deep(s1) # 0
          BY <1>3, <2>5
        <4> QED
          BY <4>1, EmptySeq DEF Deep
      <3>3. Open(s1, Grey(s, 1))
        BY <1>9, <3>1
      <3>4. PICK i \in 1..Len(s1.stack) : s1.stack[i] = Grey(s, 1)
        BY <1>3, <3>3, SearchTypes
      <3>5. 1 \in 1..Len(s1.stack)
        BY <1>11, <3>4
      <3>6. s1.stack # <<>>
        BY <3>5, EmptySeq
      <3> QED
        BY <1>3, <1>5, <2>2, <3>1, <3>2, <3>5, <3>6 DEF Bottom
    <2> QED
      BY <2>4, <2>5
  <1>15. RestOwn(s1)
    BY <1>1, <1>2, <1>3, <1>4, <1>5 DEF RestOwn
  <1>16. Repeated(s1)
    BY <1>1, <1>2, <1>3, <1>4, <1>5, <1>10 DEF Repeated
  <1>17. \A e \in CertainEdges : Waiting(s, e) => Waiting(s1, e)
    <2> SUFFICES ASSUME NEW e \in CertainEdges, Waiting(s, e) PROVE Waiting(s1, e)
      OBVIOUS
    <2>1. PICK k \in 1..d : Grey(s, k) = e.from /\ e \in ToSet(s.frames[k].rest)
      BY <1>2 DEF Waiting
    <2>2. k \in 1..b
      BY <1>3, <1>4, <2>1
    <2> QED
      BY <1>3, <1>5, <2>1, <2>2 DEF Waiting
  <1>18. Met(s1)
    BY <1>1, <1>3, <1>10, <1>17 DEF Met
  <1>19. Descends(s1)
    BY <1>1, <1>2, <1>3, <1>4, <1>5, <1>10 DEF Descends
  <1>20. Ascends(s1)
    <2> SUFFICES ASSUME NEW x \in Nodes, Open(s1, x)
                 PROVE  \E k \in 1..b : s.index[Grey(s, k)] <= s.index[x] /\ Reaches(x, Grey(s, k))
      BY <1>3, <1>5 DEF Ascends
    <2>1. Open(s, x) /\ s.index[x] < s.index[n]
      BY <1>10
    <2>2. PICK k \in 1..d : s.index[Grey(s, k)] <= s.index[x] /\ Reaches(x, Grey(s, k))
      BY <1>1, <1>2, <2>1 DEF Ascends
    <2>3. k # d
      BY <1>2, <1>7, <1>8, <2>1, <2>2
    <2> QED
      BY <1>4, <2>2, <2>3
  <1>21. LowReached(s1)
    <2> SUFFICES ASSUME NEW x \in Nodes, Open(s1, x)
                 PROVE  \E y \in Nodes : Open(s1, y) /\ s.low[x] = s.index[y]
                                            /\ s.index[y] <= s.index[x] /\ Reaches(x, y)
      BY <1>3 DEF LowReached
    <2>1. Open(s, x) /\ s.index[x] < s.index[n]
      BY <1>10
    <2>2. PICK y \in Nodes : Open(s, y) /\ s.low[x] = s.index[y] /\ s.index[y] <= s.index[x] /\ Reaches(x, y)
      BY <1>1, <2>1 DEF LowReached
    <2>3. Open(s1, y)
      BY <1>3, <1>7, <1>8, <2>1, <2>2
    <2> QED
      BY <2>2, <2>3
  <1>22. LowBounds(s1)
    <2> SUFFICES ASSUME NEW k \in 1..b, NEW e \in CertainEdges, Open(s1, e.from),
                        Segment(s1, k, e.from), ~Waiting(s1, e), Open(s1, e.to)
                 PROVE  s.low[Grey(s, k)] <= s.index[e.to]
      BY <1>3, <1>5 DEF LowBounds
    <2>1. ~Waiting(s, e) /\ Open(s, e.from) /\ Open(s, e.to) /\ s.index[e.from] < s.index[n]
      BY <1>10, <1>17
    <2>2. /\ s.index[Grey(s, k)] <= s.index[e.from]
          /\ k < b => s.index[e.from] < s.index[Grey(s, k + 1)]
      BY <1>3, <1>4, <1>5 DEF Segment
    <2>3. k = b => s.index[e.from] < s.index[Grey(s, k + 1)]
      BY <1>2, <1>4, <2>1
    <2>4. k < b \/ k = b
      BY <1>4
    <2>5. Segment(s, k, e.from)
      BY <2>2, <2>3, <2>4 DEF Segment
    <2> QED
      BY <1>1, <1>2, <1>4, <2>1, <2>5 DEF LowBounds
  <1>23. /\ n \in M /\ \A x \in M : M = Class(x)
         /\ \A e \in CertainEdges : e.from \in M => e.to \in M \/ Done(s, e.to)
    BY <1>2, RootedClass
  <1>24. ASSUME NEW x \in Nodes PROVE Done(s1, x) <=> Done(s, x) \/ x \in M
    <2>1. Open(s, x) => s.index[x] # 0
      BY LowNumbers
    <2>2. x \in M <=> Open(s, x) /\ s.index[n] <= s.index[x]
      BY <1>3
    <2>3. Open(s1, x) <=> Open(s, x) /\ ~(s.index[n] <= s.index[x])
      BY <1>3, <1>7, <1>8
    <2> QED
      BY <1>3, <2>1, <2>2, <2>3 DEF Done
  <1>25. DoneClosed(s1)
    <2> SUFFICES ASSUME NEW e \in CertainEdges, Done(s1, e.from) PROVE Done(s1, e.to)
      BY DEF DoneClosed
    <2>1. e.from \in Nodes /\ e.to \in Nodes
      BY CertainEnds
    <2>2. Done(s, e.to) \/ e.to \in M
      BY <1>1, <1>23, <1>24, <2>1 DEF DoneClosed
    <2> QED
      BY <1>24, <2>1, <2>2
  <1>26. Components(s1)
    <2>1. /\ \A x \in Nodes : Done(s, x) <=> \E K \in s.components : x \in K
          /\ \A K \in s.components : K # {} /\ \A x \in K : K = Class(x)
          /\ s.cycles = {K \in s.components : Cyclic(K)}
      BY <1>1 DEF Components
    <2>2. \A x \in Nodes : Done(s1, x) <=> \E K \in s1.components : x \in K
      BY <1>3, <1>24, <2>1
    <2>3. \A K \in s1.components : K # {} /\ \A x \in K : K = Class(x)
      BY <1>3, <1>23, <2>1
    <2>4. s1.cycles = {K \in s1.components : Cyclic(K)}
      <3>1. PICK C : C = s.components
        OBVIOUS
      <3>2. CASE Cyclic(M)
        <4>1. {K \in C \cup {M} : Cyclic(K)} = {K \in C : Cyclic(K)} \cup {M}
          BY <3>2
        <4> QED
          BY <1>3, <2>1, <3>1, <3>2, <4>1
      <3>3. CASE ~Cyclic(M)
        <4>1. {K \in C \cup {M} : Cyclic(K)} = {K \in C : Cyclic(K)}
          BY <3>3
        <4> QED
          BY <1>3, <2>1, <3>1, <3>3, <4>1
      <3> QED
        BY <3>2, <3>3
    <2> QED
      BY <2>2, <2>3, <2>4 DEF Components
  <1> QED
    BY <1>3, <1>12, <1>13, <1>14, <1>15, <1>16, <1>18, <1>19, <1>20, <1>21, <1>22, <1>25, <1>26 DEF SearchOk

\* What entering a node does to the fields of a search.
LEMMA EnterFields ==
    ASSUME ViewSound, NEW s \in Searches, NEW n \in Nodes, NEW parent \in Nodes \cup {NoNode},
           NEW s1, s1 = Enter(s, n, parent)
    PROVE  /\ s1 \in Searches
           /\ s1.tick = s.tick + 1 /\ s1.stack = Append(s.stack, n)
           /\ s1.index = [s.index EXCEPT ![n] = s.tick + 1]
           /\ s1.low = [s.low EXCEPT ![n] = s.tick + 1]
           /\ s1.components = s.components /\ s1.cycles = s.cycles
           /\ Deep(s1) = Deep(s) + 1 /\ \A k \in 1..Deep(s) : s1.frames[k] = s.frames[k]
           /\ Grey(s1, Deep(s1)) = n /\ s1.frames[Deep(s1)].parent = parent
           /\ s1.frames[Deep(s1)].lastTarget = NoNode
           /\ ToSet(s1.frames[Deep(s1)].rest) = EdgesFrom(n)
  <1>1. /\ s.tick \in Nat /\ s.index \in [Nodes -> Nat] /\ s.low \in [Nodes -> Nat]
        /\ s.stack \in Seq(Nodes) /\ s.frames \in Seq(Frames) /\ Deep(s) \in Nat
        /\ s.components \in SUBSET SUBSET Nodes /\ s.cycles \in SUBSET SUBSET Nodes
    BY SearchTypes
  <1>2. PICK list : list = Adjacent("dependencies", n)
    OBVIOUS
  <1>3. Listed(list, {e \in view.edges : Near("dependencies", e) = n})
    BY <1>2, AdjacentInOrder DEF ViewSound
  <1>4. {e \in view.edges : Near("dependencies", e) = n} = {e \in view.edges : e.from = n}
    BY DEF Near
  <1>5. ToSet(list) = {e \in view.edges : e.from = n} /\ list \in Seq(EdgeSpace(Nodes))
    <2>1. {e \in view.edges : e.from = n} \in SUBSET EdgeSpace(Nodes)
      BY DEF ViewSound
    <2> QED
      BY <1>3, <1>4, <2>1 DEF Listed
  <1>6. PICK frame : frame = [id |-> n, parent |-> parent, lastTarget |-> NoNode, rest |-> list]
    OBVIOUS
  <1>7. frame \in Frames
    BY <1>5, <1>6 DEF Frames
  <1>8. s1 = [s EXCEPT !.tick = @ + 1, !.index[n] = s.tick + 1, !.low[n] = s.tick + 1,
                       !.stack = Append(@, n), !.frames = Append(@, frame)]
    BY <1>2, <1>6 DEF Enter
  <1>9. /\ s1.tick = s.tick + 1 /\ s1.stack = Append(s.stack, n)
        /\ s1.index = [s.index EXCEPT ![n] = s.tick + 1]
        /\ s1.low = [s.low EXCEPT ![n] = s.tick + 1]
        /\ s1.components = s.components /\ s1.cycles = s.cycles
        /\ s1.frames = Append(s.frames, frame)
    BY <1>8 DEF Searches
  <1>10. s1.index \in [Nodes -> Nat] /\ s1.low \in [Nodes -> Nat]
    BY <1>1, <1>9
  <1>11. s1.frames \in Seq(Frames) /\ s1.stack \in Seq(Nodes)
    BY <1>1, <1>7, <1>9
  <1>12. s1 \in Searches
    <2>1. PICK t, i, w, k, f :
            /\ t = s.tick + 1 /\ i = [s.index EXCEPT ![n] = s.tick + 1]
            /\ w = [s.low EXCEPT ![n] = s.tick + 1] /\ k = Append(s.stack, n)
            /\ f = Append(s.frames, frame)
      OBVIOUS
    <2>2. s1 = [s EXCEPT !.tick = t, !.index = i, !.low = w, !.stack = k, !.frames = f]
      BY <1>8, <2>1 DEF Searches
    <2>3. t \in Nat /\ i \in [Nodes -> Nat] /\ w \in [Nodes -> Nat] /\ k \in Seq(Nodes) /\ f \in Seq(Frames)
      BY <1>1, <1>9, <1>10, <1>11, <2>1
    <2> QED
      BY <2>2, <2>3 DEF Searches
  <1>13. /\ Len(s1.frames) = Len(s.frames) + 1 /\ s1.frames[Len(s.frames) + 1] = frame
         /\ \A k \in 1..Len(s.frames) : s1.frames[k] = s.frames[k]
    BY <1>1, <1>7, <1>9
  <1> QED
    BY <1>5, <1>6, <1>9, <1>12, <1>13 DEF Deep, Grey, EdgesFrom

\* What following the next edge of the innermost frame does to the fields.
NextEdge(s) == Head(s.frames[Deep(s)].rest)
Skipped(s) == [s EXCEPT !.frames[Len(s.frames)].rest = Tail(@)]
Taken(s) == [Skipped(s) EXCEPT !.frames[Len(s.frames)].lastTarget = NextEdge(s).to]

StepsOver(s, s1, target) ==
    /\ s1 \in Searches
    /\ s1.tick = s.tick /\ s1.index = s.index /\ s1.low = s.low /\ s1.stack = s.stack
    /\ s1.components = s.components /\ s1.cycles = s.cycles
    /\ Deep(s1) = Deep(s)
    /\ \A k \in 1..(Deep(s) - 1) : s1.frames[k] = s.frames[k]
    /\ Grey(s1, Deep(s)) = Grey(s, Deep(s))
    /\ s1.frames[Deep(s)].parent = s.frames[Deep(s)].parent
    /\ s1.frames[Deep(s)].rest = Tail(s.frames[Deep(s)].rest)
    /\ s1.frames[Deep(s)].lastTarget = target

LEMMA FollowFields ==
    ASSUME NEW s \in Searches, Deep(s) # 0, s.frames[Deep(s)].rest # <<>>
    PROVE  /\ NextEdge(s) \in EdgeSpace(Nodes) /\ NextEdge(s) \in ToSet(s.frames[Deep(s)].rest)
           /\ StepsOver(s, Skipped(s), s.frames[Deep(s)].lastTarget)
           /\ StepsOver(s, Taken(s), NextEdge(s).to)
  <1>1. PICK d, e, old : d = Deep(s) /\ e = NextEdge(s) /\ old = s.frames[d]
    OBVIOUS
  <1>2. d \in Nat /\ d \in 1..d /\ d = Len(s.frames) /\ old \in Frames
    BY <1>1, SearchTypes DEF Deep
  <1>3. /\ old.rest \in Seq(EdgeSpace(Nodes)) /\ old.id \in Nodes
        /\ old.parent \in Nodes \cup {NoNode} /\ old.lastTarget \in Nodes \cup {NoNode}
    BY <1>2 DEF Frames
  <1>4. e \in EdgeSpace(Nodes) /\ e \in ToSet(old.rest) /\ Tail(old.rest) \in Seq(EdgeSpace(Nodes))
    BY <1>1, <1>3, ElementsOfFront DEF NextEdge
  <1>5. PICK skip : skip = [old EXCEPT !.rest = Tail(@)]
    OBVIOUS
  <1>6. /\ skip \in Frames /\ skip.id = old.id /\ skip.parent = old.parent
        /\ skip.lastTarget = old.lastTarget /\ skip.rest = Tail(old.rest)
    BY <1>2, <1>4, <1>5 DEF Frames
  <1>7. PICK take : take = [skip EXCEPT !.lastTarget = e.to]
    OBVIOUS
  <1>8. e.to \in Nodes
    BY <1>4, EdgeFields
  <1>9. /\ take \in Frames /\ take.id = old.id /\ take.parent = old.parent
        /\ take.lastTarget = e.to /\ take.rest = Tail(old.rest)
    BY <1>6, <1>7, <1>8 DEF Frames
  <1>10. PICK f1 : f1 = [s.frames EXCEPT ![d] = skip]
    OBVIOUS
  <1>11. /\ f1 \in Seq(Frames) /\ Len(f1) = d /\ f1[d] = skip
         /\ \A k \in 1..(d - 1) : f1[k] = s.frames[k]
    <2>1. s.frames \in Seq(Frames)
      BY SearchTypes
    <2> QED
      BY <1>2, <1>6, <1>10, <2>1, ExceptSeq
  <1>12. PICK f2 : f2 = [f1 EXCEPT ![d] = take]
    OBVIOUS
  <1>13. /\ f2 \in Seq(Frames) /\ Len(f2) = d /\ f2[d] = take
         /\ \A k \in 1..(d - 1) : f2[k] = s.frames[k]
    BY <1>2, <1>9, <1>11, <1>12, ExceptSeq
  <1>14. Skipped(s) = [s EXCEPT !.frames = f1]
    BY <1>1, <1>2, <1>5, <1>10 DEF Skipped, Searches
  <1>15. Taken(s) = [s EXCEPT !.frames = f2]
    BY <1>1, <1>2, <1>7, <1>11, <1>12, <1>14 DEF Taken, Searches
  <1>16. ASSUME NEW f \in Seq(Frames), NEW s1, s1 = [s EXCEPT !.frames = f]
         PROVE  /\ s1 \in Searches /\ s1.frames = f
                /\ s1.tick = s.tick /\ s1.index = s.index /\ s1.low = s.low /\ s1.stack = s.stack
                /\ s1.components = s.components /\ s1.cycles = s.cycles
    BY <1>16 DEF Searches
  <1>17. StepsOver(s, Skipped(s), old.lastTarget)
    <2>1. PICK s1 : s1 = Skipped(s)
      OBVIOUS
    <2>2. /\ s1 \in Searches /\ s1.frames = f1
          /\ s1.tick = s.tick /\ s1.index = s.index /\ s1.low = s.low /\ s1.stack = s.stack
          /\ s1.components = s.components /\ s1.cycles = s.cycles
      BY <1>11, <1>14, <1>16, <2>1
    <2>3. StepsOver(s, s1, old.lastTarget)
      BY <1>1, <1>2, <1>6, <1>11, <2>2 DEF StepsOver, Deep, Grey
    <2> QED
      BY <2>1, <2>3
  <1>18. StepsOver(s, Taken(s), e.to)
    <2>1. PICK s1 : s1 = Taken(s)
      OBVIOUS
    <2>2. /\ s1 \in Searches /\ s1.frames = f2
          /\ s1.tick = s.tick /\ s1.index = s.index /\ s1.low = s.low /\ s1.stack = s.stack
          /\ s1.components = s.components /\ s1.cycles = s.cycles
      BY <1>13, <1>15, <1>16, <2>1
    <2>3. StepsOver(s, s1, e.to)
      BY <1>1, <1>2, <1>9, <1>13, <2>2 DEF StepsOver, Deep, Grey
    <2> QED
      BY <2>1, <2>3
  <1> QED
    BY <1>1, <1>4, <1>17, <1>18

\* The search is the same of an unchanged graph.
LEMMA SameSearch ==
    ASSUME UNCHANGED <<given, view>>, SearchOk(search')
    PROVE  SearchOk(search)'
  <1>1. CertainEdges' = CertainEdges
    BY DEF CertainEdges, Eligible, LocalVertex
  <1>2. \A x : From(x)' = From(x)
    BY <1>1 DEF From, DependencyArcs, Arcs, Near, Far, Everywhere, Reachable
  <1>3. \A x, y : Reaches(x, y)' <=> Reaches(x, y)
    BY <1>2 DEF Reaches
  <1>4. \A x : Class(x)' = Class(x)
    BY <1>3 DEF Class
  <1>5. \A K : Cyclic(K)' <=> Cyclic(K)
    BY DEF Cyclic, SelfLoop, Eligible, LocalVertex
  <1>6. PICK s : s = search'
    OBVIOUS
  <1>7. /\ s \in Searches /\ Numbered(s) /\ Path(s) /\ Bottom(s) /\ RestOwn(s) /\ Repeated(s) /\ Met(s)
        /\ Descends(s) /\ Ascends(s) /\ LowReached(s) /\ LowBounds(s) /\ DoneClosed(s) /\ Components(s)
    BY <1>6 DEF SearchOk
  <1>8. /\ (search \in Searches)' /\ Numbered(search)'
        /\ Bottom(search)' /\ RestOwn(search)' /\ Repeated(search)'
    BY <1>6, <1>7 DEF Searches, Frames, EdgeSpace, Numbered, Bottom, RestOwn, Repeated, Grey, Deep, Open
  <1>9. Path(search)'
    BY <1>3, <1>6, <1>7 DEF Path, Grey, Deep, Open
  <1>10. Met(search)' /\ DoneClosed(search)'
    BY <1>1, <1>6, <1>7 DEF Met, DoneClosed, Waiting, Grey, Deep, Open, Done
  <1>11. Descends(search)'
    BY <1>3, <1>6, <1>7 DEF Descends, Grey, Deep, Open
  <1>12. Ascends(search)'
    BY <1>3, <1>6, <1>7 DEF Ascends, Grey, Deep, Open
  <1>13. LowReached(search)'
    BY <1>3, <1>6, <1>7 DEF LowReached, Grey, Deep, Open
  <1>14. LowBounds(search)'
    BY <1>1, <1>6, <1>7 DEF LowBounds, Segment, Waiting, Grey, Deep, Open
  <1>15. Components(search)'
    BY <1>4, <1>5, <1>6, <1>7 DEF Components, Done, Open
  <1> QED
    BY <1>8, <1>9, <1>10, <1>11, <1>12, <1>13, <1>14, <1>15 DEF SearchOk

LEMMA FramesExist ==
    ASSUME NEW s \in Searches
    PROVE  /\ s.frames # <<>> <=> Deep(s) # 0
           /\ Deep(s) # 0 => Deep(s) \in 1..Deep(s) /\ Last(s.frames) = s.frames[Deep(s)]
  <1>1. s.frames \in Seq(Frames) /\ Deep(s) \in Nat
    BY SearchTypes
  <1>2. s.frames = <<>> <=> Len(s.frames) = 0
    BY <1>1, EmptySeq
  <1> QED
    BY <1>1, <1>2 DEF Deep, Last

\* The three ways to go over an edge without entering a node.
LEMMA StepsOverOk ==
    ASSUME ViewSound, NEW s, SearchOk(s), Deep(s) # 0, s.frames[Deep(s)].rest # <<>>,
           NEW e, e = NextEdge(s), NEW s1, NEW target, StepsOver(s, s1, target),
           target = s.frames[Deep(s)].lastTarget \/ (e \in CertainEdges /\ target = e.to),
           e \in CertainEdges => s.index[e.to] # 0,
           NEW v \in Nat, NEW s2, s2 = [s1 EXCEPT !.low[Grey(s, Deep(s))] = v],
           e \in CertainEdges /\ Open(s, e.to) => v <= s.index[e.to],
           \/ v = s.low[Grey(s, Deep(s))]
           \/ /\ v < s.low[Grey(s, Deep(s))] /\ v = s.index[e.to]
              /\ e \in CertainEdges /\ Open(s, e.to)
    PROVE  SearchOk(s2)
  <1>1. PICK d, n : d = Deep(s) /\ n = Grey(s, d)
    OBVIOUS
  <1>2. s \in Searches /\ d \in Nat /\ d \in 1..d /\ n \in Nodes
    BY <1>1, SearchTypes DEF SearchOk
  <1>3. e \in EdgeSpace(Nodes) /\ e \in ToSet(s.frames[d].rest)
    BY <1>1, <1>2, FollowFields
  <1>4. /\ s1 \in Searches
        /\ s1.tick = s.tick /\ s1.index = s.index /\ s1.low = s.low /\ s1.stack = s.stack
        /\ s1.components = s.components /\ s1.cycles = s.cycles /\ Deep(s1) = d
        /\ \A k \in 1..(d - 1) : s1.frames[k] = s.frames[k]
        /\ Grey(s1, d) = n /\ s1.frames[d].parent = s.frames[d].parent
        /\ s1.frames[d].rest = Tail(s.frames[d].rest) /\ s1.frames[d].lastTarget = target
    BY <1>1 DEF StepsOver
  <1>5. s1.low \in [Nodes -> Nat] /\ s1.frames \in Seq(Frames)
    BY <1>4, SearchTypes
  <1>6. /\ s2.tick = s1.tick /\ s2.index = s1.index /\ s2.stack = s1.stack /\ s2.frames = s1.frames
        /\ s2.components = s1.components /\ s2.cycles = s1.cycles
        /\ s2.low = [s1.low EXCEPT ![n] = v]
    BY <1>1, <1>4 DEF Searches
  <1>7. s2 \in Searches
    <2>1. PICK w : w = [s1.low EXCEPT ![n] = v]
      OBVIOUS
    <2>2. w \in [Nodes -> Nat]
      BY <1>5, <2>1
    <2>3. s2 = [s1 EXCEPT !.low = w]
      BY <1>1, <1>4, <2>1 DEF Searches
    <2> QED
      BY <1>4, <2>2, <2>3 DEF Searches
  <1>8. ToSet(s.frames[d].rest) = ToSet(s1.frames[d].rest) \cup {e}
    <2>1. s.frames[d].rest \in Seq(EdgeSpace(Nodes))
      BY <1>1, <1>2, SearchTypes
    <2> QED
      BY <1>1, <1>4, <2>1, ElementsOfFront DEF NextEdge
  <1>9. ASSUME NEW k \in 1..d
        PROVE  /\ Grey(s1, k) = Grey(s, k) /\ s1.frames[k].parent = s.frames[k].parent
               /\ ToSet(s1.frames[k].rest) \in SUBSET ToSet(s.frames[k].rest)
               /\ \A f \in ToSet(s.frames[k].rest) : f \in ToSet(s1.frames[k].rest) \/ f = e
               /\ \/ s1.frames[k].lastTarget = s.frames[k].lastTarget
                  \/ k = d /\ e \in CertainEdges /\ s1.frames[k].lastTarget = e.to
    <2>1. k = d \/ k \in 1..(d - 1)
      BY <1>2
    <2>2. CASE k \in 1..(d - 1)
      BY <1>4, <2>2 DEF Grey
    <2>3. CASE k = d
      BY <1>1, <1>4, <1>8, <2>3
    <2> QED
      BY <2>1, <2>2, <2>3
  <1>10. Advanced(s, s2, e, v)
    <2>1. Deep(s2) = d /\ \A k : Grey(s2, k) = Grey(s1, k) /\ s2.frames[k] = s1.frames[k]
      BY <1>4, <1>6 DEF Deep, Grey
    <2>2. \A k \in 1..d :
            /\ Grey(s2, k) = Grey(s, k) /\ s2.frames[k].parent = s.frames[k].parent
            /\ ToSet(s2.frames[k].rest) \in SUBSET ToSet(s.frames[k].rest)
            /\ \A f \in ToSet(s.frames[k].rest) : f \in ToSet(s2.frames[k].rest) \/ f = e
            /\ \/ s2.frames[k].lastTarget = s.frames[k].lastTarget
               \/ k = d /\ e \in CertainEdges /\ s2.frames[k].lastTarget = e.to
      BY <1>9, <2>1
    <2>3. /\ s2.tick = s.tick /\ s2.index = s.index /\ s2.stack = s.stack
          /\ s2.components = s.components /\ s2.cycles = s.cycles
          /\ s2.low = [s.low EXCEPT ![n] = v]
      BY <1>4, <1>6
    <2> QED
      BY <1>1, <1>2, <1>3, <1>7, <2>1, <2>2, <2>3 DEF Advanced
  <1> QED
    BY <1>10, AdvancedOk

LEMMA FollowEdgeOk ==
    ASSUME ViewSound, SearchOk(search), FollowEdge
    PROVE  SearchOk(search')
  <1>1. PICK s, s1 : s = search /\ s1 = search'
    OBVIOUS
  <1>2. PICK d : d = Deep(s)
    OBVIOUS
  <1>3. SearchOk(s) /\ s \in Searches /\ RestOwn(s) /\ Repeated(s)
    BY <1>1 DEF SearchOk
  <1>4. d # 0 /\ d \in Nat /\ d \in 1..d /\ Frame = s.frames[d] /\ s.frames[d].rest # <<>>
    BY <1>1, <1>2, <1>3, FramesExist, SearchTypes DEF FollowEdge, Frame
  <1>5. PICK e, n, old : e = NextEdge(s) /\ n = Grey(s, d) /\ old = s.frames[d].lastTarget
    OBVIOUS
  <1>6. s1 = IF ~Eligible(e) \/ old = e.to THEN Skipped(s)
             ELSE IF s.index[e.to] = 0 THEN Enter(Taken(s), e.to, n)
             ELSE IF Contains(s.stack, e.to) THEN Lowered(Taken(s), n, s.index[e.to])
             ELSE Taken(s)
    BY <1>1, <1>2, <1>4, <1>5 DEF FollowEdge, Skipped, Taken, NextEdge, Grey
  <1>7. /\ e \in EdgeSpace(Nodes) /\ e \in ToSet(s.frames[d].rest)
        /\ StepsOver(s, Skipped(s), old) /\ StepsOver(s, Taken(s), e.to)
    BY <1>2, <1>3, <1>4, <1>5, FollowFields
  <1>8. e \in view.edges /\ e.from = n /\ e.to \in Nodes /\ (e \in CertainEdges <=> Eligible(e))
    BY <1>2, <1>3, <1>4, <1>5, <1>7, EdgeFields DEF RestOwn, CertainEdges
  <1>9. n \in Nodes /\ s.low[n] \in Nat /\ s.index[e.to] \in Nat /\ e.to # NoNode
    BY <1>2, <1>3, <1>4, <1>5, <1>8, SearchTypes, CertainEnds
  <1>10. Contains(s.stack, e.to) <=> Open(s, e.to)
    BY <1>3, SearchTypes DEF Contains, Open, ToSet
  <1>11. ASSUME NEW r, NEW target, StepsOver(s, r, target) PROVE r = [r EXCEPT !.low[n] = s.low[n]]
    <2>1. r \in Searches /\ r.low = s.low
      BY <1>11 DEF StepsOver
    <2>2. r.low \in [Nodes -> Nat] /\ r.low[n] = s.low[n]
      BY <2>1, SearchTypes
    <2>3. r.low = [r.low EXCEPT ![n] = s.low[n]]
      BY <1>9, <2>2
    <2>4. r = [r EXCEPT !.low = [r.low EXCEPT ![n] = s.low[n]]]
      BY <2>1, <2>3 DEF Searches
    <2> QED
      BY <2>1, <2>4 DEF Searches
  <1>12. CASE ~Eligible(e)
    <2>1. s1 = Skipped(s) /\ e \notin CertainEdges
      BY <1>6, <1>8, <1>12
    <2>2. s1 = [s1 EXCEPT !.low[n] = s.low[n]]
      BY <1>7, <1>11, <2>1
    <2> QED
      BY <1>1, <1>2, <1>3, <1>4, <1>5, <1>7, <1>9, <2>1, <2>2, StepsOverOk
  <1>13. CASE Eligible(e) /\ old = e.to
    <2>1. s1 = Skipped(s)
      BY <1>6, <1>13
    <2>2. s1 = [s1 EXCEPT !.low[n] = s.low[n]]
      BY <1>7, <1>11, <2>1
    <2>3. s.index[e.to] # 0 /\ (Open(s, e.to) => s.low[n] <= s.index[e.to])
      BY <1>2, <1>3, <1>4, <1>5, <1>9, <1>13 DEF Repeated
    <2> QED
      BY <1>1, <1>2, <1>3, <1>4, <1>5, <1>7, <1>9, <2>1, <2>2, <2>3, StepsOverOk
  <1>14. CASE Eligible(e) /\ old # e.to /\ s.index[e.to] # 0 /\ ~Open(s, e.to)
    <2>1. s1 = Taken(s) /\ e \in CertainEdges
      BY <1>6, <1>8, <1>10, <1>14
    <2>2. s1 = [s1 EXCEPT !.low[n] = s.low[n]]
      BY <1>7, <1>11, <2>1
    <2> QED
      BY <1>1, <1>2, <1>3, <1>4, <1>5, <1>7, <1>9, <1>14, <2>1, <2>2, StepsOverOk
  <1>15. CASE Eligible(e) /\ old # e.to /\ s.index[e.to] # 0 /\ Open(s, e.to)
    <2>1. PICK r : r = Taken(s)
      OBVIOUS
    <2>2. StepsOver(s, r, e.to) /\ e \in CertainEdges /\ r.low = s.low
      BY <1>7, <1>8, <1>15, <2>1 DEF StepsOver
    <2>3. s1 = IF s.index[e.to] < s.low[n] THEN [r EXCEPT !.low[n] = s.index[e.to]] ELSE r
      BY <1>6, <1>10, <1>15, <2>1, <2>2 DEF Lowered
    <2>4. PICK v : v = IF s.index[e.to] < s.low[n] THEN s.index[e.to] ELSE s.low[n]
      OBVIOUS
    <2>5. s1 = [r EXCEPT !.low[n] = v]
      BY <1>11, <2>2, <2>3, <2>4
    <2>6. v \in Nat /\ v <= s.index[e.to] /\ (v = s.low[n] \/ (v < s.low[n] /\ v = s.index[e.to]))
      BY <1>9, <2>4
    <2> QED
      BY <1>1, <1>2, <1>3, <1>4, <1>5, <1>15, <2>2, <2>5, <2>6, StepsOverOk
  <1>16. CASE Eligible(e) /\ old # e.to /\ s.index[e.to] = 0
    <2>1. PICK r : r = Taken(s)
      OBVIOUS
    <2>2. /\ r \in Searches
          /\ r.tick = s.tick /\ r.index = s.index /\ r.low = s.low /\ r.stack = s.stack
          /\ r.components = s.components /\ r.cycles = s.cycles /\ Deep(r) = d
          /\ \A k \in 1..(d - 1) : r.frames[k] = s.frames[k]
          /\ Grey(r, d) = n /\ r.frames[d].parent = s.frames[d].parent
          /\ r.frames[d].rest = Tail(s.frames[d].rest) /\ r.frames[d].lastTarget = e.to
      BY <1>2, <1>5, <1>7, <2>1 DEF StepsOver
    <2>3. s1 = Enter(r, e.to, n) /\ e \in CertainEdges
      BY <1>6, <1>8, <1>16, <2>1
    <2>4. /\ s1 \in Searches
          /\ s1.tick = s.tick + 1 /\ s1.stack = Append(s.stack, e.to)
          /\ s1.index = [s.index EXCEPT ![e.to] = s.tick + 1]
          /\ s1.low = [s.low EXCEPT ![e.to] = s.tick + 1]
          /\ s1.components = s.components /\ s1.cycles = s.cycles
          /\ Deep(s1) = d + 1 /\ \A k \in 1..d : s1.frames[k] = r.frames[k]
          /\ Grey(s1, d + 1) = e.to /\ s1.frames[d + 1].parent = n
          /\ s1.frames[d + 1].lastTarget = NoNode
          /\ ToSet(s1.frames[d + 1].rest) = EdgesFrom(e.to)
      <3>1. PICK t : t = e.to
        OBVIOUS
      <3>2. t \in Nodes /\ n \in Nodes \cup {NoNode} /\ s1 = Enter(r, t, n)
        BY <1>8, <1>9, <2>3, <3>1
      <3>3. /\ s1 \in Searches
            /\ s1.tick = r.tick + 1 /\ s1.stack = Append(r.stack, t)
            /\ s1.index = [r.index EXCEPT ![t] = r.tick + 1]
            /\ s1.low = [r.low EXCEPT ![t] = r.tick + 1]
            /\ s1.components = r.components /\ s1.cycles = r.cycles
            /\ Deep(s1) = Deep(r) + 1 /\ \A k \in 1..Deep(r) : s1.frames[k] = r.frames[k]
            /\ Grey(s1, Deep(s1)) = t /\ s1.frames[Deep(s1)].parent = n
            /\ s1.frames[Deep(s1)].lastTarget = NoNode
            /\ ToSet(s1.frames[Deep(s1)].rest) = EdgesFrom(t)
        BY <2>2, <3>2, EnterFields
      <3> QED
        BY <2>2, <3>1, <3>3
    <2>5. e.to \in given.local /\ Reaches(n, e.to)
      <3>1. Reaches(n, n)
        BY <1>9, FromClosed
      <3> QED
        BY <1>8, <1>9, <2>3, <3>1, FromClosed, CertainEnds
    <2>6. ToSet(s.frames[d].rest) = ToSet(r.frames[d].rest) \cup {e}
      <3>1. s.frames[d].rest \in Seq(EdgeSpace(Nodes))
        BY <1>2, <1>3, <1>4, SearchTypes
      <3> QED
        BY <1>2, <1>4, <1>5, <2>2, <3>1, ElementsOfFront DEF NextEdge
    <2>7. ASSUME NEW k \in 1..d
          PROVE  /\ Grey(s1, k) = Grey(s, k) /\ s1.frames[k].parent = s.frames[k].parent
                 /\ s1.frames[k].lastTarget \in {s.frames[k].lastTarget, e.to}
                 /\ ToSet(s1.frames[k].rest) \in SUBSET ToSet(s.frames[k].rest)
                 /\ \A f \in ToSet(s.frames[k].rest) : f \in ToSet(s1.frames[k].rest) \/ f.to = e.to
      <3>1. k = d \/ k \in 1..(d - 1)
        BY <1>4
      <3>2. CASE k \in 1..(d - 1)
        BY <2>2, <2>4, <3>2 DEF Grey
      <3>3. CASE k = d
        BY <1>5, <2>2, <2>4, <2>6, <3>3 DEF Grey
      <3> QED
        BY <3>1, <3>2, <3>3
    <2>8. Entered(s, s1, e.to)
      BY <1>2, <1>4, <1>5, <1>16, <2>4, <2>5, <2>7 DEF Entered
    <2> QED
      BY <1>1, <1>3, <2>8, EnteredOk
  <1> QED
    BY <1>12, <1>13, <1>14, <1>15, <1>16

\* The smallest node that was not met becomes the root of a new tree.
LEMMA EnterRootOk ==
    ASSUME ViewSound, SearchOk(search), EnterRoot
    PROVE  SearchOk(search')
  <1>1. PICK s, s1 : s = search /\ s1 = search'
    OBVIOUS
  <1>2. SearchOk(s) /\ s \in Searches
    BY <1>1 DEF SearchOk
  <1>3. PICK n \in given.local : s.index[n] = 0 /\ s1 = Enter(s, n, NoNode)
    BY <1>1 DEF EnterRoot, Unvisited
  <1>4. Deep(s) = 0
    BY <1>1, <1>2, FramesExist DEF EnterRoot
  <1>5. n \in Nodes /\ NoNode \in Nodes \cup {NoNode}
    BY CertainEnds
  <1>6. /\ s1 \in Searches
        /\ s1.tick = s.tick + 1 /\ s1.stack = Append(s.stack, n)
        /\ s1.index = [s.index EXCEPT ![n] = s.tick + 1]
        /\ s1.low = [s.low EXCEPT ![n] = s.tick + 1]
        /\ s1.components = s.components /\ s1.cycles = s.cycles
        /\ Deep(s1) = Deep(s) + 1
        /\ Grey(s1, Deep(s1)) = n /\ s1.frames[Deep(s1)].parent = NoNode
        /\ s1.frames[Deep(s1)].lastTarget = NoNode
        /\ ToSet(s1.frames[Deep(s1)].rest) = EdgesFrom(n)
    BY <1>2, <1>3, <1>5, EnterFields
  <1>7. \A k \in 1..Deep(s) : FALSE
    BY <1>4
  <1>8. Entered(s, s1, n)
    BY <1>3, <1>4, <1>6, <1>7 DEF Entered
  <1> QED
    BY <1>1, <1>2, <1>8, EnteredOk

\* The nodes above one on the stack are those met since, and the rest of the
\* stack those met before.
LEMMA StackSplit ==
    ASSUME SearchOk(search), NEW n, Open(search, n)
    PROVE  /\ Members(n) = {x \in Nodes : Open(search, x) /\ search.index[n] <= search.index[x]}
           /\ Popped(n) \in Seq(Nodes) /\ Len(Popped(n)) <= Len(search.stack)
           /\ \A i \in 1..Len(Popped(n)) : Popped(n)[i] = search.stack[i]
           /\ \A x : x \in ToSet(Popped(n)) <=>
                        Open(search, x) /\ search.index[x] < search.index[n]
  <1>1. PICK s : s = search
    OBVIOUS
  <1>2. s \in Searches /\ Numbered(s) /\ n \in Nodes
    BY <1>1, SearchTypes DEF SearchOk
  <1>3. PICK len \in Nat : len = Len(s.stack)
    BY <1>2, SearchTypes
  <1>4. /\ s.stack \in Seq(Nodes) /\ DOMAIN s.stack = 1..len /\ \A i \in 1..len : s.stack[i] \in Nodes
        /\ \A x : Open(s, x) <=> \E i \in 1..len : s.stack[i] = x
    BY <1>2, <1>3, SearchTypes
  <1>5. \A i, j \in 1..len : i < j => s.index[s.stack[i]] < s.index[s.stack[j]]
    BY <1>2, <1>3 DEF Numbered
  <1>6. PICK p : p = PositionOf(n)
    OBVIOUS
  <1>7. p \in 1..len /\ s.stack[p] = n
    <2>1. \E i \in DOMAIN s.stack : s.stack[i] = n
      BY <1>1, <1>4
    <2> QED
      BY <1>1, <1>4, <1>6, <2>1 DEF PositionOf
  <1>8. \A x \in Nodes : s.index[x] \in Nat
    BY <1>2, SearchTypes
  <1>9. ASSUME NEW i \in 1..len
        PROVE  /\ i >= p => s.index[n] <= s.index[s.stack[i]]
               /\ i < p => s.index[s.stack[i]] < s.index[n]
    <2>1. i < p \/ i = p \/ p < i
      BY <1>7
    <2>2. s.index[n] \in Nat /\ s.index[s.stack[i]] \in Nat
      BY <1>2, <1>4, <1>8
    <2>3. CASE i < p
      BY <1>5, <1>7, <2>3
    <2>4. CASE i = p
      BY <1>7, <2>2, <2>4
    <2>5. CASE p < i
      <3>1. s.index[n] < s.index[s.stack[i]]
        BY <1>5, <1>7, <2>5
      <3> QED
        BY <1>7, <2>2, <2>5, <3>1
    <2> QED
      BY <2>1, <2>3, <2>4, <2>5
  <1>10. PICK M : M = Members(n)
    OBVIOUS
  <1>11. M = {s.stack[i] : i \in p..len}
    BY <1>1, <1>3, <1>6, <1>10 DEF Members
  <1>12. \A x : x \in M <=> x \in Nodes /\ Open(s, x) /\ s.index[n] <= s.index[x]
    <2>1. ASSUME NEW x \in M PROVE x \in Nodes /\ Open(s, x) /\ s.index[n] <= s.index[x]
      <3>1. PICK i \in p..len : x = s.stack[i]
        BY <1>11
      <3>2. i \in 1..len /\ i >= p
        BY <1>7
      <3> QED
        BY <1>4, <1>9, <3>1, <3>2
    <2>2. ASSUME NEW x \in Nodes, Open(s, x), s.index[n] <= s.index[x] PROVE x \in M
      <3>1. PICK i \in 1..len : s.stack[i] = x
        BY <1>4, <2>2
      <3>2. ~(i < p)
        BY <1>2, <1>8, <1>9, <2>2, <3>1
      <3>3. i \in p..len
        BY <1>7, <3>2
      <3> QED
        BY <1>11, <3>1, <3>3
    <2> QED
      BY <2>1, <2>2
  <1>13. M = {x \in Nodes : Open(s, x) /\ s.index[n] <= s.index[x]}
    BY <1>12
  <1>14. PICK k \in 0..len : k = p - 1 /\ k < p /\ \A i \in Nat : i < p => i <= k
    BY <1>7
  <1>15. PICK q : q = Popped(n)
    OBVIOUS
  <1>16. q = SubSeq(s.stack, 1, k)
    BY <1>1, <1>6, <1>14, <1>15 DEF Popped
  <1>17. q \in Seq(Nodes) /\ Len(q) = k /\ \A i \in 1..k : q[i] = s.stack[i]
    BY <1>3, <1>4, <1>14, <1>16, StartOfSequence
  <1>18. \A x : x \in ToSet(q) <=> Open(s, x) /\ s.index[x] < s.index[n]
    <2>1. \A x : x \in ToSet(q) <=> \E i \in 1..k : q[i] = x
      BY <1>17 DEF ToSet
    <2>2. ASSUME NEW i \in 1..k PROVE i \in 1..len /\ i < p
      BY <1>7, <1>14
    <2>3. ASSUME NEW x, Open(s, x), s.index[x] < s.index[n] PROVE \E i \in 1..k : q[i] = x
      <3>1. PICK i \in 1..len : s.stack[i] = x
        BY <1>4, <2>3
      <3>2. i < p
        BY <1>2, <1>4, <1>7, <1>8, <1>9, <2>3, <3>1
      <3>3. i \in 1..k
        BY <1>14, <3>2
      <3> QED
        BY <1>17, <3>1, <3>3
    <2>4. ASSUME NEW x, NEW i \in 1..k, q[i] = x PROVE Open(s, x) /\ s.index[x] < s.index[n]
      BY <1>4, <1>9, <1>17, <2>2, <2>4
    <2> QED
      BY <2>1, <2>3, <2>4
  <1>19. Len(q) <= len
    BY <1>14, <1>17
  <1> QED
    BY <1>1, <1>3, <1>10, <1>13, <1>15, <1>17, <1>18, <1>19

\* What leaving the innermost frame does, whatever its node.
Closing(s) == [s EXCEPT !.frames = Front(@)]

LEMMA ClosingFields ==
    ASSUME NEW s \in Searches, Deep(s) # 0, NEW s1, s1 = Closing(s)
    PROVE  /\ s1 \in Searches
           /\ s1.tick = s.tick /\ s1.index = s.index /\ s1.low = s.low /\ s1.stack = s.stack
           /\ s1.components = s.components /\ s1.cycles = s.cycles
           /\ Deep(s1) = Deep(s) - 1 /\ \A k \in 1..(Deep(s) - 1) : s1.frames[k] = s.frames[k]
  <1>1. s.frames \in Seq(Frames) /\ Deep(s) \in Nat /\ Deep(s) = Len(s.frames)
    BY SearchTypes DEF Deep
  <1>2. PICK d \in 0..Len(s.frames) : d = Deep(s) - 1
    <2>1. PICK e \in Nat : e = Len(s.frames) /\ e # 0
      BY <1>1
    <2>2. e - 1 \in 0..e
      BY <2>1
    <2> QED
      BY <1>1, <2>1, <2>2
  <1>3. PICK f : f = SubSeq(s.frames, 1, d)
    OBVIOUS
  <1>4. f \in Seq(Frames) /\ Len(f) = d /\ \A k \in 1..d : f[k] = s.frames[k]
    BY <1>1, <1>3, StartOfSequence
  <1>5. f = Front(s.frames)
    BY <1>1, <1>2, <1>3 DEF Front
  <1>6. s1 = [s EXCEPT !.frames = f]
    BY <1>5 DEF Closing, Searches
  <1>7. /\ s1 \in Searches /\ s1.frames = f
        /\ s1.tick = s.tick /\ s1.index = s.index /\ s1.low = s.low /\ s1.stack = s.stack
        /\ s1.components = s.components /\ s1.cycles = s.cycles
    BY <1>4, <1>6 DEF Searches
  <1> QED
    BY <1>2, <1>4, <1>7 DEF Deep

LEMMA LeaveFrameOk ==
    ASSUME ViewSound, SearchOk(search), LeaveFrame, phase' = "analyze"
    PROVE  SearchOk(search')
  <1>1. PICK s, s1 : s = search /\ s1 = search'
    OBVIOUS
  <1>2. PICK d : d = Deep(s)
    OBVIOUS
  <1>3. SearchOk(s) /\ s \in Searches /\ Numbered(s) /\ Path(s) /\ Bottom(s) /\ LowReached(s)
    BY <1>1 DEF SearchOk
  <1>4. d # 0 /\ d \in Nat /\ d \in 1..d /\ Frame = s.frames[d] /\ s.frames[d].rest = <<>>
    BY <1>1, <1>2, <1>3, FramesExist, SearchTypes DEF LeaveFrame, Frame
  <1>5. ToSet(s.frames[d].rest) = {}
    BY <1>4 DEF ToSet
  <1>6. PICK n, r : n = Grey(s, d) /\ r = Closing(s)
    OBVIOUS
  <1>7. n \in Nodes /\ Open(s, n) /\ \A x \in Nodes : s.index[x] \in Nat /\ s.low[x] \in Nat
    BY <1>2, <1>3, <1>4, <1>6, SearchTypes DEF Path
  <1>8. /\ r \in Searches
        /\ r.tick = s.tick /\ r.index = s.index /\ r.low = s.low /\ r.stack = s.stack
        /\ r.components = s.components /\ r.cycles = s.cycles
        /\ Deep(r) = d - 1 /\ \A k \in 1..(d - 1) : r.frames[k] = s.frames[k]
    BY <1>2, <1>3, <1>4, <1>6, ClosingFields
  <1>9. PICK p, M : p = s.frames[d].parent /\ M = Members(n)
    OBVIOUS
  <1>10. PICK left : left = IF p = NoNode THEN r ELSE Lowered(r, p, s.low[n])
    OBVIOUS
  <1>11. s1 = IF s.low[n] = s.index[n]
              THEN [left EXCEPT !.stack = Popped(n), !.components = @ \cup {M},
                                !.cycles = IF Cyclic(M) THEN @ \cup {M} ELSE @]
              ELSE left
    <2>1. "analyze" # "limit_exceeded"
      OBVIOUS
    <2> QED
      BY <1>1, <1>4, <1>6, <1>9, <1>10, <2>1 DEF LeaveFrame, Closing, Grey
  <1>12. p = IF d = 1 THEN NoNode ELSE Grey(s, d - 1)
    BY <1>2, <1>3, <1>4, <1>9 DEF Path
  <1>13. ASSUME d # 1
         PROVE  /\ d > 1 /\ d - 1 \in 1..d /\ p = Grey(s, d - 1) /\ p \in Nodes /\ p # NoNode
                /\ s.index[p] < s.index[n] /\ s.low[p] <= s.index[p]
    <2>1. d > 1 /\ d - 1 \in 1..d /\ d - 1 < d
      BY <1>4, <1>13
    <2>2. p = Grey(s, d - 1) /\ p \in Nodes /\ Open(s, p)
      BY <1>2, <1>3, <1>12, <1>13, <2>1, SearchTypes DEF Path
    <2>3. s.index[p] < s.index[n]
      BY <1>2, <1>3, <1>4, <1>6, <2>1, <2>2 DEF Path
    <2> QED
      BY <1>3, <2>1, <2>2, <2>3, LowNumbers, CertainEnds
  <1>14. CASE s.low[n] # s.index[n]
    <2>1. d # 1
      <3> SUFFICES ASSUME d = 1 PROVE FALSE
        OBVIOUS
      <3>1. s.frames # <<>>
        BY <1>2, <1>3, <1>4, FramesExist
      <3>2. n = s.stack[1]
        BY <1>3, <1>6, <3>1 DEF Bottom
      <3>3. PICK y \in Nodes : Open(s, y) /\ s.low[n] = s.index[y] /\ s.index[y] <= s.index[n]
        BY <1>3, <1>7 DEF LowReached
      <3>4. PICK i \in 1..Len(s.stack) : s.stack[i] = y
        BY <1>3, <3>3, SearchTypes
      <3>5. Len(s.stack) \in Nat /\ (i = 1 \/ 1 < i) /\ 1 \in 1..Len(s.stack)
        BY <1>3, SearchTypes
      <3>6. i # 1
        BY <1>14, <3>2, <3>3, <3>4
      <3>7. s.index[n] < s.index[y]
        BY <1>3, <3>2, <3>4, <3>5, <3>6 DEF Numbered
      <3> QED
        BY <1>7, <3>3, <3>7
    <2>2. PICK v : v = IF s.low[n] < s.low[p] THEN s.low[n] ELSE s.low[p]
      OBVIOUS
    <2>3. v \in Nat /\ p \in Nodes
      BY <1>7, <1>13, <2>1, <2>2
    <2>4. s1 = [r EXCEPT !.low[p] = v]
      <3>1. s1 = Lowered(r, p, s.low[n])
        BY <1>10, <1>11, <1>13, <1>14, <2>1
      <3>2. CASE s.low[n] < s.low[p]
        BY <1>8, <2>2, <3>1, <3>2 DEF Lowered
      <3>3. CASE ~(s.low[n] < s.low[p])
        <4>1. s1 = r /\ v = s.low[p]
          BY <1>8, <2>2, <3>1, <3>3 DEF Lowered
        <4>2. r.low \in [Nodes -> Nat] /\ r.low = [r.low EXCEPT ![p] = v]
          BY <1>8, <2>3, <4>1, SearchTypes
        <4>3. r = [r EXCEPT !.low = [r.low EXCEPT ![p] = v]]
          BY <1>8, <4>2 DEF Searches
        <4> QED
          BY <1>8, <4>1, <4>3 DEF Searches
      <3> QED
        BY <3>2, <3>3
    <2>5. PICK w : w = [r.low EXCEPT ![p] = v]
      OBVIOUS
    <2>6. w \in [Nodes -> Nat]
      BY <1>8, <2>3, <2>5, SearchTypes
    <2>7. s1 = [r EXCEPT !.low = w]
      BY <1>8, <2>4, <2>5 DEF Searches
    <2>8. /\ s1 \in Searches /\ s1.low = w /\ s1.frames = r.frames
          /\ s1.tick = s.tick /\ s1.index = s.index /\ s1.stack = s.stack
          /\ s1.components = s.components /\ s1.cycles = s.cycles
      BY <1>8, <2>6, <2>7 DEF Searches
    <2>9. Deep(s1) = d - 1 /\ \A k \in 1..(d - 1) : s1.frames[k] = s.frames[k]
      BY <1>8, <2>8 DEF Deep
    <2>10. Returned(s, s1)
      BY <1>2, <1>5, <1>6, <1>8, <1>13, <1>14, <2>1, <2>2, <2>5, <2>8, <2>9 DEF Returned
    <2> QED
      BY <1>1, <1>3, <2>10, ReturnedOk
  <1>15. CASE s.low[n] = s.index[n]
    <2>1. left = r
      <3>1. CASE d = 1
        BY <1>10, <1>12, <3>1
      <3>2. CASE d # 1
        <4>1. ~(s.low[n] < s.low[p])
          BY <1>7, <1>13, <1>15, <3>2
        <4> QED
          BY <1>8, <1>10, <1>13, <3>2, <4>1 DEF Lowered
      <3> QED
        BY <3>1, <3>2
    <2>2. /\ M = {x \in Nodes : Open(s, x) /\ s.index[n] <= s.index[x]}
          /\ Popped(n) \in Seq(Nodes) /\ Len(Popped(n)) <= Len(s.stack)
          /\ \A i \in 1..Len(Popped(n)) : Popped(n)[i] = s.stack[i]
          /\ \A x : x \in ToSet(Popped(n)) <=> Open(s, x) /\ s.index[x] < s.index[n]
      BY <1>1, <1>7, <1>9, StackSplit
    <2>3. PICK q, C, Y : /\ q = Popped(n) /\ C = s.components \cup {M}
                         /\ Y = IF Cyclic(M) THEN s.cycles \cup {M} ELSE s.cycles
      OBVIOUS
    <2>4. q \in Seq(Nodes) /\ C \in SUBSET SUBSET Nodes /\ Y \in SUBSET SUBSET Nodes
      <3>1. s.components \in SUBSET SUBSET Nodes /\ s.cycles \in SUBSET SUBSET Nodes
        BY <1>3, SearchTypes
      <3>2. M \in SUBSET Nodes
        BY <2>2
      <3> QED
        BY <2>2, <2>3, <3>1, <3>2
    <2>5. s1 = [r EXCEPT !.stack = q, !.components = C, !.cycles = Y]
      BY <1>8, <1>11, <1>15, <2>1, <2>3 DEF Searches
    <2>6. /\ s1 \in Searches /\ s1.stack = q /\ s1.components = C /\ s1.cycles = Y
          /\ s1.frames = r.frames /\ s1.tick = s.tick /\ s1.index = s.index /\ s1.low = s.low
      BY <1>8, <2>4, <2>5 DEF Searches
    <2>7. Deep(s1) = d - 1 /\ \A k \in 1..(d - 1) : s1.frames[k] = s.frames[k]
      BY <1>8, <2>6 DEF Deep
    <2>8. \A x \in Nodes : Open(s1, x) <=> Open(s, x) /\ s.index[x] < s.index[n]
      BY <2>2, <2>3, <2>6 DEF Open
    <2>9. Rooted(s, s1, M)
      BY <1>2, <1>4, <1>5, <1>6, <1>15, <2>2, <2>3, <2>6, <2>7, <2>8 DEF Rooted
    <2> QED
      BY <1>1, <1>3, <2>9, RootedOk
  <1> QED
    BY <1>14, <1>15

-----------------------------------------------------------------------------
(* The strong components *)

SearchInv ==
    phase \in {"analyze", "analyzed"} =>
        /\ SearchOk(search)
        /\ phase = "analyzed" => search.frames = <<>> /\ Unvisited = {}

LEMMA SearchInvInit == GraphInit => SearchInv
  BY DEF GraphInit, SearchInv

LEMMA SearchInvNext == ViewSound /\ SearchInv /\ [GraphNext]_graphVars => SearchInv'
  <1> SUFFICES ASSUME ViewSound, SearchInv, [GraphNext]_graphVars PROVE SearchInv'
    OBVIOUS
  <1>1. ASSUME UNCHANGED <<given, view>>, SearchOk(search'), phase' = "analyze" PROVE SearchInv'
    <2>1. SearchOk(search)'
      BY <1>1, SameSearch
    <2> QED
      BY <1>1, <2>1 DEF SearchInv
  <1>2. ASSUME phase' \notin {"analyze", "analyzed"} PROVE SearchInv'
    BY <1>2 DEF SearchInv
  <1>3. CASE BeginAnalyze
    <2>1. SearchOk(search')
      BY <1>3, EmptySearchOk DEF BeginAnalyze
    <2> QED
      BY <1>1, <1>3, <2>1 DEF BeginAnalyze
  <1>4. CASE EnterRoot
    <2>1. SearchOk(search) /\ phase' = "analyze" /\ UNCHANGED <<given, view>>
      BY <1>4 DEF EnterRoot, SearchInv
    <2>2. SearchOk(search')
      BY <1>4, <2>1, EnterRootOk
    <2> QED
      BY <1>1, <2>1, <2>2
  <1>5. CASE FollowEdge
    <2>1. SearchOk(search) /\ phase' = "analyze" /\ UNCHANGED <<given, view>>
      BY <1>5 DEF FollowEdge, SearchInv
    <2>2. SearchOk(search')
      BY <1>5, <2>1, FollowEdgeOk
    <2> QED
      BY <1>1, <2>1, <2>2
  <1>6. CASE LeaveFrame
    <2>1. SearchOk(search) /\ phase' \in {"analyze", "limit_exceeded"} /\ UNCHANGED <<given, view>>
      BY <1>6 DEF LeaveFrame, SearchInv
    <2>2. CASE phase' = "analyze"
      <3>1. SearchOk(search')
        BY <1>6, <2>1, <2>2, LeaveFrameOk
      <3> QED
        BY <1>1, <2>1, <2>2, <3>1
    <2>3. CASE phase' = "limit_exceeded"
      BY <1>2, <2>3
    <2> QED
      BY <2>1, <2>2, <2>3
  <1>7. CASE EndAnalyze
    <2>1. SearchOk(search') /\ UNCHANGED <<given, view, search>>
      BY <1>7 DEF EndAnalyze, SearchInv
    <2>2. SearchOk(search)'
      BY <2>1, SameSearch
    <2>3. search'.frames = <<>> /\ Unvisited' = {}
      BY <1>7 DEF EndAnalyze, Unvisited
    <2> QED
      BY <2>2, <2>3 DEF SearchInv
  <1>8. CASE Normalize
    <2>1. phase' \notin {"analyze", "analyzed"}
      BY <1>8 DEF Normalize, NormalizeOutcome
    <2> QED
      BY <1>2, <2>1
  <1>9. CASE \E seeds \in SUBSET Nodes, d \in Directions, l \in ImpactLimits : BeginImpact(seeds, d, l)
    BY <1>2, <1>9 DEF BeginImpact
  <1>10. CASE TakeNode \/ ScanEdge \/ Deepen \/ StopImpact \/ EndImpact
    BY <1>2, <1>10 DEF TakeNode, ScanEdge, Deepen, StopImpact, EndImpact
  <1>11. CASE \E n \in Nodes, d \in Directions : BeginPages(n, d)
    BY <1>2, <1>11 DEF BeginPages
  <1>12. CASE NextPage
    <2>1. phase' \in {"pages", "served"}
      BY <1>12 DEF NextPage
    <2> QED
      BY <1>2, <2>1
  <1>13. CASE UNCHANGED graphVars
    <2>1. UNCHANGED <<given, view, search, phase>>
      BY <1>13 DEF graphVars
    <2>2. CASE phase \in {"analyze", "analyzed"}
      <3>1. SearchOk(search')
        BY <2>1, <2>2 DEF SearchInv
      <3>2. SearchOk(search)'
        BY <2>1, <3>1, SameSearch
      <3>3. phase = "analyzed" => search.frames = <<>> /\ Unvisited = {}
        BY <2>2 DEF SearchInv
      <3>4. Unvisited' = Unvisited
        BY <2>1 DEF Unvisited
      <3> QED
        BY <2>1, <3>2, <3>3, <3>4 DEF SearchInv
    <2>3. CASE phase \notin {"analyze", "analyzed"}
      BY <1>2, <2>1, <2>3
    <2> QED
      BY <2>2, <2>3
  <1> QED
    BY <1>3, <1>4, <1>5, <1>6, <1>7, <1>8, <1>9, <1>10, <1>11, <1>12, <1>13 DEF GraphNext

\* A class has a cycle when one of its nodes reaches itself by an edge.
LEMMA CyclicClasses ==
    ASSUME ViewSound, NEW x \in given.local
    PROVE  Cyclic(Class(x)) <=>
                \E m \in Class(x), e \in CertainEdges : e.from = m /\ Reaches(e.to, m)
  <1>1. PICK K : K = Class(x)
    OBVIOUS
  <1>2. x \in K /\ \A y \in K : Class(y) = K
    BY <1>1, Classes
  <1>3. K \in SUBSET given.local /\ given.local \in SUBSET Nodes
    BY <1>1, CertainEnds DEF Class
  <1>4. \A y, z \in K : Reaches(y, z) /\ Reaches(z, y)
    BY <1>2 DEF Class
  <1>5. IsFiniteSet(K)
    <2>1. K \in SUBSET Nodes
      BY <1>3
    <2> QED
      BY <2>1, NodesAssumption, FS_Subset
  <1>6. SelfLoop(K) <=> \E e \in CertainEdges : e.from \in K /\ e.from = e.to
    BY DEF SelfLoop, CertainEdges
  <1>7. ASSUME NEW e \in CertainEdges, e.from \in K, Reaches(e.to, e.from) PROVE e.to \in K
    <2>1. e.to \in given.local /\ e.from \in Nodes /\ e.to \in Nodes
      BY CertainEnds
    <2>2. Reaches(e.from, e.to)
      <3>1. Reaches(e.from, e.from)
        BY <2>1, FromClosed
      <3> QED
        BY <2>1, <3>1, FromClosed
    <2>3. e.to \in Class(e.from)
      BY <1>7, <2>1, <2>2 DEF Class
    <2> QED
      BY <1>2, <1>7, <2>3
  <1>8. ASSUME Cyclic(K) PROVE \E m \in K, e \in CertainEdges : e.from = m /\ Reaches(e.to, m)
    <2>1. CASE SelfLoop(K)
      <3>1. PICK e \in CertainEdges : e.from \in K /\ e.from = e.to
        BY <1>6, <2>1
      <3>2. Reaches(e.to, e.from)
        BY <1>4, <3>1
      <3> QED
        BY <3>1, <3>2
    <2>2. CASE Cardinality(K) > 1
      <3>1. \E y \in K : y # x
        <4> SUFFICES ASSUME \A y \in K : y = x PROVE FALSE
          OBVIOUS
        <4>1. K = {x}
          BY <1>2
        <4>2. Cardinality(K) = 1
          BY <4>1, FS_Singleton
        <4> QED
          BY <2>2, <4>2
      <3>2. PICK y \in K : y # x
        BY <3>1
      <3>3. Reaches(x, y) /\ Reaches(y, x) /\ x \in Nodes /\ y \in Nodes
        BY <1>2, <1>3, <1>4, <3>2
      <3>4. PICK e \in CertainEdges : e.from = x /\ Reaches(e.to, y)
        BY <3>2, <3>3, FirstEdge
      <3>5. Reaches(e.to, x)
        BY <3>3, <3>4, ReachesTransitive, CertainEnds
      <3> QED
        BY <1>2, <3>4, <3>5
    <2> QED
      BY <1>8, <2>1, <2>2 DEF Cyclic
  <1>9. ASSUME NEW e \in CertainEdges, e.from \in K, Reaches(e.to, e.from) PROVE Cyclic(K)
    <2>1. e.to \in K
      BY <1>7, <1>9
    <2>2. CASE e.from = e.to
      BY <1>6, <1>9, <2>2 DEF Cyclic
    <2>3. CASE e.from # e.to
      <3>1. {e.from, e.to} \in SUBSET K
        BY <1>9, <2>1
      <3>2. Cardinality({e.from, e.to}) = 2
        <4>1. PICK S, y : S = {e.from} /\ y = e.to
          OBVIOUS
        <4>2. IsFiniteSet(S) /\ Cardinality(S) = 1
          BY <4>1, FS_Singleton
        <4>3. Cardinality(S \cup {y}) = Cardinality(S) + 1
          <5>1. y \notin S
            BY <2>3, <4>1
          <5> QED
            BY <4>2, <5>1, FS_AddElement
        <4>4. S \cup {y} = {e.from, e.to}
          BY <4>1
        <4> QED
          BY <4>2, <4>3, <4>4
      <3>3. Cardinality({e.from, e.to}) <= Cardinality(K) /\ Cardinality(K) \in Nat
        BY <1>5, <3>1, FS_Subset, FS_CardinalityType
      <3> QED
        BY <3>2, <3>3 DEF Cyclic
    <2> QED
      BY <2>2, <2>3
  <1> QED
    BY <1>1, <1>8, <1>9

LEMMA AnalysisIsExact == ViewSound /\ SearchInv => AnalysisExact
  <1> SUFFICES ASSUME ViewSound, SearchInv, phase = "analyzed" PROVE AnalysisExact
    BY DEF AnalysisExact
  <1>1. PICK s : s = search
    OBVIOUS
  <1>2. /\ SearchOk(s) /\ s.frames = <<>> /\ Unvisited = {}
        /\ s \in Searches /\ Numbered(s) /\ Bottom(s) /\ Components(s)
    BY <1>1 DEF SearchInv, SearchOk
  <1>3. s.stack = <<>> /\ \A x : ~Open(s, x)
    <2>1. s.stack = <<>>
      BY <1>2 DEF Bottom
    <2>2. ToSet(s.stack) = {}
      BY <2>1 DEF ToSet
    <2> QED
      BY <2>1, <2>2 DEF Open
  <1>4. given.local \in SUBSET Nodes
    BY CertainEnds
  <1>5. \A x \in Nodes : Done(s, x) <=> x \in given.local
    BY <1>1, <1>2, <1>3 DEF Done, Numbered, Unvisited
  <1>6. /\ \A x \in Nodes : Done(s, x) <=> \E K \in s.components : x \in K
        /\ \A K \in s.components : K # {} /\ \A x \in K : K = Class(x)
        /\ s.cycles = {K \in s.components : Cyclic(K)}
        /\ s.components \in SUBSET SUBSET Nodes
    BY <1>2, SearchTypes DEF Components
  <1>7. \A x \in given.local : Class(x) \in s.components
    BY <1>4, <1>5, <1>6
  <1>8. \A K \in s.components : \E x \in given.local : K = Class(x)
    <2> SUFFICES ASSUME NEW K \in s.components PROVE \E x \in given.local : K = Class(x)
      OBVIOUS
    <2>1. PICK x \in K : K = Class(x) /\ x \in Nodes
      BY <1>6
    <2> QED
      BY <1>5, <1>6, <2>1
  <1>9. s.components = {Class(n) : n \in given.local}
    BY <1>7, <1>8
  <1>10. PICK C : C = {m \in given.local : \E e \in CertainEdges : e.from = m /\ Reaches(e.to, m)}
    OBVIOUS
  <1>11. s.cycles = {Class(n) : n \in C}
    <2>1. ASSUME NEW K \in s.cycles PROVE \E n \in C : K = Class(n)
      <3>1. PICK x \in given.local : K = Class(x) /\ Cyclic(Class(x))
        BY <1>6, <1>8
      <3>2. PICK m \in Class(x) : \E e \in CertainEdges : e.from = m /\ Reaches(e.to, m)
        BY <3>1, CyclicClasses
      <3>3. m \in C /\ Class(m) = K
        BY <1>10, <3>1, <3>2, Classes DEF Class
      <3> QED
        BY <3>3
    <2>2. ASSUME NEW n \in C PROVE Class(n) \in s.cycles
      <3>1. n \in given.local /\ \E e \in CertainEdges : e.from = n /\ Reaches(e.to, n)
        BY <1>10
      <3>2. n \in Class(n)
        BY <3>1, Classes
      <3>3. Cyclic(Class(n))
        BY <3>1, <3>2, CyclicClasses
      <3> QED
        BY <1>6, <1>7, <3>1, <3>3
    <2> QED
      BY <2>1, <2>2
  <1>12. C = {m \in given.local : \E a \in DependencyArcs : a[1] = m /\ m \in From(a[2])}
    <2>1. ASSUME NEW m
          PROVE  (\E a \in DependencyArcs : a[1] = m /\ m \in From(a[2])) <=>
                    \E e \in CertainEdges : e.from = m /\ Reaches(e.to, m)
      <3>1. DependencyArcs = {<<e.from, e.to>> : e \in CertainEdges}
        BY DEF DependencyArcs, Arcs, Near, Far
      <3>2. ASSUME NEW a \in DependencyArcs, a[1] = m, m \in From(a[2])
            PROVE  \E e \in CertainEdges : e.from = m /\ Reaches(e.to, m)
        <4>1. PICK e \in CertainEdges : a = <<e.from, e.to>>
          BY <3>1
        <4>2. e.from = m /\ a[2] = e.to
          BY <3>2, <4>1
        <4> QED
          BY <3>2, <4>2 DEF Reaches
      <3>3. ASSUME NEW e \in CertainEdges, e.from = m, Reaches(e.to, m)
            PROVE  \E a \in DependencyArcs : a[1] = m /\ m \in From(a[2])
        <4>1. PICK a : a = <<e.from, e.to>>
          OBVIOUS
        <4>2. a \in DependencyArcs /\ a[1] = m /\ a[2] = e.to
          BY <3>1, <3>3, <4>1
        <4> QED
          BY <3>3, <4>2 DEF Reaches
      <3> QED
        BY <3>2, <3>3
    <2> QED
      BY <1>10, <2>1
  <1> QED
    BY <1>1, <1>3, <1>9, <1>11, <1>12
    DEF AnalysisExact, Class, Reaches, From, DependencyArcs, CertainEdges

\* The structural analysis of a graph is exact, whatever the graph.
THEOREM AlwaysAnalysisExact == GraphSpec => []AnalysisExact
  <1> DEFINE Inv == ViewSound /\ SearchInv
  <1>1. GraphInit => Inv
    BY ViewSoundInit, SearchInvInit
  <1>2. Inv /\ [GraphNext]_graphVars => Inv'
    BY ViewSoundNext, SearchInvNext
  <1>3. Inv => AnalysisExact
    BY AnalysisIsExact
  <1> QED
    BY <1>1, <1>2, <1>3, PTL DEF GraphSpec
=============================================================================
