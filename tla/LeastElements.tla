--------------------------- MODULE LeastElements ---------------------------
(***************************************************************************)
(* Least and greatest elements of sets of naturals: what a batch ordered   *)
(* by an id or by a time starts and ends with.                             *)
(***************************************************************************)
EXTENDS Integers, WellFoundedInduction, FiniteSetTheorems, TLAPS

(* Every nonempty set of naturals has a least element. *)
LEMMA HasLeast ==
  ASSUME NEW S \in SUBSET Nat, S # {}
  PROVE  \E e \in S : \A x \in S : e <= x
  <1>1. PICK e \in S : \A x \in S : ~(<<x, e>> \in OpToRel(<, Nat))
    BY NatLessThanWellFounded, WFMin
  <1>2. OpToRel(<, Nat) = {ss \in Nat \X Nat : ss[1] < ss[2]}
    BY DEF OpToRel
  <1>3. ASSUME NEW x \in S PROVE e <= x
    <2>1. <<x, e>> \in Nat \X Nat /\ <<x, e>>[1] = x /\ <<x, e>>[2] = e
      OBVIOUS
    <2>2. ~(<<x, e>>[1] < <<x, e>>[2])
      BY <1>1, <1>2, <2>1, Zenon
    <2>3. QED
      BY <2>1, <2>2
  <1>4. QED
    BY <1>3

(* A nonempty set of naturals with a bound has a greatest element. *)
LEMMA HasGreatest ==
  ASSUME NEW S \in SUBSET Nat, S # {}, NEW n \in Nat, \A x \in S : x <= n
  PROVE  \E e \in S : \A x \in S : x <= e
  <1> DEFINE T == {n - x : x \in S}
  <1>1. T \in SUBSET Nat /\ T # {}
    <2>1. \A x \in S : n - x \in Nat
      OBVIOUS
    <2>2. QED
      BY <2>1
  <1>2. PICK m \in T : \A y \in T : m <= y
    BY <1>1, HasLeast
  <1>3. PICK e \in S : m = n - e
    BY <1>2
  <1>4. \A x \in S : n - e <= n - x
    BY <1>2, <1>3
  <1>5. QED
    BY <1>4

(* Of the elements of a finite set, ordered strictly, one has none before it. *)
LEMMA HasMinimal ==
  ASSUME NEW S, IsFiniteSet(S), S # {}, NEW R,
         \A x \in S : <<x, x>> \notin R,
         \A x, y, z \in S : <<x, y>> \in R /\ <<y, z>> \in R => <<x, z>> \in R
  PROVE  \E m \in S : \A x \in S : <<x, m>> \notin R
  <1> DEFINE Before(e) == {x \in S : <<x, e>> \in R}
             Counts == {Cardinality(Before(e)) : e \in S}
  <1>1. \A e \in S : Cardinality(Before(e)) \in Nat
    <2> TAKE e \in S
    <2>1. PICK T : T = Before(e)
      OBVIOUS
    <2>2. T \in SUBSET S
      BY <2>1
    <2>3. Cardinality(T) \in Nat
      BY <2>2, FS_Subset, FS_CardinalityType
    <2>4. QED
      BY <2>1, <2>3
  <1>2. Counts \in SUBSET Nat /\ Counts # {}
    <2> HIDE DEF Before
    <2>1. QED
      BY <1>1
  <1>3. PICK n \in Counts : \A k \in Counts : n <= k
    BY <1>2, HasLeast
  <1>4. PICK m \in S : n = Cardinality(Before(m))
    BY <1>3
  <1>5. ASSUME NEW x \in S, <<x, m>> \in R PROVE FALSE
    <2>1. PICK T, U : T = Before(m) /\ U = Before(x)
      OBVIOUS
    <2>2. U \in SUBSET T /\ T \in SUBSET S /\ x \in T /\ x \notin U
      BY <2>1, <1>5
    <2>3. IsFiniteSet(T) /\ Cardinality(U) <= Cardinality(T) /\ Cardinality(U) # Cardinality(T)
      <3>1. IsFiniteSet(T)
        BY <2>2, FS_Subset
      <3>2. QED
        BY <2>2, <3>1, FS_Subset
    <2>4. Cardinality(T) \in Nat /\ Cardinality(U) \in Nat
      BY <1>1, <2>1
    <2>5. Cardinality(T) <= Cardinality(U)
      <3>1. Cardinality(Before(x)) \in Counts
        OBVIOUS
      <3> HIDE DEF Counts, Before
      <3>2. QED
        BY <1>3, <1>4, <2>1, <3>1
    <2>6. QED
      BY <2>3, <2>4, <2>5
  <1>6. QED
    BY <1>5

(* In a finite set that is totally ordered, the k-th element has k - 1 before *)
(* it.                                                                        *)
LEMMA Ranked ==
  ASSUME NEW S, IsFiniteSet(S), NEW R,
         \A x \in S : <<x, x>> \notin R,
         \A x, y, z \in S : <<x, y>> \in R /\ <<y, z>> \in R => <<x, z>> \in R,
         \A x, y \in S : x = y \/ <<x, y>> \in R \/ <<y, x>> \in R,
         NEW k \in 1 .. Cardinality(S)
  PROVE  \E e \in S : Cardinality({x \in S : <<x, e>> \in R}) = k - 1
  <1> DEFINE Before(e) == {x \in S : <<x, e>> \in R}
             n == Cardinality(S)
             rank == [e \in S |-> Cardinality(Before(e))]
  <1>1. n \in Nat
    BY FS_CardinalityType
  <1>2. \A e \in S : rank[e] \in 0 .. n - 1
    <2> TAKE e \in S
    <2>1. PICK T : T = Before(e)
      OBVIOUS
    <2>2. T \in SUBSET S /\ e \notin T
      BY <2>1
    <2>3. IsFiniteSet(T) /\ Cardinality(T) <= n /\ Cardinality(T) # n
      BY <2>2, FS_Subset
    <2>4. Cardinality(T) \in Nat
      BY <2>3, FS_CardinalityType
    <2>5. rank[e] = Cardinality(T)
      BY <2>1
    <2> HIDE DEF n, rank
    <2>6. QED
      BY <1>1, <2>3, <2>4, <2>5
  <1>3. \A x, y \in S : <<x, y>> \in R => rank[x] # rank[y]
    <2> SUFFICES ASSUME NEW x \in S, NEW y \in S, <<x, y>> \in R PROVE rank[x] # rank[y]
      OBVIOUS
    <2>1. PICK T, U : T = Before(y) /\ U = Before(x)
      OBVIOUS
    <2>2. U \in SUBSET T /\ T \in SUBSET S /\ x \in T /\ x \notin U
      BY <2>1
    <2>3. IsFiniteSet(T)
      BY <2>2, FS_Subset
    <2>4. Cardinality(U) # Cardinality(T)
      BY <2>2, <2>3, FS_Subset
    <2>5. rank[x] = Cardinality(U) /\ rank[y] = Cardinality(T)
      BY <2>1
    <2>6. QED
      BY <2>4, <2>5
  <1>4. rank \in Injection(S, 0 .. n - 1)
    <2>1. rank \in [S -> 0 .. n - 1]
      BY <1>2
    <2>2. \A x, y \in S : rank[x] = rank[y] => x = y
      BY <1>3
    <2> HIDE DEF n, rank
    <2>3. QED
      BY <2>1, <2>2 DEF Injection, IsInjective
  <1>5. IsFiniteSet(0 .. n - 1) /\ Cardinality(0 .. n - 1) = n
    <2> HIDE DEF n
    <2>1. QED
      BY <1>1, FS_Interval
  <1>6. rank \in Surjection(S, 0 .. n - 1)
    <2>1. Cardinality(S) = Cardinality(0 .. n - 1)
      BY <1>5
    <2> HIDE DEF n, rank
    <2>2. QED
      BY <1>4, <1>5, <2>1, FS_Injection
  <1>7. \E e \in S : rank[e] = k - 1
    <2>1. k - 1 \in 0 .. n - 1
      BY <1>1
    <2> HIDE DEF n, rank
    <2>2. QED
      BY <1>6, <2>1 DEF Surjection
  <1>8. QED
    BY <1>7

(* A finite set of at least k elements has a subset of k.                     *)
LEMMA HasSubset ==
  ASSUME NEW S, IsFiniteSet(S), NEW k \in Nat, k <= Cardinality(S)
  PROVE  \E T \in SUBSET S : Cardinality(T) = k
  <1>1. Cardinality(S) \in Nat
    BY FS_CardinalityType
  <1>2. PICK f : f \in Bijection(1 .. Cardinality(S), S)
    BY FS_CardinalityType DEF ExistsBijection
  <1> DEFINE T == {f[i] : i \in 1 .. k}
             g == [i \in 1 .. k |-> f[i]]
  <1>3. f \in [1 .. Cardinality(S) -> S] /\ \A i, j \in 1 .. Cardinality(S) : f[i] = f[j] => i = j
    BY <1>2 DEF Bijection, Injection, IsInjective
  <1>4. \A i \in 1 .. k : i \in 1 .. Cardinality(S)
    BY <1>1
  <1>5. T \in SUBSET S
    BY <1>3, <1>4
  <1>6. g \in Bijection(1 .. k, T)
    <2>1. g \in [1 .. k -> T] /\ \A i, j \in 1 .. k : g[i] = g[j] => i = j
      BY <1>3, <1>4
    <2>2. \A t \in T : \E i \in 1 .. k : g[i] = t
      OBVIOUS
    <2> HIDE DEF g, T
    <2>3. QED
      BY <2>1, <2>2 DEF Bijection, Injection, Surjection, IsInjective
  <1>7. IsFiniteSet(1 .. k) /\ Cardinality(1 .. k) = k
    BY FS_Interval
  <1>8. Cardinality(T) = k
    <2> HIDE DEF T
    <2>1. ExistsBijection(1 .. k, T)
      BY <1>6 DEF ExistsBijection
    <2>2. QED
      BY <2>1, <1>7, FS_Bijection
  <1>9. QED
    BY <1>5, <1>8
=============================================================================
