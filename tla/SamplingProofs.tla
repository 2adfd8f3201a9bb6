--------------------------- MODULE SamplingProofs ---------------------------
(***************************************************************************)
(* What holds of every sample, whatever the table: ORDER BY ... LIMIT n    *)
(* returns at most n keys, and the two halves of a sample together at most *)
(* sample_size.                                                            *)
(***************************************************************************)
EXTENDS Sampling, FiniteSetTheorems, TLAPS

\* A greater key has strictly fewer keys above it.
LEMMA CountingAbove ==
    ASSUME NEW K, K \subseteq Int, IsFiniteSet(K),
           NEW a \in K, NEW b \in K, a < b
    PROVE  Cardinality({j \in K : j > a}) # Cardinality({j \in K : j > b})
<1> DEFINE Above(k) == {j \in K : j > k}
<1>1. Above(b) \in SUBSET Above(a)
  <2>1. ASSUME NEW j \in K, j > b  PROVE  j > a
    <3>1. a \in Int /\ b \in Int /\ j \in Int
      OBVIOUS
    <3> QED BY <2>1, <3>1
  <2> QED BY <2>1
<1>2. b \in Above(a) /\ b \notin Above(b)
  OBVIOUS
<1>3. Above(a) \in SUBSET K
  OBVIOUS
<1>4. IsFiniteSet(Above(a))
  BY <1>3, FS_Subset
<1>5. Cardinality(Above(a)) = Cardinality(Above(b)) => Above(a) = Above(b)
  <2> HIDE DEF Above
  <2> QED BY <1>1, <1>4, FS_Subset
<1> QED
  BY <1>2, <1>5

\* Counting the keys above is a one-to-one map from the newest n keys into
\* 0 .. n-1.
LEMMA NewestBound ==
    ASSUME NEW K, K \subseteq Int, IsFiniteSet(K), NEW n \in Nat
    PROVE  /\ Newest(K, n) \subseteq K
           /\ IsFiniteSet(Newest(K, n))
           /\ Cardinality(Newest(K, n)) <= n
<1> DEFINE Above(k) == {j \in K : j > k}
           rank == [k \in Newest(K, n) |-> Cardinality(Above(k))]
<1>1. Newest(K, n) \subseteq K
  BY DEF Newest
<1>2. ASSUME NEW k \in K
      PROVE  IsFiniteSet(Above(k)) /\ Cardinality(Above(k)) \in Nat
  <2>1. Above(k) \in SUBSET K
    OBVIOUS
  <2>2. IsFiniteSet(Above(k))
    BY <2>1, FS_Subset
  <2> QED
    BY <2>2, FS_CardinalityType
<1>3. ASSUME NEW a \in K, NEW b \in K, a < b
      PROVE  Cardinality(Above(a)) # Cardinality(Above(b))
  BY <1>3, CountingAbove
<1>4. rank \in [Newest(K, n) -> 0 .. n - 1]
  <2> SUFFICES ASSUME NEW k \in Newest(K, n)
               PROVE  Cardinality(Above(k)) \in 0 .. n - 1
    OBVIOUS
  <2>1. k \in K /\ Cardinality(Above(k)) < n
    BY DEF Newest
  <2> QED
    BY <1>2, <2>1
<1>5. ASSUME NEW a \in Newest(K, n), NEW b \in Newest(K, n), rank[a] = rank[b]
      PROVE  a = b
  <2>1. Cardinality(Above(a)) = Cardinality(Above(b))
    BY <1>5
  <2>2. a \in K /\ b \in K
    BY <1>1
  <2>3. ~(a < b) /\ ~(b < a)
    BY <1>3, <2>1, <2>2
  <2> QED
    BY <2>2, <2>3
<1>6. rank \in Injection(Newest(K, n), 0 .. n - 1)
  <2> HIDE DEF rank
  <2> QED
    BY <1>4, <1>5 DEF Injection, IsInjective
<1>7. IsFiniteSet(0 .. n - 1) /\ Cardinality(0 .. n - 1) = n
  <2>1. 0 \in Int /\ n - 1 \in Int
    OBVIOUS
  <2> QED
    BY <2>1, FS_Interval
<1>8. /\ IsFiniteSet(Newest(K, n))
      /\ Cardinality(Newest(K, n)) <= Cardinality(0 .. n - 1)
  <2> HIDE DEF rank
  <2> QED
    BY <1>6, <1>7, FS_Injection
<1> QED
  BY <1>1, <1>7, <1>8

\* A limit of one or more returns something unless there is nothing: were no
\* key without keys above it, all of them would map one-to-one into fewer
\* numbers than there are keys.
LEMMA NewestOfSome ==
    ASSUME NEW K, K \subseteq Int, IsFiniteSet(K), K # {},
           NEW n \in Nat, n > 0
    PROVE  Newest(K, n) # {}
<1> DEFINE Above(k) == {j \in K : j > k}
           rank == [k \in K |-> Cardinality(Above(k))]
           size == Cardinality(K)
<1> SUFFICES ASSUME Newest(K, n) = {}
             PROVE  FALSE
  OBVIOUS
<1>1. size \in Nat /\ size > 0
  <2>1. size \in Nat /\ size # 0
    BY FS_CardinalityType, FS_EmptySet
  <2> QED  BY <2>1
<1>2. ASSUME NEW k \in K
      PROVE  Cardinality(Above(k)) \in 1 .. size - 1
  <2>1. Above(k) \in SUBSET K /\ k \notin Above(k)
    OBVIOUS
  <2>2. /\ IsFiniteSet(Above(k)) /\ Cardinality(Above(k)) \in Nat
        /\ Cardinality(Above(k)) <= size
        /\ Cardinality(Above(k)) = size => Above(k) = K
    <3> HIDE DEF Above
    <3> QED  BY <2>1, FS_Subset, FS_CardinalityType
  <2>3. Cardinality(Above(k)) # size
    BY <2>1, <2>2
  <2>4. ~(Cardinality(Above(k)) < n)
    BY DEF Newest
  <2> HIDE DEF Above, size
  <2> QED  BY <1>1, <2>2, <2>3, <2>4
<1>3. ASSUME NEW a \in K, NEW b \in K, a < b
      PROVE  Cardinality(Above(a)) # Cardinality(Above(b))
  BY <1>3, CountingAbove
<1>4. IsFiniteSet(1 .. size - 1) /\ Cardinality(1 .. size - 1) < size
  <2>1. 1 \in Int /\ size - 1 \in Int
    BY <1>1
  <2>2. /\ IsFiniteSet(1 .. size - 1)
        /\ Cardinality(1 .. size - 1) = IF 1 > size - 1 THEN 0 ELSE (size - 1) - 1 + 1
    BY <2>1, FS_Interval
  <2> HIDE DEF size
  <2> QED  BY <1>1, <2>2
<1>5. rank \in [K -> 1 .. size - 1]
  BY <1>2
<1>6. rank \in Injection(K, 1 .. size - 1)
  <2>1. ASSUME NEW a \in K, NEW b \in K, rank[a] = rank[b]
        PROVE  a = b
    <3>1. Cardinality(Above(a)) = Cardinality(Above(b))
      BY <2>1
    <3>2. ~(a < b) /\ ~(b < a)
      BY <1>3, <3>1
    <3> QED  BY <3>2
  <2> HIDE DEF rank, size
  <2> QED  BY <1>5, <2>1 DEF Injection, IsInjective
<1>7. size <= Cardinality(1 .. size - 1)
  <2> HIDE DEF rank
  <2> QED  BY <1>4, <1>6, FS_Injection
<1>8. Cardinality(1 .. size - 1) \in Nat
  BY <1>4, FS_CardinalityType
<1> QED
  <2> HIDE DEF size
  <2> QED  BY <1>1, <1>4, <1>7, <1>8

\* sample_keys_spread stays within its limit as well.
LEMMA SpreadBound ==
    ASSUME NEW K, K \subseteq Int, IsFiniteSet(K), NEW n \in Nat, NEW m, NEW r
    PROVE  /\ sample_keys_spread(K, n, m, r) \subseteq K
           /\ IsFiniteSet(sample_keys_spread(K, n, m, r))
           /\ Cardinality(sample_keys_spread(K, n, m, r)) <= n
<1>1. ClassOf(K, m, r) \in SUBSET K
  BY DEF ClassOf
<1>2. ClassOf(K, m, r) \subseteq Int /\ IsFiniteSet(ClassOf(K, m, r))
  BY <1>1, FS_Subset
<1> QED
  BY <1>1, <1>2, NewestBound DEF sample_keys_spread

\* The two halves are natural numbers that add up to sample_size.
LEMMA HalvesAddUp ==
    ASSUME NEW n \in Nat, NEW strategy
    PROVE  /\ NRecent(n, strategy) \in Nat
           /\ NSpread(n, strategy) \in Nat
           /\ NRecent(n, strategy) + NSpread(n, strategy) = n
  BY DEF NRecent, NSpread

\* Two finite sets of at most a and b elements have at most a + b together.
LEMMA UnionBound ==
    ASSUME NEW S, IsFiniteSet(S), NEW T, IsFiniteSet(T),
           NEW a \in Nat, NEW b \in Nat,
           Cardinality(S) <= a, Cardinality(T) <= b
    PROVE  IsFiniteSet(S \cup T) /\ Cardinality(S \cup T) <= a + b
<1>1. /\ IsFiniteSet(S \cup T)
      /\ Cardinality(S \cup T)
           = Cardinality(S) + Cardinality(T) - Cardinality(S \cap T)
  BY FS_Union
<1>2. IsFiniteSet(S \cap T)
  BY FS_Intersection
<1>3. /\ Cardinality(S) \in Nat /\ Cardinality(T) \in Nat
      /\ Cardinality(S \cap T) \in Nat
  BY <1>2, FS_CardinalityType
<1> QED
  BY <1>1, <1>3

\* _draw_sample never returns more than sample_size keys, and only keys of the
\* table, for every row count and every remainder it may be given.
THEOREM DrawBound ==
    ASSUME NEW K, K \subseteq Int, IsFiniteSet(K), NEW n \in Nat,
           NEW strategy, NEW rows, NEW r
    PROVE  /\ draw_sample(K, n, strategy, rows, r) \subseteq K
           /\ IsFiniteSet(draw_sample(K, n, strategy, rows, r))
           /\ Cardinality(draw_sample(K, n, strategy, rows, r)) <= n
<1>1. CASE strategy = "recent"
  BY <1>1, NewestBound DEF draw_sample
<1>2. CASE strategy # "recent"
  <2> DEFINE nRecent == NRecent(n, strategy)
             nSpread == NSpread(n, strategy)
             recent  == Newest(K, nRecent)
             spread  == sample_keys_spread(K, nSpread, Modulus(rows, nSpread), r)
  <2>1. draw_sample(K, n, strategy, rows, r) = recent \cup spread
    BY <1>2 DEF draw_sample
  <2>2. nRecent \in Nat /\ nSpread \in Nat /\ nRecent + nSpread = n
    BY HalvesAddUp
  <2>3. recent \subseteq K /\ IsFiniteSet(recent) /\ Cardinality(recent) <= nRecent
    <3> HIDE DEF nRecent
    <3> QED BY <2>2, NewestBound
  <2>4. spread \subseteq K /\ IsFiniteSet(spread) /\ Cardinality(spread) <= nSpread
    <3> HIDE DEF nSpread
    <3> QED BY <2>2, SpreadBound
  <2>5. IsFiniteSet(recent \cup spread)
        /\ Cardinality(recent \cup spread) <= nRecent + nSpread
    <3> HIDE DEF nRecent, nSpread, recent, spread
    <3> QED BY <2>2, <2>3, <2>4, UnionBound
  <2> QED
    <3> HIDE DEF nRecent, nSpread, recent, spread
    <3> QED BY <2>1, <2>2, <2>3, <2>4, <2>5
<1> QED
  BY <1>1, <1>2
=============================================================================
