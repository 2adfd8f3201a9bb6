--------------------------- MODULE CoverageProofs ---------------------------
(***************************************************************************)
(* No row of an even table is out of the runs' reach, for every set of     *)
(* keys, sample size, strategy and row count.                              *)
(***************************************************************************)
EXTENDS Coverage, SamplingProofs

\* The type invariant.
LEMMA CoverageType == Spec => []TypeOK
<1>1. Init => TypeOK
  BY CoverageAssumption DEF Init, TypeOK
<1>2. TypeOK /\ [Next]_vars => TypeOK'
  <2> SUFFICES ASSUME TypeOK, [Next]_vars  PROVE  TypeOK'
    OBVIOUS
  <2>1. ASSUME NEW r \in Remainders, Run(r)  PROVE  TypeOK'
    <3>1. keys \subseteq Int /\ IsFiniteSet(keys)
      BY CoverageAssumption, FS_Subset DEF TypeOK
    <3>2. SampleSize \in Nat
      BY CoverageAssumption
    <3>3. draw_sample(keys, SampleSize, Strategy, Cardinality(keys), r)
             \subseteq keys
      BY <3>1, <3>2, DrawBound
    <3> QED
      BY <2>1, <3>3 DEF Run, TypeOK
  <2>2. ASSUME NEW k \in Keys, Insert(k) \/ Delete(k)  PROVE  TypeOK'
    <3>1. keys' \subseteq Keys /\ sample' \subseteq Keys
      BY <2>2 DEF Insert, Delete, TypeOK
    <3>2. changes' \in 0 .. MaxChanges
      <4>1. changes \in 0 .. MaxChanges /\ changes < MaxChanges
            /\ changes' = changes + 1 /\ MaxChanges \in Nat
        BY <2>2, CoverageAssumption DEF Insert, Delete, TypeOK
      <4> QED BY <4>1
    <3> QED BY <3>1, <3>2 DEF TypeOK
  <2>3. CASE UNCHANGED vars
    BY <2>3 DEF vars, TypeOK
  <2> QED
    BY <2>1, <2>2, <2>3 DEF Next
<1> QED
  BY <1>1, <1>2, PTL DEF Spec

-----------------------------------------------------------------------------
(* The walk.  That every row of an even table is looked at again and again  *)
(* is fairness of the draws, and this: the draw of a row's own remainder    *)
(* looks at the row.                                                        *)

\* Two numbers of one remainder class are a multiple of the modulus apart.
LEMMA ClassDistance ==
    ASSUME NEW m \in Nat \ {0}, NEW j \in Nat, NEW k \in Nat, j % m = k % m
    PROVE  /\ j \div m \in Nat /\ k \div m \in Nat
           /\ j - k = m * ((j \div m) - (k \div m))
<1>1. j = m * (j \div m) + (j % m) /\ j \div m \in Nat
  OBVIOUS
<1>2. k = m * (k \div m) + (k % m) /\ k \div m \in Nat
  OBVIOUS
<1>3. m * ((j \div m) - (k \div m)) = m * (j \div m) - m * (k \div m)
  BY <1>1, <1>2
<1> QED  BY <1>1, <1>2, <1>3

\* The spread takes at least one row, and its modulus is the number of times
\* its share fits into the table.
LEMMA SpreadModulus ==
    ASSUME NEW rows \in Nat, rows > 0,
           rows % NSpread(SampleSize, Strategy) = 0
    PROVE  /\ NSpread(SampleSize, Strategy) \in Nat \ {0}
           /\ Modulus(rows, NSpread(SampleSize, Strategy)) \in 1 .. rows
           /\ rows = Modulus(rows, NSpread(SampleSize, Strategy))
                         * NSpread(SampleSize, Strategy)
<1> DEFINE s == NSpread(SampleSize, Strategy)
           q == rows \div s
<1>1. s \in Nat \ {0}
  BY CoverageAssumption DEF NSpread, NRecent
<1> HIDE DEF s
<1>2. rows = s * q + (rows % s) /\ q \in Nat
  BY <1>1
<1>3. rows = s * q
  BY <1>1, <1>2 DEF s
<1>4. q # 0
  BY <1>1, <1>3
<1>5. Modulus(rows, s) = q
  <2>1. (IF s > 1 THEN s ELSE 1) = s
    BY <1>1
  <2>2. Modulus(rows, s) = IF q > 1 THEN q ELSE 1
    BY <2>1 DEF Modulus
  <2> HIDE DEF q
  <2> QED  BY <1>2, <1>4, <2>2
<1>6. s * q = q * s
  BY <1>1, <1>2
<1>7. q <= rows
  <2> HIDE DEF q
  <2>1. s - 1 \in Nat /\ (s - 1) * q \in Nat
    BY <1>1, <1>2
  <2>2. s * q = (s - 1) * q + q
    BY <1>1, <1>2
  <2> QED  BY <1>2, <1>3, <2>1, <2>2
<1> HIDE DEF q
<1>8. q \in 1 .. rows
  BY <1>2, <1>4, <1>7
<1> QED  BY <1>1, <1>3, <1>5, <1>6, <1>8 DEF s

\* Rows without gaps are closer together than there are rows.
LEMMA GapFree ==
    ASSUME NEW K \in SUBSET Int, IsFiniteSet(K), NEW k \in K, NEW j \in K, k <= j,
           k .. j \subseteq K
    PROVE  j - k < Cardinality(K)
<1>1. IsFiniteSet(k .. j) /\ Cardinality(k .. j) = j - k + 1
  BY FS_Interval
<1>2. Cardinality(k .. j) <= Cardinality(K) /\ Cardinality(K) \in Nat
  BY FS_Subset, FS_CardinalityType
<1> QED  BY <1>1, <1>2

\* A remainder class of an even table is one sample's worth: above any row of
\* it are at most the multiples 1 .. nSpread - 1 of the modulus.
LEMMA EvenClass ==
    ASSUME TypeOK, Even, NEW k \in keys
    PROVE  LET r == k % RunModulus
           IN  /\ r \in Remainders /\ r < RunModulus
               /\ k \in sample_keys_spread(keys, NSpread(SampleSize, Strategy),
                                           RunModulus, r)
<1> DEFINE rows == Cardinality(keys)
           s == NSpread(SampleSize, Strategy)
           m == RunModulus
           r == k % m
           class == ClassOf(keys, m, r)
           above == {j \in class : j > k}
           f == [j \in above |-> (j \div m) - (k \div m)]
<1>1. /\ keys \in SUBSET Int /\ IsFiniteSet(keys) /\ keys \subseteq Keys
      /\ IsFiniteSet(Keys)
  BY CoverageAssumption, FS_Subset DEF TypeOK
<1>2. \A j \in keys : j \in Nat
  BY <1>1 DEF Even
<1>3. rows \in Nat /\ rows > 0 /\ rows <= Cardinality(Keys) /\ Cardinality(Keys) \in Nat
  <2>1. rows \in Nat /\ rows # 0
    BY <1>1, FS_CardinalityType, FS_EmptySet
  <2>2. rows <= Cardinality(Keys) /\ Cardinality(Keys) \in Nat
    BY <1>1, FS_Subset, FS_CardinalityType
  <2> QED  BY <2>1, <2>2
<1>4. s \in Nat \ {0} /\ m \in 1 .. rows /\ rows = m * s
  BY <1>3, SpreadModulus DEF Even, RunModulus
<1> HIDE DEF rows, s, m
<1>5. r \in 0 .. m - 1
  BY <1>2, <1>4
<1>6. r \in Remainders /\ r < m
  BY <1>3, <1>4, <1>5 DEF Remainders
<1>7. \A j \in keys : SqlMod(j, m) = j % m
  BY <1>2 DEF SqlMod
<1>8. k \in class /\ class \subseteq keys /\ \A j \in class : j % m = r
  BY <1>7 DEF ClassOf
<1>9. ASSUME NEW j \in above  PROVE f[j] \in 1 .. s - 1 /\ j - k = m * f[j]
  <2>1. j \in keys /\ k <= j /\ j > k /\ j % m = k % m /\ j \in Nat /\ k \in Nat
    BY <1>2, <1>8
  <2>2. j - k = m * f[j] /\ f[j] \in Int
    BY <1>4, <2>1, ClassDistance
  <2>3. j - k < m * s
    BY <1>1, <1>4, <2>1, GapFree DEF Even, rows
  <2> HIDE DEF f
  <2>4. f[j] > 0
    <3>1. ASSUME f[j] <= 0  PROVE FALSE
      <4>1. m * f[j] <= 0
        BY <1>4, <2>2, <3>1
      <4> QED  BY <2>1, <2>2, <4>1
    <3> QED  BY <2>2, <3>1
  <2>5. f[j] < s
    <3>1. ASSUME f[j] >= s  PROVE FALSE
      <4>1. f[j] - s \in Nat /\ m * (f[j] - s) \in Nat
        BY <1>4, <2>2, <3>1
      <4>2. m * (f[j] - s) = m * f[j] - m * s
        BY <1>4, <2>2
      <4> QED  BY <1>4, <2>2, <2>3, <4>1, <4>2
    <3> QED  BY <1>4, <2>2, <3>1
  <2> QED  BY <1>4, <2>2, <2>4, <2>5
<1>10. f \in Injection(above, 1 .. s - 1)
  <2>1. f \in [above -> 1 .. s - 1]
    BY <1>9
  <2>2. ASSUME NEW i \in above, NEW j \in above, f[i] = f[j]  PROVE i = j
    <3>1. i - k = j - k /\ i \in Nat /\ j \in Nat /\ k \in Nat
      BY <1>2, <1>8, <1>9, <2>2
    <3> QED  BY <3>1
  <2> HIDE DEF f
  <2> QED  BY <2>1, <2>2 DEF Injection, IsInjective
<1>11. IsFiniteSet(1 .. s - 1) /\ Cardinality(1 .. s - 1) < s
  <2>1. /\ IsFiniteSet(1 .. s - 1)
        /\ Cardinality(1 .. s - 1) = IF 1 > s - 1 THEN 0 ELSE (s - 1) - 1 + 1
    BY <1>4, FS_Interval
  <2> QED  BY <1>4, <2>1
<1>12. Cardinality(above) < s
  <2>1. IsFiniteSet(above) /\ Cardinality(above) <= Cardinality(1 .. s - 1)
    <3> HIDE DEF f, above
    <3> QED  BY <1>10, <1>11, FS_Injection
  <2>2. Cardinality(above) \in Nat /\ Cardinality(1 .. s - 1) \in Nat
    BY <1>11, <2>1, FS_CardinalityType
  <2> QED  BY <1>4, <1>11, <2>1, <2>2
<1>13. k \in Newest(class, s)
  <2> HIDE DEF class
  <2> QED  BY <1>8, <1>12 DEF Newest
<1> QED  BY <1>6, <1>13 DEF m, s, sample_keys_spread

\* The remainder of a row is one random.randrange can give, and the run that
\* draws it looks at the row.
ReachedByItsRemainder(k) ==
    LET r == k % RunModulus
    IN  r \in Remainders /\ r < RunModulus /\ (Run(r) => k \in sample')

\* "repeated runs walk the entire table", for tables without gaps whose size
\* the spread divides: no row is ever hidden behind newer rows of its class.
THEOREM EvenWalkTheorem ==
    Spec => [][\A k \in keys : Even => ReachedByItsRemainder(k)]_vars
<1>1. ASSUME TypeOK, Even, NEW k \in keys  PROVE ReachedByItsRemainder(k)
  <2> DEFINE r == k % RunModulus
  <2>1. r \in Remainders /\ r < RunModulus
    BY <1>1, EvenClass
  <2>2. k \in sample_keys_spread(keys, NSpread(SampleSize, Strategy), RunModulus, r)
    BY <1>1, EvenClass
  <2>3. k \in draw_sample(keys, SampleSize, Strategy, Cardinality(keys), r)
    BY <2>2, CoverageAssumption DEF draw_sample, RunModulus
  <2>4. Run(r) => k \in sample'
    BY <2>3 DEF Run
  <2> HIDE DEF r
  <2> QED  BY <2>1, <2>4 DEF ReachedByItsRemainder, r
<1>2. TypeOK /\ [Next]_vars => [\A k \in keys : Even => ReachedByItsRemainder(k)]_vars
  BY <1>1
<1> QED  BY <1>2, CoverageType, PTL DEF Spec
=============================================================================
