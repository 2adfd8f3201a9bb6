------------------------------ MODULE Sampling ------------------------------
(***************************************************************************)
(* Which keys sampled_checksum looks at: SampledChecksumCheck._draw_sample *)
(* and the adapters' sample_keys and sample_keys_spread.  A table is the   *)
(* finite set of its (integer) keys.                                       *)
(***************************************************************************)
EXTENDS Integers, FiniteSets

\* ORDER BY key DESC LIMIT n
Oldest(K, n) == {k \in K : Cardinality({j \in K : j < k}) < n}
OffByOne(K, n) == {k \in K : Cardinality({j \in K : j > k}) + 1 < n}
Newest(K, n) == {k \in K : Cardinality({j \in K : j > k}) < n}

\* SQL's MOD takes the sign of the dividend, in all three engines.
SqlMod(k, m) == IF k >= 0 THEN k % m ELSE -((-k) % m)

\* WHERE MOD(key, modulus) = remainder
ClassOf(K, m, r) == {k \in K : SqlMod(k, m) = r}

\* WHERE ... ORDER BY key DESC LIMIT n
sample_keys_spread(K, n, m, r) == Newest(ClassOf(K, m, r), n)

\* The two halves of a sample of n under a strategy that is not "recent".
NRecent(n, strategy) == IF strategy = "mixed" THEN n \div 2 ELSE 0
FullSpread(n, strategy) == n
NSpread(n, strategy) == n - NRecent(n, strategy)

\* max(1, rows // max(1, n_spread))
PlusOne(rows, nSpread) ==
    LET buckets == rows \div (nSpread + 1)
    IN  IF buckets > 1 THEN buckets ELSE 1
Modulus(rows, nSpread) ==
    LET buckets == rows \div (IF nSpread > 1 THEN nSpread ELSE 1)
    IN  IF buckets > 1 THEN buckets ELSE 1

\* The keys drawn from K when the row count was `rows` and random.randrange
\* gave r.
draw_sample(K, n, strategy, rows, r) ==
    IF strategy = "recent" THEN Newest(K, n)
    ELSE LET nSpread == NSpread(n, strategy)
         IN  Newest(K, NRecent(n, strategy))
             \cup sample_keys_spread(K, nSpread, Modulus(rows, nSpread), r)
=============================================================================
