--------------------------- MODULE ChecksumProofs ---------------------------
(***************************************************************************)
(* The verdict of sampled_checksum is exact on the rows nobody touches,    *)
(* for every table, sample size, strategy and pipe.  The argument: outside *)
(* `touched` neither table ever changes, so every snapshot a session may   *)
(* be pinned to agrees there with the current tables (SnapshotOK), hence   *)
(* so do the rows fetched (FetchedOK), hence the comparison is exact.      *)
(***************************************************************************)
EXTENDS Checksum, SamplingProofs

FetchedOK ==
    pc = "compare" => \A k \in keys \ touched : srcRows[k] = src[k]

\* Quiet rows that were certainly among the newest are in the sample.
WindowOK ==
    pc \in {"spread", "fetch", "compare", "done"} =>
        \A k \in RowsOf(src) \ touched :
            Cardinality({j \in RowsOf(src) \cup touched : j > k}) < Window
            => k \in keys

VerdictOK ==
    /\ pc # "done" => flagged = {}
    /\ pc = "done" /\ MaxMismatch = 0 => flagged = {} \/ status = "fail"

\* What is sampled so far.
BudgetOK ==
    /\ pc \in {"count", "spread"} => Strategy # "recent"
    /\ pc \in {"open", "count", "recent"} => keys = {}
    /\ pc = "spread" => Cardinality(keys) <= NRec
    /\ Cardinality(keys) <= SampleSize

\* A source pinned to a snapshot still has every row it sampled.
PinnedOK ==
    "source" \in Pinned =>
        /\ keys # {} => view["source"] # NONE
                        /\ keys \subseteq RowsOf(view["source"])
        /\ pc = "compare" => keys \subseteq RowsOf(srcRows)

ChecksumInv ==
    /\ TypeOK /\ SnapshotOK /\ FetchedOK /\ WindowOK /\ VerdictOK
    /\ BudgetOK /\ PinnedOK
    /\ ExactOnQuietRows /\ SampledRowsFetched

Env == Replicate /\ Noted /\ pc # "done" /\ UNCHANGED checkVars

-----------------------------------------------------------------------------
LEMMA RowsFinite ==
    ASSUME NEW tab
    PROVE  /\ RowsOf(tab) \subseteq Keys /\ RowsOf(tab) \subseteq Int
           /\ IsFiniteSet(RowsOf(tab))
           /\ Cardinality(RowsOf(tab)) \in 0 .. Cardinality(Keys)
<1>1. RowsOf(tab) \in SUBSET Keys
  BY DEF RowsOf
<1>2. /\ IsFiniteSet(RowsOf(tab))
      /\ Cardinality(RowsOf(tab)) <= Cardinality(Keys)
  BY <1>1, ReplicationAssumption, FS_Subset
<1>3. Cardinality(RowsOf(tab)) \in Nat /\ Cardinality(Keys) \in Nat
  BY <1>2, ReplicationAssumption, FS_CardinalityType
<1>4. Cardinality(RowsOf(tab)) \in 0 .. Cardinality(Keys)
  BY <1>2, <1>3
<1>5. RowsOf(tab) \subseteq Int
  BY <1>1, ChecksumAssumption
<1> QED
  BY <1>1, <1>2, <1>4, <1>5

LEMMA HalvesType == NRec \in Nat /\ NSp \in Nat /\ NRec + NSp = SampleSize
                    /\ Window \in Nat /\ Window <= SampleSize
<1>1. SampleSize \in Nat
  BY ChecksumAssumption
<1>2. NRec \in Nat /\ NSp \in Nat /\ NRec + NSp = SampleSize
  BY <1>1, HalvesAddUp DEF NRec, NSp
<1> QED
  BY <1>1, <1>2 DEF Window

-----------------------------------------------------------------------------
(* Type correctness *)

LEMMA CheckType ==
    ASSUME TypeOK, Check, UNCHANGED <<replVars, touched>>
    PROVE  TypeOK'
<1>1. UNCHANGED view => SessionsTypeOK'
  BY DEF TypeOK, SessionsTypeOK, ReplTypeOK, replVars
<1>2. CASE Start
  BY <1>1, <1>2 DEF Start, TypeOK
<1>3. ASSUME NEW s \in Sides, EarlierCheck(s)  PROVE TypeOK'
  BY <1>1, <1>3, ReadsType DEF EarlierCheck, TypeOK
<1>4. CASE Count
  <2>1. "source" \in Sides /\ Reads("source")
    BY <1>4 DEF Count, Sides
  <2>2. SessionsTypeOK'
    BY <2>1, ReadsType DEF TypeOK
  <2>3. rows' \in 0 .. Cardinality(Keys)
    BY <1>4, RowsFinite DEF Count
  <2> QED
    BY <1>1, <1>4, <2>2, <2>3 DEF Count, TypeOK
<1>5. CASE Recent
  <2>1. "source" \in Sides /\ Reads("source")
    BY <1>5 DEF Recent, Sides
  <2>2. SessionsTypeOK'
    BY <2>1, ReadsType DEF TypeOK
  <2>3. keys' \subseteq Keys
    BY <1>5, RowsFinite DEF Recent, Newest
  <2> QED
    BY <1>1, <1>5, <2>2, <2>3 DEF Recent, TypeOK
<1>6. ASSUME NEW r \in 0 .. Cardinality(Keys), Spread(r)  PROVE TypeOK'
  <2>1. "source" \in Sides /\ Reads("source")
    BY <1>6 DEF Spread, Sides
  <2>2. SessionsTypeOK'
    BY <2>1, ReadsType DEF TypeOK
  <2>3. keys' \subseteq Keys
    BY <1>6, RowsFinite DEF Spread, sample_keys_spread, Newest, ClassOf, TypeOK
  <2> QED
    BY <1>1, <1>6, <2>2, <2>3 DEF Spread, TypeOK
<1>7. CASE NothingSampled
  BY <1>1, <1>7 DEF NothingSampled, TypeOK
<1>8. CASE FetchSource
  <2>1. "source" \in Sides /\ Reads("source")
    BY <1>8 DEF FetchSource, Sides
  <2>2. SessionsTypeOK'
    BY <2>1, ReadsType DEF TypeOK
  <2>3. srcRows' \in Table
    BY <1>8, <2>1, SeenType DEF FetchSource, FetchRows, Table, TypeOK
  <2> QED
    BY <1>1, <1>8, <2>2, <2>3 DEF FetchSource, TypeOK
<1>9. CASE Compare
  <2>1. "target" \in Sides /\ Reads("target")
    BY <1>9 DEF Compare, Sides
  <2>2. SessionsTypeOK'
    BY <2>1, ReadsType DEF TypeOK
  <2>3. flagged' \subseteq Keys
    BY <1>9 DEF Compare, Missing, Differing, TypeOK
  <2>4. status' \in {"ok", "fail"}
    BY <1>9 DEF Compare, Judged, WithinLimit
  <2> QED
    BY <1>1, <1>9, <2>2, <2>3, <2>4 DEF Compare, TypeOK
<1> QED
  BY <1>2, <1>3, <1>4, <1>5, <1>6, <1>7, <1>8, <1>9 DEF Check

LEMMA ChecksumTypeStep ==
    ASSUME TypeOK, [Next]_vars
    PROVE  TypeOK'
<1>1. CASE Env
  <2>1. SessionsTypeOK'
    BY <1>1, ReplicateType, WorldType
    DEF Env, checkVars, TypeOK, SessionsTypeOK
  <2> QED
    BY <1>1, <2>1 DEF Env, checkVars, TypeOK
<1>2. CASE UNCHANGED vars
  BY <1>2 DEF vars, replVars, checkVars, TypeOK, SessionsTypeOK, ReplTypeOK
<1> QED
  BY <1>1, <1>2, CheckType DEF Next, Env

-----------------------------------------------------------------------------
(* The tables change only where they are touched *)

LEMMA EnvQuiet ==
    ASSUME TypeOK, Env
    PROVE  /\ \A k \in Keys \ touched' :
                 k \notin touched /\ src'[k] = src[k] /\ tgt'[k] = tgt[k]
           /\ RowsOf(src)' \ touched' \subseteq RowsOf(src) \ touched
           /\ RowsOf(src) \cup touched \subseteq RowsOf(src)' \cup touched'
<1>1. touched \subseteq touched'
  BY NotedQuiet DEF Env
<1>2. ASSUME NEW k \in Keys \ touched'
      PROVE  k \notin touched /\ src'[k] = src[k] /\ tgt'[k] = tgt[k]
  BY NotedQuiet DEF Env
<1>3. ASSUME NEW k \in RowsOf(src), k \notin touched'
      PROVE  k \in RowsOf(src)'
  BY <1>2, <1>3 DEF RowsOf
<1>4. ASSUME NEW k \in RowsOf(src)', k \notin touched'
      PROVE  k \in RowsOf(src) /\ k \notin touched
  BY <1>2, <1>4 DEF RowsOf
<1> QED
  BY <1>1, <1>2, <1>3, <1>4

\* What ChecksumInv says of the tables survives every change to them.
LEMMA EnvKeepsInv ==
    ASSUME ChecksumInv, Env
    PROVE  ChecksumInv'
<1>1. TypeOK /\ TypeOK'
  BY ChecksumTypeStep DEF ChecksumInv, Next, Env
<1>2. UNCHANGED <<pc, view, rows, keys, srcRows, status, flagged>> /\ pc # "done"
  BY DEF Env, checkVars
<1>3. SnapshotOK'
  BY WorldSnapshot DEF Env, checkVars, ChecksumInv
<1>4. FetchedOK'
  BY <1>1, <1>2, EnvQuiet DEF FetchedOK, ChecksumInv, TypeOK
<1>5. WindowOK'
  <2> SUFFICES ASSUME pc \in {"spread", "fetch", "compare", "done"},
                      NEW k \in RowsOf(src)' \ touched',
                      Cardinality({j \in RowsOf(src)' \cup touched' : j > k})
                        < Window
               PROVE  k \in keys
    BY <1>2 DEF WindowOK, Window, NRec
  <2> DEFINE Old == {j \in RowsOf(src) \cup touched : j > k}
             New == {j \in RowsOf(src)' \cup touched' : j > k}
  <2>1. New \in SUBSET Keys
    BY <1>1 DEF RowsOf, TypeOK, SessionsTypeOK
  <2>2. IsFiniteSet(New)
    BY <2>1, ReplicationAssumption, FS_Subset
  <2>3. Old \in SUBSET New
    BY <1>1, EnvQuiet
  <2>4. IsFiniteSet(Old) /\ Cardinality(Old) <= Cardinality(New)
    <3> HIDE DEF Old, New
    <3> QED BY <2>2, <2>3, FS_Subset
  <2>5. Cardinality(Old) \in Nat /\ Cardinality(New) \in Nat
    BY <2>2, <2>4, FS_CardinalityType
  <2>6. Cardinality(Old) < Window
    <3> Cardinality(New) < Window
      OBVIOUS
    <3> HIDE DEF Old, New
    <3> QED BY <2>4, <2>5, HalvesType
  <2>7. k \in RowsOf(src) \ touched
    BY <1>1, EnvQuiet
  <2> QED
    BY <2>6, <2>7 DEF WindowOK, ChecksumInv
<1>6. VerdictOK' /\ BudgetOK' /\ PinnedOK'
  BY <1>2 DEF VerdictOK, BudgetOK, PinnedOK, ChecksumInv, NRec, NRecent, RowsOf
<1>7. ExactOnQuietRows' /\ SampledRowsFetched'
  BY <1>2 DEF ExactOnQuietRows, SampledRowsFetched
<1> QED
  BY <1>1, <1>3, <1>4, <1>5, <1>6, <1>7 DEF ChecksumInv

-----------------------------------------------------------------------------
(* The steps of the check *)

\* The newest rows of whatever snapshot the source shows include every quiet
\* row that has fewer than Window present or touched rows above it.
LEMMA WindowSampled ==
    ASSUME TypeOK, SnapshotOK, NEW k \in RowsOf(src) \ touched,
           Cardinality({j \in RowsOf(src) \cup touched : j > k}) < Window
    PROVE  k \in Newest(RowsOf(Seen("source")), Window)
<1> DEFINE K     == RowsOf(Seen("source"))
           Seen1 == {j \in K : j > k}
           Now   == {j \in RowsOf(src) \cup touched : j > k}
<1>1. \A j \in Keys \ touched : Seen("source")[j] = src[j]
  BY SeenQuiet DEF Sides, Current
<1>2. k \in K
  BY <1>1 DEF RowsOf
<1>3. Seen1 \in SUBSET Now
  BY <1>1 DEF RowsOf
<1>4. Now \in SUBSET Keys
  BY DEF RowsOf, TypeOK, SessionsTypeOK
<1>5. IsFiniteSet(Now)
  BY <1>4, ReplicationAssumption, FS_Subset
<1>6. IsFiniteSet(Seen1) /\ Cardinality(Seen1) <= Cardinality(Now)
  <2> HIDE DEF Seen1, Now
  <2> QED BY <1>3, <1>5, FS_Subset
<1>7. Cardinality(Seen1) \in Nat /\ Cardinality(Now) \in Nat
  BY <1>5, <1>6, FS_CardinalityType
<1>8. Cardinality(Seen1) < Window
  <2> Cardinality(Now) < Window
    OBVIOUS
  <2> HIDE DEF Seen1, Now
  <2> QED BY <1>6, <1>7, HalvesType
<1> QED
  BY <1>2, <1>8 DEF Newest

\* Window is 0 unless the newest rows are sampled: nothing is promised then.
LEMMA NoWindow ==
    ASSUME TypeOK, Window = 0, NEW k \in Int
    PROVE  ~(Cardinality({j \in RowsOf(src) \cup touched : j > k}) < Window)
<1> DEFINE Now == {j \in RowsOf(src) \cup touched : j > k}
<1>1. Now \in SUBSET Keys
  BY DEF RowsOf, TypeOK, SessionsTypeOK
<1>2. IsFiniteSet(Now)
  BY <1>1, ReplicationAssumption, FS_Subset
<1>3. Cardinality(Now) \in Nat
  BY <1>2, FS_CardinalityType
<1>4. ~(Cardinality(Now) < Window)
  <2> HIDE DEF Now
  <2> QED BY <1>3
<1> QED BY <1>4

LEMMA ReadKeepsInv ==
    ASSUME ChecksumInv, NEW s \in Sides, EarlierCheck(s),
           UNCHANGED <<replVars, touched>>
    PROVE  ChecksumInv'
<1>1. TypeOK' /\ SnapshotOK'
  BY CheckType, ReadsSnapshot DEF TypeOK, ChecksumInv, Check, EarlierCheck, replVars
<1>2. UNCHANGED <<pc, rows, keys, srcRows, status, flagged, src, tgt, touched>>
      /\ pc = "open" /\ keys = {}
  BY DEF EarlierCheck, replVars, ChecksumInv, BudgetOK
<1> QED
  BY <1>1, <1>2 DEF ChecksumInv, FetchedOK, WindowOK, VerdictOK, BudgetOK,
     PinnedOK, ExactOnQuietRows, SampledRowsFetched

LEMMA StartKeepsInv ==
    ASSUME ChecksumInv, Start, UNCHANGED <<replVars, touched>>
    PROVE  ChecksumInv'
<1>1. TypeOK'
  BY CheckType DEF ChecksumInv, Check
<1>2. UNCHANGED <<view, rows, keys, srcRows, status, flagged, src, tgt, touched>>
      /\ pc = "open" /\ keys = {}
      /\ pc' = IF Strategy = "recent" THEN "recent" ELSE "count"
  BY DEF Start, replVars, ChecksumInv, BudgetOK
<1>3. SnapshotOK'
  BY <1>2 DEF ChecksumInv, SnapshotOK, Current
<1> QED
  BY <1>1, <1>2, <1>3 DEF ChecksumInv, FetchedOK, WindowOK, VerdictOK,
     BudgetOK, PinnedOK, ExactOnQuietRows, SampledRowsFetched

LEMMA CountKeepsInv ==
    ASSUME ChecksumInv, Count, UNCHANGED <<replVars, touched>>
    PROVE  ChecksumInv'
<1>1. TypeOK /\ TypeOK' /\ SnapshotOK'
  BY CheckType, ReadsSnapshot DEF TypeOK, ChecksumInv, Check, Count, replVars, Sides
<1>2. UNCHANGED <<keys, srcRows, status, flagged, src, tgt, touched>>
      /\ pc = "count" /\ pc' \in {"recent", "spread"}
      /\ keys = {} /\ Strategy # "recent"
  BY DEF Count, replVars, ChecksumInv, BudgetOK
<1>3. WindowOK'
  <2>1. CASE NRec > 0
    BY <1>2, <2>1 DEF Count, WindowOK
  <2>2. CASE ~(NRec > 0)
    <3>1. Window = 0
      BY <1>2, <2>2, HalvesType DEF Window
    <3>2. \A k \in RowsOf(src) : k \in Int
      BY RowsFinite
    <3>3. UNCHANGED <<RowsOf(src), touched, Window>>
      BY <1>2 DEF RowsOf, Window, NRec
    <3> QED
      BY <1>1, <3>1, <3>2, <3>3, NoWindow DEF WindowOK
  <2> QED
    BY <2>1, <2>2
<1>4. BudgetOK'
  BY <1>2, HalvesType, FS_EmptySet, ChecksumAssumption DEF BudgetOK, NRec
<1> QED
  BY <1>1, <1>2, <1>3, <1>4 DEF ChecksumInv, FetchedOK, VerdictOK,
     PinnedOK, ExactOnQuietRows, SampledRowsFetched

LEMMA RecentKeepsInv ==
    ASSUME ChecksumInv, Recent, UNCHANGED <<replVars, touched>>
    PROVE  ChecksumInv'
<1> DEFINE K == RowsOf(Seen("source"))
<1>1. TypeOK /\ TypeOK' /\ SnapshotOK /\ SnapshotOK'
  BY CheckType, ReadsSnapshot DEF TypeOK, ChecksumInv, Check, Recent, replVars, Sides
<1>2. /\ UNCHANGED <<srcRows, status, flagged, src, tgt, touched>>
      /\ pc = "recent"
      /\ pc' = IF Strategy = "recent" THEN "fetch" ELSE "spread"
      /\ keys' = Newest(K, Window)
  BY DEF Recent, replVars
<1>3. WindowOK'
  <2> SUFFICES ASSUME NEW k \in RowsOf(src) \ touched,
                      Cardinality({j \in RowsOf(src) \cup touched : j > k})
                        < Window
               PROVE  k \in keys'
    BY <1>2 DEF WindowOK, RowsOf, Window, NRec
  <2> QED
    BY <1>1, <1>2, WindowSampled
<1>4. keys' \subseteq K /\ IsFiniteSet(keys') /\ Cardinality(keys') <= Window
  <2>1. K \subseteq Int /\ IsFiniteSet(K) /\ Window \in Nat
    BY RowsFinite, HalvesType
  <2> QED
    <3> HIDE DEF K
    <3> QED BY <1>2, <2>1, NewestBound
<1>5. Cardinality(keys') \in Nat
  BY <1>4, FS_CardinalityType
<1>6. BudgetOK'
  <2>1. Cardinality(keys') <= SampleSize
    BY <1>4, <1>5, HalvesType, ChecksumAssumption
  <2>2. Strategy # "recent" => Cardinality(keys') <= NRec
    BY <1>4 DEF Window
  <2> QED
    BY <1>2, <2>1, <2>2 DEF BudgetOK, NRec
<1>7. PinnedOK'
  <2>1. "source" \in Pinned => view'["source"] = Seen("source")
                               /\ view'["source"] # NONE
    BY <1>1, ReadsPins DEF TypeOK, Recent, Sides
  <2> QED
    BY <1>2, <1>4, <2>1 DEF PinnedOK
<1> QED
  BY <1>1, <1>2, <1>3, <1>6, <1>7 DEF ChecksumInv, FetchedOK, VerdictOK,
     ExactOnQuietRows, SampledRowsFetched

LEMMA SpreadKeepsInv ==
    ASSUME ChecksumInv, NEW r, Spread(r), r \in 0 .. Cardinality(Keys),
           UNCHANGED <<replVars, touched>>
    PROVE  ChecksumInv'
<1> DEFINE K == RowsOf(Seen("source"))
           drawn == sample_keys_spread(K, NSp, Modulus(rows, NSp), r)
<1>1. TypeOK /\ TypeOK' /\ SnapshotOK'
  BY CheckType, ReadsSnapshot DEF TypeOK, ChecksumInv, Check, Spread, replVars, Sides
<1>2. /\ UNCHANGED <<srcRows, status, flagged, src, tgt, touched>>
      /\ pc = "spread" /\ pc' = "fetch"
      /\ keys' = keys \cup drawn
  BY DEF Spread, replVars
<1>3. WindowOK'
  BY <1>2 DEF WindowOK, RowsOf, Window, NRec, ChecksumInv
<1>4. drawn \subseteq K /\ IsFiniteSet(drawn) /\ Cardinality(drawn) <= NSp
  <2>1. K \subseteq Int /\ IsFiniteSet(K) /\ NSp \in Nat
    BY RowsFinite, HalvesType
  <2> QED
    <3> HIDE DEF K
    <3> QED BY <2>1, SpreadBound
<1>5. IsFiniteSet(keys)
  <2>1. keys \in SUBSET Keys
    BY <1>1 DEF TypeOK
  <2> QED BY <2>1, ReplicationAssumption, FS_Subset
<1>6. Cardinality(keys \cup drawn) <= NRec + NSp
  <2>1. Cardinality(keys) <= NRec
    BY <1>2 DEF ChecksumInv, BudgetOK
  <2> QED
    <3> HIDE DEF drawn
    <3> QED BY <1>4, <1>5, <2>1, HalvesType, UnionBound
<1>7. BudgetOK'
  BY <1>2, <1>6, HalvesType DEF BudgetOK
<1>8. PinnedOK'
  <2>1. /\ "source" \in Pinned => view'["source"] = Seen("source")
                                  /\ view'["source"] # NONE
        /\ view["source"] # NONE => view'["source"] = view["source"]
    BY <1>1, ReadsPins DEF TypeOK, Spread, Sides
  <2> QED
    BY <1>2, <1>4, <2>1 DEF PinnedOK, ChecksumInv
<1> QED
  BY <1>1, <1>2, <1>3, <1>7, <1>8 DEF ChecksumInv, FetchedOK, VerdictOK,
     ExactOnQuietRows, SampledRowsFetched

LEMMA NothingKeepsInv ==
    ASSUME ChecksumInv, NothingSampled, UNCHANGED <<replVars, touched>>
    PROVE  ChecksumInv'
<1>1. TypeOK'
  BY CheckType DEF ChecksumInv, Check
<1>2. UNCHANGED <<view, rows, keys, srcRows, flagged, src, tgt, touched>>
      /\ pc = "fetch" /\ pc' = "done" /\ keys = {} /\ flagged = {}
  BY DEF NothingSampled, replVars, ChecksumInv, VerdictOK
<1> QED
  BY <1>1, <1>2 DEF ChecksumInv, SnapshotOK, Current, FetchedOK, WindowOK, RowsOf,
     Window, NRec, VerdictOK, BudgetOK, PinnedOK, ExactOnQuietRows,
     SampledRowsFetched

LEMMA FetchKeepsInv ==
    ASSUME ChecksumInv, FetchSource, UNCHANGED <<replVars, touched>>
    PROVE  ChecksumInv'
<1>1. TypeOK /\ TypeOK' /\ SnapshotOK /\ SnapshotOK'
  BY CheckType, ReadsSnapshot
  DEF TypeOK, ChecksumInv, Check, FetchSource, replVars, Sides
<1>2. /\ UNCHANGED <<rows, keys, status, flagged, src, tgt, touched>>
      /\ pc = "fetch" /\ pc' = "compare"
      /\ srcRows' = FetchRows("source")
  BY DEF FetchSource, replVars
<1>3. FetchedOK'
  <2> SUFFICES ASSUME NEW k \in keys \ touched
               PROVE  srcRows'[k] = src[k]
    BY <1>2 DEF FetchedOK
  <2>1. k \in Keys \ touched
    BY <1>1 DEF TypeOK
  <2>2. Seen("source")[k] = src[k]
    BY <1>1, <2>1, SeenQuiet DEF Sides, Current
  <2> QED
    BY <1>2, <2>1, <2>2 DEF FetchRows
<1>4. PinnedOK'
  <2>1. /\ "source" \in Pinned => view'["source"] = Seen("source")
                                  /\ view'["source"] # NONE
        /\ view["source"] # NONE => /\ view'["source"] = view["source"]
                                    /\ Seen("source") = view["source"]
    BY <1>1, ReadsPins DEF TypeOK, FetchSource, Sides, Seen
  <2>2. "source" \in Pinned => keys \subseteq RowsOf(Seen("source"))
    BY <2>1 DEF ChecksumInv, PinnedOK, FetchSource
  <2>3. \A k \in keys : srcRows'[k] = Seen("source")[k]
    BY <1>1, <1>2 DEF FetchRows, TypeOK
  <2>4. "source" \in Pinned => keys \subseteq RowsOf(srcRows)'
    BY <2>2, <2>3 DEF RowsOf
  <2> QED
    BY <1>2, <2>1, <2>4 DEF PinnedOK, ChecksumInv
<1> QED
  BY <1>1, <1>2, <1>3, <1>4 DEF ChecksumInv, WindowOK, RowsOf, Window, NRec,
     VerdictOK, BudgetOK, ExactOnQuietRows, SampledRowsFetched

\* With max_mismatch_pct = 0 a single flagged row is too many.
LEMMA NoTolerance ==
    ASSUME TypeOK, MaxMismatch = 0, NEW bad \in SUBSET Keys,
           "ok" \in Judged(bad)
    PROVE  bad = {}
<1>1. IsFiniteSet(bad) /\ IsFiniteSet(keys)
  BY ReplicationAssumption, FS_Subset DEF TypeOK
<1>2. Cardinality(bad) \in Nat /\ Cardinality(keys) \in Nat
  BY <1>1, FS_CardinalityType
<1>3. 100 * Cardinality(bad) <= 0
  BY <1>2 DEF Judged, WithinLimit
<1>4. Cardinality(bad) = 0
  BY <1>2, <1>3
<1> QED
  BY <1>1, <1>4, FS_EmptySet

LEMMA CompareKeepsInv ==
    ASSUME ChecksumInv, Compare, UNCHANGED <<replVars, touched>>
    PROVE  ChecksumInv'
<1> DEFINE tgtRows == FetchRows("target")
<1>1. TypeOK /\ TypeOK' /\ SnapshotOK /\ SnapshotOK'
  BY CheckType, ReadsSnapshot DEF TypeOK, ChecksumInv, Check, Compare, replVars, Sides
<1>2. /\ UNCHANGED <<rows, keys, srcRows, src, tgt, touched>>
      /\ pc = "compare" /\ pc' = "done"
      /\ flagged' = Missing(tgtRows) \cup Differing(tgtRows)
      /\ status' \in Judged(flagged')
  BY DEF Compare, replVars
<1>3. ExactOnQuietRows'
  <2> SUFFICES ASSUME NEW k \in keys \ touched
               PROVE  k \in flagged' <=> src[k] # Absent /\ src[k] # tgt[k]
    BY <1>2 DEF ExactOnQuietRows
  <2>1. k \in Keys \ touched
    BY <1>1 DEF TypeOK
  <2>2. tgtRows[k] = tgt[k]
    BY <1>1, <2>1, SeenQuiet DEF Sides, Current, FetchRows
  <2>3. srcRows[k] = src[k]
    BY <1>2 DEF ChecksumInv, FetchedOK
  <2> HIDE DEF tgtRows
  <2> QED
    BY <1>2, <2>2, <2>3 DEF Missing, Differing
<1>4. VerdictOK'
  <2>1. flagged' \in SUBSET Keys
    BY <1>1 DEF TypeOK
  <2>2. MaxMismatch = 0 /\ "ok" \in Judged(flagged') => flagged' = {}
    BY <1>1, <2>1, NoTolerance
  <2>3. status' \in {"ok", "fail"} /\ Judged(flagged') \subseteq {"ok", "fail"}
    BY <1>2 DEF Judged, WithinLimit
  <2> QED
    BY <1>2, <2>2, <2>3 DEF VerdictOK
<1>5. PinnedOK' /\ SampledRowsFetched'
  <2>1. view["source"] # NONE => view'["source"] = view["source"]
    BY <1>1, ReadsPins DEF TypeOK, Compare, Sides
  <2>2. view'["source"] # NONE => "source" \in Pinned
    BY <1>1 DEF SnapshotOK, Sides
  <2> QED
    BY <1>2, <2>1, <2>2 DEF ChecksumInv, PinnedOK, SampledRowsFetched, RowsOf
<1> QED
  BY <1>1, <1>2, <1>3, <1>4, <1>5 DEF ChecksumInv, FetchedOK, WindowOK, RowsOf,
     Window, NRec, BudgetOK

-----------------------------------------------------------------------------
(* The invariant and what it implies *)

LEMMA InitInv == Init => ChecksumInv
<1> SUFFICES ASSUME Init  PROVE ChecksumInv
  OBVIOUS
<1>1. TypeOK
  <2>1. Cardinality(Keys) \in Nat /\ MaxWrites \in Nat
    BY ReplicationAssumption, FS_CardinalityType
  <2>2. 0 \in 0 .. Cardinality(Keys) /\ 0 \in 0 .. MaxWrites
    BY <2>1
  <2>3. Nothing \in Table /\ <<>> \in Seq(Change)
    BY DEF Nothing, Table
  <2> QED
    BY <2>2, <2>3 DEF Init, SessionsInit, ReplInit, TypeOK, SessionsTypeOK,
                      ReplTypeOK
<1>2. BudgetOK
  BY FS_EmptySet, ChecksumAssumption DEF Init, BudgetOK
<1> QED
  BY <1>1, <1>2 DEF Init, SessionsInit, ChecksumInv, SnapshotOK, FetchedOK, WindowOK,
     VerdictOK, PinnedOK, ExactOnQuietRows, SampledRowsFetched

LEMMA StepInv == ChecksumInv /\ [Next]_vars => ChecksumInv'
<1> SUFFICES ASSUME ChecksumInv, [Next]_vars  PROVE ChecksumInv'
  OBVIOUS
<1>1. CASE Check /\ UNCHANGED <<replVars, touched>>
  BY <1>1, ReadKeepsInv, StartKeepsInv, CountKeepsInv, RecentKeepsInv,
     SpreadKeepsInv, NothingKeepsInv, FetchKeepsInv, CompareKeepsInv DEF Check
<1>2. CASE Env
  BY <1>2, EnvKeepsInv
<1>3. CASE UNCHANGED vars
  <2>1. TypeOK'
    BY <1>3, ChecksumTypeStep DEF ChecksumInv
  <2>2. UNCHANGED <<pc, view, rows, keys, srcRows, status, flagged,
                    src, tgt, touched>>
    BY <1>3 DEF vars, replVars, checkVars
  <2> QED
    BY <2>1, <2>2 DEF ChecksumInv, SnapshotOK, Current, FetchedOK, WindowOK,
       RowsOf, Window, NRec, VerdictOK, BudgetOK, PinnedOK, ExactOnQuietRows,
       SampledRowsFetched
<1> QED
  BY <1>1, <1>2, <1>3 DEF Next, Env

THEOREM ChecksumInvariant == Spec => []ChecksumInv
  BY InitInv, StepInv, PTL DEF Spec

\* A row count, a sample and a verdict never leave the range the table allows.
THEOREM ChecksumTypes == Spec => []TypeOK
<1>1. ChecksumInv => TypeOK
  BY DEF ChecksumInv
<1> QED
  BY <1>1, ChecksumInvariant, PTL

\* SampledChecksumCheck.run is exact on every sampled row that stays quiet.
THEOREM ExactTheorem == Spec => []ExactOnQuietRows
<1>1. ChecksumInv => ExactOnQuietRows
  BY DEF ChecksumInv
<1> QED
  BY <1>1, ChecksumInvariant, PTL

\* Drift among the newest rows makes the check FAIL, whatever else happens.
THEOREM WindowTheorem == Spec => []DriftInWindowIsFail
<1>1. ChecksumInv => DriftInWindowIsFail
  <2> SUFFICES ASSUME ChecksumInv, pc = "done", MaxMismatch = 0,
                      NEW k \in RowsOf(src) \ touched, src[k] # tgt[k],
                      Cardinality({j \in RowsOf(src) \cup touched : j > k})
                        < Window
               PROVE  status = "fail"
    BY DEF DriftInWindowIsFail
  <2>1. k \in keys \ touched
    BY DEF ChecksumInv, WindowOK
  <2>2. k \in flagged
    BY <2>1 DEF ChecksumInv, ExactOnQuietRows, RowsOf
  <2> QED
    BY <2>2 DEF ChecksumInv, VerdictOK
<1> QED
  BY <1>1, ChecksumInvariant, PTL

\* With a snapshot at the source no sampled row drops out unnoticed.
THEOREM FetchedTheorem == Spec => []SampledRowsFetched
<1>1. ChecksumInv => SampledRowsFetched
  BY DEF ChecksumInv
<1> QED
  BY <1>1, ChecksumInvariant, PTL

\* The two queries of a sample together return at most sample_size keys.
THEOREM ChecksumBudget == Spec => []SampleInBudget
<1>1. ChecksumInv => SampleInBudget
  BY DEF ChecksumInv, BudgetOK, SampleInBudget
<1> QED
  BY <1>1, ChecksumInvariant, PTL

-----------------------------------------------------------------------------
(* What "source table empty" means, if the newest rows are sampled *)

NonEmptyOK ==
    pc \in {"spread", "fetch", "compare", "done"} /\ keys = {} =>
        RowsOf(src) \subseteq touched

LEMMA RecentNonEmpty ==
    ASSUME Window > 0, ChecksumInv, Recent, UNCHANGED <<replVars, touched>>
    PROVE  NonEmptyOK'
<1> DEFINE K == RowsOf(Seen("source"))
<1>1. keys' = Newest(K, Window) /\ UNCHANGED <<src, touched>>
  BY DEF Recent, replVars
<1>2. RowsOf(src) \ touched \subseteq K
  BY SeenQuiet DEF ChecksumInv, Sides, Current, RowsOf
<1>3. K \subseteq Int /\ IsFiniteSet(K) /\ Window \in Nat
  BY RowsFinite, HalvesType
<1>4. keys' = {} => K = {}
  <2> HIDE DEF K
  <2> QED  BY <1>1, <1>3, NewestOfSome
<1> QED  BY <1>1, <1>2, <1>4 DEF NonEmptyOK, RowsOf

LEMMA NonEmptyStep ==
    ASSUME Window > 0, ChecksumInv, NonEmptyOK, [Next]_vars
    PROVE  NonEmptyOK'
<1>1. ASSUME UNCHANGED <<pc, keys, src, touched>>  PROVE NonEmptyOK'
  BY <1>1 DEF NonEmptyOK, RowsOf
<1>2. CASE Check /\ UNCHANGED <<replVars, touched>>
  <2>1. CASE Start \/ \E s \in Sides : EarlierCheck(s)
    BY <2>1 DEF Start, EarlierCheck, NonEmptyOK
  <2>2. CASE Count
    <3>1. pc = "count" /\ (NRec > 0 => pc' = "recent")
      BY <2>2 DEF Count
    <3>2. NRec > 0
      BY <3>1 DEF ChecksumInv, BudgetOK, Window
    <3> QED  BY <3>1, <3>2 DEF NonEmptyOK
  <2>3. CASE Recent
    BY <1>2, <2>3, RecentNonEmpty
  <2>4. CASE \E r \in 0 .. Cardinality(Keys) : Spread(r)
    BY <1>2, <2>4 DEF Spread, NonEmptyOK, RowsOf, replVars
  <2>5. CASE NothingSampled \/ FetchSource \/ Compare
    BY <1>2, <2>5 DEF NothingSampled, FetchSource, Compare, NonEmptyOK, RowsOf,
                      replVars
  <2> QED  BY <1>2, <2>1, <2>2, <2>3, <2>4, <2>5 DEF Check
<1>3. CASE Env
  <2>1. UNCHANGED <<pc, keys>> /\ TypeOK
    BY <1>3 DEF Env, checkVars, ChecksumInv
  <2>2. RowsOf(src)' \ touched' \subseteq RowsOf(src) \ touched
    BY <1>3, <2>1, EnvQuiet
  <2> QED  BY <2>1, <2>2 DEF NonEmptyOK
<1>4. CASE UNCHANGED vars
  BY <1>1, <1>4 DEF vars, replVars, checkVars
<1> QED  BY <1>2, <1>3, <1>4 DEF Next, Env

\* If the strategy samples newest rows, "source table empty" is only said of a
\* table in which no row stayed in place during the check.
THEOREM EmptyTheorem ==
    ASSUME Window > 0
    PROVE  Spec => []EmptyMeansEmpty
<1>1. Init => NonEmptyOK
  BY DEF Init, NonEmptyOK
<1>2. ChecksumInv /\ NonEmptyOK /\ [Next]_vars => NonEmptyOK'
  BY NonEmptyStep
<1>3. NonEmptyOK => EmptyMeansEmpty
  BY DEF NonEmptyOK, EmptyMeansEmpty
<1> QED  BY <1>1, <1>2, <1>3, ChecksumInvariant, PTL DEF Spec
=============================================================================
