------------------------------ MODULE Checksum ------------------------------
(***************************************************************************)
(* One evaluation of SampledChecksumCheck.run, query by query, while the   *)
(* tables it compares keep changing.                                       *)
(***************************************************************************)
EXTENDS Sessions, Sampling, Percent

CONSTANTS
    SampleSize,   \* sample_size
    Strategy,     \* strategy; the key is the table's integer primary key
    MaxMismatch   \* max_mismatch_pct

ASSUME ChecksumAssumption ==
    /\ Keys \subseteq Int
    /\ SampleSize \in Nat /\ MaxMismatch \in 0 .. 100
    /\ Strategy \in {"recent", "spread", "mixed"}

VARIABLES
    pc,       \* the next query
    rows,     \* row_count(source)
    keys,     \* the sampled keys
    srcRows,  \* fetch_rows(source): key -> value, Absent if not returned
    status,   \* the verdict, "none" before it
    flagged   \* the keys it names as differing or missing

checkVars == <<pc, view, rows, keys, srcRows, status, flagged>>
vars == <<replVars, checkVars, touched>>

Nothing == [k \in Keys |-> Absent]

Init ==
    /\ SessionsInit
    /\ pc = "open" /\ rows = 0 /\ keys = {} /\ srcRows = Nothing
    /\ status = "none" /\ flagged = {}

-----------------------------------------------------------------------------
(* The queries of run() and _draw_sample *)

NSp == NSpread(SampleSize, Strategy)
NRec == NRecent(SampleSize, Strategy)

\* how many of the newest rows are always sampled
Window == IF Strategy = "recent" THEN SampleSize ELSE NRec

\* An earlier check of the pair reads one of the tables.
EarlierCheck(s) ==
    /\ pc = "open"
    /\ Reads(s)
    /\ UNCHANGED <<pc, rows, keys, srcRows, status, flagged>>

Start ==
    /\ pc = "open"
    /\ pc' = IF Strategy = "recent" THEN "recent" ELSE "count"
    /\ UNCHANGED <<view, rows, keys, srcRows, status, flagged>>

\* source.row_count
Count ==
    /\ pc = "count"
    /\ Reads("source")
    /\ rows' = Cardinality(RowsOf(Seen("source")))
    /\ pc' = IF NRec > 0 THEN "recent" ELSE "spread"
    /\ UNCHANGED <<keys, srcRows, status, flagged>>

\* source.sample_keys: the whole sample, or the newest half of it
Recent ==
    /\ pc = "recent"
    /\ Reads("source")
    /\ keys' = Newest(RowsOf(Seen("source")), Window)
    /\ pc' = IF Strategy = "recent" THEN "fetch" ELSE "spread"
    /\ UNCHANGED <<rows, srcRows, status, flagged>>

\* source.sample_keys_spread, with a remainder drawn from the earlier count
Spread(r) ==
    /\ pc = "spread" /\ r < Modulus(rows, NSp)
    /\ Reads("source")
    /\ keys' = keys \cup sample_keys_spread(RowsOf(Seen("source")), NSp,
                                            Modulus(rows, NSp), r)
    /\ pc' = "fetch"
    /\ UNCHANGED <<rows, srcRows, status, flagged>>

\* "source table empty -- nothing to compare"
NothingSampled ==
    /\ pc = "fetch" /\ keys = {}
    /\ status' = "ok" /\ pc' = "done"
    /\ UNCHANGED <<view, rows, keys, srcRows, flagged>>

\* fetch_rows: the given keys only; keys without a row are left out
PadsMissing(s) == [k \in Keys |-> IF k \in keys /\ Seen(s)[k] # Absent
                                  THEN Seen(s)[k] ELSE NONE]
FetchRows(s) == [k \in Keys |-> IF k \in keys THEN Seen(s)[k] ELSE Absent]

FetchSource ==
    /\ pc = "fetch" /\ keys # {}
    /\ Reads("source")
    /\ srcRows' = FetchRows("source")
    /\ pc' = "compare"
    /\ UNCHANGED <<rows, keys, status, flagged>>

\* `missing` and `differing`: a key gone from the source is neither.
MissingAtSource(tgtRows) == {k \in keys : srcRows[k] = Absent /\ tgtRows[k] # Absent}
Missing(tgtRows) == {k \in keys : srcRows[k] # Absent /\ tgtRows[k] = Absent}
Differing(tgtRows) ==
    {k \in keys : srcRows[k] # Absent /\ tgtRows[k] # Absent
                  /\ srcRows[k] # tgtRows[k]}

\* mismatch_pct <= max_mismatch_pct
Judged(bad) == WithinLimit(Cardinality(bad), Cardinality(keys), MaxMismatch)

\* target.fetch_rows, then the comparison, which is local
Compare ==
    /\ pc = "compare"
    /\ Reads("target")
    /\ LET tgtRows == FetchRows("target") IN
       flagged' = Missing(tgtRows) \cup Differing(tgtRows)
    /\ status' \in Judged(flagged')
    /\ pc' = "done"
    /\ UNCHANGED <<rows, keys, srcRows>>

Check == \/ Start \/ (\E s \in Sides : EarlierCheck(s))
         \/ Count \/ Recent \/ (\E r \in 0 .. Cardinality(Keys) : Spread(r))
         \/ NothingSampled \/ FetchSource \/ Compare

Next ==
    \/ Check /\ UNCHANGED <<replVars, touched>>
    \/ Replicate /\ Noted /\ pc # "done" /\ UNCHANGED checkVars

Spec == Init /\ [][Next]_vars

-----------------------------------------------------------------------------
TypeOK ==
    /\ SessionsTypeOK
    /\ pc \in {"open", "count", "recent", "spread", "fetch", "compare", "done"}
    /\ rows \in 0 .. Cardinality(Keys) /\ srcRows \in Table
    /\ keys \subseteq Keys /\ flagged \subseteq Keys
    /\ status \in {"none", "ok", "fail"}

\* For a sampled row nobody touched while the pair was being checked the
\* verdict is exact: named if and only if the target lacks it or differs --
\* whatever happened to other rows, and with no snapshot across the engines.
ExactOnQuietRows ==
    pc = "done" =>
        \A k \in keys \ touched :
            k \in flagged <=> src[k] # Absent /\ src[k] # tgt[k]

\* The newest rows are guarded: drift in a quiet row that was certainly among
\* the newest Window when the sample was drawn makes the check FAIL.
DriftInWindowIsFail ==
    pc = "done" /\ MaxMismatch = 0 =>
        \A k \in RowsOf(src) \ touched :
            /\ src[k] # tgt[k]
            /\ Cardinality({j \in RowsOf(src) \cup touched : j > k}) < Window
            => status = "fail"

\* A source that answers every query from one snapshot returns every row it
\* sampled, so no sampled row silently drops out of the comparison.
SampledRowsFetched ==
    pc = "done" /\ view["source"] # NONE => keys \subseteq RowsOf(srcRows)

\* "source table empty -- nothing to compare" is only said of a table in which
\* no row stayed in place during the check.
EmptyMeansEmpty == pc = "done" /\ keys = {} => RowsOf(src) \subseteq touched

\* The two halves together stay within sample_size although they are drawn by
\* two queries from two states of the table.
SampleInBudget == Cardinality(keys) <= SampleSize
=============================================================================
