------------------------------ MODULE Coverage ------------------------------
(***************************************************************************)
(* Many runs of sampled_checksum over one source table: which rows are     *)
(* looked at in the long run.  The table changes between runs; a run draws *)
(* its remainder with random.randrange, independently of every earlier run *)
(* (nothing is kept between two runs of the command).                      *)
(***************************************************************************)
EXTENDS Sampling

CONSTANTS
    Keys,        \* the keys rows may have
    SampleSize,  \* sample_size
    Strategy,    \* "spread" or "mixed"
    MaxChanges   \* bound: inserts and deletes in a behaviour

ASSUME CoverageAssumption ==
    /\ Keys \subseteq Int /\ IsFiniteSet(Keys)
    /\ SampleSize \in Nat \ {0}
    /\ Strategy \in {"spread", "mixed"}
    /\ MaxChanges \in Nat

VARIABLES
    keys,    \* the table
    sample,  \* what the last run looked at
    changes  \* inserts and deletes so far, up to MaxChanges

vars == <<keys, sample, changes>>

Init ==
    /\ keys \in SUBSET Keys
    /\ sample = {}
    /\ changes = 0

RunModulus == Modulus(Cardinality(keys), NSpread(SampleSize, Strategy))

\* One run whose randrange(modulus) gives r.
Run(r) ==
    /\ r < RunModulus
    /\ sample' = draw_sample(keys, SampleSize, Strategy, Cardinality(keys), r)
    /\ UNCHANGED <<keys, changes>>

Insert(k) ==
    /\ changes < MaxChanges /\ k \notin keys
    /\ keys' = keys \cup {k} /\ changes' = changes + 1
    /\ UNCHANGED sample

Delete(k) ==
    /\ changes < MaxChanges /\ k \in keys
    /\ keys' = keys \ {k} /\ changes' = changes + 1
    /\ UNCHANGED sample

Remainders == 0 .. Cardinality(Keys)

Next == \/ \E r \in Remainders : Run(r)
        \/ \E k \in Keys : Insert(k) \/ Delete(k)

Spec == Init /\ [][Next]_vars

\* Uniform, independent draws hit every remainder again and again (with
\* probability one) for as long as the modulus stays the same.
FairSpec == Spec /\ \A r \in Remainders : SF_vars(Run(r))

-----------------------------------------------------------------------------
TypeOK ==
    /\ keys \subseteq Keys /\ sample \subseteq Keys
    /\ changes \in 0 .. MaxChanges

\* Keys without gaps, none negative, and a row count the spread divides.
Even == /\ \A a, b \in keys : a .. b \subseteq keys
        /\ \A k \in keys : k >= 0
        /\ Cardinality(keys) % NSpread(SampleSize, Strategy) = 0

\* Once a table like that stops changing, every row of it is looked at again
\* and again: one remainder class is then exactly one sample's worth.
WalksEvenTables ==
    \A k \in Keys : <>[](k \in keys /\ Even) => []<>(k \in sample)

\* sampled_checksum.py: "repeated runs walk the entire table" -- for any table.
WalksWholeTable ==
    \A k \in Keys : <>[](k \in keys) => []<>(k \in sample)
=============================================================================
