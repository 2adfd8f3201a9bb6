------------------------------ MODULE NullRate ------------------------------
(***************************************************************************)
(* One evaluation of NullRateCheck.run, column by column, while rows       *)
(* change.  A row is the set of its columns that are NULL.  The connector  *)
(* that picks up a column late -- what this check is for -- delivers a row *)
(* with more NULLs than were sent: a case of Replication!Garble.           *)
(***************************************************************************)
EXTENDS Sessions, Percent

CONSTANTS
    Columns,  \* the columns that exist on both sides
    MaxDiff   \* max_diff_pp

NullRateAssumption ==
    /\ Vals = SUBSET Columns /\ MaxDiff \in Nat
    /\ NONE \notin Columns /\ \A C \in SUBSET Columns : C # NONE

VARIABLES
    columns,    \* the columns to compare, NONE before the check starts
    todo,       \* those not yet compared
    reading,    \* the one read at the source and not yet at the target
    share,      \* its NULL fraction at the source
    offenders,  \* the ones that differ too much
    status,     \* the verdict, "none" before it
    hadNull     \* history: columns NULL in some source row at some time

checkVars == <<view, columns, todo, reading, share, offenders, status>>
vars == <<replVars, touched, checkVars, hadNull>>

\* 0.0 for an empty table
null_fraction(s, c) ==
    LET tab == Seen(s)
    IN  [nulls |-> Cardinality({k \in RowsOf(tab) : c \in tab[k]}),
         total |-> Cardinality(RowsOf(tab))]

Base(a) == IF a.total > 1 THEN a.total ELSE 1

\* (target - source) percentage points, as a fraction over Base * Base
Excess(a, b) == b.nulls * Base(a) - a.nulls * Base(b)
Deficit(a, b) == a.nulls * Base(b) - b.nulls * Base(a)  \* mutant of Gap
Gap(a, b) == IF Excess(a, b) >= 0 THEN Excess(a, b) ELSE -Excess(a, b)

\* Whether the column counts as an offender.
Judged(a, b) == WithinLimit(Gap(a, b), Base(a) * Base(b), MaxDiff)

EarlierCheck(s) ==
    /\ columns = NONE
    /\ Reads(s)
    /\ UNCHANGED <<columns, todo, reading, share, offenders, status>>

\* The listed columns or, with "auto", those both schemas have.
Start(C) ==
    /\ columns = NONE
    /\ columns' = C /\ todo' = C
    /\ UNCHANGED <<view, reading, share, offenders, status>>

ForgetsSource(c) ==  \* mutant of ReadSource: only the first column's is read
    /\ reading = NONE /\ c \in todo
    /\ Reads("source")
    /\ reading' = c
    /\ share' = IF todo = columns THEN null_fraction("source", c) ELSE share
    /\ UNCHANGED <<columns, todo, offenders, status>>
ReadSource(c) ==
    /\ reading = NONE /\ c \in todo
    /\ Reads("source")
    /\ reading' = c /\ share' = null_fraction("source", c)
    /\ UNCHANGED <<columns, todo, offenders, status>>

ReadTarget ==
    /\ reading # NONE
    /\ Reads("target")
    /\ \E verdict \in Judged(share, null_fraction("target", reading)) :
          offenders' = offenders \cup (IF verdict = "fail" THEN {reading} ELSE {})
    /\ todo' = todo \ {reading} /\ reading' = NONE
    /\ UNCHANGED <<columns, share, status>>

Early ==  \* mutant of Finish
    /\ columns # NONE /\ status = "none" /\ reading = NONE
    /\ status' = IF offenders = {} THEN "ok" ELSE "fail"
    /\ UNCHANGED <<view, columns, todo, reading, share, offenders>>
\* "skipped -- no shared columns" is ok as well.
Finish ==
    /\ columns # NONE /\ todo = {} /\ status = "none"
    /\ status' = IF offenders = {} THEN "ok" ELSE "fail"
    /\ UNCHANGED <<view, columns, todo, reading, share, offenders>>

Check == \/ \E s \in Sides : EarlierCheck(s)
         \/ \E C \in SUBSET Columns : Start(C)
         \/ (\E c \in Columns : ReadSource(c)) \/ ReadTarget \/ Finish

NullsIn(tab) == {c \in Columns : \E k \in RowsOf(tab) : c \in tab[k]}

World == Replicate /\ Noted /\ hadNull' = hadNull \cup NullsIn(src')

Init ==
    /\ SessionsInit /\ hadNull = NullsIn(src)
    /\ columns = NONE /\ todo = {} /\ reading = NONE
    /\ share = [nulls |-> 0, total |-> 0]
    /\ offenders = {} /\ status = "none"

Next == \/ Check /\ UNCHANGED <<replVars, touched, hadNull>>
        \/ World /\ status = "none" /\ UNCHANGED checkVars

Spec == Init /\ [][Next]_vars

-----------------------------------------------------------------------------
TypeOK ==
    /\ SessionsTypeOK /\ columns \in (SUBSET Columns) \cup {NONE}
    /\ todo \subseteq Columns /\ reading \in Columns \cup {NONE}
    /\ share.nulls \in 0 .. share.total /\ share.total \in 0 .. Cardinality(Keys)
    /\ offenders \subseteq Columns /\ status \in {"none", "ok", "fail"}
    /\ status # "none" => columns # NONE /\ todo = {}
    /\ hadNull \subseteq Columns

\* "NULLs the source never had": rows at the target whose column is NULL while
\* no source row ever was make the check FAIL once their share exceeds
\* max_diff_pp, although rows keep changing between the queries.
NullCorruptionIsNoticed ==
    status # "none" =>
        \A c \in columns \ hadNull :
            LET rotten == {k \in RowsOf(tgt) \ touched : c \in tgt[k]}
            IN  100 * Cardinality(rotten)
                    > MaxDiff * Cardinality(RowsOf(tgt) \cup touched)
                => status = "fail"

\* A FAIL names a column in which the sides do differ, or some row changed
\* while the check ran: the columns are not mixed up with each other.
NullAlarmHasACause ==
    \A c \in offenders : \E k \in Keys :
        \/ k \in touched
        \/ (k \in RowsOf(src)) # (k \in RowsOf(tgt))
        \/ k \in RowsOf(src) /\ (c \in src[k]) # (c \in tgt[k])
=============================================================================
