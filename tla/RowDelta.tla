------------------------------ MODULE RowDelta ------------------------------
(***************************************************************************)
(* One evaluation of RowDeltaCheck.run while rows come and go.             *)
(***************************************************************************)
EXTENDS Sessions, Percent

CONSTANTS
    Tolerance,  \* tolerance_pct
    Matching    \* the row contents that satisfy `where` (Vals without one)

RowDeltaAssumption == Tolerance \in Nat /\ Matching \subseteq Vals

VARIABLES
    pc,      \* the next query
    src_n,   \* row_count(source)
    status,  \* the verdict, "none" before it
    churn    \* history: rows that entered or left the window on either side

checkVars == <<view, pc, src_n, status>>
vars == <<replVars, touched, checkVars, churn>>

Counted(tab) == {k \in Keys : tab[k] \in Matching}

row_count(s) == Cardinality(Counted(Seen(s)))

Dropped(src_rows, tgt_rows) == tgt_rows - src_rows  \* mutant of Delta
Delta(src_rows, tgt_rows) ==
    IF tgt_rows >= src_rows THEN tgt_rows - src_rows ELSE src_rows - tgt_rows

Base(n) == IF n > 1 THEN n ELSE 1

EarlierCheck(s) ==
    /\ pc = "source"
    /\ Reads(s)
    /\ UNCHANGED <<pc, src_n, status>>

CountSource ==
    /\ pc = "source"
    /\ Reads("source")
    /\ src_n' = row_count("source") /\ pc' = "target"
    /\ UNCHANGED status

SaysFailOnly ==  \* mutant of CountTarget
    /\ pc = "target"
    /\ Reads("target")
    /\ \E verdict \in WithinLimit(Delta(src_n, row_count("target")), Base(src_n), Tolerance) :
          status' = IF verdict = "ok" THEN status ELSE verdict
    /\ pc' = "done"
    /\ UNCHANGED src_n
CountTarget ==
    /\ pc = "target"
    /\ Reads("target")
    /\ status' \in WithinLimit(Delta(src_n, row_count("target")), Base(src_n), Tolerance)
    /\ pc' = "done"
    /\ UNCHANGED src_n

Check == CountSource \/ CountTarget \/ \E s \in Sides : EarlierCheck(s)

Moved == {k \in Keys : (k \in Counted(src)) # (k \in Counted(src)')
                       \/ (k \in Counted(tgt)) # (k \in Counted(tgt)')}

World == Replicate /\ Noted /\ churn' = churn \cup Moved

Init ==
    /\ SessionsInit
    /\ pc = "source" /\ src_n = 0 /\ status = "none" /\ churn = {}

Next == \/ Check /\ UNCHANGED <<replVars, touched, churn>>
        \/ World /\ pc # "done" /\ UNCHANGED checkVars

Spec == Init /\ [][Next]_vars

-----------------------------------------------------------------------------
TypeOK ==
    /\ SessionsTypeOK /\ pc \in {"source", "target", "done"}
    /\ src_n \in 0 .. Cardinality(Keys) /\ status \in {"none", "ok", "fail"}
    /\ pc = "done" <=> status # "none"
    /\ churn \subseteq Keys

\* The drift among the rows that stayed where they were during the check.
Drift == LET d == Cardinality(Counted(tgt) \ churn) - Cardinality(Counted(src) \ churn)
         IN  IF d < 0 THEN -d ELSE d

\* The two counts belong to no common moment, yet the verdict is off by no
\* more than the rows that entered or left the window meanwhile: it passes no
\* drift and blames no agreement beyond that.  What happens to rows outside
\* the `where` window does not matter at all.
RowDeltaIsHonest ==
    LET slack == Cardinality(churn) IN
    /\ status = "ok" => 100 * (Drift - slack) <= Tolerance * Base(src_n)
    /\ status = "fail" => /\ Drift + slack > 0
                          /\ 100 * (Drift + slack) >= Tolerance * Base(src_n)
=============================================================================
