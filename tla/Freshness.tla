----------------------------- MODULE Freshness ------------------------------
(***************************************************************************)
(* One evaluation of FreshnessCheck.run while time passes and changes      *)
(* arrive.  A row is what its time stamp column holds, in minutes; stamps  *)
(* are never in the future, and the pipe does not garble them.             *)
(***************************************************************************)
EXTENDS Sessions, Types

CONSTANTS
    MaxTime,          \* bound: the clock stops here
    MaxLag, WarnLag,  \* max_lag_minutes, warn_lag_minutes
    Column,           \* the `column` option: a name, or "auto"
    Candidates,       \* column_candidates, in priority order
    Engine,           \* Engine[side]: the adapter
    Schemas           \* the schemas the two tables may have

FreshnessAssumption ==
    /\ MaxTime \in Nat /\ Vals = 0 .. MaxTime /\ NONE \notin Vals
    /\ MaxLag \in Nat /\ WarnLag \in Nat
    /\ Engine \in [Sides -> Engines]
    /\ Pinned = {s \in Sides : Engine[s] = "mysql"}

VARIABLES
    native,      \* native[side][column]: how the column is declared there
    now,         \* the clock
    pc,          \* the next query
    source_max,  \* max_timestamp(source), NONE for None
    status,      \* the verdict, "none" before it
    whole,       \* history: the tables agreed at first and no change was lost
    applied      \* history: when the pipe last delivered

checkVars == <<view, pc, source_max, status>>
history == <<whole, applied>>
vars == <<replVars, touched, native, now, checkVars, history>>

-----------------------------------------------------------------------------
(* The column, and the values its driver returns *)

IsStamp(c) == c \in DOMAIN native["source"]
              /\ Coarse(Engine["source"], native["source"][c]) \in {"timestamp", "date"}

\* auto: the first candidate that is a time stamp at the source
resolve_column ==
    LET usable == {i \in DOMAIN Candidates : IsStamp(Candidates[i])}
    IN  IF usable = {} THEN NONE
        ELSE Candidates[CHOOSE i \in usable : \A j \in usable : i <= j]

column == IF Column = "auto" THEN resolve_column ELSE Column

\* pymysql never returns tz-aware datetimes, psycopg does where the column has
\* a zone, and the BigQuery adapter strips it; a DATE is a date everywhere.
Kind(s) ==
    CASE Coarse(Engine[s], native[s][column]) = "date" -> "date"
      [] native[s][column] = "timestamp with time zone" -> "aware"
      [] OTHER -> "naive"

\* Python subtracts only values of one kind; otherwise it raises TypeError.
Comparable == Kind("source") = Kind("target")

-----------------------------------------------------------------------------
(* FreshnessCheck.run *)

Stamps(tab) == {tab[k] : k \in RowsOf(tab)}

Oldest(s) ==  \* mutant of max_timestamp
    LET stamps == Stamps(Seen(s))
    IN  IF stamps = {} THEN NONE
        ELSE CHOOSE t \in stamps : \A u \in stamps : u >= t
max_timestamp(s) ==
    LET stamps == Stamps(Seen(s))
    IN  IF stamps = {} THEN NONE
        ELSE CHOOSE t \in stamps : \A u \in stamps : u <= t

Ahead(newest, target_max) == target_max - newest  \* mutant of Lag
Lag(newest, target_max) == newest - target_max

Verdict(newest, target_max) ==
    IF newest = NONE THEN "ok"
    ELSE IF target_max = NONE THEN "fail"
    ELSE IF ~Comparable THEN "error"
    ELSE IF Lag(newest, target_max) > MaxLag THEN "fail"
    ELSE IF Lag(newest, target_max) > WarnLag THEN "warn" ELSE "ok"

SaysNothing ==  \* mutant of Skip
    /\ pc = "source" /\ column = NONE
    /\ pc' = "done"
    /\ UNCHANGED <<view, source_max, status>>
\* "skipped -- no timestamp column found for auto mode"
Skip ==
    /\ pc = "source" /\ column = NONE
    /\ status' = "ok" /\ pc' = "done"
    /\ UNCHANGED <<view, source_max>>

ReadSource ==
    /\ pc = "source" /\ column # NONE
    /\ Reads("source")
    /\ source_max' = max_timestamp("source") /\ pc' = "target"
    /\ UNCHANGED status

ReadTarget ==
    /\ pc = "target"
    /\ Reads("target")
    /\ status' = Verdict(source_max, max_timestamp("target")) /\ pc' = "done"
    /\ UNCHANGED source_max

\* An earlier check of the pair reads one of the tables.
EarlierCheck(s) ==
    /\ pc = "source"
    /\ Reads(s)
    /\ UNCHANGED <<pc, source_max, status>>

Check == Skip \/ ReadSource \/ ReadTarget \/ \E s \in Sides : EarlierCheck(s)

-----------------------------------------------------------------------------
(* The world, with a clock *)

Tick ==
    /\ now < MaxTime /\ now' = now + 1
    /\ UNCHANGED <<replVars, touched, whole, applied>>

Stamp(k, v) ==
    /\ v \in 0 .. now \cup {Absent} /\ Write(k, v)
    /\ Noted /\ UNCHANGED <<now, whole, applied>>

Arrive == Deliver /\ Noted /\ applied' = now /\ UNCHANGED <<now, whole>>

Drop == Lose /\ whole' = FALSE /\ UNCHANGED <<touched, now, applied>>

World == Tick \/ Arrive \/ Drop \/ \E k \in Keys, v \in Vals \cup {Absent} : Stamp(k, v)

\* The sessions open at some time; the pipe may have lost changes before.
Init ==
    /\ SessionsInit /\ native \in Schemas
    /\ now \in 0 .. MaxTime /\ Stamps(src) \subseteq 0 .. now
    /\ applied \in 0 .. now /\ Stamps(tgt) \subseteq 0 .. applied
    /\ pc = "source" /\ source_max = NONE /\ status = "none"
    /\ whole = (src = tgt)

Next == \/ Check /\ UNCHANGED <<replVars, touched, native, now, history>>
        \/ World /\ pc # "done" /\ UNCHANGED <<native, checkVars>>

Spec == Init /\ [][Next]_vars

-----------------------------------------------------------------------------
TypeOK ==
    /\ SessionsTypeOK /\ native \in Schemas /\ now \in 0 .. MaxTime
    /\ pc \in {"source", "target", "done"} /\ source_max \in Vals \cup {NONE}
    /\ status \in {"none", "ok", "warn", "fail", "error"}
    /\ pc = "done" <=> status # "none"
    /\ whole \in BOOLEAN /\ applied \in 0 .. now

\* A replica that lost nothing is blamed for a reason: changes are on their
\* way when the target is read, or the newest row the source had when it was
\* read has meanwhile been deleted or stamped back.
AlarmHasACause ==
    status \in {"warn", "fail"} /\ whole =>
        \/ pipe # <<>>
        \/ \A k \in RowsOf(src) : src[k] < source_max

\* "dead connector": a row written more than max_lag_minutes after the pipe
\* last delivered makes the check FAIL, whatever else is written meanwhile.
DeadConnectorIsNoticed ==
    pc = "done" /\ column # NONE /\ Comparable =>
        \A k \in RowsOf(src) \ touched :
            src[k] > applied + MaxLag => status = "fail"
=============================================================================
