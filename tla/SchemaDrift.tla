---------------------------- MODULE SchemaDrift -----------------------------
(***************************************************************************)
(* One evaluation of SchemaDriftCheck.run while the two schemas change.    *)
(* Replication is read one level up: its "rows" are columns, the value of  *)
(* a column is its type, a write is an ALTER TABLE at the source, and the  *)
(* connector brings it to the target late, never, or with another type.    *)
(***************************************************************************)
EXTENDS Sessions, Types

CONSTANTS
    Ignored,   \* ignore_columns
    Spelling   \* Spelling[type][engine]: the base type name reported for it

SchemaDriftAssumption ==
    /\ Ignored \subseteq Keys
    /\ \A type \in Vals : Engines \subseteq DOMAIN Spelling[type]
    \* information_schema is read afresh by every query, in MySQL too
    /\ Pinned = {}

VARIABLES
    engine,      \* engine[side]: the adapter
    pc,          \* the next query
    src_schema,  \* the source's columns with their coarse types
    missing_in_target, extra_in_target, type_changed,
    status,      \* the verdict, "none" before it
    differed     \* history: columns the two sides ever showed differently

verdict == <<missing_in_target, extra_in_target, type_changed, status>>
checkVars == <<view, engine, pc, src_schema, verdict>>
vars == <<replVars, touched, differed, checkVars>>

\* What a side would report of a column that holds `type`.
Reported(s, type) == Coarse(engine[s], Spelling[type][engine[s]])

AsDeclared(s) ==  \* mutant of schema
    [c \in RowsOf(Current(s)) |-> Spelling[Current(s)[c]][engine[s]]]
\* {column: coarse type} of one side.
schema(s) == [c \in RowsOf(Current(s)) |-> Reported(s, Current(s)[c])]

\* The columns that only one side has or that the sides report differently.
Alike(c) ==
    /\ c \in RowsOf(src) <=> c \in RowsOf(tgt)
    /\ c \in RowsOf(src) => Reported("source", src[c]) = Reported("target", tgt[c])
Unlike == {c \in Keys : ~Alike(c)}

KeepsAll(columns) == columns  \* mutant of Considered
\* Without the columns to skip.
Considered(columns) == [c \in DOMAIN columns \ Ignored |-> columns[c]]

ExtraIsWarn(missing, extra, changed) ==  \* mutant of Verdict
    IF extra # {} THEN "warn" ELSE IF missing \cup changed # {} THEN "fail" ELSE "ok"
ChangedIsWarn(missing, extra, changed) ==  \* mutant of Verdict
    IF missing # {} THEN "fail" ELSE IF extra \cup changed # {} THEN "warn" ELSE "ok"
Verdict(missing, extra, changed) ==
    IF missing \cup changed # {} THEN "fail" ELSE IF extra # {} THEN "warn" ELSE "ok"

ReadSource ==
    /\ pc = "source"
    /\ src_schema' = Considered(schema("source")) /\ pc' = "target"
    /\ UNCHANGED <<view, engine, verdict>>

Retyped(src_cols, tgt_cols) ==
    {c \in DOMAIN src_cols \cap DOMAIN tgt_cols : src_cols[c] # tgt_cols[c]}

ReadTarget ==
    /\ pc = "target"
    /\ LET tgt_schema == Considered(schema("target")) IN
       /\ missing_in_target' = DOMAIN src_schema \ DOMAIN tgt_schema
       /\ extra_in_target' = DOMAIN tgt_schema \ DOMAIN src_schema
       /\ type_changed' = Retyped(src_schema, tgt_schema)
    /\ status' = Verdict(missing_in_target', extra_in_target', type_changed')
    /\ pc' = "done"
    /\ UNCHANGED <<view, engine, src_schema>>

Check == ReadSource \/ ReadTarget

Init ==
    /\ SessionsInit /\ engine \in [Sides -> Engines]
    /\ pc = "source" /\ src_schema = [c \in {} |-> "other"] /\ status = "none"
    /\ missing_in_target = {} /\ extra_in_target = {} /\ type_changed = {}
    /\ differed = Unlike

Next == \/ Check /\ UNCHANGED <<replVars, touched, differed>>
        \/ /\ Replicate /\ Noted /\ pc # "done" /\ UNCHANGED checkVars
           /\ differed' = differed \cup Unlike'

Spec == Init /\ [][Next]_vars

-----------------------------------------------------------------------------
TypeOK ==
    /\ SessionsTypeOK /\ engine \in [Sides -> Engines]
    /\ pc \in {"source", "target", "done"}
    /\ DOMAIN src_schema \subseteq Keys \ Ignored
    /\ \A c \in DOMAIN src_schema : src_schema[c] \in COARSE_TYPES
    /\ missing_in_target \cup extra_in_target \cup type_changed \subseteq Keys
    /\ differed \subseteq Keys
    /\ status \in {"none", "ok", "warn", "fail"}

\* "Missing-in-target columns are the early warning ... That's a FAIL, not a
\* WARN" -- also beside columns of the connector's own, which alone are WARN,
\* and whatever ALTER TABLE runs on other columns between the two queries.
LateColumnIsFail ==
    pc = "done" =>
        \A c \in RowsOf(src) \ (touched \cup Ignored \cup RowsOf(tgt)) :
            status = "fail" /\ c \in missing_in_target

\* What a real migration looks like: the two sides hold types that no engine
\* spells alike in the shared vocabulary.
Migrated(a, b) == \A d, e \in Engines :
                     Coarse(d, Spelling[a][d]) # Coarse(e, Spelling[b][e])

\* "a genuine INT -> STRING migration still trips the wire", in all nine
\* directions and beside any other change.
MigrationIsFail ==
    pc = "done" =>
        \A c \in (RowsOf(src) \cap RowsOf(tgt)) \ (touched \cup Ignored) :
            Migrated(src[c], tgt[c]) => status = "fail" /\ c \in type_changed

\* An alarm has a cause, also about a column that is altered, added or dropped
\* between the two queries: of every column it names, the two sides showed
\* something different at some moment of the check.
DriftAlarmHasACause ==
    pc = "done" => missing_in_target \cup extra_in_target \cup type_changed \subseteq differed

\* base.py: "catches real drift without dialect noise" -- read as: a column that
\* quietly has the same type on both sides is not reported.
NoDialectNoise ==
    pc = "done" =>
        \A c \in Keys \ touched :
            src[c] = tgt[c] =>
                c \notin missing_in_target \cup extra_in_target \cup type_changed
=============================================================================
